-------------------------- MODULE SyncLedgerProofs --------------------------
(***************************************************************************)
(* What the transitions of SyncLedger keep, whatever the ledger they start *)
(* from: that the result is a ledger, that a tombstone stays one and that  *)
(* the result parses.  One lemma per operator, cited by the theorems about *)
(* the machine.                                                            *)
(***************************************************************************)
EXTENDS SyncLedger, TLAPS

\* The state of a record is one a signed origin state may have.
LEMMA FingerprintType ==
  ASSUME NEW rec \in Record PROVE Fingerprint(rec) \in OriginState
BY DEF Record, Fingerprint, OriginState

\* A fresh ledger is a ledger.
LEMMA NewLedgerType ==
  ASSUME NEW i \in Inbox PROVE NewLedger(i) \in LedgerType
<1>1. Absent \in Record
  BY DEF Absent, NoContribution, Record, Contribution, States
<1>2. NoEntry \in Entry
  BY DEF NoEntry, NoState, Entry, OriginState, Dispositions, Outcomes, States
<1>3. NoCheckpoint \in Checkpoint
  BY DEF NoCheckpoint, NoCut, NoState, Checkpoint, Cut, OriginState, States
<1>4. QED
  BY <1>1, <1>2, <1>3 DEF NewLedger, LedgerType, RouteStates

-----------------------------------------------------------------------------
\* An outbox entry is queued as an entry.
LEMMA QueueEntryType ==
  ASSUME NEW L \in LedgerType, NEW r \in Route, NEW d \in Doc, NEW force \in BOOLEAN
  PROVE  QueueEntry(L, r, d, force) \in Entry
<1>1. L.outbox[r][d] \in Entry /\ L.rec[d] \in Record /\ L.route[r].revision \in Nat
  BY DEF LedgerType
<1>2. CurrentEntry(L, r, d) \in Entry
  BY <1>1 DEF CurrentEntry, NoEntry, NoState, Entry, OriginState, Dispositions, Outcomes, States
<1>3. ASSUME NEW e \in Entry PROVE NewEntry(L, r, d, e) \in Entry
  <2>1. Fingerprint(L.rec[d]) \in OriginState
    BY <1>1, FingerprintType
  <2>2. (~CanForward(L, r, d, FALSE)) \in BOOLEAN
    OBVIOUS
  <2>3. QED
    BY <1>1, <1>3, <2>1, <2>2 DEF NewEntry, Entry, Dispositions, Outcomes
<1>4. ASSUME NEW e \in Entry PROVE KeptEntry(L, r, d, e, force) \in Entry
  BY <1>4 DEF KeptEntry, Entry, Dispositions
<1>5. ASSUME NEW e \in Entry PROVE [e EXCEPT !.disposition = "retired"] \in Entry
  BY <1>5 DEF Entry, Dispositions
<1>6. QED
  BY <1>1, <1>2, <1>3, <1>4, <1>5 DEF QueueEntry

\* Queueing changes only the outbox.
LEMMA QueueType ==
  ASSUME NEW L \in LedgerType, NEW R \in SUBSET Route, NEW D \in SUBSET Doc,
         NEW force \in BOOLEAN
  PROVE  Queue(L, R, D, force) \in LedgerType
<1>1. \A r \in Route, d \in Doc : QueueEntry(L, r, d, force) \in Entry
  BY QueueEntryType
<1>2. \A r \in Route, d \in Doc : L.outbox[r][d] \in Entry
  BY DEF LedgerType
<1>3. [r \in Route |-> [d \in Doc |->
        IF r \in R /\ d \in D /\ Configured(L, r) /\ Present(L, d)
        THEN QueueEntry(L, r, d, force) ELSE L.outbox[r][d]]]
      \in [Route -> [Doc -> Entry]]
  BY <1>1, <1>2
<1>4. QED
  BY <1>3 DEF Queue, LedgerType

-----------------------------------------------------------------------------
(* Fences. *)

\* Detaching keeps the shape of memberships and obligations.
LEMMA DetachType ==
  ASSUME NEW L \in LedgerType, NEW R \in SUBSET Route PROVE Detach(L, R) \in LedgerType
<1>1. ASSUME NEW d \in Doc
      PROVE [L.rec[d] EXCEPT !.from =
               [r \in Route |-> IF r \in R /\ L.rec[d].from[r].state # "none"
                                THEN [L.rec[d].from[r] EXCEPT !.state = "detached"]
                                ELSE L.rec[d].from[r]]] \in Record
  <2>1. L.rec[d] \in Record
    BY DEF LedgerType
  <2>2. QED
    BY <2>1 DEF Record, Contribution
<1>2. ASSUME NEW r \in Route, NEW d \in Doc
      PROVE (IF r \in R /\ L.outbox[r][d].disposition # "none"
             THEN [L.outbox[r][d] EXCEPT !.disposition = "retired"]
             ELSE L.outbox[r][d]) \in Entry
  <2>1. L.outbox[r][d] \in Entry
    BY DEF LedgerType
  <2>2. QED
    BY <2>1 DEF Entry, Dispositions
<1>3. QED
  BY <1>1, <1>2 DEF Detach, LedgerType

\* A fence moves routes to a state of routes.
LEMMA FenceType ==
  ASSUME NEW L \in LedgerType, NEW R \in SUBSET Route, NEW state \in RouteStates
  PROVE  Fence(L, R, state) \in LedgerType
<1>1. Detach(L, R) \in LedgerType
  BY DetachType
<1>2. ASSUME NEW r \in Route
      PROVE (IF r \in R /\ Configured(L, r)
             THEN [revision |-> L.route[r].revision + 1, state |-> state]
             ELSE L.route[r]) \in [revision : Nat, state : RouteStates]
  BY DEF LedgerType
<1>3. QED
  BY <1>1, <1>2 DEF Fence, LedgerType

\* So is a quarantined ledger a ledger.
LEMMA QuarantineType ==
  ASSUME NEW L \in LedgerType PROVE Quarantine(L) \in LedgerType
<1>1. Fence(L, Route, "blocked") \in LedgerType
  BY FenceType DEF RouteStates
<1>2. QED
  BY <1>1 DEF Quarantine, LedgerType

-----------------------------------------------------------------------------
(* Applying. *)

\* An accepted state makes a record.
LEMMA AcceptedType ==
  ASSUME NEW L \in LedgerType, NEW r \in Route, NEW d \in Doc, NEW s \in OriginState,
         NEW staged \in BOOLEAN
  PROVE  Accepted(L, r, d, s, staged) \in Record
<1>1. L.rec[d] \in Record /\ L.route[r].revision \in Nat
  BY DEF LedgerType
<1>2. QED
  BY <1>1 DEF Accepted, Record, Contribution, OriginState

LEMMA AppliedRecordType ==
  ASSUME NEW L \in LedgerType, NEW r \in Route, NEW d \in Doc, NEW s \in OriginState,
         NEW staged \in BOOLEAN
  PROVE  AppliedRecord(L, r, d, s, staged) \in Record
<1>1. L.rec[d] \in Record
  BY DEF LedgerType
<1>2. Accepted(L, r, d, s, staged) \in Record
  BY AcceptedType
<1>3. [L.rec[d] EXCEPT !.version = s.version, !.state = s.state] \in Record
  BY <1>1 DEF Record, OriginState
<1>4. QED
  BY <1>1, <1>2, <1>3 DEF AppliedRecord

\* A receipt is about the fingerprint of a record.
LEMMA ReceiptForType ==
  ASSUME NEW L \in LedgerType, NEW r \in Route, NEW d \in Doc, NEW rec \in Record,
         NEW disposition \in Outcomes
  PROVE  ReceiptFor(L, r, d, rec, disposition) \in Receipt
<1>1. Fingerprint(rec) \in OriginState
  BY FingerprintType
<1>2. L.route[r].revision \in Nat /\ L.incarnation \in Nat
  BY DEF LedgerType
<1>3. QED
  BY <1>1, <1>2 DEF ReceiptFor, Receipt

LEMMA ReceiptOfType ==
  ASSUME NEW L \in LedgerType, NEW r \in Route, NEW d \in Doc, NEW s \in OriginState,
         NEW staged \in BOOLEAN
  PROVE  ReceiptOf(L, r, d, s, staged) \in Receipt
<1>1. L.rec[d] \in Record /\ Accepted(L, r, d, s, staged) \in Record
  BY AcceptedType DEF LedgerType
<1>2. \A rec \in Record : Outcome(rec) \in Outcomes
  BY DEF Outcome, Outcomes
<1>3. QED
  BY <1>1, <1>2, ReceiptForType DEF ReceiptOf, Outcomes

LEMMA NewReceiptsType ==
  ASSUME NEW R \in SUBSET Receipt, NEW x \in Receipt PROVE NewReceipts(R, x) \subseteq Receipt
<1>1. ASSUME NEW b \in BOOLEAN PROVE [x EXCEPT !.first = b] \in Receipt
  BY DEF Receipt
<1>2. (~ \E y \in R : SameState(x, y)) \in BOOLEAN
  OBVIOUS
<1>3. QED
  BY <1>1, <1>2 DEF NewReceipts

LEMMA AppliedType ==
  ASSUME NEW L \in LedgerType, NEW r \in Route, NEW S \in Cut, NEW staged \in BOOLEAN
  PROVE  Applied(L, r, S, staged) \in LedgerType
<1>1. [d \in Doc |-> AppliedRecord(L, r, d, S[d], staged)] \in [Doc -> Record]
  BY AppliedRecordType DEF Cut
<1>2. \A d \in Doc : ReceiptOf(L, r, d, S[d], staged) \in Receipt
  BY ReceiptOfType DEF Cut
<1>3. L.receipts \in SUBSET Receipt
  BY DEF LedgerType
<1>4. \A d \in Doc : NewReceipts(L.receipts, ReceiptOf(L, r, d, S[d], staged)) \subseteq Receipt
  BY <1>2, <1>3, NewReceiptsType
<1>5. UNION {NewReceipts(L.receipts, ReceiptOf(L, r, d, S[d], staged)) :
        d \in {x \in Doc : Verdict(L, r, x, S[x], staged) \in {"superseded", "accept"}}}
      \subseteq Receipt
  BY <1>4
<1>6. QED
  BY <1>1, <1>3, <1>5 DEF Applied, LedgerType

LEMMA OneStateType ==
  ASSUME NEW d \in Doc, NEW s \in OriginState PROVE OneState(d, s) \in Cut
BY DEF OneState, NoCut, NoState, Cut, OriginState, States

\* Applying one state gives a ledger.
LEMMA ApplyType ==
  ASSUME NEW L \in LedgerType, NEW r \in Route, NEW d \in Doc, NEW s \in OriginState,
         NEW staged \in BOOLEAN
  PROVE  Apply(L, r, d, s, staged) \in LedgerType
<1> DEFINE A == Applied(L, r, OneState(d, s), staged)
<1>1. A \in LedgerType
  BY OneStateType, AppliedType
<1>2. Quarantine(A) \in LedgerType /\ Queue(A, Route, {d}, FALSE) \in LedgerType
  BY <1>1, QuarantineType, QueueType
<1>3. QED
  BY <1>1, <1>2 DEF Apply

-----------------------------------------------------------------------------
(* Setting one record, route or obligation. *)

LEMMA WithRecord ==
  ASSUME NEW L \in LedgerType, NEW d \in Doc, NEW rec \in Record, NEW n \in Nat
  PROVE  /\ [L EXCEPT !.rec[d] = rec] \in LedgerType
         /\ [L EXCEPT !.rec[d] = rec, !.next = n] \in LedgerType
<1>1. [L.rec EXCEPT ![d] = rec] \in [Doc -> Record]
  BY DEF LedgerType
<1>2. [L EXCEPT !.rec = [L.rec EXCEPT ![d] = rec]] \in LedgerType
  BY <1>1 DEF LedgerType
<1>3. [L EXCEPT !.rec = [L.rec EXCEPT ![d] = rec], !.next = n] \in LedgerType
  BY <1>1 DEF LedgerType
<1>4. QED
  BY <1>2, <1>3

LEMMA WithRoute ==
  ASSUME NEW L \in LedgerType, NEW r \in Route, NEW v \in [revision : Nat, state : RouteStates]
  PROVE  [L EXCEPT !.route[r] = v] \in LedgerType
<1>1. [L.route EXCEPT ![r] = v] \in [Route -> [revision : Nat, state : RouteStates]]
  BY DEF LedgerType
<1>2. [L EXCEPT !.route = [L.route EXCEPT ![r] = v]] \in LedgerType
  BY <1>1 DEF LedgerType
<1>3. QED
  BY <1>2

LEMMA WithEntry ==
  ASSUME NEW L \in LedgerType, NEW r \in Route, NEW d \in Doc, NEW e \in Entry
  PROVE  [L EXCEPT !.outbox[r][d] = e] \in LedgerType
<1>1. [L.outbox[r] EXCEPT ![d] = e] \in [Doc -> Entry]
  BY DEF LedgerType
<1>2. [L.outbox EXCEPT ![r] = [L.outbox[r] EXCEPT ![d] = e]] \in [Route -> [Doc -> Entry]]
  BY <1>1 DEF LedgerType
<1>3. [L EXCEPT !.outbox = [L.outbox EXCEPT ![r] = [L.outbox[r] EXCEPT ![d] = e]]] \in LedgerType
  BY <1>2 DEF LedgerType
<1>4. QED
  BY <1>3

-----------------------------------------------------------------------------
(* The operations of the store. *)

LEMMA PublishType ==
  ASSUME NEW L \in LedgerType, NEW d \in Doc PROVE Publish(L, d) \in LedgerType
<1>1. [Absent EXCEPT !.version = L.next, !.state = "live", !.body = TRUE] \in Record
  BY DEF Absent, NoContribution, Record, Contribution, States, LedgerType
<1>2. [L EXCEPT !.rec[d] = [Absent EXCEPT !.version = L.next, !.state = "live", !.body = TRUE],
                !.next = L.next + 1] \in LedgerType
  <2>1. L.next + 1 \in Nat
    BY DEF LedgerType
  <2>2. QED
    BY <1>1, <2>1, WithRecord
<1>3. QED
  BY <1>2, QueueType DEF Publish

\* A record hidden or shown again is a record.
LEMMA HideType ==
  ASSUME NEW L \in LedgerType, NEW d \in Doc, NEW b \in BOOLEAN
  PROVE  [L EXCEPT !.rec[d].suppressed = b] \in LedgerType
<1>1. L.rec[d] \in Record
  BY DEF LedgerType
<1>2. [L.rec[d] EXCEPT !.suppressed = b] \in Record
  BY <1>1 DEF Record
<1>3. QED
  BY <1>2, WithRecord

LEMMA DeleteType ==
  ASSUME NEW L \in LedgerType, NEW d \in Doc PROVE Delete(L, d) \in LedgerType
<1>1. L.rec[d] \in Record /\ L.next \in Nat
  BY DEF LedgerType
<1>2. [L.rec[d] EXCEPT !.version = L.next, !.state = "deleted"] \in Record
  BY <1>1 DEF Record, States
<1>3. [L EXCEPT !.rec[d] = [@ EXCEPT !.version = L.next, !.state = "deleted"],
                !.next = L.next + 1] \in LedgerType
  <2>1. L.next + 1 \in Nat
    BY <1>1
  <2>2. QED
    BY <1>2, <2>1, WithRecord
<1>4. QED
  BY <1>3, QueueType, HideType DEF Delete

LEMMA SuppressType ==
  ASSUME NEW L \in LedgerType, NEW d \in Doc, NEW b \in BOOLEAN
  PROVE  Suppress(L, d, b) \in LedgerType
BY HideType, QueueType DEF Suppress

LEMMA ConfigureType ==
  ASSUME NEW L \in LedgerType, NEW r \in Route, NEW state \in RouteStates
  PROVE  Configure(L, r, state) \in LedgerType
<1>1. Detach(L, {r}) \in LedgerType
  BY DetachType
<1>2. [Detach(L, {r}) EXCEPT
         !.route[r] = [revision |-> L.route[r].revision + 1, state |-> state]] \in LedgerType
  <2>1. L.route[r].revision + 1 \in Nat
    BY DEF LedgerType
  <2>2. QED
    BY <1>1, <2>1, WithRoute
<1>3. QED
  BY <1>2, QueueType DEF Configure, QueueAll

LEMMA RevokeType ==
  ASSUME NEW L \in LedgerType, NEW r \in Route PROVE Revoke(L, r) \in LedgerType
<1>1. Fence(L, {r}, "detached") \in LedgerType
  BY FenceType DEF RouteStates
<1>2. QED
  BY <1>1, QueueType DEF Revoke, QueueAll

\* Inventories and their parts are cuts.
LEMMA InventoryCutType ==
  ASSUME NEW L \in LedgerType, NEW r \in Route PROVE InventoryCut(L, r) \in Cut
<1>1. \A d \in Doc : Fingerprint(L.rec[d]) \in OriginState
  BY FingerprintType DEF LedgerType
<1>2. NoState \in OriginState
  BY DEF NoState, OriginState, States
<1>3. QED
  BY <1>1, <1>2 DEF InventoryCut, Cut

LEMMA PartTypes ==
  ASSUME NEW L, NEW cut \in Cut
  PROVE  DeadPart(cut) \in Cut /\ HeldPart(L, cut) \in Cut
BY DEF DeadPart, HeldPart, Cut, NoState, OriginState, States

LEMMA ActivatedType ==
  ASSUME NEW L \in LedgerType, NEW r \in Route, NEW cut \in Cut
  PROVE  Activated(L, r, cut) \in LedgerType
<1> DEFINE A == Applied(L, r, DeadPart(cut), FALSE)
           N == [A EXCEPT !.route[r].state = "active"]
<1>1. A \in LedgerType
  BY PartTypes, AppliedType
<1>2. [revision |-> L.route[r].revision, cut |-> cut] \in Checkpoint
  BY DEF Checkpoint, LedgerType
<1> HIDE DEF A
<1>3. N \in LedgerType
  <2>1. A.route[r] \in [revision : Nat, state : RouteStates]
    BY <1>1 DEF LedgerType
  <2>2. [A.route[r] EXCEPT !.state = "active"] \in [revision : Nat, state : RouteStates]
    BY <2>1 DEF RouteStates
  <2>3. QED
    BY <1>1, <2>2, WithRoute
<1> HIDE DEF N
<1>4. [N EXCEPT !.history[r] = [revision |-> L.route[r].revision, cut |-> cut]] \in LedgerType
  <2>1. [N.history EXCEPT ![r] = [revision |-> L.route[r].revision, cut |-> cut]]
          \in [Route -> Checkpoint]
    BY <1>2, <1>3 DEF LedgerType
  <2>2. QED
    BY <1>3, <2>1 DEF LedgerType
<1>5. QED
  BY <1>4 DEF Activated, A, N

LEMMA CompleteInventoryType ==
  ASSUME NEW L \in LedgerType, NEW r \in Route, NEW cut \in Cut
  PROVE  CompleteInventory(L, r, cut) \in LedgerType
<1> DEFINE A == Activated(L, r, cut)
           B == Applied(A, r, HeldPart(A, cut), FALSE)
<1>1. A \in LedgerType
  BY ActivatedType
<1>2. B \in LedgerType
  BY <1>1, PartTypes, AppliedType
<1>3. Applied(L, r, DeadPart(cut), FALSE) \in LedgerType
  BY PartTypes, AppliedType
<1>4. QueueAll(B) \in LedgerType
  BY <1>2, QueueType DEF QueueAll
<1>5. Quarantine(B) \in LedgerType /\ Quarantine(Applied(L, r, DeadPart(cut), FALSE)) \in LedgerType
  BY <1>2, <1>3, QuarantineType
<1>6. QED
  BY <1>4, <1>5 DEF CompleteInventory

LEMMA CompleteReconciliationType ==
  ASSUME NEW L \in LedgerType, NEW r \in Route, NEW cut \in Cut
  PROVE  CompleteReconciliation(L, r, cut) \in LedgerType
BY DEF CompleteReconciliation, LedgerType, Checkpoint

LEMMA ActivateOutboundType ==
  ASSUME NEW L \in LedgerType, NEW r \in Route PROVE ActivateOutbound(L, r) \in LedgerType
<1>1. [L EXCEPT !.route[r].state = "active"] \in LedgerType
  <2>1. [L.route[r] EXCEPT !.state = "active"] \in [revision : Nat, state : RouteStates]
    BY DEF LedgerType, RouteStates
  <2>2. QED
    BY <2>1, WithRoute
<1>2. QED
  BY <1>1, QueueType DEF ActivateOutbound

LEMMA ObserveOutboundType ==
  ASSUME NEW L \in LedgerType, NEW d \in Doc, NEW s \in OriginState
  PROVE  ObserveOutbound(L, d, s) \in LedgerType
<1> DEFINE A == [L EXCEPT !.rec[d] = [@ EXCEPT !.version = s.version, !.state = s.state]]
<1>1. L.rec[d] \in Record
  BY DEF LedgerType
<1>2. [L.rec[d] EXCEPT !.version = s.version, !.state = s.state] \in Record
  BY <1>1 DEF Record, OriginState
<1>3. A \in LedgerType
  BY <1>2, WithRecord
<1>4. QED
  BY <1>3, QueueType, QuarantineType DEF ObserveOutbound

LEMMA ReconcileHoldingsType ==
  ASSUME NEW L \in LedgerType, NEW r \in Route, NEW D \in SUBSET Doc,
         NEW holding \in [Doc -> Holding], NEW incarnation \in Nat
  PROVE  ReconcileHoldings(L, r, D, holding, incarnation) \in LedgerType
<1> DEFINE missing == {d \in D : Reopens(L, r, d, holding[d], incarnation)}
           Q == Queue(L, {r}, missing, TRUE)
<1>1. Q \in LedgerType
  BY QueueType
<1>2. ASSUME NEW d \in Doc
      PROVE (IF d \in missing /\ Q.outbox[r][d].revision = L.route[r].revision
             THEN [Q.outbox[r][d] EXCEPT !.incarnation = incarnation]
             ELSE Q.outbox[r][d]) \in Entry
  <2> HIDE DEF Q, missing
  <2>1. Q.outbox[r][d] \in Entry
    BY <1>1 DEF LedgerType
  <2>2. QED
    BY <2>1 DEF Entry
<1> HIDE DEF missing, Q
<1>3. [Q EXCEPT !.outbox[r] = [d \in Doc |->
         IF d \in missing /\ Q.outbox[r][d].revision = L.route[r].revision
         THEN [Q.outbox[r][d] EXCEPT !.incarnation = incarnation]
         ELSE Q.outbox[r][d]]] \in LedgerType
  BY <1>1, <1>2 DEF LedgerType
<1>4. QED
  BY <1>3 DEF ReconcileHoldings, missing, Q

LEMMA StoreReceiptType ==
  ASSUME NEW L \in LedgerType, NEW x \in Receipt PROVE StoreReceipt(L, x) \in LedgerType
<1>1. L.outbox[x.route][x.doc] \in Entry /\ x.route \in Route /\ x.doc \in Doc
  BY DEF LedgerType, Receipt
<1>2. [L.outbox[x.route][x.doc] EXCEPT !.incarnation = x.incarnation] \in Entry
  BY <1>1 DEF Entry, Receipt
<1>3. NewReceipts(L.receipts, x) \subseteq Receipt
  BY NewReceiptsType DEF LedgerType
<1>4. QED
  BY <1>1, <1>2, <1>3 DEF StoreReceipt, LedgerType

LEMMA AcknowledgeType ==
  ASSUME NEW L \in LedgerType, NEW x \in Receipt PROVE Acknowledge(L, x) \in LedgerType
<1> DEFINE A == StoreReceipt(L, x)
<1>1. A \in LedgerType
  BY StoreReceiptType
<1> HIDE DEF A
<1>2. A.outbox[x.route][x.doc] \in Entry /\ x.route \in Route /\ x.doc \in Doc
  BY <1>1 DEF LedgerType, Receipt
<1>3. [A.outbox[x.route][x.doc] EXCEPT !.disposition = "confirmed",
         !.outcome = x.disposition, !.history = FALSE] \in Entry
  BY <1>2 DEF Entry, Receipt, Dispositions
<1>4. QED
  BY <1>1, <1>2, <1>3, WithEntry DEF Acknowledge, A

LEMMA UpdateAttemptType ==
  ASSUME NEW L \in LedgerType, NEW r \in Route, NEW d \in Doc, NEW blocked \in BOOLEAN
  PROVE  UpdateAttempt(L, r, d, blocked) \in LedgerType
<1>1. L.outbox[r][d] \in Entry
  BY DEF LedgerType
<1>2. [L.outbox[r][d] EXCEPT !.disposition = IF blocked THEN "blocked" ELSE "pending",
         !.history = FALSE] \in Entry
  BY <1>1 DEF Entry, Dispositions
<1>3. QED
  BY <1>1, <1>2, WithEntry DEF UpdateAttempt

LEMMA RetryType ==
  ASSUME NEW L \in LedgerType, NEW r \in Route PROVE Retry(L, r) \in LedgerType
<1>1. ASSUME NEW d \in Doc
      PROVE (IF CurrentEntry(L, r, d).disposition \in {"pending", "blocked"}
             THEN [L.outbox[r][d] EXCEPT !.disposition = "pending", !.history = FALSE]
             ELSE L.outbox[r][d]) \in Entry
  <2>1. L.outbox[r][d] \in Entry
    BY DEF LedgerType
  <2>2. QED
    BY <2>1 DEF Entry, Dispositions
<1>2. [L EXCEPT !.outbox[r] = [d \in Doc |->
           IF CurrentEntry(L, r, d).disposition \in {"pending", "blocked"}
           THEN [L.outbox[r][d] EXCEPT !.disposition = "pending", !.history = FALSE]
           ELSE L.outbox[r][d]]] \in LedgerType
  BY <1>1 DEF LedgerType
<1>3. QED
  BY <1>2, QueueType DEF Retry

LEMMA QuarantineRestoreType ==
  ASSUME NEW L \in LedgerType PROVE QuarantineRestore(L) \in LedgerType
<1>1. Quarantine(L) \in LedgerType
  BY QuarantineType
<1>2. NoCheckpoint \in Checkpoint
  BY DEF NoCheckpoint, NoCut, NoState, Checkpoint, Cut, OriginState, States
<1>3. L.incarnation + 1 \in Nat
  BY DEF LedgerType
<1>4. QED
  BY <1>1, <1>2, <1>3 DEF QuarantineRestore, LedgerType

LEMMA ForkType ==
  ASSUME NEW L \in LedgerType, NEW i \in Inbox PROVE Fork(L, i) \in LedgerType
<1>1. NewLedger(i) \in LedgerType
  BY NewLedgerType
<1>2. ASSUME NEW d \in Doc, NEW b \in BOOLEAN
      PROVE [L.rec[d] EXCEPT !.from = Absent.from, !.suppressed = b] \in Record
  <2>1. L.rec[d] \in Record
    BY DEF LedgerType
  <2>2. Absent.from \in [Route -> Contribution]
    BY DEF Absent, NoContribution, Contribution
  <2>3. QED
    BY <2>1, <2>2 DEF Record
<1>3. ASSUME NEW d \in Doc
      PROVE [L.rec[d] EXCEPT !.from = Absent.from,
               !.suppressed = @ /\ ~(Origin[d] = L.inbox /\ L.rec[d].from = Absent.from)] \in Record
  <2>1. (L.rec[d].suppressed /\ ~(Origin[d] = L.inbox /\ L.rec[d].from = Absent.from)) \in BOOLEAN
    OBVIOUS
  <2>2. QED
    BY <1>2, <2>1
<1>4. L.incarnation + 1 \in Nat
  BY DEF LedgerType
<1>5. QED
  BY <1>1, <1>3, <1>4 DEF Fork, LedgerType

-----------------------------------------------------------------------------
(* Tombstones.  K follows L: what L holds deleted, K holds deleted too, at  *)
(* that version or a later one.                                             *)

TombstonesKept(L, K) ==
  \A d \in Doc : L.rec[d].state = "deleted" =>
    K.rec[d].state = "deleted" /\ K.rec[d].version >= L.rec[d].version

LEMMA KeptTransitive ==
  ASSUME NEW L \in LedgerType, NEW M \in LedgerType, NEW K \in LedgerType,
         TombstonesKept(L, M), TombstonesKept(M, K)
  PROVE  TombstonesKept(L, K)
<1>1. ASSUME NEW d \in Doc
      PROVE  L.rec[d].version \in Nat /\ M.rec[d].version \in Nat /\ K.rec[d].version \in Nat
  BY DEF LedgerType, Record
<1>2. QED
  BY <1>1 DEF TombstonesKept

\* Ledgers that differ elsewhere than in the records keep every tombstone.
LEMMA KeptSameRecords ==
  ASSUME NEW L \in LedgerType, NEW K, K.rec = L.rec PROVE TombstonesKept(L, K)
<1>1. \A d \in Doc : L.rec[d].version \in Nat
  BY DEF LedgerType, Record
<1>2. QED
  BY <1>1 DEF TombstonesKept

LEMMA QueueRecords ==
  ASSUME NEW L \in LedgerType, NEW R, NEW D, NEW force
  PROVE  Queue(L, R, D, force).rec = L.rec
BY DEF Queue, LedgerType

\* A fence touches memberships only.
LEMMA FenceRecords ==
  ASSUME NEW L \in LedgerType, NEW R, NEW state, NEW d \in Doc
  PROVE  /\ Detach(L, R).rec[d].state = L.rec[d].state
         /\ Detach(L, R).rec[d].version = L.rec[d].version
         /\ Fence(L, R, state).rec = Detach(L, R).rec
         /\ Quarantine(L).rec = Detach(L, Route).rec
BY DEF Detach, Fence, Quarantine, LedgerType, Record

LEMMA FenceKept ==
  ASSUME NEW L \in LedgerType, NEW R, NEW state
  PROVE  /\ TombstonesKept(L, Detach(L, R))
         /\ TombstonesKept(L, Fence(L, R, state))
         /\ TombstonesKept(L, Quarantine(L))
<1>1. ASSUME NEW d \in Doc
      PROVE  /\ L.rec[d].version \in Nat
             /\ Detach(L, R).rec[d].state = L.rec[d].state
             /\ Detach(L, R).rec[d].version = L.rec[d].version
             /\ Fence(L, R, state).rec = Detach(L, R).rec
             /\ Detach(L, Route).rec[d].state = L.rec[d].state
             /\ Detach(L, Route).rec[d].version = L.rec[d].version
             /\ Quarantine(L).rec = Detach(L, Route).rec
  BY FenceRecords DEF LedgerType, Record
<1>2. QED
  BY <1>1 DEF TombstonesKept

\* The heart of it: no verdict installs a live or an older state over a
\* tombstone.
LEMMA AppliedRecordKept ==
  ASSUME NEW L \in LedgerType, NEW r \in Route, NEW d \in Doc, NEW s \in OriginState,
         NEW staged \in BOOLEAN, L.rec[d].state = "deleted"
  PROVE  /\ AppliedRecord(L, r, d, s, staged).state = "deleted"
         /\ AppliedRecord(L, r, d, s, staged).version >= L.rec[d].version
<1>1. L.rec[d] \in Record /\ L.rec[d].version \in Nat /\ s.version \in Nat
  BY DEF LedgerType, Record, OriginState
<1>2. CASE Verdict(L, r, d, s, staged) \in {"accept", "fence"}
  <2>1. s.state = "deleted" /\ s.version >= L.rec[d].version
    BY <1>1, <1>2 DEF Verdict, OriginState, States
  <2>2. QED
    BY <1>1, <1>2, <2>1 DEF AppliedRecord, Accepted, Record
<1>3. CASE Verdict(L, r, d, s, staged) \notin {"accept", "fence"}
  BY <1>1, <1>3 DEF AppliedRecord
<1>4. QED
  BY <1>2, <1>3

LEMMA AppliedKept ==
  ASSUME NEW L \in LedgerType, NEW r \in Route, NEW S \in Cut, NEW staged \in BOOLEAN
  PROVE  TombstonesKept(L, Applied(L, r, S, staged))
<1>1. \A d \in Doc : Applied(L, r, S, staged).rec[d] = AppliedRecord(L, r, d, S[d], staged)
  BY DEF Applied, LedgerType
<1>2. QED
  BY <1>1, AppliedRecordKept DEF TombstonesKept, Cut

LEMMA ApplyKept ==
  ASSUME NEW L \in LedgerType, NEW r \in Route, NEW d \in Doc, NEW s \in OriginState,
         NEW staged \in BOOLEAN
  PROVE  TombstonesKept(L, Apply(L, r, d, s, staged))
<1> DEFINE A == Applied(L, r, OneState(d, s), staged)
<1>1. A \in LedgerType /\ TombstonesKept(L, A)
  BY OneStateType, AppliedType, AppliedKept
<1>2. Quarantine(A) \in LedgerType /\ TombstonesKept(A, Quarantine(A))
  BY <1>1, QuarantineType, FenceKept
<1>3. Queue(A, Route, {d}, FALSE) \in LedgerType
      /\ TombstonesKept(A, Queue(A, Route, {d}, FALSE))
  <2> HIDE DEF A
  <2>1. Queue(A, Route, {d}, FALSE).rec = A.rec
    BY <1>1, QueueRecords
  <2>2. QED
    BY <1>1, <2>1, QueueType, KeptSameRecords
<1>4. QED
  BY <1>1, <1>2, <1>3, KeptTransitive DEF Apply

LEMMA PublishKept ==
  ASSUME NEW L \in LedgerType, NEW d \in Doc, ~Present(L, d)
  PROVE  TombstonesKept(L, Publish(L, d))
<1> DEFINE A == [L EXCEPT
         !.rec[d] = [Absent EXCEPT !.version = L.next, !.state = "live", !.body = TRUE],
         !.next = L.next + 1]
<1>1. A \in LedgerType
  <2>1. [Absent EXCEPT !.version = L.next, !.state = "live", !.body = TRUE] \in Record
    BY DEF Absent, NoContribution, Record, Contribution, States, LedgerType
  <2>2. L.next + 1 \in Nat
    BY DEF LedgerType
  <2>3. QED
    BY <2>1, <2>2, WithRecord
<1>2. ASSUME NEW x \in Doc, L.rec[x].state = "deleted" PROVE A.rec[x] = L.rec[x]
  BY <1>2 DEF Present, LedgerType
<1>3. Publish(L, d).rec = A.rec
  BY <1>1, QueueRecords DEF Publish
<1> HIDE DEF A
<1>4. \A x \in Doc : L.rec[x].version \in Nat
  BY DEF LedgerType, Record
<1>5. QED
  BY <1>2, <1>3, <1>4 DEF TombstonesKept

LEMMA DeleteKept ==
  ASSUME NEW L \in LedgerType, NEW d \in Doc, L.rec[d].state = "live"
  PROVE  TombstonesKept(L, Delete(L, d))
<1>1. ASSUME NEW x \in Doc, L.rec[x].state = "deleted" PROVE Delete(L, d).rec[x] = L.rec[x]
  <2>1. x # d
    BY <1>1
  <2>2. CASE Origin[d] # L.inbox
    BY <2>1, <2>2 DEF Delete, LedgerType
  <2>3. CASE Origin[d] = L.inbox
    <3> DEFINE A == [L EXCEPT !.rec[d] = [@ EXCEPT !.version = L.next, !.state = "deleted"],
                              !.next = L.next + 1]
    <3>1. A.rec[x] = L.rec[x]
      BY <2>1 DEF LedgerType
    <3>2. Queue(A, Route, {d}, FALSE).rec = A.rec
      BY DEF Queue, LedgerType
    <3>3. QED
      BY <2>3, <3>1, <3>2 DEF Delete
  <2>4. QED
    BY <2>2, <2>3
<1>2. \A x \in Doc : L.rec[x].version \in Nat
  BY DEF LedgerType, Record
<1>3. QED
  BY <1>1, <1>2 DEF TombstonesKept

\* Hiding a copy, or losing its body, is no change of state.
LEMMA SameStatesKept ==
  ASSUME NEW L \in LedgerType, NEW K,
         \A d \in Doc : K.rec[d].state = L.rec[d].state /\ K.rec[d].version = L.rec[d].version
  PROVE  TombstonesKept(L, K)
<1>1. \A d \in Doc : L.rec[d].version \in Nat
  BY DEF LedgerType, Record
<1>2. QED
  BY <1>1 DEF TombstonesKept

LEMMA SuppressKept ==
  ASSUME NEW L \in LedgerType, NEW d \in Doc, NEW b \in BOOLEAN
  PROVE  TombstonesKept(L, Suppress(L, d, b))
<1> DEFINE A == [L EXCEPT !.rec[d].suppressed = b]
<1>1. A \in LedgerType
  BY HideType
<1>2. \A x \in Doc : A.rec[x].state = L.rec[x].state /\ A.rec[x].version = L.rec[x].version
  BY DEF LedgerType, Record
<1> HIDE DEF A
<1>3. Queue(A, Route, {d}, FALSE).rec = A.rec
  BY <1>1, QueueRecords
<1>4. Suppress(L, d, b).rec = A.rec
  BY <1>3 DEF Suppress, A
<1>5. QED
  BY <1>2, <1>4, SameStatesKept

LEMMA ConfigureKept ==
  ASSUME NEW L \in LedgerType, NEW r \in Route, NEW state \in RouteStates
  PROVE  TombstonesKept(L, Configure(L, r, state)) /\ TombstonesKept(L, Revoke(L, r))
<1> DEFINE A == [Detach(L, {r}) EXCEPT
                   !.route[r] = [revision |-> L.route[r].revision + 1, state |-> state]]
           F == Fence(L, {r}, "detached")
<1>1. Detach(L, {r}) \in LedgerType /\ F \in LedgerType
  BY DetachType, FenceType DEF RouteStates
<1>2. A \in LedgerType
  <2>1. L.route[r].revision + 1 \in Nat
    BY DEF LedgerType
  <2>2. QED
    BY <1>1, <2>1, WithRoute
<1>3. A.rec = Detach(L, {r}).rec
  BY <1>1 DEF LedgerType
<1> HIDE DEF A, F
<1>4. Queue(A, Route, Doc, FALSE).rec = A.rec /\ Queue(F, Route, Doc, FALSE).rec = F.rec
  BY <1>1, <1>2, QueueRecords
<1>5. TombstonesKept(L, Detach(L, {r})) /\ TombstonesKept(L, F)
  BY FenceKept DEF F
<1>6. QED
  BY <1>3, <1>4, <1>5 DEF Configure, Revoke, QueueAll, TombstonesKept, A, F

LEMMA CompleteInventoryKept ==
  ASSUME NEW L \in LedgerType, NEW r \in Route, NEW cut \in Cut
  PROVE  TombstonesKept(L, CompleteInventory(L, r, cut))
<1> DEFINE D == Applied(L, r, DeadPart(cut), FALSE)
           A == Activated(L, r, cut)
           B == Applied(A, r, HeldPart(A, cut), FALSE)
<1>1. D \in LedgerType /\ A \in LedgerType
  BY PartTypes, AppliedType, ActivatedType
<1>2. TombstonesKept(L, D)
  BY PartTypes, AppliedKept
<1>3. A.rec = D.rec
  BY <1>1 DEF Activated, LedgerType
<1>4. TombstonesKept(L, A)
  BY <1>2, <1>3 DEF TombstonesKept
<1>5. B \in LedgerType /\ TombstonesKept(A, B)
  BY <1>1, PartTypes, AppliedType, AppliedKept
<1> HIDE DEF A, B, D
<1>6. TombstonesKept(L, B)
  BY <1>1, <1>4, <1>5, KeptTransitive
<1>7. Quarantine(D) \in LedgerType /\ TombstonesKept(D, Quarantine(D))
      /\ Quarantine(B) \in LedgerType /\ TombstonesKept(B, Quarantine(B))
  BY <1>1, <1>5, QuarantineType, FenceKept
<1>8. TombstonesKept(L, Quarantine(D)) /\ TombstonesKept(L, Quarantine(B))
  BY <1>1, <1>2, <1>5, <1>6, <1>7, KeptTransitive
<1>9. TombstonesKept(L, QueueAll(B))
  <2>1. QueueAll(B).rec = B.rec
    BY <1>5, QueueRecords DEF QueueAll
  <2>2. QED
    BY <1>6, <2>1 DEF TombstonesKept
<1>10. QED
  BY <1>8, <1>9 DEF CompleteInventory, A, B, D

LEMMA CompleteReconciliationKept ==
  ASSUME NEW L \in LedgerType, NEW r \in Route, NEW cut \in Cut
  PROVE  TombstonesKept(L, CompleteReconciliation(L, r, cut))
<1>1. CompleteReconciliation(L, r, cut).rec = L.rec
  BY DEF CompleteReconciliation, LedgerType
<1>2. QED
  BY <1>1, KeptSameRecords

LEMMA ActivateOutboundKept ==
  ASSUME NEW L \in LedgerType, NEW r \in Route
  PROVE  TombstonesKept(L, ActivateOutbound(L, r))
<1>1. ActivateOutbound(L, r).rec = L.rec
  BY DEF ActivateOutbound, Queue, LedgerType
<1>2. QED
  BY <1>1, KeptSameRecords

\* A tombstone learnt from a receiver replaces an older one only.
LEMMA ObserveOutboundKept ==
  ASSUME NEW L \in LedgerType, NEW d \in Doc, NEW s \in OriginState, s.state = "deleted"
  PROVE  TombstonesKept(L, ObserveOutbound(L, d, s))
<1> DEFINE A == [L EXCEPT !.rec[d] = [@ EXCEPT !.version = s.version, !.state = s.state]]
<1>1. L.rec[d] \in Record /\ L.rec[d].version \in Nat /\ s.version \in Nat
  BY DEF LedgerType, Record, OriginState
<1>2. A \in LedgerType
  <2>1. [L.rec[d] EXCEPT !.version = s.version, !.state = s.state] \in Record
    BY <1>1 DEF Record, OriginState
  <2>2. QED
    BY <2>1, WithRecord
<1>3. CASE L.rec[d].state = "deleted" /\ L.rec[d].version >= s.version
  BY <1>3, KeptSameRecords DEF ObserveOutbound
<1>4. CASE ~(L.rec[d].state = "deleted" /\ L.rec[d].version >= s.version)
  <2>1. A.rec[d].version = s.version /\ A.rec[d].state = "deleted"
    BY <1>1 DEF LedgerType, Record
  <2>2. \A x \in Doc : x # d => A.rec[x] = L.rec[x]
    BY DEF LedgerType
  <2>3. \A x \in Doc : L.rec[x].version \in Nat
    BY DEF LedgerType, Record
  <2> HIDE DEF A
  <2>4. TombstonesKept(L, A)
    BY <1>1, <1>4, <2>1, <2>2, <2>3 DEF TombstonesKept
  <2>5. TombstonesKept(L, Quarantine(A))
    BY <1>2, <2>4, QuarantineType, FenceKept, KeptTransitive
  <2>6. TombstonesKept(L, Queue(A, Route, {d}, FALSE))
    <3>1. Queue(A, Route, {d}, FALSE).rec = A.rec
      BY <1>2, QueueRecords
    <3>2. QED
      BY <2>4, <3>1 DEF TombstonesKept
  <2>7. QED
    BY <1>4, <2>5, <2>6 DEF ObserveOutbound, A
<1>5. QED
  BY <1>3, <1>4

\* What a sender learns about its obligations touches no record.
LEMMA ObligationsKept ==
  ASSUME NEW L \in LedgerType, NEW r \in Route, NEW d \in Doc, NEW blocked \in BOOLEAN,
         NEW x \in Receipt, NEW D, NEW holding, NEW incarnation
  PROVE  /\ TombstonesKept(L, ReconcileHoldings(L, r, D, holding, incarnation))
         /\ TombstonesKept(L, StoreReceipt(L, x))
         /\ TombstonesKept(L, Acknowledge(L, x))
         /\ TombstonesKept(L, UpdateAttempt(L, r, d, blocked))
         /\ TombstonesKept(L, Retry(L, r))
<1>1. ReconcileHoldings(L, r, D, holding, incarnation).rec = L.rec
  BY DEF ReconcileHoldings, Queue, LedgerType
<1>2. StoreReceipt(L, x).rec = L.rec
  BY DEF StoreReceipt, LedgerType
<1>3. Acknowledge(L, x).rec = L.rec
  BY DEF Acknowledge, StoreReceipt, LedgerType
<1>4. UpdateAttempt(L, r, d, blocked).rec = L.rec
  BY DEF UpdateAttempt, LedgerType
<1>5. Retry(L, r).rec = L.rec
  BY DEF Retry, Queue, LedgerType
<1>6. QED
  BY <1>1, <1>2, <1>3, <1>4, <1>5, KeptSameRecords

\* Quarantine after a restore, and a fork, keep the terminal history.
LEMMA IdentityKept ==
  ASSUME NEW L \in LedgerType, NEW i \in Inbox
  PROVE  TombstonesKept(L, QuarantineRestore(L)) /\ TombstonesKept(L, Fork(L, i))
<1>1. QuarantineRestore(L).rec = Quarantine(L).rec
  BY QuarantineType DEF QuarantineRestore, LedgerType
<1>2. TombstonesKept(L, QuarantineRestore(L))
  BY <1>1, FenceKept DEF TombstonesKept
<1>3. ASSUME NEW d \in Doc
      PROVE  /\ Fork(L, i).rec[d].state = L.rec[d].state
             /\ Fork(L, i).rec[d].version = L.rec[d].version
  <2> DEFINE b == L.rec[d].suppressed /\ ~(Origin[d] = L.inbox /\ L.rec[d].from = Absent.from)
  <2>1. Fork(L, i).rec[d] = [L.rec[d] EXCEPT !.from = Absent.from, !.suppressed = b]
    BY DEF Fork, NewLedger
  <2>2. L.rec[d] \in Record
    BY DEF LedgerType
  <2> HIDE DEF b
  <2>3. QED
    BY <2>1, <2>2 DEF Record
<1>4. QED
  BY <1>2, <1>3, SameStatesKept

-----------------------------------------------------------------------------
(* Why a committed ledger always passes the cross-checks of `parseLedger`.   *)
(* Parses is not kept by every transition alone: a receipt may only confirm  *)
(* an obligation that was not retired, because a retired one no longer       *)
(* follows its record.  Sound adds what makes it inductive: an obligation    *)
(* retired at the route's current revision belongs to a route that may not   *)
(* send its document.                                                        *)

Sendable(L, r, d) == Src[r] = L.inbox /\ Live(L, r) /\ Granted(r, Origin[d])

\* What holds of an obligation, apart from the state it is about.
OwedEntry(L, r, d) ==
  LET e == L.outbox[r][d] IN
  /\ e.disposition # "none" =>
       Present(L, d) /\ Configured(L, r) /\ e.revision <= L.route[r].revision
  /\ e.disposition \notin {"none", "retired"} => e.revision = L.route[r].revision
  /\ e.disposition = "retired" /\ e.revision = L.route[r].revision => ~Sendable(L, r, d)

SignedEntry(L, r, d) ==
  L.outbox[r][d].disposition \notin {"none", "retired"} =>
    L.outbox[r][d].signed = Fingerprint(L.rec[d])

Owed(L)  == \A r \in Route, d \in Doc : OwedEntry(L, r, d)
Frame(L) == ContributionsBound(L) /\ RoutesBound(L) /\ ReceiptsBound(L) /\ ReceiptsAgree(L)
Sound(L) == /\ Frame(L) /\ OwnerCounterAhead(L) /\ Owed(L)
            /\ \A r \in Route, d \in Doc : SignedEntry(L, r, d)

\* A sound ledger passes the cross-checks.
LEMMA SoundParses == ASSUME NEW L, Sound(L) PROVE Parses(L)
BY DEF Sound, Frame, Owed, OwedEntry, SignedEntry, Parses, OutboxBound

LEMMA NewLedgerSound == ASSUME NEW i \in Inbox PROVE Sound(NewLedger(i))
BY DEF NewLedger, Sound, Frame, Owed, OwedEntry, SignedEntry, OwnerCounterAhead,
       ContributionsBound, RoutesBound, ReceiptsBound, ReceiptsAgree, Present, Configured,
       Absent, NoContribution, NoEntry, NoCheckpoint

-----------------------------------------------------------------------------
(* Queueing. *)

LEMMA QueueFields ==
  ASSUME NEW L \in LedgerType, NEW R, NEW D, NEW force
  PROVE  LET K == Queue(L, R, D, force) IN
         /\ K.inbox = L.inbox /\ K.next = L.next /\ K.quarantined = L.quarantined
         /\ K.rec = L.rec /\ K.route = L.route /\ K.receipts = L.receipts
         /\ K.history = L.history /\ K.full = L.full
BY DEF Queue, LedgerType

\* One queued obligation is owed and about the record as it is.
LEMMA QueueEntrySound ==
  ASSUME NEW L \in LedgerType, NEW r \in Route, NEW d \in Doc, NEW force \in BOOLEAN,
         OwedEntry(L, r, d), Present(L, d), Configured(L, r)
  PROVE  LET e == QueueEntry(L, r, d, force) IN
         /\ e.disposition # "none" => e.revision <= L.route[r].revision
         /\ e.disposition \notin {"none", "retired"} =>
              e.revision = L.route[r].revision /\ e.signed = Fingerprint(L.rec[d])
         /\ e.disposition = "retired" /\ e.revision = L.route[r].revision => ~Sendable(L, r, d)
<1> DEFINE e == CurrentEntry(L, r, d)
           o == L.outbox[r][d]
           same == e.disposition # "none" /\ e.signed = Fingerprint(L.rec[d])
           unblock == e.history /\ CanForward(L, r, d, FALSE)
<1>1. o \in Entry /\ L.rec[d] \in Record /\ L.route[r].revision \in Nat
  BY DEF LedgerType
<1>2. e = o \/ (e = NoEntry /\ o.revision # L.route[r].revision)
  BY DEF CurrentEntry
<1>3. CASE ~Sendable(L, r, d)
  <2>1. QueueEntry(L, r, d, force) =
          IF e.disposition = "none" THEN o ELSE [e EXCEPT !.disposition = "retired"]
    BY <1>3 DEF QueueEntry, Sendable
  <2>2. CASE e.disposition = "none"
    BY <1>1, <1>2, <1>3, <2>1, <2>2 DEF OwedEntry, Entry, NoEntry
  <2>3. CASE e.disposition # "none"
    <3>1. e = o
      BY <1>2, <2>3 DEF NoEntry
    <3> HIDE DEF e, o
    <3>2. [e EXCEPT !.disposition = "retired"].disposition = "retired"
          /\ [e EXCEPT !.disposition = "retired"].revision = e.revision
      BY <1>1, <3>1 DEF Entry
    <3>3. e.revision <= L.route[r].revision
      BY <1>1, <2>3, <3>1 DEF OwedEntry, e, o
    <3>4. QED
      BY <1>3, <2>1, <2>3, <3>2, <3>3
  <2>4. QED
    BY <2>2, <2>3
<1>4. CASE Sendable(L, r, d) /\ same /\ ~unblock
  <2>1. QueueEntry(L, r, d, force) = KeptEntry(L, r, d, e, force)
    BY <1>4 DEF QueueEntry, Sendable
  <2>2. e = o /\ o.disposition # "none"
    BY <1>2, <1>4 DEF NoEntry
  <2>3. o.revision = L.route[r].revision
    BY <1>1, <2>2 DEF CurrentEntry, NoEntry
  <2>4. o.disposition # "retired"
    BY <1>4, <2>3 DEF OwedEntry
  <2>5. o.signed = Fingerprint(L.rec[d])
    BY <1>4, <2>2
  <2> HIDE DEF e, o, same, unblock
  <2>6. /\ KeptEntry(L, r, d, e, force).revision = o.revision
        /\ KeptEntry(L, r, d, e, force).signed = o.signed
        /\ KeptEntry(L, r, d, e, force).disposition # "retired"
    BY <1>1, <2>2, <2>4 DEF KeptEntry, Entry
  <2>7. QED
    BY <1>1, <2>1, <2>3, <2>5, <2>6
<1>5. CASE Sendable(L, r, d) /\ ~(same /\ ~unblock)
  <2>1. QueueEntry(L, r, d, force) = NewEntry(L, r, d, e)
    BY <1>5 DEF QueueEntry, Sendable
  <2>2. QED
    BY <1>1, <2>1 DEF NewEntry
<1>6. QED
  BY <1>3, <1>4, <1>5

\* Queueing makes a ledger sound whose other obligations already were.
LEMMA QueueSound ==
  ASSUME NEW L \in LedgerType, NEW R \in SUBSET Route, NEW D \in SUBSET Doc,
         NEW force \in BOOLEAN, Frame(L), OwnerCounterAhead(L), Owed(L),
         \A r \in Route, d \in Doc : (r \in R /\ d \in D) \/ SignedEntry(L, r, d)
  PROVE  Sound(Queue(L, R, D, force))
<1> DEFINE K == Queue(L, R, D, force)
<1>1. /\ K.inbox = L.inbox /\ K.next = L.next /\ K.quarantined = L.quarantined
      /\ K.rec = L.rec /\ K.route = L.route /\ K.receipts = L.receipts
      /\ K.history = L.history /\ K.full = L.full
  BY QueueFields
<1>2. \A r \in Route, d \in Doc :
        K.outbox[r][d] = IF r \in R /\ d \in D /\ Configured(L, r) /\ Present(L, d)
                         THEN QueueEntry(L, r, d, force) ELSE L.outbox[r][d]
  BY DEF Queue, LedgerType
<1> HIDE DEF K
<1>3. Frame(K) /\ OwnerCounterAhead(K)
  BY <1>1 DEF Frame, OwnerCounterAhead, ContributionsBound, RoutesBound, ReceiptsBound,
              ReceiptsAgree, Present, Configured
<1>4. ASSUME NEW r \in Route, NEW d \in Doc
      PROVE  OwedEntry(K, r, d) /\ SignedEntry(K, r, d)
  <2>0. OwedEntry(L, r, d)
    BY DEF Owed
  <2>1. CASE r \in R /\ d \in D /\ Configured(L, r) /\ Present(L, d)
    <3>1. K.outbox[r][d] = QueueEntry(L, r, d, force)
      BY <1>2, <2>1
    <3>2. QED
      BY <1>1, <2>0, <2>1, <3>1, QueueEntrySound
         DEF OwedEntry, SignedEntry, Sendable, Live, Present, Configured
  <2>2. CASE ~(r \in R /\ d \in D /\ Configured(L, r) /\ Present(L, d))
    <3>1. K.outbox[r][d] = L.outbox[r][d]
      BY <1>2, <2>2
    <3>2. SignedEntry(L, r, d)
      BY <2>0, <2>2 DEF OwedEntry, SignedEntry
    <3>3. QED
      BY <1>1, <2>0, <3>1, <3>2 DEF OwedEntry, SignedEntry, Sendable, Live, Present, Configured
  <2>3. QED
    BY <2>1, <2>2
<1>5. QED
  BY <1>3, <1>4 DEF Sound, Owed, K

-----------------------------------------------------------------------------
(* Fences. *)

LEMMA DetachFields ==
  ASSUME NEW L \in LedgerType, NEW R \in SUBSET Route
  PROVE  LET K == Detach(L, R) IN
         /\ K.inbox = L.inbox /\ K.next = L.next /\ K.quarantined = L.quarantined
         /\ K.route = L.route /\ K.receipts = L.receipts
         /\ K.history = L.history /\ K.full = L.full
         /\ \A d \in Doc : K.rec[d].version = L.rec[d].version /\ K.rec[d].state = L.rec[d].state
         /\ \A d \in Doc, r \in Route :
              /\ K.rec[d].from[r].revision = L.rec[d].from[r].revision
              /\ K.rec[d].from[r].state = IF r \in R /\ L.rec[d].from[r].state # "none"
                                          THEN "detached" ELSE L.rec[d].from[r].state
         /\ \A d \in Doc, r \in Route :
              /\ K.outbox[r][d].revision = L.outbox[r][d].revision
              /\ K.outbox[r][d].signed = L.outbox[r][d].signed
              /\ K.outbox[r][d].disposition =
                   IF r \in R /\ L.outbox[r][d].disposition # "none"
                   THEN "retired" ELSE L.outbox[r][d].disposition
<1> DEFINE K == Detach(L, R)
<1>1. /\ K.inbox = L.inbox /\ K.next = L.next /\ K.quarantined = L.quarantined
      /\ K.route = L.route /\ K.receipts = L.receipts
      /\ K.history = L.history /\ K.full = L.full
  BY DEF Detach, LedgerType
<1>2. ASSUME NEW d \in Doc
      PROVE  /\ K.rec[d].version = L.rec[d].version /\ K.rec[d].state = L.rec[d].state
             /\ \A r \in Route :
                  K.rec[d].from[r] = IF r \in R /\ L.rec[d].from[r].state # "none"
                                     THEN [L.rec[d].from[r] EXCEPT !.state = "detached"]
                                     ELSE L.rec[d].from[r]
  <2>1. L.rec[d] \in Record
    BY DEF LedgerType
  <2>2. QED
    BY <2>1 DEF Detach, LedgerType, Record
<1>3. ASSUME NEW d \in Doc, NEW r \in Route
      PROVE  K.outbox[r][d] = IF r \in R /\ L.outbox[r][d].disposition # "none"
                              THEN [L.outbox[r][d] EXCEPT !.disposition = "retired"]
                              ELSE L.outbox[r][d]
  BY DEF Detach, LedgerType
<1>4. \A d \in Doc, r \in Route : L.rec[d].from[r] \in Contribution /\ L.outbox[r][d] \in Entry
  BY DEF LedgerType, Record
<1> HIDE DEF K
<1>5. ASSUME NEW d \in Doc, NEW r \in Route
      PROVE  /\ K.rec[d].from[r].revision = L.rec[d].from[r].revision
             /\ K.rec[d].from[r].state = IF r \in R /\ L.rec[d].from[r].state # "none"
                                          THEN "detached" ELSE L.rec[d].from[r].state
  <2>1. \A c \in Contribution : /\ [c EXCEPT !.state = "detached"].revision = c.revision
                                /\ [c EXCEPT !.state = "detached"].state = "detached"
    BY DEF Contribution
  <2>2. L.rec[d].from[r] \in Contribution
    BY <1>4
  <2>3. K.rec[d].from[r] = IF r \in R /\ L.rec[d].from[r].state # "none"
                           THEN [L.rec[d].from[r] EXCEPT !.state = "detached"]
                           ELSE L.rec[d].from[r]
    BY <1>2
  <2>4. QED
    BY <2>1, <2>2, <2>3
<1>6. ASSUME NEW d \in Doc, NEW r \in Route
      PROVE  /\ K.outbox[r][d].revision = L.outbox[r][d].revision
             /\ K.outbox[r][d].signed = L.outbox[r][d].signed
             /\ K.outbox[r][d].disposition =
                   IF r \in R /\ L.outbox[r][d].disposition # "none"
                   THEN "retired" ELSE L.outbox[r][d].disposition
  <2>1. \A e \in Entry : /\ [e EXCEPT !.disposition = "retired"].revision = e.revision
                         /\ [e EXCEPT !.disposition = "retired"].signed = e.signed
                         /\ [e EXCEPT !.disposition = "retired"].disposition = "retired"
    BY DEF Entry
  <2>2. L.outbox[r][d] \in Entry
    BY <1>4
  <2>3. K.outbox[r][d] = IF r \in R /\ L.outbox[r][d].disposition # "none"
                         THEN [L.outbox[r][d] EXCEPT !.disposition = "retired"]
                         ELSE L.outbox[r][d]
    BY <1>3
  <2>4. QED
    BY <2>1, <2>2, <2>3
<1>7. QED
  BY <1>1, <1>2, <1>5, <1>6 DEF K

\* Detaching R and moving its routes past their revision keeps all but the
\* obligations elsewhere as they were.
LEMMA DetachSound ==
  ASSUME NEW L \in LedgerType, NEW R \in SUBSET Route, NEW K \in LedgerType,
         Frame(L), Owed(L),
         K.inbox = L.inbox, K.receipts = L.receipts, K.history = L.history, K.full = L.full,
         K.rec = Detach(L, R).rec, K.outbox = Detach(L, R).outbox,
         \A r \in Route : \/ K.route[r] = L.route[r]
                             /\ (r \in R => ~Configured(L, r))
                          \/ /\ r \in R /\ L.inbox \in {Src[r], Dst[r]}
                             /\ K.route[r].state # "none"
                             /\ K.route[r].revision = L.route[r].revision + 1
  PROVE  /\ Frame(K) /\ Owed(K)
         /\ \A r \in Route, d \in Doc :
              r \in R \/ SignedEntry(L, r, d) => SignedEntry(K, r, d)
<1>1. \A r \in Route : L.route[r].revision \in Nat /\ K.route[r].revision \in Nat
  BY DEF LedgerType
<1>2. \A r \in Route, d \in Doc : /\ L.rec[d].from[r].revision \in Nat
                                  /\ L.outbox[r][d].revision \in Nat
  BY DEF LedgerType, Record, Contribution, Entry
<1>3. \A d \in Doc : /\ Present(K, d) <=> Present(L, d)
                     /\ Fingerprint(K.rec[d]) = Fingerprint(L.rec[d])
  BY DetachFields DEF Present, Fingerprint
<1>4. \A r \in Route : Configured(L, r) => Configured(K, r)
  BY DEF Configured
<1>5. ContributionsBound(K)
  <2> SUFFICES ASSUME NEW d \in Doc, NEW r \in Route
               PROVE  LET c == K.rec[d].from[r] IN
                      /\ c.state # "none" => Present(K, d) /\ Configured(K, r)
                                             /\ c.revision <= K.route[r].revision
                      /\ c.state = "attached" => c.revision = K.route[r].revision
                                                 /\ K.route[r].state = "active"
    BY DEF ContributionsBound
  <2>1. /\ K.rec[d].from[r].revision = L.rec[d].from[r].revision
        /\ K.rec[d].from[r].state = IF r \in R /\ L.rec[d].from[r].state # "none"
                                    THEN "detached" ELSE L.rec[d].from[r].state
    BY DetachFields
  <2>2. LET c == L.rec[d].from[r] IN
        /\ c.state # "none" => Present(L, d) /\ Configured(L, r)
                               /\ c.revision <= L.route[r].revision
        /\ c.state = "attached" => c.revision = L.route[r].revision
                                   /\ L.route[r].state = "active"
    BY DEF Frame, ContributionsBound
  <2>3. QED
    BY <1>1, <1>2, <1>3, <1>4, <2>1, <2>2
<1>6. RoutesBound(K) /\ ReceiptsBound(K) /\ ReceiptsAgree(K)
  BY <1>4 DEF Frame, RoutesBound, ReceiptsBound, ReceiptsAgree, Configured, LedgerType, Receipt
<1>7. ASSUME NEW r \in Route, NEW d \in Doc
      PROVE  OwedEntry(K, r, d) /\ (r \in R \/ SignedEntry(L, r, d) => SignedEntry(K, r, d))
  <2>1. /\ K.outbox[r][d].revision = L.outbox[r][d].revision
        /\ K.outbox[r][d].signed = L.outbox[r][d].signed
        /\ K.outbox[r][d].disposition = IF r \in R /\ L.outbox[r][d].disposition # "none"
                                        THEN "retired" ELSE L.outbox[r][d].disposition
    BY DetachFields
  <2>2. OwedEntry(L, r, d)
    BY DEF Owed
  <2>3. OwedEntry(K, r, d)
    BY <1>1, <1>2, <1>3, <1>4, <2>1, <2>2 DEF OwedEntry, Sendable, Live, Configured
  <2>4. r \in R \/ SignedEntry(L, r, d) => SignedEntry(K, r, d)
    BY <1>3, <2>1 DEF SignedEntry
  <2>5. QED
    BY <2>3, <2>4
<1>8. QED
  BY <1>5, <1>6, <1>7 DEF Frame, Owed

\* A quarantined ledger owes nothing, so nothing it owes is wrong.
LEMMA QuarantineSound ==
  ASSUME NEW L \in LedgerType, Frame(L), Owed(L) PROVE Sound(Quarantine(L))
<1> DEFINE K == Quarantine(L)
<1>1. K \in LedgerType
  BY QuarantineType
<1>2. /\ K.inbox = L.inbox /\ K.receipts = L.receipts /\ K.history = L.history
      /\ K.full = L.full /\ K.rec = Detach(L, Route).rec /\ K.outbox = Detach(L, Route).outbox
      /\ K.quarantined
  BY DEF Quarantine, Fence, Detach, LedgerType
<1>3. \A r \in Route :
        K.route[r] = IF Configured(L, r)
                     THEN [revision |-> L.route[r].revision + 1, state |-> "blocked"]
                     ELSE L.route[r]
  BY DEF Quarantine, Fence, Detach, LedgerType
<1> HIDE DEF K
<1>4. ASSUME NEW r \in Route
      PROVE  \/ K.route[r] = L.route[r] /\ (r \in Route => ~Configured(L, r))
             \/ /\ r \in Route /\ L.inbox \in {Src[r], Dst[r]}
                /\ K.route[r].state # "none"
                /\ K.route[r].revision = L.route[r].revision + 1
  <2>1. CASE Configured(L, r)
    <3>1. K.route[r] = [revision |-> L.route[r].revision + 1, state |-> "blocked"]
      BY <1>3, <2>1
    <3>2. L.inbox \in {Src[r], Dst[r]}
      BY <2>1 DEF Frame, RoutesBound
    <3>3. QED
      BY <3>1, <3>2
  <2>2. CASE ~Configured(L, r)
    BY <1>3, <2>2
  <2>3. QED
    BY <2>1, <2>2
<1>5. /\ Frame(K) /\ Owed(K)
      /\ \A r \in Route, d \in Doc : r \in Route \/ SignedEntry(L, r, d) => SignedEntry(K, r, d)
  BY <1>1, <1>2, <1>4, DetachSound
<1>6. OwnerCounterAhead(K)
  BY <1>2 DEF OwnerCounterAhead
<1>7. QED
  BY <1>5, <1>6 DEF Sound, K

-----------------------------------------------------------------------------
(* Applying. *)

LEMMA AppliedFields ==
  ASSUME NEW L \in LedgerType, NEW r, NEW S, NEW staged
  PROVE  LET K == Applied(L, r, S, staged) IN
         /\ K.inbox = L.inbox /\ K.next = L.next /\ K.quarantined = L.quarantined
         /\ K.route = L.route /\ K.outbox = L.outbox
         /\ K.history = L.history /\ K.full = L.full
         /\ \A d \in Doc : K.rec[d] = AppliedRecord(L, r, d, S[d], staged)
         /\ K.receipts = L.receipts \cup
              UNION {NewReceipts(L.receipts, ReceiptOf(L, r, d, S[d], staged)) :
                d \in {x \in Doc : Verdict(L, r, x, S[x], staged) \in {"superseded", "accept"}}}
BY DEF Applied, LedgerType

\* What one state leaves of a record: only an accepted or fenced state changes
\* it, and only the membership of the route that brought it.
LEMMA AppliedRecordShape ==
  ASSUME NEW L \in LedgerType, NEW r \in Route, NEW d \in Doc, NEW s \in OriginState,
         NEW staged \in BOOLEAN
  PROVE  LET rec == AppliedRecord(L, r, d, s, staged)
             verdict == Verdict(L, r, d, s, staged)
         IN /\ verdict \notin {"accept", "fence"} => rec = L.rec[d]
            /\ verdict = "accept" => rec.state # "absent" /\ rec.version = s.version
            /\ L.rec[d].state # "absent" => rec.state # "absent"
            /\ verdict = "accept" /\ Origin[d] = L.inbox => s.version < L.next
            /\ \A q \in Route : rec.from[q] =
                 IF verdict = "accept" /\ q = r
                 THEN [revision |-> L.route[r].revision,
                       state |-> IF L.route[r].state = "active" THEN "attached" ELSE "detached"]
                 ELSE L.rec[d].from[q]
<1>1. L.rec[d] \in Record /\ L.next \in Nat /\ s.version \in Nat
  BY DEF LedgerType, OriginState
<1>2. Verdict(L, r, d, s, staged) \in {"accept", "fence"} => s.state # "absent"
  BY DEF Verdict
<1>3. Verdict(L, r, d, s, staged) = "accept" /\ Origin[d] = L.inbox => s.version < L.next
  BY <1>1 DEF Verdict
<1>4. CASE Verdict(L, r, d, s, staged) = "accept"
  BY <1>1, <1>2, <1>3, <1>4 DEF AppliedRecord, Accepted, Record
<1>5. CASE Verdict(L, r, d, s, staged) # "accept"
  BY <1>1, <1>2, <1>5 DEF AppliedRecord, Record
<1>6. QED
  BY <1>4, <1>5

\* A receipt given for a state does not contradict it.
AgreeingReceipt(x) ==
  /\ x.disposition = "deleted" => x.signed.state # "live"
  /\ x.disposition \in {"committed", "suppressed"} => x.signed.state # "deleted"

LEMMA ReceiptOfAgrees ==
  ASSUME NEW L \in LedgerType, NEW r \in Route, NEW d \in Doc, NEW s \in OriginState,
         NEW staged \in BOOLEAN
  PROVE  /\ AgreeingReceipt(ReceiptOf(L, r, d, s, staged))
         /\ ReceiptOf(L, r, d, s, staged).route = r
<1> DEFINE rec == Accepted(L, r, d, s, staged)
<1>1. Outcome(rec) = "deleted" => rec.state = "deleted"
  BY DEF Outcome
<1>2. Outcome(rec) \in {"committed", "suppressed"} => rec.state # "deleted"
  BY DEF Outcome
<1>3. Outcome(rec) \in {"deleted", "committed", "suppressed"}
  BY DEF Outcome
<1> HIDE DEF rec
<1>4. AgreeingReceipt(ReceiptFor(L, r, d, rec, Outcome(rec)))
  BY <1>1, <1>2, <1>3 DEF ReceiptFor, AgreeingReceipt, Fingerprint
<1>5. AgreeingReceipt(ReceiptFor(L, r, d, L.rec[d], "superseded"))
  BY DEF ReceiptFor, AgreeingReceipt
<1>6. QED
  BY <1>4, <1>5 DEF ReceiptOf, ReceiptFor, rec

LEMMA NewReceiptsAgree ==
  ASSUME NEW R \in SUBSET Receipt, NEW x \in Receipt, AgreeingReceipt(x),
         NEW y \in NewReceipts(R, x)
  PROVE  AgreeingReceipt(y) /\ y.route = x.route
BY DEF NewReceipts, AgreeingReceipt, Receipt

\* Applying states keeps everything but the obligations about them; unless it
\* meets a later state of our own, no owner falls behind its counter.
LEMMA AppliedSound ==
  ASSUME NEW L \in LedgerType, NEW r \in Route, NEW S \in Cut, NEW staged \in BOOLEAN,
         Frame(L), Owed(L), Configured(L, r)
  PROVE  LET K == Applied(L, r, S, staged) IN
         /\ Frame(K) /\ Owed(K)
         /\ OwnerCounterAhead(L) /\ ~Fences(L, r, S, staged) => OwnerCounterAhead(K)
         /\ \A q \in Route, d \in Doc :
              SignedEntry(L, q, d) /\ Verdict(L, r, d, S[d], staged) \notin {"accept", "fence"}
                => SignedEntry(K, q, d)
<1> DEFINE K == Applied(L, r, S, staged)
<1>1. /\ K.inbox = L.inbox /\ K.next = L.next /\ K.quarantined = L.quarantined
      /\ K.route = L.route /\ K.outbox = L.outbox
      /\ K.history = L.history /\ K.full = L.full
      /\ \A d \in Doc : K.rec[d] = AppliedRecord(L, r, d, S[d], staged)
      /\ K.receipts = L.receipts \cup
           UNION {NewReceipts(L.receipts, ReceiptOf(L, r, d, S[d], staged)) :
             d \in {x \in Doc : Verdict(L, r, x, S[x], staged) \in {"superseded", "accept"}}}
  BY AppliedFields
<1>2. \A d \in Doc : S[d] \in OriginState
  BY DEF Cut
<1>3. \A d \in Doc :
        LET verdict == Verdict(L, r, d, S[d], staged) IN
        /\ verdict \notin {"accept", "fence"} => K.rec[d] = L.rec[d]
        /\ verdict = "accept" => K.rec[d].state # "absent" /\ K.rec[d].version = S[d].version
        /\ L.rec[d].state # "absent" => K.rec[d].state # "absent"
        /\ verdict = "accept" /\ Origin[d] = L.inbox => S[d].version < L.next
        /\ \A q \in Route : K.rec[d].from[q] =
             IF verdict = "accept" /\ q = r
             THEN [revision |-> L.route[r].revision,
                   state |-> IF L.route[r].state = "active" THEN "attached" ELSE "detached"]
             ELSE L.rec[d].from[q]
  BY <1>1, <1>2, AppliedRecordShape
<1>4. L.route[r].revision \in Nat
  BY DEF LedgerType
<1>5. \A x \in K.receipts : x \in L.receipts \/ (AgreeingReceipt(x) /\ x.route = r)
  <2>1. ASSUME NEW d \in Doc, NEW x \in NewReceipts(L.receipts, ReceiptOf(L, r, d, S[d], staged))
        PROVE  AgreeingReceipt(x) /\ x.route = r
    <3>1. ReceiptOf(L, r, d, S[d], staged) \in Receipt
      BY <1>2, ReceiptOfType
    <3>2. L.receipts \in SUBSET Receipt
      BY DEF LedgerType
    <3>3. QED
      BY <1>2, <3>1, <3>2, ReceiptOfAgrees, NewReceiptsAgree
  <2>2. QED
    BY <1>1, <2>1
<1> HIDE DEF K
<1>6. ContributionsBound(K)
  <2> SUFFICES ASSUME NEW d \in Doc, NEW q \in Route
               PROVE  LET c == K.rec[d].from[q] IN
                      /\ c.state # "none" => Present(K, d) /\ Configured(K, q)
                                             /\ c.revision <= K.route[q].revision
                      /\ c.state = "attached" => c.revision = K.route[q].revision
                                                 /\ K.route[q].state = "active"
    BY DEF ContributionsBound
  <2>1. LET c == L.rec[d].from[q] IN
        /\ c.state # "none" => Present(L, d) /\ Configured(L, q)
                               /\ c.revision <= L.route[q].revision
        /\ c.state = "attached" => c.revision = L.route[q].revision
                                   /\ L.route[q].state = "active"
    BY DEF Frame, ContributionsBound
  <2>2. CASE Verdict(L, r, d, S[d], staged) = "accept" /\ q = r
    <3>1. /\ K.rec[d].state # "absent"
          /\ K.rec[d].from[q] =
               [revision |-> L.route[r].revision,
                state |-> IF L.route[r].state = "active" THEN "attached" ELSE "detached"]
      BY <1>3, <2>2
    <3>2. QED
      BY <1>1, <1>4, <2>2, <3>1 DEF Present, Configured
  <2>3. CASE ~(Verdict(L, r, d, S[d], staged) = "accept" /\ q = r)
    <3>1. K.rec[d].from[q] = L.rec[d].from[q]
      BY <1>3, <2>3
    <3>2. Present(L, d) => Present(K, d)
      BY <1>3 DEF Present
    <3>3. QED
      BY <1>1, <2>1, <3>1, <3>2 DEF Configured
  <2>4. QED
    BY <2>2, <2>3
<1>7. RoutesBound(K) /\ ReceiptsBound(K) /\ ReceiptsAgree(K)
  <2>1. RoutesBound(K)
    BY <1>1 DEF Frame, RoutesBound, Configured
  <2>2. ReceiptsBound(K)
    BY <1>1, <1>5 DEF Frame, ReceiptsBound, Configured
  <2>3. ReceiptsAgree(K)
    BY <1>5 DEF Frame, ReceiptsAgree, AgreeingReceipt
  <2>4. QED
    BY <2>1, <2>2, <2>3
<1>8. ASSUME NEW q \in Route, NEW d \in Doc PROVE OwedEntry(K, q, d)
  <2>1. OwedEntry(L, q, d)
    BY DEF Owed
  <2>2. Present(L, d) => Present(K, d)
    BY <1>3 DEF Present
  <2>3. QED
    BY <1>1, <2>1, <2>2 DEF OwedEntry, Sendable, Live, Configured
<1>9. ASSUME NEW q \in Route, NEW d \in Doc, SignedEntry(L, q, d),
             Verdict(L, r, d, S[d], staged) \notin {"accept", "fence"}
      PROVE  SignedEntry(K, q, d)
  <2>1. K.rec[d] = L.rec[d]
    BY <1>3, <1>9
  <2>2. QED
    BY <1>1, <1>9, <2>1 DEF SignedEntry
<1>10. ASSUME OwnerCounterAhead(L), ~Fences(L, r, S, staged) PROVE OwnerCounterAhead(K)
  <2> SUFFICES ASSUME NEW d \in Doc, Origin[d] = K.inbox, Present(K, d), ~K.quarantined
               PROVE  K.rec[d].version < K.next
    BY DEF OwnerCounterAhead
  <2>1. Verdict(L, r, d, S[d], staged) # "fence"
    BY <1>10 DEF Fences
  <2>2. CASE Verdict(L, r, d, S[d], staged) = "accept"
    <3>1. K.rec[d].version = S[d].version /\ S[d].version < L.next
      BY <1>1, <1>3, <2>2
    <3>2. QED
      BY <1>1, <3>1
  <2>3. CASE Verdict(L, r, d, S[d], staged) # "accept"
    <3>1. K.rec[d] = L.rec[d]
      BY <1>3, <2>1, <2>3
    <3>2. QED
      BY <1>1, <1>10, <3>1 DEF OwnerCounterAhead, Present
  <2>4. QED
    BY <2>2, <2>3
<1>11. QED
  BY <1>6, <1>7, <1>8, <1>9, <1>10 DEF Frame, Owed, K

LEMMA ApplySound ==
  ASSUME NEW L \in LedgerType, NEW r \in Route, NEW d \in Doc, NEW s \in OriginState,
         NEW staged \in BOOLEAN, Sound(L), Configured(L, r)
  PROVE  Sound(Apply(L, r, d, s, staged))
<1> DEFINE S == OneState(d, s)
           A == Applied(L, r, S, staged)
<1>1. S \in Cut /\ S[d] = s /\ \A x \in Doc : x # d => S[x] = NoState
  BY OneStateType DEF OneState, NoCut
<1>2. A \in LedgerType
  BY <1>1, AppliedType
<1>3. \A x \in Doc : x # d => Verdict(L, r, x, S[x], staged) = "nothing"
  BY <1>1 DEF Verdict, NoState
<1>4. /\ Frame(A) /\ Owed(A)
      /\ OwnerCounterAhead(L) /\ ~Fences(L, r, S, staged) => OwnerCounterAhead(A)
      /\ \A q \in Route, x \in Doc :
           SignedEntry(L, q, x) /\ Verdict(L, r, x, S[x], staged) \notin {"accept", "fence"}
             => SignedEntry(A, q, x)
  BY <1>1, AppliedSound DEF Sound
<1> HIDE DEF A, S
<1>5. CASE Verdict(L, r, d, s, staged) = "fence"
  BY <1>2, <1>4, <1>5, QuarantineSound DEF Apply, A, S
<1>6. ASSUME Verdict(L, r, d, s, staged) # "fence" PROVE OwnerCounterAhead(A)
  BY <1>1, <1>3, <1>4, <1>6 DEF Fences, Sound
<1>7. CASE Verdict(L, r, d, s, staged) = "accept"
  <2>1. \A q \in Route, x \in Doc : (q \in Route /\ x \in {d}) \/ SignedEntry(A, q, x)
    BY <1>3, <1>4 DEF Sound
  <2>2. Sound(Queue(A, Route, {d}, FALSE))
    BY <1>2, <1>4, <1>6, <1>7, <2>1, QueueSound
  <2>3. QED
    BY <1>7, <2>2 DEF Apply, A, S
<1>8. CASE Verdict(L, r, d, s, staged) \notin {"accept", "fence"}
  <2>1. \A q \in Route, x \in Doc : SignedEntry(A, q, x)
    BY <1>1, <1>3, <1>4, <1>8 DEF Sound
  <2>2. Sound(A)
    BY <1>4, <1>6, <1>8, <2>1 DEF Sound
  <2>3. QED
    BY <1>8, <2>2 DEF Apply, A, S
<1>9. QED
  BY <1>5, <1>7, <1>8

-----------------------------------------------------------------------------
(* The operations of the store. *)

\* A ledger that differs in one record, whose memberships stay.
LEMMA RecordSound ==
  ASSUME NEW L \in LedgerType, NEW K, NEW d \in Doc, Frame(L), Owed(L),
         K.inbox = L.inbox, K.route = L.route, K.outbox = L.outbox, K.receipts = L.receipts,
         K.history = L.history, K.full = L.full,
         \A x \in Doc : x # d => K.rec[x] = L.rec[x],
         K.rec[d].state # "absent",
         \A q \in Route : \/ K.rec[d].from[q] = L.rec[d].from[q]
                          \/ K.rec[d].from[q].state = "none"
  PROVE  /\ Frame(K) /\ Owed(K)
         /\ \A q \in Route, x \in Doc : x # d /\ SignedEntry(L, q, x) => SignedEntry(K, q, x)
<1>1. \A x \in Doc : Present(L, x) => Present(K, x)
  BY DEF Present
<1>2. ContributionsBound(K)
  <2> SUFFICES ASSUME NEW x \in Doc, NEW q \in Route
               PROVE  LET c == K.rec[x].from[q] IN
                      /\ c.state # "none" => Present(K, x) /\ Configured(K, q)
                                             /\ c.revision <= K.route[q].revision
                      /\ c.state = "attached" => c.revision = K.route[q].revision
                                                 /\ K.route[q].state = "active"
    BY DEF ContributionsBound
  <2>1. LET c == L.rec[x].from[q] IN
        /\ c.state # "none" => Present(L, x) /\ Configured(L, q)
                               /\ c.revision <= L.route[q].revision
        /\ c.state = "attached" => c.revision = L.route[q].revision
                                   /\ L.route[q].state = "active"
    BY DEF Frame, ContributionsBound
  <2>2. K.rec[x].from[q] = L.rec[x].from[q] \/ K.rec[x].from[q].state = "none"
    OBVIOUS
  <2>3. QED
    BY <1>1, <2>1, <2>2 DEF Configured
<1>3. RoutesBound(K) /\ ReceiptsBound(K) /\ ReceiptsAgree(K)
  BY DEF Frame, RoutesBound, ReceiptsBound, ReceiptsAgree, Configured
<1>4. Owed(K)
  BY <1>1 DEF Owed, OwedEntry, Sendable, Live, Configured
<1>5. QED
  BY <1>2, <1>3, <1>4 DEF Frame, SignedEntry

\* So it is sound again once that record is queued everywhere.
LEMMA RecordQueuedSound ==
  ASSUME NEW L \in LedgerType, NEW K \in LedgerType, NEW d \in Doc, Sound(L),
         K.inbox = L.inbox, K.route = L.route, K.outbox = L.outbox, K.receipts = L.receipts,
         K.history = L.history, K.full = L.full,
         \A x \in Doc : x # d => K.rec[x] = L.rec[x],
         K.rec[d].state # "absent",
         \A q \in Route : \/ K.rec[d].from[q] = L.rec[d].from[q]
                          \/ K.rec[d].from[q].state = "none",
         OwnerCounterAhead(K)
  PROVE  Sound(Queue(K, Route, {d}, FALSE))
<1>1. Frame(K) /\ Owed(K)
  BY RecordSound DEF Sound
<1>2. \A q \in Route, x \in Doc : (q \in Route /\ x \in {d}) \/ SignedEntry(K, q, x)
  BY RecordSound DEF Sound
<1>3. QED
  BY <1>1, <1>2, QueueSound

LEMMA PublishSound ==
  ASSUME NEW L \in LedgerType, NEW d \in Doc, Sound(L) PROVE Sound(Publish(L, d))
<1> DEFINE rec == [Absent EXCEPT !.version = L.next, !.state = "live", !.body = TRUE]
           K == [L EXCEPT !.rec[d] = rec, !.next = L.next + 1]
<1>0. L.next \in Nat
  BY DEF LedgerType
<1>1. rec \in Record /\ L.next \in Nat /\ L.next + 1 \in Nat
  <2>1. rec \in Record
    BY <1>0 DEF Absent, NoContribution, Record, Contribution, States
  <2>2. L.next + 1 \in Nat
    BY <1>0
  <2>3. QED
    BY <1>0, <2>1, <2>2
<1>2. rec.version = L.next /\ rec.state = "live" /\ \A q \in Route : rec.from[q].state = "none"
  BY DEF Absent, NoContribution
<1> HIDE DEF rec
<1>3. K \in LedgerType
  BY <1>1, WithRecord
<1>4. /\ K.inbox = L.inbox /\ K.route = L.route /\ K.outbox = L.outbox
      /\ K.receipts = L.receipts /\ K.history = L.history /\ K.full = L.full
      /\ K.quarantined = L.quarantined /\ K.next = L.next + 1
      /\ K.rec[d] = rec /\ \A x \in Doc : x # d => K.rec[x] = L.rec[x]
  BY DEF LedgerType
<1> HIDE DEF K
<1>5. OwnerCounterAhead(K)
  <2>1. \A x \in Doc : L.rec[x].version \in Nat
    BY DEF LedgerType, Record
  <2>2. QED
    BY <1>1, <1>2, <1>4, <2>1 DEF Sound, OwnerCounterAhead, Present
<1>6. Sound(Queue(K, Route, {d}, FALSE))
  BY <1>2, <1>3, <1>4, <1>5, RecordQueuedSound
<1>7. QED
  BY <1>6 DEF Publish, K, rec

\* Hiding a copy, or losing its body, leaves its state.
LEMMA SameStateSound ==
  ASSUME NEW L \in LedgerType, NEW d \in Doc, NEW rec \in Record, Sound(L),
         rec.version = L.rec[d].version, rec.state = L.rec[d].state,
         rec.from = L.rec[d].from
  PROVE  Sound([L EXCEPT !.rec[d] = rec])
<1> DEFINE K == [L EXCEPT !.rec[d] = rec]
<1>1. /\ K.inbox = L.inbox /\ K.next = L.next /\ K.route = L.route /\ K.outbox = L.outbox
      /\ K.receipts = L.receipts /\ K.history = L.history /\ K.full = L.full
      /\ K.quarantined = L.quarantined
      /\ \A x \in Doc : /\ K.rec[x].version = L.rec[x].version /\ K.rec[x].state = L.rec[x].state
                        /\ K.rec[x].from = L.rec[x].from
  BY DEF LedgerType
<1> HIDE DEF K
<1>2. OwnerCounterAhead(K) /\ Frame(K)
  BY <1>1 DEF Sound, Frame, OwnerCounterAhead, ContributionsBound, RoutesBound, ReceiptsBound,
              ReceiptsAgree, Present, Configured
<1>3. Owed(K) /\ \A q \in Route, x \in Doc : SignedEntry(K, q, x)
  BY <1>1 DEF Sound, Owed, OwedEntry, SignedEntry, Sendable, Live, Configured, Present,
              Fingerprint
<1>4. QED
  BY <1>2, <1>3 DEF Sound, K

LEMMA DeleteSound ==
  ASSUME NEW L \in LedgerType, NEW d \in Doc, Sound(L) PROVE Sound(Delete(L, d))
<1>1. L.rec[d] \in Record /\ L.next \in Nat /\ L.next + 1 \in Nat
  BY DEF LedgerType
<1>2. CASE Origin[d] # L.inbox
  <2> DEFINE rec == [L.rec[d] EXCEPT !.suppressed = TRUE]
  <2>1. rec \in Record /\ rec.version = L.rec[d].version /\ rec.state = L.rec[d].state
        /\ rec.from = L.rec[d].from
    BY <1>1 DEF Record
  <2> HIDE DEF rec
  <2>2. Sound([L EXCEPT !.rec[d] = rec])
    BY <2>1, SameStateSound
  <2>3. QED
    BY <1>2, <2>2 DEF Delete, rec
<1>3. CASE Origin[d] = L.inbox
  <2> DEFINE rec == [L.rec[d] EXCEPT !.version = L.next, !.state = "deleted"]
             K == [L EXCEPT !.rec[d] = rec, !.next = L.next + 1]
  <2>1. rec \in Record /\ rec.version = L.next /\ rec.state = "deleted"
        /\ rec.from = L.rec[d].from
    BY <1>1 DEF Record, States
  <2> HIDE DEF rec
  <2>2. K \in LedgerType
    BY <1>1, <2>1, WithRecord
  <2>3. /\ K.inbox = L.inbox /\ K.route = L.route /\ K.outbox = L.outbox
        /\ K.receipts = L.receipts /\ K.history = L.history /\ K.full = L.full
        /\ K.quarantined = L.quarantined /\ K.next = L.next + 1
        /\ K.rec[d] = rec /\ \A x \in Doc : x # d => K.rec[x] = L.rec[x]
    BY DEF LedgerType
  <2> HIDE DEF K
  <2>4. OwnerCounterAhead(K)
    <3>1. \A x \in Doc : L.rec[x].version \in Nat
      BY DEF LedgerType, Record
    <3>2. QED
      BY <1>1, <2>1, <2>3, <3>1 DEF Sound, OwnerCounterAhead, Present
  <2>5. Sound(Queue(K, Route, {d}, FALSE))
    BY <2>1, <2>2, <2>3, <2>4, RecordQueuedSound
  <2>6. QED
    BY <1>3, <2>5 DEF Delete, K, rec
<1>4. QED
  BY <1>2, <1>3

LEMMA SuppressSound ==
  ASSUME NEW L \in LedgerType, NEW d \in Doc, NEW b \in BOOLEAN, Sound(L)
  PROVE  Sound(Suppress(L, d, b))
<1> DEFINE rec == [L.rec[d] EXCEPT !.suppressed = b]
           K == [L EXCEPT !.rec[d] = rec]
<1>1. L.rec[d] \in Record
  BY DEF LedgerType
<1>2. rec \in Record /\ rec.version = L.rec[d].version /\ rec.state = L.rec[d].state
      /\ rec.from = L.rec[d].from
  BY <1>1 DEF Record
<1>3. K = [L EXCEPT !.rec[d].suppressed = b]
  BY DEF LedgerType
<1> HIDE DEF rec
<1>4. Sound(K) /\ K \in LedgerType
  BY <1>2, SameStateSound, WithRecord
<1> HIDE DEF K
<1>5. Sound(Queue(K, Route, {d}, FALSE))
  BY <1>4, QueueSound DEF Sound
<1>6. QED
  BY <1>3, <1>5 DEF Suppress

\* Routes: configuring and revoking fence what the old revision promised.
LEMMA FencedQueueSound ==
  ASSUME NEW L \in LedgerType, NEW r \in Route, NEW K \in LedgerType, Sound(L),
         K.inbox = L.inbox, K.receipts = L.receipts, K.history = L.history, K.full = L.full,
         K.next = L.next, K.quarantined = L.quarantined,
         K.rec = Detach(L, {r}).rec, K.outbox = Detach(L, {r}).outbox,
         \A q \in Route : q # r => K.route[q] = L.route[q],
         L.inbox \in {Src[r], Dst[r]}, K.route[r].state # "none",
         K.route[r].revision = L.route[r].revision + 1
  PROVE  Sound(QueueAll(K))
<1>1. Frame(L) /\ Owed(L) /\ OwnerCounterAhead(L)
  BY DEF Sound
<1>2. \A q \in Route : \/ K.route[q] = L.route[q] /\ (q \in {r} => ~Configured(L, q))
                       \/ /\ q \in {r} /\ L.inbox \in {Src[q], Dst[q]}
                          /\ K.route[q].state # "none"
                          /\ K.route[q].revision = L.route[q].revision + 1
  OBVIOUS
<1>3. Frame(K) /\ Owed(K)
  BY <1>1, <1>2, DetachSound
<1>4. OwnerCounterAhead(K)
  BY <1>1, DetachFields DEF OwnerCounterAhead, Present
<1>5. QED
  BY <1>3, <1>4, QueueSound DEF QueueAll

LEMMA ConfigureSound ==
  ASSUME NEW L \in LedgerType, NEW r \in Route, NEW state \in RouteStates \ {"none"},
         Sound(L), CanConfigure(L, r)
  PROVE  Sound(Configure(L, r, state))
<1> DEFINE D == Detach(L, {r})
           v == [revision |-> L.route[r].revision + 1, state |-> state]
           K == [D EXCEPT !.route[r] = v]
<1>1. D \in LedgerType
  BY DetachType
<1>2. L.route[r].revision \in Nat
  BY DEF LedgerType
<1>3. L.route[r].revision + 1 \in Nat
  BY <1>2
<1>4. v \in [revision : Nat, state : RouteStates]
  BY <1>3
<1>5. D.route = L.route /\ D.inbox = L.inbox /\ D.receipts = L.receipts /\ D.next = L.next
      /\ D.history = L.history /\ D.full = L.full /\ D.quarantined = L.quarantined
  BY DetachFields
<1> HIDE DEF D
<1>6. /\ K.inbox = D.inbox /\ K.receipts = D.receipts /\ K.history = D.history
      /\ K.full = D.full /\ K.next = D.next /\ K.quarantined = D.quarantined
      /\ K.rec = D.rec /\ K.outbox = D.outbox /\ K.route[r] = v
      /\ \A q \in Route : q # r => K.route[q] = D.route[q]
  BY <1>1 DEF LedgerType
<1>7. K \in LedgerType
  BY <1>1, <1>4, WithRoute
<1>8. v.revision = L.route[r].revision + 1 /\ v.state # "none"
  OBVIOUS
<1> HIDE DEF K, v
<1>9. /\ K.rec = Detach(L, {r}).rec /\ K.outbox = Detach(L, {r}).outbox
      /\ K.inbox = L.inbox /\ K.receipts = L.receipts /\ K.history = L.history
      /\ K.full = L.full /\ K.next = L.next /\ K.quarantined = L.quarantined
      /\ \A q \in Route : q # r => K.route[q] = L.route[q]
  BY <1>5, <1>6 DEF D
<1>10. L.inbox \in {Src[r], Dst[r]} /\ K.route[r].state # "none"
       /\ K.route[r].revision = L.route[r].revision + 1
  BY <1>6, <1>8 DEF CanConfigure
<1>11. Sound(QueueAll(K))
  BY <1>7, <1>9, <1>10, FencedQueueSound
<1>12. QED
  BY <1>11 DEF Configure, K, v, D

LEMMA RevokeSound ==
  ASSUME NEW L \in LedgerType, NEW r \in Route, Sound(L), Configured(L, r)
  PROVE  Sound(Revoke(L, r))
<1> DEFINE K == Fence(L, {r}, "detached")
<1>1. K \in LedgerType
  BY FenceType DEF RouteStates
<1>2. /\ K.inbox = L.inbox /\ K.receipts = L.receipts /\ K.history = L.history
      /\ K.full = L.full /\ K.next = L.next /\ K.quarantined = L.quarantined
      /\ K.rec = Detach(L, {r}).rec /\ K.outbox = Detach(L, {r}).outbox
      /\ K.route[r] = [revision |-> L.route[r].revision + 1, state |-> "detached"]
      /\ \A q \in Route : q # r => K.route[q] = L.route[q]
  BY DEF Fence, Detach, LedgerType
<1>3. L.inbox \in {Src[r], Dst[r]}
  BY DEF Sound, Frame, RoutesBound
<1> HIDE DEF K
<1>4. Sound(QueueAll(K))
  BY <1>1, <1>2, <1>3, FencedQueueSound
<1>5. QED
  BY <1>4 DEF Revoke, K

-----------------------------------------------------------------------------
(* Inventories and activation. *)

\* A route that may already be used becomes active: nothing owed on it changes,
\* and a checkpoint is kept of a configured route only.
LEMMA ActiveSound ==
  ASSUME NEW L \in LedgerType, NEW K, NEW r \in Route, Frame(L), Owed(L), Live(L, r),
         K.inbox = L.inbox, K.rec = L.rec, K.outbox = L.outbox, K.receipts = L.receipts,
         K.next = L.next, K.quarantined = L.quarantined, K.full = L.full,
         K.route[r].state = "active", K.route[r].revision = L.route[r].revision,
         \A q \in Route : q # r => K.route[q] = L.route[q] /\ K.history[q] = L.history[q]
  PROVE  /\ Frame(K) /\ Owed(K) /\ (OwnerCounterAhead(L) => OwnerCounterAhead(K))
         /\ \A q \in Route, d \in Doc : SignedEntry(L, q, d) => SignedEntry(K, q, d)
<1>1. \A q \in Route : /\ K.route[q].revision = L.route[q].revision
                       /\ Configured(K, q) <=> Configured(L, q)
                       /\ Live(K, q) <=> Live(L, q)
                       /\ L.route[q].state = "active" => K.route[q].state = "active"
  BY DEF Configured, Live
<1>2. ContributionsBound(K)
  BY <1>1 DEF Frame, ContributionsBound, Present
<1>3. RoutesBound(K)
  BY <1>1 DEF Frame, RoutesBound
<1>4. ReceiptsBound(K) /\ ReceiptsAgree(K)
  <2>1. Configured(K, r)
    BY <1>1 DEF Live, Configured
  <2>2. \A x \in L.receipts : x.route \in Route
    BY DEF LedgerType, Receipt
  <2>3. QED
    BY <1>1, <2>1, <2>2 DEF Frame, ReceiptsBound, ReceiptsAgree
<1>5. Owed(K)
  BY <1>1 DEF Owed, OwedEntry, Sendable, Present
<1>6. QED
  BY <1>2, <1>3, <1>4, <1>5 DEF Frame, SignedEntry, OwnerCounterAhead, Present

LEMMA CompleteInventorySound ==
  ASSUME NEW L \in LedgerType, NEW r \in Route, NEW cut \in Cut, Sound(L), Live(L, r)
  PROVE  Sound(CompleteInventory(L, r, cut))
<1> DEFINE P == Applied(L, r, DeadPart(cut), FALSE)
           A == Activated(L, r, cut)
           B == Applied(A, r, HeldPart(A, cut), FALSE)
<1>1. P \in LedgerType /\ A \in LedgerType /\ DeadPart(cut) \in Cut
  BY PartTypes, AppliedType, ActivatedType
<1>2. HeldPart(A, cut) \in Cut
  BY PartTypes
<1>3. Configured(L, r)
  BY DEF Live, Configured
<1>4. /\ Frame(P) /\ Owed(P)
      /\ ~Fences(L, r, DeadPart(cut), FALSE) => OwnerCounterAhead(P)
  BY <1>1, <1>3, AppliedSound DEF Sound
<1>5. P.route = L.route
  BY DEF Applied, LedgerType
<1>6. /\ A.inbox = P.inbox /\ A.rec = P.rec /\ A.outbox = P.outbox /\ A.receipts = P.receipts
      /\ A.next = P.next /\ A.quarantined = P.quarantined /\ A.full = P.full
      /\ A.route[r].state = "active" /\ A.route[r].revision = P.route[r].revision
      /\ \A q \in Route : q # r => A.route[q] = P.route[q] /\ A.history[q] = P.history[q]
  <2> DEFINE rt == [P.route EXCEPT ![r].state = "active"]
             hi == [P.history EXCEPT ![r] = [revision |-> L.route[r].revision, cut |-> cut]]
             N == [P EXCEPT !.route = rt, !.history = hi]
  <2>1. A = N
    BY <1>1 DEF Activated, LedgerType
  <2> HIDE DEF P, A
  <2>2. /\ rt[r].state = "active" /\ rt[r].revision = P.route[r].revision
        /\ \A q \in Route : q # r => rt[q] = P.route[q] /\ hi[q] = P.history[q]
    <3>1. P.route \in [Route -> [revision : Nat, state : RouteStates]]
          /\ P.history \in [Route -> Checkpoint]
      BY <1>1 DEF LedgerType
    <3>2. QED
      BY <3>1
  <2> HIDE DEF rt, hi
  <2>3. /\ N.inbox = P.inbox /\ N.rec = P.rec /\ N.outbox = P.outbox /\ N.receipts = P.receipts
        /\ N.next = P.next /\ N.quarantined = P.quarantined /\ N.full = P.full
        /\ N.route = rt /\ N.history = hi
    BY <1>1 DEF LedgerType
  <2> HIDE DEF N
  <2>4. QED
    BY <2>1, <2>2, <2>3
<1> HIDE DEF P, A
<1>7. Live(P, r)
  BY <1>5 DEF Live
<1>8. /\ Frame(A) /\ Owed(A)
      /\ ~Fences(L, r, DeadPart(cut), FALSE) => OwnerCounterAhead(A)
  BY <1>1, <1>4, <1>6, <1>7, ActiveSound
<1>9. Configured(A, r)
  BY <1>6 DEF Configured
<1>10. B \in LedgerType
  BY <1>1, <1>2, AppliedType
<1>11. /\ Frame(B) /\ Owed(B)
       /\ OwnerCounterAhead(A) /\ ~Fences(A, r, HeldPart(A, cut), FALSE) => OwnerCounterAhead(B)
  BY <1>1, <1>2, <1>8, <1>9, AppliedSound
<1> HIDE DEF B
<1>12. Sound(Quarantine(P)) /\ Sound(Quarantine(B))
  BY <1>1, <1>4, <1>10, <1>11, QuarantineSound
<1>13. ASSUME ~Fences(L, r, DeadPart(cut), FALSE), ~Fences(A, r, HeldPart(A, cut), FALSE)
       PROVE  Sound(QueueAll(B))
  BY <1>8, <1>10, <1>11, <1>13, QueueSound DEF QueueAll
<1>14. CompleteInventory(L, r, cut) =
         IF Fences(L, r, DeadPart(cut), FALSE) THEN Quarantine(P)
         ELSE IF Fences(A, r, HeldPart(A, cut), FALSE) THEN Quarantine(B) ELSE QueueAll(B)
  BY DEF CompleteInventory, P, A, B
<1>15. QED
  BY <1>12, <1>13, <1>14

LEMMA CompleteReconciliationSound ==
  ASSUME NEW L \in LedgerType, NEW r \in Route, NEW cut \in Cut, Sound(L), Configured(L, r)
  PROVE  Sound(CompleteReconciliation(L, r, cut))
<1> DEFINE K == CompleteReconciliation(L, r, cut)
<1>1. /\ K.inbox = L.inbox /\ K.next = L.next /\ K.quarantined = L.quarantined
      /\ K.rec = L.rec /\ K.route = L.route /\ K.outbox = L.outbox
      /\ K.receipts = L.receipts /\ K.history = L.history
      /\ \A q \in Route : q # r => K.full[q] = L.full[q]
  BY DEF CompleteReconciliation, LedgerType
<1> HIDE DEF K
<1>2. Frame(K)
  BY <1>1 DEF Sound, Frame, ContributionsBound, RoutesBound, ReceiptsBound, ReceiptsAgree,
              Present, Configured
<1>3. QED
  BY <1>1, <1>2 DEF Sound, OwnerCounterAhead, Owed, OwedEntry, SignedEntry, Sendable, Live,
                    Present, Configured, K

LEMMA ActivateOutboundSound ==
  ASSUME NEW L \in LedgerType, NEW r \in Route, Sound(L), Live(L, r)
  PROVE  Sound(ActivateOutbound(L, r))
<1> DEFINE v == [L.route[r] EXCEPT !.state = "active"]
           K == [L EXCEPT !.route[r] = v]
<1>1. v \in [revision : Nat, state : RouteStates]
      /\ v.state = "active" /\ v.revision = L.route[r].revision
  BY DEF LedgerType, RouteStates
<1>2. K = [L EXCEPT !.route[r].state = "active"]
  BY DEF LedgerType
<1> HIDE DEF v
<1>3. K \in LedgerType
  BY <1>1, WithRoute
<1>4. /\ K.inbox = L.inbox /\ K.rec = L.rec /\ K.outbox = L.outbox /\ K.receipts = L.receipts
      /\ K.next = L.next /\ K.quarantined = L.quarantined /\ K.full = L.full
      /\ K.history = L.history /\ K.route[r] = v
      /\ \A q \in Route : q # r => K.route[q] = L.route[q]
  BY DEF LedgerType
<1> HIDE DEF K
<1>5. /\ Frame(K) /\ Owed(K) /\ OwnerCounterAhead(K)
      /\ \A q \in Route, d \in Doc : SignedEntry(K, q, d)
  BY <1>1, <1>4, ActiveSound DEF Sound
<1>6. Sound(Queue(K, {r}, Doc, FALSE))
  BY <1>3, <1>5, QueueSound
<1>7. QED
  BY <1>2, <1>6 DEF ActivateOutbound

LEMMA ObserveOutboundSound ==
  ASSUME NEW L \in LedgerType, NEW d \in Doc, NEW s \in OriginState, Sound(L),
         s.state # "absent"
  PROVE  Sound(ObserveOutbound(L, d, s))
<1> DEFINE rec == [L.rec[d] EXCEPT !.version = s.version, !.state = s.state]
           A == [L EXCEPT !.rec[d] = rec]
<1>0. L.rec[d] \in Record /\ s.version \in Nat /\ s.state \in States
  BY DEF LedgerType, OriginState
<1>1. rec \in Record /\ rec.version = s.version /\ rec.state = s.state
      /\ rec.from = L.rec[d].from
  BY <1>0 DEF Record
<1>2. ObserveOutbound(L, d, s) =
        IF L.rec[d].state = "deleted" /\ L.rec[d].version >= s.version THEN L
        ELSE IF Origin[d] = L.inbox /\ s.version >= L.next THEN Quarantine(A)
        ELSE Queue(A, Route, {d}, FALSE)
  BY DEF ObserveOutbound, LedgerType
<1> HIDE DEF rec
<1>3. A \in LedgerType
  BY <1>1, WithRecord
<1>4. /\ A.inbox = L.inbox /\ A.route = L.route /\ A.outbox = L.outbox
      /\ A.receipts = L.receipts /\ A.history = L.history /\ A.full = L.full
      /\ A.quarantined = L.quarantined /\ A.next = L.next
      /\ A.rec[d] = rec /\ \A x \in Doc : x # d => A.rec[x] = L.rec[x]
  BY DEF LedgerType
<1> HIDE DEF A
<1>5. Frame(A) /\ Owed(A)
  BY <1>0, <1>1, <1>4, RecordSound DEF Sound, States
<1>6. Sound(Quarantine(A))
  BY <1>3, <1>5, QuarantineSound
<1>7. ASSUME ~(Origin[d] = L.inbox /\ s.version >= L.next)
      PROVE  Sound(Queue(A, Route, {d}, FALSE))
  <2>1. L.next \in Nat
    BY DEF LedgerType
  <2>2. OwnerCounterAhead(A)
    BY <1>0, <1>1, <1>4, <1>7, <2>1 DEF Sound, OwnerCounterAhead, Present
  <2>3. QED
    BY <1>0, <1>1, <1>3, <1>4, <2>2, RecordQueuedSound DEF States
<1>8. QED
  BY <1>2, <1>6, <1>7

-----------------------------------------------------------------------------
(* Obligations. *)

\* A ledger that differs in its obligations only is sound when each of them is
\* the one it was or another one, still owed, about the same state.
LEMMA OutboxSound ==
  ASSUME NEW L \in LedgerType, NEW K, Sound(L),
         K.inbox = L.inbox, K.next = L.next, K.quarantined = L.quarantined, K.rec = L.rec,
         K.route = L.route, K.history = L.history, K.full = L.full,
         \A x \in K.receipts : x \in L.receipts \/ (AgreeingReceipt(x) /\ Configured(L, x.route)),
         \A q \in Route, d \in Doc :
           LET e == L.outbox[q][d]  f == K.outbox[q][d] IN
           /\ f.revision = e.revision /\ f.signed = e.signed
           /\ f.disposition = e.disposition
              \/ {e.disposition, f.disposition} \cap {"none", "retired"} = {}
  PROVE  Sound(K)
<1>1. /\ \A d \in Doc : Present(K, d) <=> Present(L, d)
      /\ \A q \in Route : /\ Configured(K, q) <=> Configured(L, q)
                          /\ Live(K, q) <=> Live(L, q)
  BY DEF Present, Configured, Live
<1>2. OwnerCounterAhead(K) /\ ContributionsBound(K) /\ RoutesBound(K)
  BY <1>1 DEF Sound, Frame, OwnerCounterAhead, ContributionsBound, RoutesBound
<1>3. ReceiptsAgree(K)
  BY DEF Sound, Frame, ReceiptsAgree, AgreeingReceipt
<1>4. ReceiptsBound(K)
  <2>1. \A x \in K.receipts : Configured(L, x.route)
    BY DEF Sound, Frame, ReceiptsBound
  <2>2. \A x \in K.receipts : Configured(K, x.route)
    BY <2>1 DEF Configured
  <2>3. QED
    BY <1>1, <2>2 DEF Sound, Frame, ReceiptsBound
<1>5. ASSUME NEW q \in Route, NEW d \in Doc PROVE OwedEntry(K, q, d) /\ SignedEntry(K, q, d)
  <2>1. OwedEntry(L, q, d) /\ SignedEntry(L, q, d)
    BY DEF Sound, Owed
  <2>2. /\ K.outbox[q][d].revision = L.outbox[q][d].revision
        /\ K.outbox[q][d].signed = L.outbox[q][d].signed
        /\ K.outbox[q][d].disposition = L.outbox[q][d].disposition
           \/ /\ K.outbox[q][d].disposition \notin {"none", "retired"}
              /\ L.outbox[q][d].disposition \notin {"none", "retired"}
    OBVIOUS
  <2>3. QED
    BY <1>1, <2>1, <2>2 DEF OwedEntry, SignedEntry, Sendable
<1>6. QED
  BY <1>2, <1>3, <1>4, <1>5 DEF Sound, Frame, Owed

LEMMA ReconcileHoldingsSound ==
  ASSUME NEW L \in LedgerType, NEW r \in Route, NEW D \in SUBSET Doc,
         NEW holding, NEW incarnation \in Nat, Sound(L)
  PROVE  Sound(ReconcileHoldings(L, r, D, holding, incarnation))
<1> DEFINE missing == {d \in D : Reopens(L, r, d, holding[d], incarnation)}
           Q == Queue(L, {r}, missing, TRUE)
           ob == [d \in Doc |->
                    IF d \in missing /\ Q.outbox[r][d].revision = Q.route[r].revision
                    THEN [Q.outbox[r][d] EXCEPT !.incarnation = incarnation]
                    ELSE Q.outbox[r][d]]
           K == [Q EXCEPT !.outbox[r] = ob]
<1>1. missing \in SUBSET Doc
  OBVIOUS
<1>2. ReconcileHoldings(L, r, D, holding, incarnation) = K
  BY DEF ReconcileHoldings, Queue, LedgerType
<1> HIDE DEF missing
<1>3. Q \in LedgerType
  BY <1>1, QueueType
<1>4. Sound(Q)
  BY <1>1, QueueSound DEF Sound
<1> HIDE DEF Q
<1>5. \A q \in Route, d \in Doc : Q.outbox[q][d] \in Entry
  BY <1>3 DEF LedgerType
<1>6. \A d \in Doc : /\ ob[d].revision = Q.outbox[r][d].revision
                     /\ ob[d].signed = Q.outbox[r][d].signed
                     /\ ob[d].disposition = Q.outbox[r][d].disposition
  BY <1>5 DEF Entry
<1> HIDE DEF ob
<1>7. /\ K.inbox = Q.inbox /\ K.next = Q.next /\ K.quarantined = Q.quarantined
      /\ K.rec = Q.rec /\ K.route = Q.route /\ K.history = Q.history /\ K.full = Q.full
      /\ K.receipts = Q.receipts /\ K.outbox[r] = ob
      /\ \A q \in Route : q # r => K.outbox[q] = Q.outbox[q]
  BY <1>3 DEF LedgerType
<1> HIDE DEF K
<1>8. \A q \in Route, d \in Doc : /\ K.outbox[q][d].revision = Q.outbox[q][d].revision
                                  /\ K.outbox[q][d].signed = Q.outbox[q][d].signed
                                  /\ K.outbox[q][d].disposition = Q.outbox[q][d].disposition
  BY <1>6, <1>7
<1>9. Sound(K)
  BY <1>3, <1>4, <1>7, <1>8, OutboxSound
<1>10. QED
  BY <1>2, <1>9

\* One obligation rewritten, and the receipts of R stored.
LEMMA EntrySound ==
  ASSUME NEW L \in LedgerType, NEW R, NEW r \in Route, NEW d \in Doc, NEW e, Sound(L),
         \A x \in R : x \in L.receipts \/ (AgreeingReceipt(x) /\ Configured(L, x.route)),
         e.revision = L.outbox[r][d].revision, e.signed = L.outbox[r][d].signed,
         \/ e.disposition = L.outbox[r][d].disposition
         \/ {e.disposition, L.outbox[r][d].disposition} \cap {"none", "retired"} = {}
  PROVE  Sound([L EXCEPT !.receipts = R, !.outbox[r][d] = e])
<1> DEFINE K == [L EXCEPT !.receipts = R, !.outbox[r][d] = e]
<1>1. /\ K.inbox = L.inbox /\ K.next = L.next /\ K.quarantined = L.quarantined
      /\ K.rec = L.rec /\ K.route = L.route /\ K.history = L.history /\ K.full = L.full
      /\ K.receipts = R /\ K.outbox[r][d] = e
      /\ \A q \in Route, x \in Doc : q # r \/ x # d => K.outbox[q][x] = L.outbox[q][x]
  BY DEF LedgerType
<1> HIDE DEF K
<1>2. \A q \in Route, x \in Doc :
        \/ K.outbox[q][x] = L.outbox[q][x]
        \/ q = r /\ x = d
  BY <1>1
<1>3. Sound(K)
  BY <1>1, <1>2, OutboxSound
<1>4. QED
  BY <1>3 DEF K

\* A receipt confirms an obligation that is still owed.
LEMMA ReceiptSound ==
  ASSUME NEW L \in LedgerType, NEW r \in Route, NEW x \in Receipt, Sound(L),
         AgreeingReceipt(x), CanAcknowledge(L, r, x), Sendable(L, r, x.doc)
  PROVE  Sound(StoreReceipt(L, x)) /\ Sound(Acknowledge(L, x))
<1> DEFINE o == L.outbox[r][x.doc]
           R == L.receipts \cup NewReceipts(L.receipts, x)
           e == [o EXCEPT !.incarnation = x.incarnation]
           f == [e EXCEPT !.disposition = "confirmed", !.outcome = x.disposition,
                          !.history = FALSE]
<1>1. x.doc \in Doc /\ x.route = r /\ o \in Entry
  BY DEF Receipt, LedgerType, CanAcknowledge
<1>2. CurrentEntry(L, r, x.doc).disposition # "none"
  BY DEF CanAcknowledge
<1>3. o.disposition # "none" /\ o.revision = L.route[r].revision
  BY <1>2 DEF CurrentEntry, NoEntry
<1>4. o.disposition # "retired"
  BY <1>1, <1>3 DEF Sound, Owed, OwedEntry
<1>5. Configured(L, r)
  BY DEF Sendable, Live, Configured
<1>6. \A y \in R : y \in L.receipts \/ (AgreeingReceipt(y) /\ Configured(L, y.route))
  <2>1. L.receipts \in SUBSET Receipt
    BY DEF LedgerType
  <2>2. \A y \in NewReceipts(L.receipts, x) : AgreeingReceipt(y) /\ y.route = x.route
    BY <2>1, NewReceiptsAgree
  <2>3. QED
    BY <1>1, <1>5, <2>2
<1>7. /\ e.revision = o.revision /\ e.signed = o.signed /\ e.disposition = o.disposition
      /\ f.revision = o.revision /\ f.signed = o.signed /\ f.disposition = "confirmed"
  BY <1>1 DEF Entry
<1>8. StoreReceipt(L, x) = [L EXCEPT !.receipts = R, !.outbox[r][x.doc] = e]
  BY <1>1 DEF StoreReceipt, LedgerType
<1>9. Acknowledge(L, x) = [L EXCEPT !.receipts = R, !.outbox[r][x.doc] = f]
  <2> DEFINE N == [L EXCEPT !.receipts = R, !.outbox[r][x.doc] = e]
  <2> HIDE DEF e, R
  <2>1. N.outbox[r][x.doc] = e
    BY <1>1 DEF LedgerType
  <2>2. Acknowledge(L, x) = [N EXCEPT !.outbox[r][x.doc] = f]
    BY <1>1, <1>8, <2>1 DEF Acknowledge
  <2> HIDE DEF f
  <2>3. [N EXCEPT !.outbox[r][x.doc] = f] = [L EXCEPT !.receipts = R, !.outbox[r][x.doc] = f]
    BY <1>1 DEF LedgerType
  <2>4. QED
    BY <2>2, <2>3
<1> HIDE DEF e, f, R
<1>10. Sound([L EXCEPT !.receipts = R, !.outbox[r][x.doc] = e])
  BY <1>1, <1>6, <1>7, EntrySound
<1>11. Sound([L EXCEPT !.receipts = R, !.outbox[r][x.doc] = f])
  <2>1. {f.disposition, o.disposition} \cap {"none", "retired"} = {}
    BY <1>3, <1>4, <1>7
  <2>2. QED
    BY <1>1, <1>6, <1>7, <2>1, EntrySound
<1>12. QED
  BY <1>8, <1>9, <1>10, <1>11

LEMMA UpdateAttemptSound ==
  ASSUME NEW L \in LedgerType, NEW r \in Route, NEW d \in Doc, NEW blocked \in BOOLEAN,
         Sound(L), CanUpdateAttempt(L, r, d)
  PROVE  Sound(UpdateAttempt(L, r, d, blocked))
<1> DEFINE o == L.outbox[r][d]
           e == [o EXCEPT !.disposition = IF blocked THEN "blocked" ELSE "pending",
                          !.history = FALSE]
<1>1. o \in Entry /\ o.disposition \in {"pending", "blocked"}
  BY DEF LedgerType, CanUpdateAttempt, CurrentEntry, NoEntry
<1>2. e.revision = o.revision /\ e.signed = o.signed /\ e.disposition \in {"pending", "blocked"}
  BY <1>1 DEF Entry
<1>3. UpdateAttempt(L, r, d, blocked) = [L EXCEPT !.receipts = L.receipts, !.outbox[r][d] = e]
  BY DEF UpdateAttempt, LedgerType
<1> HIDE DEF e
<1>4. Sound([L EXCEPT !.receipts = L.receipts, !.outbox[r][d] = e])
  BY <1>1, <1>2, EntrySound
<1>5. QED
  BY <1>3, <1>4

LEMMA RetrySound ==
  ASSUME NEW L \in LedgerType, NEW r \in Route, Sound(L) PROVE Sound(Retry(L, r))
<1> DEFINE ob == [d \in Doc |->
                    IF CurrentEntry(L, r, d).disposition \in {"pending", "blocked"}
                    THEN [L.outbox[r][d] EXCEPT !.disposition = "pending", !.history = FALSE]
                    ELSE L.outbox[r][d]]
           K == [L EXCEPT !.outbox[r] = ob]
<1>1. ASSUME NEW d \in Doc
      PROVE  /\ ob[d] \in Entry
             /\ ob[d].revision = L.outbox[r][d].revision
             /\ ob[d].signed = L.outbox[r][d].signed
             /\ \/ ob[d].disposition = L.outbox[r][d].disposition
                \/ {ob[d].disposition, L.outbox[r][d].disposition} \cap {"none", "retired"} = {}
  <2> DEFINE o == L.outbox[r][d]
             e == [o EXCEPT !.disposition = "pending", !.history = FALSE]
  <2>1. o \in Entry
    BY DEF LedgerType
  <2>2. e \in Entry /\ e.revision = o.revision /\ e.signed = o.signed /\ e.disposition = "pending"
    BY <2>1 DEF Entry, Dispositions
  <2>3. CurrentEntry(L, r, d).disposition \in {"pending", "blocked"} =>
          o.disposition \in {"pending", "blocked"}
    BY DEF CurrentEntry, NoEntry
  <2>4. ob[d] = IF CurrentEntry(L, r, d).disposition \in {"pending", "blocked"} THEN e ELSE o
    OBVIOUS
  <2> HIDE DEF e, o, ob
  <2>5. QED
    BY <2>1, <2>2, <2>3, <2>4 DEF o
<1>2. ob \in [Doc -> Entry]
  BY <1>1
<1>3. Retry(L, r) = Queue(K, {r}, Doc, FALSE)
  BY DEF Retry
<1> HIDE DEF ob
<1>4. K \in LedgerType
  BY <1>2 DEF LedgerType
<1>5. /\ K.inbox = L.inbox /\ K.next = L.next /\ K.quarantined = L.quarantined
      /\ K.rec = L.rec /\ K.route = L.route /\ K.history = L.history /\ K.full = L.full
      /\ K.receipts = L.receipts /\ K.outbox[r] = ob
      /\ \A q \in Route : q # r => K.outbox[q] = L.outbox[q]
  BY DEF LedgerType
<1> HIDE DEF K
<1>6. ASSUME NEW q \in Route, NEW d \in Doc
      PROVE  LET e == L.outbox[q][d]  f == K.outbox[q][d] IN
             /\ f.revision = e.revision /\ f.signed = e.signed
             /\ f.disposition = e.disposition
                \/ {e.disposition, f.disposition} \cap {"none", "retired"} = {}
  BY <1>1, <1>5
<1>7. Sound(K)
  BY <1>5, <1>6, OutboxSound
<1>8. Sound(Queue(K, {r}, Doc, FALSE))
  BY <1>4, <1>7, QueueSound DEF Sound
<1>9. QED
  BY <1>3, <1>8

-----------------------------------------------------------------------------
(* Identities. *)

LEMMA QuarantineRestoreSound ==
  ASSUME NEW L \in LedgerType, Sound(L) PROVE Sound(QuarantineRestore(L))
<1> DEFINE Q == Quarantine(L)
           K == QuarantineRestore(L)
<1>1. Q \in LedgerType
  BY QuarantineType
<1>2. Sound(Q)
  BY QuarantineSound DEF Sound
<1>3. /\ K.inbox = Q.inbox /\ K.next = Q.next /\ K.quarantined = Q.quarantined
      /\ K.rec = Q.rec /\ K.route = Q.route /\ K.outbox = Q.outbox
      /\ K.receipts = {}
      /\ K.history = [r \in Route |-> NoCheckpoint]
      /\ K.full = [r \in Route |-> NoCheckpoint]
  BY <1>1 DEF QuarantineRestore, LedgerType
<1> HIDE DEF K, Q
<1>4. Frame(K)
  BY <1>2, <1>3 DEF Sound, Frame, ContributionsBound, RoutesBound, ReceiptsBound, ReceiptsAgree,
                    Present, Configured, NoCheckpoint
<1>5. QED
  BY <1>2, <1>3, <1>4 DEF Sound, OwnerCounterAhead, Owed, OwedEntry, SignedEntry, Sendable, Live,
                          Present, Configured, K

LEMMA ForkSound ==
  ASSUME NEW L \in LedgerType, NEW i \in Inbox,
         \A d \in Doc : Present(L, d) => Origin[d] # i
  PROVE  Sound(Fork(L, i))
<1> DEFINE K == Fork(L, i)
<1>1. /\ K.inbox = i /\ K.receipts = {}
      /\ K.route = [r \in Route |-> [revision |-> 0, state |-> "none"]]
      /\ K.outbox = [r \in Route |-> [d \in Doc |-> NoEntry]]
      /\ K.history = [r \in Route |-> NoCheckpoint]
      /\ K.full = [r \in Route |-> NoCheckpoint]
  BY DEF Fork, NewLedger
<1>2. ASSUME NEW d \in Doc
      PROVE  K.rec[d].state = L.rec[d].state /\ K.rec[d].from = Absent.from
  <2>1. L.rec[d] \in Record
    BY DEF LedgerType
  <2>2. QED
    BY <2>1 DEF Fork, NewLedger, Record
<1> HIDE DEF K
<1>3. \A d \in Doc, r \in Route : K.rec[d].from[r].state = "none"
  BY <1>2 DEF Absent, NoContribution
<1>4. OwnerCounterAhead(K)
  BY <1>1, <1>2 DEF OwnerCounterAhead, Present
<1>5. Frame(K)
  BY <1>1, <1>3 DEF Frame, ContributionsBound, RoutesBound, ReceiptsBound, ReceiptsAgree,
                    Configured, NoCheckpoint
<1>6. QED
  BY <1>1, <1>4, <1>5 DEF Sound, Owed, OwedEntry, SignedEntry, NoEntry, K
=============================================================================
