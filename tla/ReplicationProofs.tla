------------------------- MODULE ReplicationProofs -------------------------
(***************************************************************************)
(* Theorems about the machine of Replication, for any homes, documents,    *)
(* routes and bounds.  The steps of a home are the operators of SyncLedger *)
(* applied to its ledger, so each action is one case that cites the lemma  *)
(* about its operator.                                                     *)
(***************************************************************************)
EXTENDS ReplicationProperties, SyncLedgerDelivery

-----------------------------------------------------------------------------
(* Messages. *)

LEMMA StateMsgType ==
  ASSUME NEW kind \in {"offer", "wanted", "body"}, NEW mode \in Modes, NEW r \in Route,
         NEW revision \in Nat, NEW d \in Doc, NEW s \in OriginState
  PROVE  StateMsg(kind, mode, r, revision, d, s) \in Message
BY DEF StateMsg, StateMessage, Message

LEMMA CutMsgType ==
  ASSUME NEW kind \in {"manifest", "ready", "active"}, NEW mode \in Modes, NEW r \in Route,
         NEW revision \in Nat, NEW cut \in Cut
  PROVE  CutMsg(kind, mode, r, revision, cut) \in Message
BY DEF CutMsg, CutMessage, Message

LEMMA ReceiptMsgType ==
  ASSUME NEW r \in Route, NEW revision \in Nat, NEW s \in OriginState, NEW x \in Receipt
  PROVE  ReceiptMsg(r, revision, s, x) \in Message
BY DEF ReceiptMsg, ReceiptMessage, Message

\* The kind of a message tells its fields.
LEMMA MessageKinds ==
  ASSUME NEW m \in Message
  PROVE  /\ m.kind \in {"offer", "wanted", "body"} => m \in StateMessage
         /\ m.kind \in {"manifest", "ready", "active"} => m \in CutMessage
         /\ m.kind = "receipt" => m \in ReceiptMessage
         /\ m.kind = "query" => m \in QueryMessage
         /\ m.kind = "holdings" => m \in HoldingsMessage
BY DEF Message, StateMessage, CutMessage, ReceiptMessage, QueryMessage, HoldingsMessage

-----------------------------------------------------------------------------
(* Type correctness. *)

\* A home that commits a ledger leaves every home with one.
LEMMA CommitType ==
  ASSUME ledger \in [Home -> LedgerType], NEW h \in Home, NEW L \in LedgerType, Commit(h, L)
  PROVE  ledger' \in [Home -> LedgerType]
BY DEF Commit

LEMMA InitType == Init => TypeOK
<1> SUFFICES ASSUME Init PROVE TypeOK
  OBVIOUS
<1>1. \A h \in Home : NewLedger(InboxOf[h]) \in LedgerType
  BY ReplicationAssumption, NewLedgerType
<1>2. QED
  BY <1>1 DEF Init, TypeOK

\* What users, operators and faults do.
LEMMA UsersType ==
  ASSUME TypeOK, NEW h \in Home, Users(h) PROVE TypeOK'
<1> USE DEF TypeOK
<1>0. ledger[h] \in LedgerType
  OBVIOUS
<1>1. ASSUME NEW d \in Doc, PublishDocument(h, d) PROVE TypeOK'
  BY <1>0, <1>1, PublishType, CommitType DEF PublishDocument
<1>2. ASSUME NEW d \in Doc, DeleteDocument(h, d) PROVE TypeOK'
  BY <1>0, <1>2, DeleteType, CommitType DEF DeleteDocument
<1>3. ASSUME NEW d \in Doc, LoseBody(h, d) PROVE TypeOK'
  <2>1. ledger[h].rec[d] \in Record
    BY <1>0 DEF LedgerType
  <2>2. [ledger[h].rec[d] EXCEPT !.body = FALSE] \in Record
    BY <2>1 DEF Record
  <2>3. [ledger[h] EXCEPT !.rec[d].body = FALSE] \in LedgerType
    BY <1>0, <2>2, WithRecord
  <2>4. QED
    BY <1>3, <2>3, CommitType DEF LoseBody
<1>4. ASSUME NEW d \in Doc, NEW b \in BOOLEAN, SetSuppressed(h, d, b) PROVE TypeOK'
  BY <1>0, <1>4, SuppressType, CommitType DEF SetSuppressed
<1>5. ASSUME NEW r \in Route, NEW state \in {"reconnecting", "detached"},
             ConfigureRoute(h, r, state)
      PROVE  TypeOK'
  BY <1>0, <1>5, ConfigureType, CommitType DEF ConfigureRoute, RouteStates
<1>6. ASSUME NEW r \in Route, RevokeRoute(h, r) PROVE TypeOK'
  BY <1>0, <1>6, RevokeType, CommitType DEF RevokeRoute
<1>7. ASSUME NEW r \in Route, RetryRoute(h, r) PROVE TypeOK'
  BY <1>0, <1>7, RetryType, CommitType DEF RetryRoute
<1>8. ASSUME NEW r \in Route, NEW d \in Doc, NEW b \in BOOLEAN, FailAttempt(h, r, d, b)
      PROVE  TypeOK'
  BY <1>0, <1>8, UpdateAttemptType, CommitType DEF FailAttempt
<1>9. ASSUME AuditConflict(h) PROVE TypeOK'
  BY <1>0, <1>9, QuarantineType, CommitType DEF AuditConflict
<1>10. ASSUME QuarantineRestored(h) PROVE TypeOK'
  BY <1>0, <1>10, QuarantineRestoreType, CommitType DEF QuarantineRestored
<1>11. ASSUME NEW i \in Inbox, ForkIdentity(h, i) PROVE TypeOK'
  BY <1>0, <1>11, ForkType, CommitType DEF ForkIdentity
<1>12. QED
  BY <1>1, <1>2, <1>3, <1>4, <1>5, <1>6, <1>7, <1>8, <1>9, <1>10, <1>11 DEF Users

\* What a sender puts on the wire.
LEMMA SendsType ==
  ASSUME TypeOK, NEW h \in Home, Sends(h) PROVE TypeOK'
<1> USE DEF TypeOK
<1>0. ledger[h] \in LedgerType
  OBVIOUS
<1>1. \A r \in Route : Rev(h, r) \in Nat
  BY <1>0 DEF Rev, LedgerType
<1>2. \A d \in Doc : Fingerprint(ledger[h].rec[d]) \in OriginState
  BY <1>0, FingerprintType DEF LedgerType
<1>3. ASSUME NEW m \in Message, Request(m), UNCHANGED ledger PROVE TypeOK'
  BY <1>3 DEF Request
<1>4. ASSUME NEW r \in Route, NEW d \in Doc, OfferTerminal(h, r, d) \/ OfferState(h, r, d)
      PROVE  TypeOK'
  <2>1. StateMsg("offer", "push", r, Rev(h, r), d, Fingerprint(ledger[h].rec[d])) \in Message
    BY <1>1, <1>2, StateMsgType DEF Modes
  <2>2. QED
    BY <1>3, <1>4, <2>1 DEF OfferTerminal, OfferState
<1>5. ASSUME NEW r \in Route, NEW mode \in Modes, SendManifest(h, r, mode) PROVE TypeOK'
  <2>1. CutMsg("manifest", mode, r, Rev(h, r), InventoryCut(ledger[h], r)) \in Message
    BY <1>0, <1>1, InventoryCutType, CutMsgType
  <2>2. QED
    BY <1>3, <1>5, <2>1 DEF SendManifest
<1>6. ASSUME NEW r \in Route, QueryHoldings(h, r) PROVE TypeOK'
  <2>1. [kind |-> "query", route |-> r, revision |-> Rev(h, r),
         cut |-> InventoryCut(ledger[h], r)] \in Message
    BY <1>0, <1>1, InventoryCutType DEF Message, QueryMessage
  <2>2. QED
    BY <1>3, <1>6, <2>1 DEF QueryHoldings
<1>7. QED
  BY <1>4, <1>5, <1>6 DEF Sends

\* Replying, or ending a pass, leaves messages on the wire.
LEMMA WireType ==
  ASSUME wire \subseteq Message, NEW m, NEW reply \in Message, Reply(m, reply) \/ Done(m)
  PROVE  (wire \subseteq Message)'
BY DEF Reply, Done

LEMMA AnswerType ==
  ASSUME TypeOK, NEW h \in Home, NEW m \in StateMessage, m \in Message,
         NEW staged \in BOOLEAN, Answer(h, m, staged)
  PROVE  TypeOK'
<1>1. /\ m.route \in Route /\ m.revision \in Nat /\ m.doc \in Doc /\ m.signed \in OriginState
      /\ m.mode \in Modes
  BY DEF StateMessage
<1>2. ledger[h] \in LedgerType
  BY DEF TypeOK
<1>3. Apply(ledger[h], m.route, m.doc, m.signed, staged) \in LedgerType
  BY <1>1, <1>2, ApplyType
<1>4. (ledger \in [Home -> LedgerType])'
  BY <1>3, CommitType DEF Answer, TypeOK
<1>5. [m EXCEPT !.kind = "wanted"] \in Message
  BY DEF StateMessage, Message
<1>6. ReceiptMsg(m.route, m.revision, m.signed,
        ReceiptOf(ledger[h], m.route, m.doc, m.signed, staged)) \in Message
  BY <1>1, <1>2, ReceiptOfType, ReceiptMsgType
<1>7. (wire \subseteq Message)'
  BY <1>5, <1>6, WireType DEF Answer, TypeOK
<1>8. QED
  BY <1>4, <1>7 DEF TypeOK

\* What is answered to a query describes the ledger.
LEMMA HoldingsType ==
  ASSUME NEW L \in LedgerType, NEW m \in QueryMessage
  PROVE  [kind |-> "holdings", route |-> m.route, revision |-> m.revision,
          cut |-> m.cut, holding |-> [d \in Doc |-> HoldingOf(L.rec[d])],
          receipts |-> UNION {Custody(L, m.route, d) : d \in {x \in Doc : m.cut[x].state # "absent"}},
          incarnation |-> L.incarnation,
          left |-> {d \in {x \in Doc : m.cut[x].state # "absent"} :
                      /\ L.rec[d].state = "deleted"
                      /\ Fingerprint(L.rec[d]) # m.cut[d]}] \in Message
<1>1. /\ m.route \in Route /\ m.revision \in Nat /\ m.cut \in Cut
  BY DEF QueryMessage
<1>2. ASSUME NEW d \in Doc PROVE HoldingOf(L.rec[d]) \in Holding
  <2>1. L.rec[d] \in Record
    BY DEF LedgerType
  <2>2. Fingerprint(L.rec[d]) \in OriginState
    BY <2>1, FingerprintType
  <2>3. Available(L.rec[d]) \in BOOLEAN
    BY <2>1 DEF Available, Record
  <2>4. L.rec[d].suppressed \in BOOLEAN
    BY <2>1 DEF Record
  <2>5. QED
    BY <2>2, <2>3, <2>4 DEF HoldingOf, Holding
<1>3. UNION {Custody(L, m.route, d) : d \in {x \in Doc : m.cut[x].state # "absent"}}
        \subseteq Receipt
  BY DEF Custody, LedgerType
<1>4. L.incarnation \in Nat
  BY DEF LedgerType
<1>5. QED
  BY <1>1, <1>2, <1>3, <1>4 DEF HoldingsMessage, Message

\* What an end does with the message it is sent.
LEMMA HandlesType ==
  ASSUME TypeOK, NEW h \in Home, NEW m \in wire, Handles(h, m) PROVE TypeOK'
<1>1. ledger[h] \in LedgerType /\ m \in Message
  BY DEF TypeOK
<1>2. ASSUME SendBody(h, m) PROVE TypeOK'
  <2>1. [m EXCEPT !.kind = "body"] \in Message
    BY <1>1, <1>2, MessageKinds DEF SendBody, StateMessage, Message
  <2>2. QED
    BY <1>2, <2>1, WireType DEF SendBody, TypeOK
<1>3. ASSUME ActivateRoute(h, m) PROVE TypeOK'
  <2>1. m \in CutMessage
    BY <1>1, <1>3, MessageKinds DEF ActivateRoute
  <2>2. ActivateOutbound(ledger[h], m.route) \in LedgerType
    BY <1>1, <2>1, ActivateOutboundType DEF CutMessage
  <2>3. [m EXCEPT !.kind = "active"] \in Message
    BY <2>1 DEF CutMessage, Message
  <2>4. QED
    BY <1>3, <2>2, <2>3, CommitType, WireType DEF ActivateRoute, TypeOK
<1>4. ASSUME AcknowledgeReceipt(h, m) PROVE TypeOK'
  <2>1. m \in ReceiptMessage
    BY <1>1, <1>4, MessageKinds DEF AcknowledgeReceipt, Receive
  <2>2. Acknowledge(ledger[h], m.receipt) \in LedgerType
    BY <1>1, <2>1, AcknowledgeType DEF ReceiptMessage
  <2>3. QED
    BY <1>1, <1>4, <2>2, CommitType, WireType DEF AcknowledgeReceipt, TypeOK
<1>5. ASSUME CrashAfterReceipt(h, m) PROVE TypeOK'
  <2>1. m \in ReceiptMessage
    BY <1>1, <1>5, MessageKinds DEF CrashAfterReceipt, Receive
  <2>2. StoreReceipt(ledger[h], m.receipt) \in LedgerType
    BY <1>1, <2>1, StoreReceiptType DEF ReceiptMessage
  <2>3. QED
    BY <1>1, <1>5, <2>2, CommitType, WireType DEF CrashAfterReceipt, TypeOK
<1>6. ASSUME ObserveReceipt(h, m) PROVE TypeOK'
  <2>1. m \in ReceiptMessage
    BY <1>1, <1>6, MessageKinds DEF ObserveReceipt
  <2>2. ObserveOutbound(ledger[h], m.receipt.doc, m.receipt.signed) \in LedgerType
    BY <1>1, <2>1, ObserveOutboundType DEF ReceiptMessage, Receipt
  <2>3. QED
    BY <1>1, <1>6, <2>2, CommitType, WireType DEF ObserveReceipt, TypeOK
<1>7. ASSUME NEW d \in Doc, ObserveHolding(h, m, d) PROVE TypeOK'
  <2>1. m \in HoldingsMessage
    BY <1>1, <1>7, MessageKinds DEF ObserveHolding
  <2>2. ObserveOutbound(ledger[h], d, m.holding[d].signed) \in LedgerType
    BY <1>1, <2>1, ObserveOutboundType DEF HoldingsMessage, Holding
  <2>3. [m EXCEPT !.left = @ \ {d}] \in Message
    BY <2>1 DEF HoldingsMessage, Message
  <2>4. QED
    BY <1>7, <2>2, <2>3, CommitType, WireType DEF ObserveHolding, TypeOK
<1>8. ASSUME ReconcileHeld(h, m) PROVE TypeOK'
  <2> DEFINE asked == {d \in Doc : m.cut[d].state # "absent"}
  <2>1. m \in HoldingsMessage
    BY <1>1, <1>8, MessageKinds DEF ReconcileHeld
  <2>2. ReconcileHoldings(ledger[h], m.route, asked, m.holding, m.incarnation) \in LedgerType
    BY <1>1, <2>1, ReconcileHoldingsType DEF HoldingsMessage
  <2>3. \A x \in CustodyOf(m) : ReceiptMsg(m.route, m.revision, x.signed, x) \in Message
    BY <2>1, ReceiptMsgType DEF CustodyOf, HoldingsMessage, Receipt
  <2>4. QED
    BY <1>8, <2>2, <2>3, CommitType DEF ReconcileHeld, TypeOK
<1>9. ASSUME ReceiveOffer(h, m) \/ ReceiveBody(h, m) PROVE TypeOK'
  <2>1. m \in StateMessage
    BY <1>1, <1>9, MessageKinds DEF ReceiveOffer, ReceiveBody
  <2>2. QED
    BY <1>1, <1>9, <2>1, AnswerType DEF ReceiveOffer, ReceiveBody
<1>10. ASSUME NEW d \in Doc, ApplyPageTerminal(h, m, d) PROVE TypeOK'
  <2>1. m \in CutMessage
    BY <1>1, <1>10, MessageKinds DEF ApplyPageTerminal
  <2>2. Apply(ledger[h], m.route, d, m.cut[d], FALSE) \in LedgerType
    BY <1>1, <2>1, ApplyType DEF CutMessage, Cut
  <2>3. QED
    BY <1>10, <2>2, CommitType DEF ApplyPageTerminal, TypeOK
<1>11. ASSUME FinishInventory(h, m) PROVE TypeOK'
  <2>1. m \in CutMessage
    BY <1>1, <1>11, MessageKinds DEF FinishInventory
  <2>2. CompleteInventory(ledger[h], m.route, m.cut) \in LedgerType
    BY <1>1, <2>1, CompleteInventoryType DEF CutMessage
  <2>3. [m EXCEPT !.kind = "ready"] \in Message
    BY <2>1 DEF CutMessage, Message
  <2>4. QED
    BY <1>11, <2>2, <2>3, CommitType, WireType DEF FinishInventory, TypeOK
<1>12. ASSUME NEW d \in Doc, PullDocument(h, m, d) PROVE TypeOK'
  <2>1. m \in CutMessage
    BY <1>1, <1>12, MessageKinds DEF PullDocument
  <2>2. Apply(ledger[h], m.route, d, m.cut[d], FALSE) \in LedgerType
    BY <1>1, <2>1, ApplyType DEF CutMessage, Cut
  <2>3. StateMsg("wanted", "pull", m.route, m.revision, d, m.cut[d]) \in Message
    BY <2>1, StateMsgType DEF CutMessage, Cut, Modes
  <2>4. QED
    BY <1>12, <2>2, <2>3, CommitType DEF PullDocument, TypeOK
<1>13. ASSUME FinishReconciliation(h, m) PROVE TypeOK'
  <2>1. m \in CutMessage
    BY <1>1, <1>13, MessageKinds DEF FinishReconciliation
  <2>2. CompleteReconciliation(ledger[h], m.route, m.cut) \in LedgerType
    BY <1>1, <2>1, CompleteReconciliationType DEF CutMessage
  <2>3. QED
    BY <1>1, <1>13, <2>2, CommitType, WireType DEF FinishReconciliation, TypeOK
<1>14. ASSUME AnswerQuery(h, m) PROVE TypeOK'
  <2>1. m \in QueryMessage
    BY <1>1, <1>14, MessageKinds DEF AnswerQuery
  <2>2. QED
    BY <1>1, <1>14, <2>1, HoldingsType, WireType DEF AnswerQuery, TypeOK
<1>15. QED
  BY <1>2, <1>3, <1>4, <1>5, <1>6, <1>7, <1>8, <1>9, <1>10, <1>11, <1>12, <1>13, <1>14
     DEF Handles

\* Every step keeps the types.
LEMMA StepType == TypeOK /\ [Next]_vars => TypeOK'
<1> SUFFICES ASSUME TypeOK, [Next]_vars PROVE TypeOK'
  OBVIOUS
<1>1. ASSUME NEW m \in wire, Lose(m) PROVE TypeOK'
  BY <1>1 DEF Lose, Done, TypeOK
<1>2. CASE UNCHANGED vars
  BY <1>2 DEF vars, TypeOK
<1>3. QED
  BY <1>1, <1>2, UsersType, SendsType, HandlesType DEF Next

\* Type correctness: whatever the topology and the bounds, the ledgers and the
\* messages the stores produce keep their shape.
THEOREM TypeCorrect == Spec => []TypeOK
BY InitType, StepType, PTL DEF Spec

-----------------------------------------------------------------------------
(* Tombstones. *)

\* Every ledger a step leaves follows the one it found.
TombstoneStep == \A h \in Home : TombstonesKept(ledger[h], ledger'[h])

LEMMA CommitKept ==
  ASSUME TypeOK, NEW h \in Home, NEW L, TombstonesKept(ledger[h], L), Commit(h, L)
  PROVE  TombstoneStep
<1>1. \A g \in Home : TombstonesKept(ledger[g], ledger[g])
  BY KeptSameRecords DEF TypeOK
<1>2. QED
  BY <1>1 DEF Commit, TombstoneStep, TypeOK

LEMMA IdleKept == TypeOK /\ UNCHANGED ledger => TombstoneStep
BY KeptSameRecords DEF TypeOK, TombstoneStep

LEMMA UsersKept ==
  ASSUME TypeOK, NEW h \in Home, Users(h) PROVE TombstoneStep
<1>0. ledger[h] \in LedgerType
  BY DEF TypeOK
<1>1. ASSUME NEW d \in Doc, PublishDocument(h, d) PROVE TombstoneStep
  BY <1>0, <1>1, PublishKept, CommitKept DEF PublishDocument, CanPublish
<1>2. ASSUME NEW d \in Doc, DeleteDocument(h, d) PROVE TombstoneStep
  BY <1>0, <1>2, DeleteKept, CommitKept DEF DeleteDocument, CanDelete
<1>3. ASSUME NEW d \in Doc, LoseBody(h, d) PROVE TombstoneStep
  <2> DEFINE L == [ledger[h] EXCEPT !.rec[d].body = FALSE]
  <2>1. \A x \in Doc : /\ L.rec[x].state = ledger[h].rec[x].state
                       /\ L.rec[x].version = ledger[h].rec[x].version
    BY <1>0 DEF LedgerType, Record
  <2> HIDE DEF L
  <2>2. TombstonesKept(ledger[h], L)
    BY <1>0, <2>1, SameStatesKept
  <2>3. QED
    BY <1>3, <2>2, CommitKept DEF LoseBody, L
<1>4. ASSUME NEW d \in Doc, NEW b \in BOOLEAN, SetSuppressed(h, d, b) PROVE TombstoneStep
  BY <1>0, <1>4, SuppressKept, CommitKept DEF SetSuppressed
<1>5. ASSUME NEW r \in Route, NEW state \in {"reconnecting", "detached"},
             ConfigureRoute(h, r, state)
      PROVE  TombstoneStep
  BY <1>0, <1>5, ConfigureKept, CommitKept DEF ConfigureRoute, RouteStates
<1>6. ASSUME NEW r \in Route, RevokeRoute(h, r) PROVE TombstoneStep
  <2>1. TombstonesKept(ledger[h], Revoke(ledger[h], r))
    BY <1>0, ConfigureKept DEF RouteStates
  <2>2. QED
    BY <1>6, <2>1, CommitKept DEF RevokeRoute
<1>7. ASSUME NEW r \in Route, RetryRoute(h, r) PROVE TombstoneStep
  <2>1. Retry(ledger[h], r).rec = ledger[h].rec
    BY <1>0 DEF Retry, Queue, LedgerType
  <2>2. QED
    BY <1>0, <1>7, <2>1, KeptSameRecords, CommitKept DEF RetryRoute
<1>8. ASSUME NEW r \in Route, NEW d \in Doc, NEW b \in BOOLEAN, FailAttempt(h, r, d, b)
      PROVE  TombstoneStep
  <2>1. UpdateAttempt(ledger[h], r, d, b).rec = ledger[h].rec
    BY <1>0 DEF UpdateAttempt, LedgerType
  <2>2. QED
    BY <1>0, <1>8, <2>1, KeptSameRecords, CommitKept DEF FailAttempt
<1>9. ASSUME AuditConflict(h) PROVE TombstoneStep
  BY <1>0, <1>9, FenceKept, CommitKept DEF AuditConflict
<1>10. ASSUME QuarantineRestored(h) PROVE TombstoneStep
  <2>1. TombstonesKept(ledger[h], QuarantineRestore(ledger[h]))
    BY <1>0, IdentityKept, ReplicationAssumption
  <2>2. QED
    BY <1>10, <2>1, CommitKept DEF QuarantineRestored
<1>11. ASSUME NEW i \in Inbox, ForkIdentity(h, i) PROVE TombstoneStep
  BY <1>0, <1>11, IdentityKept, CommitKept DEF ForkIdentity
<1>12. QED
  BY <1>1, <1>2, <1>3, <1>4, <1>5, <1>6, <1>7, <1>8, <1>9, <1>10, <1>11 DEF Users

LEMMA HandlesKept ==
  ASSUME TypeOK, NEW h \in Home, NEW m \in wire, Handles(h, m) PROVE TombstoneStep
<1>1. ledger[h] \in LedgerType /\ m \in Message
  BY DEF TypeOK
<1>2. ASSUME SendBody(h, m) \/ AnswerQuery(h, m) PROVE TombstoneStep
  BY <1>2, IdleKept DEF SendBody, AnswerQuery
<1>3. ASSUME ActivateRoute(h, m) PROVE TombstoneStep
  BY <1>1, <1>3, MessageKinds, ActivateOutboundKept, CommitKept DEF ActivateRoute, CutMessage
<1>4. ASSUME AcknowledgeReceipt(h, m) \/ CrashAfterReceipt(h, m) PROVE TombstoneStep
  <2>1. /\ Acknowledge(ledger[h], m.receipt).rec = ledger[h].rec
        /\ StoreReceipt(ledger[h], m.receipt).rec = ledger[h].rec
    BY <1>1 DEF Acknowledge, StoreReceipt, LedgerType
  <2>2. QED
    BY <1>1, <1>4, <2>1, KeptSameRecords, CommitKept DEF AcknowledgeReceipt, CrashAfterReceipt
<1>5. ASSUME ObserveReceipt(h, m) PROVE TombstoneStep
  <2>1. m \in ReceiptMessage
    BY <1>1, <1>5, MessageKinds DEF ObserveReceipt
  <2>2. m.receipt.doc \in Doc /\ m.receipt.signed \in OriginState
    BY <2>1 DEF ReceiptMessage, Receipt
  <2>3. QED
    BY <1>1, <1>5, <2>2, ObserveOutboundKept, CommitKept DEF ObserveReceipt, CanObserve
<1>6. ASSUME NEW d \in Doc, ObserveHolding(h, m, d) PROVE TombstoneStep
  <2>1. m \in HoldingsMessage
    BY <1>1, <1>6, MessageKinds DEF ObserveHolding
  <2>2. m.holding[d].signed \in OriginState
    BY <2>1 DEF HoldingsMessage, Holding
  <2>3. QED
    BY <1>1, <1>6, <2>2, ObserveOutboundKept, CommitKept DEF ObserveHolding, CanObserve
<1>7. ASSUME ReconcileHeld(h, m) PROVE TombstoneStep
  <2> DEFINE L == ReconcileHoldings(ledger[h], m.route, {d \in Doc : m.cut[d].state # "absent"},
                                    m.holding, m.incarnation)
  <2>1. L.rec = ledger[h].rec
    BY <1>1 DEF ReconcileHoldings, Queue, LedgerType
  <2>2. Commit(h, L)
    BY <1>7 DEF ReconcileHeld
  <2> HIDE DEF L
  <2>3. QED
    BY <1>1, <2>1, <2>2, KeptSameRecords, CommitKept
<1>8. ASSUME ReceiveOffer(h, m) \/ ReceiveBody(h, m) PROVE TombstoneStep
  <2>1. m \in StateMessage
    BY <1>1, <1>8, MessageKinds DEF ReceiveOffer, ReceiveBody
  <2>2. m.route \in Route /\ m.doc \in Doc /\ m.signed \in OriginState
    BY <2>1 DEF StateMessage
  <2>3. QED
    BY <1>1, <1>8, <2>2, ApplyKept, CommitKept DEF ReceiveOffer, ReceiveBody, Answer
<1>9. ASSUME NEW d \in Doc, ApplyPageTerminal(h, m, d) \/ PullDocument(h, m, d)
      PROVE  TombstoneStep
  <2>1. m \in CutMessage
    BY <1>1, <1>9, MessageKinds DEF ApplyPageTerminal, PullDocument
  <2>2. m.route \in Route /\ m.cut[d] \in OriginState
    BY <2>1 DEF CutMessage, Cut
  <2>3. QED
    BY <1>1, <1>9, <2>2, ApplyKept, CommitKept DEF ApplyPageTerminal, PullDocument
<1>10. ASSUME FinishInventory(h, m) \/ FinishReconciliation(h, m) PROVE TombstoneStep
  <2>1. m \in CutMessage
    BY <1>1, <1>10, MessageKinds DEF FinishInventory, FinishReconciliation
  <2>2. m.route \in Route /\ m.cut \in Cut
    BY <2>1 DEF CutMessage
  <2>3. QED
    BY <1>1, <1>10, <2>2, CompleteInventoryKept, CompleteReconciliationKept, CommitKept
       DEF FinishInventory, FinishReconciliation
<1>11. QED
  BY <1>2, <1>3, <1>4, <1>5, <1>6, <1>7, <1>8, <1>9, <1>10 DEF Handles

LEMMA StepKept == TypeOK /\ [Next]_vars => TombstoneStep
<1> SUFFICES ASSUME TypeOK, [Next]_vars PROVE TombstoneStep
  OBVIOUS
<1>1. ASSUME NEW h \in Home, Sends(h) PROVE TombstoneStep
  BY <1>1, IdleKept DEF Sends, OfferTerminal, OfferState, SendManifest, QueryHoldings
<1>2. ASSUME NEW m \in wire, Lose(m) PROVE TombstoneStep
  BY <1>2, IdleKept DEF Lose
<1>3. CASE UNCHANGED vars
  BY <1>3, IdleKept DEF vars
<1>4. QED
  BY <1>1, <1>2, <1>3, UsersKept, HandlesKept DEF Next

\* A tombstone dominates at every home, on every topology, whatever is lost,
\* repeated or reordered and whoever is detached, quarantined or forked.
THEOREM TombstonesFinal == Spec => TombstoneFinal
<1>1. TypeOK /\ [Next]_vars =>
        [\A h \in Home, d \in Doc :
           ledger[h].rec[d].state = "deleted" =>
             /\ ledger'[h].rec[d].state = "deleted"
             /\ ledger'[h].rec[d].version >= ledger[h].rec[d].version]_vars
  BY StepKept DEF TombstoneStep, TombstonesKept
<1>2. QED
  BY <1>1, TypeCorrect, PTL DEF Spec, TombstoneFinal

-----------------------------------------------------------------------------
(* Ledgers that always parse.  The inductive invariant is that every ledger *)
(* is Sound (see SyncLedgerProofs) and that no receipt in flight contradicts *)
(* the state it is about: a home stores the receipts it is sent.            *)

LedgersSound == \A h \in Home : Sound(ledger[h])

\* Receipts travel alone and with holdings.
Told(m) == /\ m.kind = "receipt" => AgreeingReceipt(m.receipt)
           /\ m.kind = "holdings" => \A x \in m.receipts : AgreeingReceipt(x)

ReceiptsTold == \A m \in wire : Told(m)

Inv == TypeOK /\ LedgersSound /\ ReceiptsTold

\* A commit of a sound ledger leaves the others as they are.
LEMMA CommitSound ==
  ASSUME TypeOK, LedgersSound, NEW h \in Home, NEW L, Sound(L), Commit(h, L)
  PROVE  LedgersSound'
BY DEF Commit, LedgersSound, TypeOK

LEMMA IdleSound == LedgersSound /\ UNCHANGED ledger => LedgersSound'
BY DEF LedgersSound

LEMMA WireTold ==
  ASSUME ReceiptsTold, NEW m, NEW reply, Told(reply), Reply(m, reply) \/ Done(m)
  PROVE  ReceiptsTold'
BY DEF Reply, Done, ReceiptsTold

\* A new home is sound, and nothing is under way.
LEMMA InitSound == Init => LedgersSound /\ ReceiptsTold
BY ReplicationAssumption, NewLedgerSound DEF Init, LedgersSound, ReceiptsTold

\* An authorized end has its route configured and usable.
LEMMA AuthorizedLive ==
  ASSUME NEW L, NEW r, NEW revision,
         AuthorizedIn(L, r, revision) \/ AuthorizedOut(L, r, revision) \/ Authorized(L, r, revision)
  PROVE  Live(L, r) /\ Configured(L, r)
BY DEF AuthorizedIn, AuthorizedOut, Authorized, Live, Configured

\* What a user, an operator or a crash does to a home keeps it sound.
LEMMA UsersSound ==
  ASSUME Inv, NEW h \in Home, Users(h) PROVE LedgersSound' /\ ReceiptsTold'
<1> USE DEF Inv
<1>0. ledger[h] \in LedgerType /\ Sound(ledger[h])
  BY DEF TypeOK, LedgersSound
<1>1. ASSUME NEW d \in Doc, PublishDocument(h, d) PROVE LedgersSound'
  BY <1>0, <1>1, PublishSound, CommitSound DEF PublishDocument
<1>2. ASSUME NEW d \in Doc, DeleteDocument(h, d) PROVE LedgersSound'
  BY <1>0, <1>2, DeleteSound, CommitSound DEF DeleteDocument
<1>3. ASSUME NEW d \in Doc, LoseBody(h, d) PROVE LedgersSound'
  <2> DEFINE rec == [ledger[h].rec[d] EXCEPT !.body = FALSE]
  <2>1. ledger[h].rec[d] \in Record
    BY <1>0 DEF LedgerType
  <2>2. rec \in Record /\ rec.version = ledger[h].rec[d].version
        /\ rec.state = ledger[h].rec[d].state /\ rec.from = ledger[h].rec[d].from
    BY <2>1 DEF Record
  <2>3. [ledger[h] EXCEPT !.rec[d] = rec] = [ledger[h] EXCEPT !.rec[d].body = FALSE]
    BY <1>0 DEF LedgerType
  <2> HIDE DEF rec
  <2>4. Sound([ledger[h] EXCEPT !.rec[d] = rec])
    BY <1>0, <2>2, SameStateSound
  <2>5. QED
    BY <1>3, <2>3, <2>4, CommitSound DEF LoseBody
<1>4. ASSUME NEW d \in Doc, NEW b \in BOOLEAN, SetSuppressed(h, d, b) PROVE LedgersSound'
  BY <1>0, <1>4, SuppressSound, CommitSound DEF SetSuppressed
<1>5. ASSUME NEW r \in Route, NEW state \in {"reconnecting", "detached"},
             ConfigureRoute(h, r, state)
      PROVE  LedgersSound'
  BY <1>0, <1>5, ConfigureSound, CommitSound DEF ConfigureRoute, RouteStates
<1>6. ASSUME NEW r \in Route, RevokeRoute(h, r) PROVE LedgersSound'
  BY <1>0, <1>6, RevokeSound, CommitSound DEF RevokeRoute
<1>7. ASSUME NEW r \in Route, RetryRoute(h, r) PROVE LedgersSound'
  BY <1>0, <1>7, RetrySound, CommitSound DEF RetryRoute
<1>8. ASSUME NEW r \in Route, NEW d \in Doc, NEW b \in BOOLEAN, FailAttempt(h, r, d, b)
      PROVE  LedgersSound'
  BY <1>0, <1>8, UpdateAttemptSound, CommitSound DEF FailAttempt
<1>9. ASSUME AuditConflict(h) PROVE LedgersSound'
  <2>1. Sound(Quarantine(ledger[h]))
    BY <1>0, QuarantineSound DEF Sound
  <2>2. QED
    BY <1>9, <2>1, CommitSound DEF AuditConflict
<1>10. ASSUME QuarantineRestored(h) PROVE LedgersSound'
  BY <1>0, <1>10, QuarantineRestoreSound, CommitSound DEF QuarantineRestored
<1>11. ASSUME NEW i \in Inbox, ForkIdentity(h, i) PROVE LedgersSound'
  <2>1. \A d \in Doc : Present(ledger[h], d) => Origin[d] # i
    BY <1>11 DEF ForkIdentity, Fresh
  <2>2. QED
    BY <1>0, <1>11, <2>1, ForkSound, CommitSound DEF ForkIdentity
<1>12. UNCHANGED wire
  BY DEF Users, PublishDocument, DeleteDocument, LoseBody, SetSuppressed, ConfigureRoute,
         RevokeRoute, RetryRoute, FailAttempt, AuditConflict, QuarantineRestored, ForkIdentity
<1>13. ReceiptsTold'
  BY <1>12 DEF ReceiptsTold
<1>14. QED
  BY <1>1, <1>2, <1>3, <1>4, <1>5, <1>6, <1>7, <1>8, <1>9, <1>10, <1>11, <1>13 DEF Users

\* Sending changes no ledger, and a request carries no receipt.
LEMMA SendsSound ==
  ASSUME Inv, NEW h \in Home, Sends(h) PROVE LedgersSound' /\ ReceiptsTold'
<1>1. ASSUME NEW m, m.kind \notin {"receipt", "holdings"}, Request(m), UNCHANGED ledger
      PROVE  LedgersSound' /\ ReceiptsTold'
  BY <1>1, IdleSound DEF Request, ReceiptsTold, Told, Inv
<1>2. ASSUME NEW r \in Route, NEW d \in Doc, OfferTerminal(h, r, d) \/ OfferState(h, r, d)
      PROVE  LedgersSound' /\ ReceiptsTold'
  BY <1>1, <1>2 DEF OfferTerminal, OfferState, StateMsg
<1>3. ASSUME NEW r \in Route, NEW mode \in Modes, SendManifest(h, r, mode)
      PROVE  LedgersSound' /\ ReceiptsTold'
  BY <1>1, <1>3 DEF SendManifest, CutMsg
<1>4. ASSUME NEW r \in Route, QueryHoldings(h, r) PROVE LedgersSound' /\ ReceiptsTold'
  BY <1>1, <1>4 DEF QueryHoldings
<1>5. QED
  BY <1>2, <1>3, <1>4 DEF Sends

\* An answer carries the receipt of a sound ledger.
LEMMA AnswerSound ==
  ASSUME Inv, NEW h \in Home, NEW m \in StateMessage, NEW staged \in BOOLEAN, SentTo(h, m),
         Answer(h, m, staged)
  PROVE  LedgersSound' /\ ReceiptsTold'
<1>1. m.route \in Route /\ m.doc \in Doc /\ m.signed \in OriginState
  BY DEF StateMessage
<1>2. ledger[h] \in LedgerType /\ Sound(ledger[h])
  BY DEF Inv, TypeOK, LedgersSound
<1>3. Configured(ledger[h], m.route)
  BY AuthorizedLive DEF SentTo
<1>4. Sound(Apply(ledger[h], m.route, m.doc, m.signed, staged))
  BY <1>1, <1>2, <1>3, ApplySound
<1>5. LedgersSound'
  BY <1>4, CommitSound DEF Answer, Inv
<1>6. Told([m EXCEPT !.kind = "wanted"])
  BY DEF StateMessage, Told
<1>7. Told(ReceiptMsg(m.route, m.revision, m.signed,
             ReceiptOf(ledger[h], m.route, m.doc, m.signed, staged)))
  BY <1>1, <1>2, ReceiptOfAgrees DEF Told, ReceiptMsg
<1>8. ReceiptsTold'
  BY <1>6, <1>7, WireTold DEF Answer, Inv
<1>9. QED
  BY <1>5, <1>8

\* So does what a home makes of a message.
LEMMA HandlesSound ==
  ASSUME Inv, NEW h \in Home, NEW m \in wire, Handles(h, m)
  PROVE  LedgersSound' /\ ReceiptsTold'
<1>1. ledger[h] \in LedgerType /\ Sound(ledger[h]) /\ m \in Message /\ Told(m)
  BY DEF Inv, TypeOK, LedgersSound, ReceiptsTold
<1>a. ASSUME NEW L, Sound(L), Commit(h, L) PROVE LedgersSound'
  BY <1>a, CommitSound DEF Inv
<1>b. ASSUME Done(m) PROVE ReceiptsTold'
  BY <1>b DEF Done, ReceiptsTold, Inv
<1>2. ASSUME SendBody(h, m) PROVE LedgersSound' /\ ReceiptsTold'
  <2>1. m \in StateMessage
    BY <1>1, <1>2, MessageKinds DEF SendBody
  <2>2. Told([m EXCEPT !.kind = "body"])
    BY <2>1 DEF StateMessage, Told
  <2>3. QED
    BY <1>2, <2>2, IdleSound, WireTold DEF SendBody, Inv
<1>3. ASSUME ActivateRoute(h, m) PROVE LedgersSound' /\ ReceiptsTold'
  <2>1. m \in CutMessage
    BY <1>1, <1>3, MessageKinds DEF ActivateRoute
  <2>2. m.route \in Route /\ Live(ledger[h], m.route)
    BY <1>3, <2>1, AuthorizedLive DEF ActivateRoute, SentBy, CutMessage
  <2>3. LedgersSound'
    BY <1>1, <1>3, <1>a, <2>2, ActivateOutboundSound DEF ActivateRoute
  <2>4. Told([m EXCEPT !.kind = "active"])
    BY <2>1 DEF CutMessage, Told
  <2>5. ReceiptsTold'
    BY <1>3, <2>4, WireTold DEF ActivateRoute, Inv
  <2>6. QED
    BY <2>3, <2>5
<1>4. ASSUME AcknowledgeReceipt(h, m) \/ CrashAfterReceipt(h, m)
      PROVE  LedgersSound' /\ ReceiptsTold'
  <2>1. Receive(h, m)
    BY <1>4 DEF AcknowledgeReceipt, CrashAfterReceipt
  <2>2. m \in ReceiptMessage
    BY <1>1, <2>1, MessageKinds DEF Receive
  <2>3. m.route \in Route /\ m.receipt \in Receipt /\ AgreeingReceipt(m.receipt)
    BY <1>1, <2>1, <2>2 DEF Receive, ReceiptMessage, Told
  <2>4. CanAcknowledge(ledger[h], m.route, m.receipt)
        /\ Sendable(ledger[h], m.route, m.receipt.doc)
    BY <2>1, AuthorizedLive DEF Receive, SentBy, AuthorizedOut, CanAcknowledge, Sendable
  <2>5. Sound(StoreReceipt(ledger[h], m.receipt)) /\ Sound(Acknowledge(ledger[h], m.receipt))
    BY <1>1, <2>3, <2>4, ReceiptSound
  <2>6. QED
    BY <1>4, <1>a, <1>b, <2>5 DEF AcknowledgeReceipt, CrashAfterReceipt
<1>5. ASSUME ObserveReceipt(h, m) PROVE LedgersSound' /\ ReceiptsTold'
  <2>1. m \in ReceiptMessage
    BY <1>1, <1>5, MessageKinds DEF ObserveReceipt
  <2>2. m.receipt.doc \in Doc /\ m.receipt.signed \in OriginState
        /\ m.receipt.signed.state # "absent"
    BY <1>5, <2>1 DEF ObserveReceipt, CanObserve, ReceiptMessage, Receipt
  <2>3. Sound(ObserveOutbound(ledger[h], m.receipt.doc, m.receipt.signed))
    BY <1>1, <2>2, ObserveOutboundSound
  <2>4. QED
    BY <1>5, <1>a, <1>b, <2>3 DEF ObserveReceipt
<1>6. ASSUME NEW d \in Doc, ObserveHolding(h, m, d) PROVE LedgersSound' /\ ReceiptsTold'
  <2>1. m \in HoldingsMessage
    BY <1>1, <1>6, MessageKinds DEF ObserveHolding
  <2>2. m.holding[d].signed \in OriginState /\ m.holding[d].signed.state # "absent"
    BY <1>6, <2>1 DEF ObserveHolding, CanObserve, HoldingsMessage, Holding
  <2>3. Sound(ObserveOutbound(ledger[h], d, m.holding[d].signed))
    BY <1>1, <2>2, ObserveOutboundSound
  <2>4. LedgersSound'
    BY <1>6, <1>a, <2>3 DEF ObserveHolding
  <2>5. Told([m EXCEPT !.left = @ \ {d}])
    BY <1>1, <2>1 DEF HoldingsMessage, Told
  <2>6. ReceiptsTold'
    BY <1>6, <2>5, WireTold DEF ObserveHolding, Inv
  <2>7. QED
    BY <2>4, <2>6
<1>7. ASSUME ReconcileHeld(h, m) PROVE LedgersSound' /\ ReceiptsTold'
  <2> DEFINE asked == {d \in Doc : m.cut[d].state # "absent"}
  <2>1. m \in HoldingsMessage
    BY <1>1, <1>7, MessageKinds DEF ReconcileHeld
  <2>2. m.route \in Route /\ m.incarnation \in Nat
    BY <2>1 DEF HoldingsMessage
  <2>3. asked \in SUBSET Doc
    OBVIOUS
  <2>4. Commit(h, ReconcileHoldings(ledger[h], m.route, asked, m.holding, m.incarnation))
    BY <1>7 DEF ReconcileHeld
  <2> HIDE DEF asked
  <2>5. Sound(ReconcileHoldings(ledger[h], m.route, asked, m.holding, m.incarnation))
    BY <1>1, <2>2, <2>3, ReconcileHoldingsSound
  <2>6. LedgersSound'
    BY <1>a, <2>4, <2>5
  <2>7. \A x \in CustodyOf(m) : Told(ReceiptMsg(m.route, m.revision, x.signed, x))
    BY <1>1, <1>7 DEF CustodyOf, ReconcileHeld, Told, ReceiptMsg
  <2>8. wire' = (wire \ {m}) \cup {ReceiptMsg(m.route, m.revision, x.signed, x) : x \in CustodyOf(m)}
    BY <1>7 DEF ReconcileHeld
  <2>9. ReceiptsTold'
    BY <2>7, <2>8 DEF ReceiptsTold, Inv
  <2>10. QED
    BY <2>6, <2>9
<1>8. ASSUME ReceiveOffer(h, m) \/ ReceiveBody(h, m) PROVE LedgersSound' /\ ReceiptsTold'
  <2>1. m \in StateMessage
    BY <1>1, <1>8, MessageKinds DEF ReceiveOffer, ReceiveBody
  <2>2. QED
    BY <1>8, <2>1, AnswerSound DEF ReceiveOffer, ReceiveBody
<1>9. ASSUME NEW d \in Doc, ApplyPageTerminal(h, m, d) \/ PullDocument(h, m, d)
      PROVE  LedgersSound'
  <2>1. m \in CutMessage
    BY <1>1, <1>9, MessageKinds DEF ApplyPageTerminal, PullDocument
  <2>2. m.route \in Route /\ m.cut[d] \in OriginState
    BY <2>1 DEF CutMessage, Cut
  <2>3. Configured(ledger[h], m.route)
    BY <1>9, AuthorizedLive DEF ApplyPageTerminal, PullDocument, SentTo
  <2>4. Sound(Apply(ledger[h], m.route, d, m.cut[d], FALSE))
    BY <1>1, <2>2, <2>3, ApplySound
  <2>5. QED
    BY <1>9, <1>a, <2>4 DEF ApplyPageTerminal, PullDocument
<1>10. ASSUME NEW d \in Doc, ApplyPageTerminal(h, m, d) PROVE ReceiptsTold'
  BY <1>10 DEF ApplyPageTerminal, ReceiptsTold, Inv
<1>11. ASSUME FinishInventory(h, m) PROVE LedgersSound' /\ ReceiptsTold'
  <2>1. m \in CutMessage
    BY <1>1, <1>11, MessageKinds DEF FinishInventory
  <2>2. m.route \in Route /\ m.cut \in Cut /\ Live(ledger[h], m.route)
    BY <1>11, <2>1, AuthorizedLive DEF CutMessage, FinishInventory, SentTo
  <2>3. LedgersSound'
    BY <1>1, <1>11, <1>a, <2>2, CompleteInventorySound DEF FinishInventory
  <2>4. Told([m EXCEPT !.kind = "ready"])
    BY <2>1 DEF CutMessage, Told
  <2>5. ReceiptsTold'
    BY <1>11, <2>4, WireTold DEF FinishInventory, Inv
  <2>6. QED
    BY <2>3, <2>5
<1>12. ASSUME NEW d \in Doc, PullDocument(h, m, d) PROVE ReceiptsTold'
  <2> DEFINE ask == StateMsg("wanted", "pull", m.route, m.revision, d, m.cut[d])
  <2>1. wire' = wire \cup {ask} \/ wire' = wire
    BY <1>12 DEF PullDocument
  <2>2. Told(ask)
    BY DEF StateMsg, Told
  <2> HIDE DEF ask
  <2>3. QED
    BY <2>1, <2>2 DEF ReceiptsTold, Inv
<1>13. ASSUME FinishReconciliation(h, m) PROVE LedgersSound' /\ ReceiptsTold'
  <2>1. m \in CutMessage
    BY <1>1, <1>13, MessageKinds DEF FinishReconciliation
  <2>2. m.route \in Route /\ m.cut \in Cut /\ Configured(ledger[h], m.route)
    BY <1>13, <2>1, AuthorizedLive DEF CutMessage, FinishReconciliation, SentTo
  <2>3. QED
    BY <1>1, <1>13, <1>a, <1>b, <2>2, CompleteReconciliationSound DEF FinishReconciliation
<1>14. ASSUME AnswerQuery(h, m) PROVE LedgersSound' /\ ReceiptsTold'
  <2> DEFINE asked == {d \in Doc : m.cut[d].state # "absent"}
             rs == UNION {Custody(ledger[h], m.route, d) : d \in asked}
             reply == [kind |-> "holdings", route |-> m.route, revision |-> m.revision,
                       cut |-> m.cut, holding |-> [d \in Doc |-> HoldingOf(ledger[h].rec[d])],
                       receipts |-> rs, incarnation |-> ledger[h].incarnation,
                       left |-> {d \in asked : /\ ledger[h].rec[d].state = "deleted"
                                               /\ Fingerprint(ledger[h].rec[d]) # m.cut[d]}]
  <2>1. Reply(m, reply)
    BY <1>14 DEF AnswerQuery
  <2>2. \A x \in rs : x \in ledger[h].receipts
    BY DEF Custody
  <2>3. \A x \in rs : AgreeingReceipt(x)
    BY <1>1, <2>2 DEF Sound, Frame, ReceiptsAgree, AgreeingReceipt
  <2> HIDE DEF rs, asked
  <2>4. Told(reply)
    BY <2>3 DEF Told
  <2> HIDE DEF reply
  <2>5. ReceiptsTold'
    BY <2>1, <2>4, WireTold DEF Inv
  <2>6. LedgersSound'
    BY <1>14, IdleSound DEF AnswerQuery, Inv
  <2>7. QED
    BY <2>5, <2>6
<1>15. QED
  BY <1>2, <1>3, <1>4, <1>5, <1>6, <1>7, <1>8, <1>9, <1>10, <1>11, <1>12, <1>13, <1>14
     DEF Handles

\* Every step keeps the invariant.
LEMMA StepSound == Inv /\ [Next]_vars => Inv'
<1> SUFFICES ASSUME Inv, [Next]_vars PROVE Inv'
  OBVIOUS
<1>1. TypeOK'
  BY StepType DEF Inv
<1>2. ASSUME NEW m \in wire, Lose(m) PROVE LedgersSound' /\ ReceiptsTold'
  BY <1>2, IdleSound DEF Lose, Done, ReceiptsTold, Inv
<1>3. ASSUME UNCHANGED vars PROVE LedgersSound' /\ ReceiptsTold'
  BY <1>3, IdleSound DEF vars, Inv, ReceiptsTold, Told
<1>4. LedgersSound' /\ ReceiptsTold'
  BY <1>2, <1>3, UsersSound, SendsSound, HandlesSound DEF Next
<1>5. QED
  BY <1>1, <1>4 DEF Inv

\* Whatever a home went through, the ledger it commits passes the cross-checks
\* of `parseLedger`, so no sequence of legal operations locks an owner out.
THEOREM LedgersAlwaysParse == Spec => []LedgersParse
<1>1. Init => Inv
  BY InitType, InitSound DEF Inv
<1>2. Inv => LedgersParse
  BY SoundParses DEF Inv, LedgersSound, LedgersParse
<1>3. QED
  BY <1>1, <1>2, StepSound, PTL DEF Spec

-----------------------------------------------------------------------------
(* Obligations and reconnection.  Every operation that changes a record, a   *)
(* route or the trusted history also queues what that change makes a home    *)
(* owe, and releases what waited for it.                                     *)

LedgersServed == \A h \in Home : Served(ledger[h])

\* A commit of a ledger that owes what it should leaves the others as they are.
LEMMA CommitServed ==
  ASSUME TypeOK, LedgersServed, NEW h \in Home, NEW L, Served(L), Commit(h, L)
  PROVE  LedgersServed'
BY DEF Commit, LedgersServed, TypeOK

\* A new home owes nothing.
LEMMA InitServed == Init => LedgersServed
BY ReplicationAssumption, NewLedgerServed DEF Init, LedgersServed

\* What a user, an operator or a crash does leaves the home owing what it should.
LEMMA UsersServed ==
  ASSUME Inv, LedgersServed, NEW h \in Home, Users(h) PROVE LedgersServed'
<1>1. /\ ledger[h] \in LedgerType /\ Sound(ledger[h]) /\ Served(ledger[h])
      /\ AllDelivered(ledger[h])
  BY DEF Inv, TypeOK, LedgersSound, LedgersServed, Served
<1>2. ASSUME NEW L, Commit(h, L), Advances(ledger[h], L), TombstonesKept(ledger[h], L)
      PROVE  LedgersServed'
  BY <1>1, <1>2, AdvancesServed, CommitServed DEF Inv
<1>3. ASSUME NEW L, Commit(h, L), Advances(ledger[h], L), SameStates(ledger[h], L)
      PROVE  LedgersServed'
  <2>1. \A d \in Doc : L.rec[d].state = ledger[h].rec[d].state
                       /\ L.rec[d].version = ledger[h].rec[d].version
    BY <1>3 DEF SameStates, Fingerprint
  <2>2. TombstonesKept(ledger[h], L)
    BY <1>1, <2>1, SameStatesKept
  <2>3. QED
    BY <1>2, <1>3, <2>2
<1>4. ASSUME NEW d \in Doc, PublishDocument(h, d) PROVE LedgersServed'
  BY <1>1, <1>2, <1>4, PublishAdvances, PublishKept DEF PublishDocument, CanPublish
<1>5. ASSUME NEW d \in Doc, DeleteDocument(h, d) PROVE LedgersServed'
  BY <1>1, <1>2, <1>5, DeleteAdvances, DeleteKept DEF DeleteDocument, CanDelete, Present
<1>6. ASSUME NEW d \in Doc, LoseBody(h, d) PROVE LedgersServed'
  <2> DEFINE rec == [ledger[h].rec[d] EXCEPT !.body = FALSE]
             K == [ledger[h] EXCEPT !.rec[d] = rec]
  <2>1. ledger[h].rec[d] \in Record
    BY <1>1 DEF LedgerType
  <2>2. rec \in Record /\ rec.version = ledger[h].rec[d].version
        /\ rec.state = ledger[h].rec[d].state /\ rec.from = ledger[h].rec[d].from
    BY <2>1 DEF Record
  <2>3. Commit(h, K)
    BY <1>1, <1>6 DEF LoseBody, LedgerType
  <2> HIDE DEF rec
  <2>4. Follows(ledger[h], K) /\ AllDelivered(K) /\ SameStates(ledger[h], K)
    BY <1>1, <2>2, SameStateAdvances
  <2> HIDE DEF K
  <2>5. \A x \in Doc : K.rec[x].state = ledger[h].rec[x].state
                       /\ K.rec[x].version = ledger[h].rec[x].version
    BY <2>4 DEF SameStates, Fingerprint
  <2>6. TombstonesKept(ledger[h], K)
    BY <1>1, <2>5, SameStatesKept
  <2>7. Served(K)
    BY <1>1, <2>4, <2>6, FollowsServed
  <2>8. QED
    BY <2>3, <2>7, CommitServed DEF Inv
<1>7. ASSUME NEW d \in Doc, NEW b \in BOOLEAN, SetSuppressed(h, d, b) PROVE LedgersServed'
  BY <1>1, <1>3, <1>7, SuppressAdvances DEF SetSuppressed
<1>8. ASSUME NEW r \in Route, NEW state \in {"reconnecting", "detached"},
             ConfigureRoute(h, r, state)
      PROVE  LedgersServed'
  BY <1>1, <1>3, <1>8, ConfigureAdvances DEF ConfigureRoute
<1>9. ASSUME NEW r \in Route, RevokeRoute(h, r) PROVE LedgersServed'
  BY <1>1, <1>3, <1>9, RevokeAdvances DEF RevokeRoute
<1>10. ASSUME NEW r \in Route, RetryRoute(h, r) PROVE LedgersServed'
  BY <1>1, <1>3, <1>10, RetryAdvances DEF RetryRoute
<1>11. ASSUME NEW r \in Route, NEW d \in Doc, NEW b \in BOOLEAN, FailAttempt(h, r, d, b)
       PROVE  LedgersServed'
  BY <1>1, <1>3, <1>11, UpdateAttemptAdvances DEF FailAttempt
<1>12. ASSUME AuditConflict(h) PROVE LedgersServed'
  BY <1>1, <1>3, <1>12, QuarantineAdvances DEF AuditConflict
<1>13. ASSUME QuarantineRestored(h) PROVE LedgersServed'
  BY <1>1, <1>13, IdentityServed, CommitServed, LedgerAssumption
     DEF QuarantineRestored, Inv, LedgerType
<1>14. ASSUME NEW i \in Inbox, ForkIdentity(h, i) PROVE LedgersServed'
  BY <1>1, <1>14, IdentityServed, CommitServed DEF ForkIdentity, Inv
<1>15. QED
  BY <1>4, <1>5, <1>6, <1>7, <1>8, <1>9, <1>10, <1>11, <1>12, <1>13, <1>14 DEF Users

\* Without a commit nothing is owed that was not.
LEMMA IdleServed == LedgersServed /\ UNCHANGED ledger => LedgersServed'
BY DEF LedgersServed

\* A state the receiver applies: only an inbound route brings one.
LEMMA ApplyServed ==
  ASSUME Inv, LedgersServed, NEW h \in Home, NEW r \in Route, NEW d \in Doc,
         NEW s \in OriginState, NEW staged \in BOOLEAN,
         Configured(ledger[h], r), Dst[r] = ledger[h].inbox,
         Commit(h, Apply(ledger[h], r, d, s, staged))
  PROVE  LedgersServed'
<1>1. /\ ledger[h] \in LedgerType /\ Sound(ledger[h]) /\ Served(ledger[h])
      /\ AllDelivered(ledger[h])
  BY DEF Inv, TypeOK, LedgersSound, LedgersServed, Served
<1>2. Advances(ledger[h], Apply(ledger[h], r, d, s, staged))
      /\ TombstonesKept(ledger[h], Apply(ledger[h], r, d, s, staged))
  BY <1>1, ApplyAdvances, ApplyKept
<1>3. QED
  BY <1>1, <1>2, AdvancesServed, CommitServed DEF Inv

\* What the handlers of the two ends may assume of the route a message names.
LEMMA SentEnds ==
  ASSUME NEW h \in Home, NEW m
  PROVE  /\ SentBy(h, m) => Src[m.route] = ledger[h].inbox /\ Live(ledger[h], m.route)
                            /\ ledger[h].route[m.route].revision = m.revision
         /\ SentTo(h, m) => Dst[m.route] = ledger[h].inbox /\ Live(ledger[h], m.route)
                            /\ Configured(ledger[h], m.route)
                            /\ ledger[h].route[m.route].revision = m.revision
BY DEF SentBy, SentTo, AuthorizedIn, AuthorizedOut, Authorized, Live, Configured

\* So does what a home makes of a message.
LEMMA HandlesServed ==
  ASSUME Inv, LedgersServed, NEW h \in Home, NEW m \in wire, Handles(h, m)
  PROVE  LedgersServed'
<1>1. /\ ledger[h] \in LedgerType /\ Sound(ledger[h]) /\ Served(ledger[h])
      /\ AllDelivered(ledger[h]) /\ m \in Message
  BY DEF Inv, TypeOK, LedgersSound, LedgersServed, Served
<1>2. ASSUME NEW L, Commit(h, L), Advances(ledger[h], L), TombstonesKept(ledger[h], L)
      PROVE  LedgersServed'
  BY <1>1, <1>2, AdvancesServed, CommitServed DEF Inv
<1>3. ASSUME SendBody(h, m) \/ AnswerQuery(h, m) PROVE LedgersServed'
  BY <1>3, IdleServed DEF SendBody, AnswerQuery
<1>4. ASSUME ActivateRoute(h, m) PROVE LedgersServed'
  <2>1. m \in CutMessage
    BY <1>1, <1>4, MessageKinds DEF ActivateRoute
  <2>2. m.route \in Route /\ Live(ledger[h], m.route) /\ Src[m.route] = ledger[h].inbox
    BY <1>4, <2>1, SentEnds DEF ActivateRoute, CutMessage
  <2>3. Dst[m.route] # ledger[h].inbox
    BY <2>2, LedgerAssumption
  <2>4. Served(ActivateOutbound(ledger[h], m.route))
    BY <1>1, <2>2, <2>3, ActivateOutboundAdvances, SameRecordsServed
  <2>5. QED
    BY <1>4, <2>4, CommitServed DEF ActivateRoute, Inv
<1>5. ASSUME AcknowledgeReceipt(h, m) \/ CrashAfterReceipt(h, m) PROVE LedgersServed'
  <2>1. Receive(h, m)
    BY <1>5 DEF AcknowledgeReceipt, CrashAfterReceipt
  <2>2. m \in ReceiptMessage
    BY <1>1, <2>1, MessageKinds DEF Receive
  <2>3. m.route \in Route /\ m.receipt \in Receipt /\ Src[m.route] = ledger[h].inbox
        /\ CanAcknowledge(ledger[h], m.route, m.receipt)
    BY <2>1, <2>2, SentEnds DEF Receive, ReceiptMessage
  <2>4. Advances(ledger[h], StoreReceipt(ledger[h], m.receipt))
        /\ TombstonesKept(ledger[h], StoreReceipt(ledger[h], m.receipt))
    <3>1. m.receipt.doc \in Doc
      BY <2>3 DEF Receipt
    <3>2. QED
      BY <1>1, <2>3, <3>1, ReceiptAdvances, ObligationsKept
  <2>5. Served(Acknowledge(ledger[h], m.receipt))
    BY <1>1, <2>3, ReceiptAdvances, SameRecordsServed
  <2>6. QED
    BY <1>2, <1>5, <2>4, <2>5, CommitServed DEF AcknowledgeReceipt, CrashAfterReceipt, Inv
<1>6. ASSUME ObserveReceipt(h, m) PROVE LedgersServed'
  <2>1. m \in ReceiptMessage
    BY <1>1, <1>6, MessageKinds DEF ObserveReceipt
  <2>2. m.receipt.doc \in Doc /\ m.receipt.signed \in OriginState
        /\ m.receipt.signed.state = "deleted"
    BY <1>6, <2>1 DEF ObserveReceipt, CanObserve, ReceiptMessage, Receipt
  <2>3. QED
    BY <1>1, <1>2, <1>6, <2>2, ObserveOutboundAdvances, ObserveOutboundKept
       DEF ObserveReceipt
<1>7. ASSUME NEW d \in Doc, ObserveHolding(h, m, d) PROVE LedgersServed'
  <2>1. m \in HoldingsMessage
    BY <1>1, <1>7, MessageKinds DEF ObserveHolding
  <2>2. m.holding[d].signed \in OriginState /\ m.holding[d].signed.state = "deleted"
    BY <1>7, <2>1 DEF ObserveHolding, CanObserve, HoldingsMessage, Holding
  <2>3. QED
    BY <1>1, <1>2, <1>7, <2>2, ObserveOutboundAdvances, ObserveOutboundKept
       DEF ObserveHolding
<1>8. ASSUME ReconcileHeld(h, m) PROVE LedgersServed'
  <2> DEFINE asked == {d \in Doc : m.cut[d].state # "absent"}
             K == ReconcileHoldings(ledger[h], m.route, asked, m.holding, m.incarnation)
  <2>1. m \in HoldingsMessage
    BY <1>1, <1>8, MessageKinds DEF ReconcileHeld
  <2>2. m.route \in Route /\ m.incarnation \in Nat /\ m.holding \in [Doc -> Holding]
    BY <2>1 DEF HoldingsMessage
  <2>3. asked \in SUBSET Doc
    OBVIOUS
  <2>4. Commit(h, K)
    BY <1>8 DEF ReconcileHeld
  <2> HIDE DEF asked
  <2>5. Advances(ledger[h], K)
    BY <1>1, <2>2, <2>3, ReconcileHoldingsAdvances
  <2>6. K.rec = ledger[h].rec
    BY <1>1 DEF ReconcileHoldings, Queue, LedgerType
  <2> HIDE DEF K
  <2>7. TombstonesKept(ledger[h], K)
    BY <1>1, <2>6, KeptSameRecords
  <2>8. QED
    BY <1>2, <2>4, <2>5, <2>7
<1>9. ASSUME ReceiveOffer(h, m) \/ ReceiveBody(h, m) PROVE LedgersServed'
  <2>1. m \in StateMessage
    BY <1>1, <1>9, MessageKinds DEF ReceiveOffer, ReceiveBody
  <2>2. m.route \in Route /\ m.doc \in Doc /\ m.signed \in OriginState
    BY <2>1 DEF StateMessage
  <2>3. Configured(ledger[h], m.route) /\ Dst[m.route] = ledger[h].inbox
    BY <1>9, SentEnds DEF ReceiveOffer, ReceiveBody
  <2>4. \E staged \in BOOLEAN : Commit(h, Apply(ledger[h], m.route, m.doc, m.signed, staged))
    BY <1>9 DEF ReceiveOffer, ReceiveBody, Answer
  <2>5. QED
    BY <2>2, <2>3, <2>4, ApplyServed
<1>10. ASSUME NEW d \in Doc, ApplyPageTerminal(h, m, d) \/ PullDocument(h, m, d)
       PROVE  LedgersServed'
  <2>1. m \in CutMessage
    BY <1>1, <1>10, MessageKinds DEF ApplyPageTerminal, PullDocument
  <2>2. m.route \in Route /\ m.cut[d] \in OriginState
    BY <2>1 DEF CutMessage, Cut
  <2>3. Configured(ledger[h], m.route) /\ Dst[m.route] = ledger[h].inbox
    BY <1>10, SentEnds DEF ApplyPageTerminal, PullDocument
  <2>4. Commit(h, Apply(ledger[h], m.route, d, m.cut[d], FALSE))
    BY <1>10 DEF ApplyPageTerminal, PullDocument
  <2>5. QED
    BY <2>2, <2>3, <2>4, ApplyServed
<1>11. ASSUME FinishInventory(h, m) PROVE LedgersServed'
  <2>1. m \in CutMessage
    BY <1>1, <1>11, MessageKinds DEF FinishInventory
  <2>2. m.route \in Route /\ m.cut \in Cut /\ Live(ledger[h], m.route)
        /\ Dst[m.route] = ledger[h].inbox
    BY <1>11, <2>1, SentEnds DEF CutMessage, FinishInventory
  <2>3. Served(CompleteInventory(ledger[h], m.route, m.cut))
    BY <1>1, <1>11, <2>2, CompleteInventoryServed DEF FinishInventory
  <2>4. QED
    BY <1>11, <2>3, CommitServed DEF FinishInventory, Inv
<1>12. ASSUME FinishReconciliation(h, m) PROVE LedgersServed'
  <2>1. m \in CutMessage
    BY <1>1, <1>12, MessageKinds DEF FinishReconciliation
  <2>2. m.route \in Route /\ m.cut \in Cut
    BY <2>1 DEF CutMessage
  <2>3. Served(CompleteReconciliation(ledger[h], m.route, m.cut))
    BY <1>1, <2>2, CompleteReconciliationAdvances, SameRecordsServed
  <2>4. QED
    BY <1>12, <2>3, CommitServed DEF FinishReconciliation, Inv
<1>13. QED
  BY <1>3, <1>4, <1>5, <1>6, <1>7, <1>8, <1>9, <1>10, <1>11, <1>12 DEF Handles

\* Every step leaves every home owing what it should.
LEMMA StepServed == Inv /\ LedgersServed /\ [Next]_vars => LedgersServed'
<1> SUFFICES ASSUME Inv, LedgersServed, [Next]_vars PROVE LedgersServed'
  OBVIOUS
<1>1. ASSUME NEW h \in Home, Sends(h) PROVE LedgersServed'
  BY <1>1, IdleServed DEF Sends, OfferTerminal, OfferState, SendManifest, QueryHoldings
<1>2. ASSUME NEW m \in wire, Lose(m) PROVE LedgersServed'
  BY <1>2, IdleServed DEF Lose
<1>3. CASE UNCHANGED vars
  BY <1>3, IdleServed DEF vars
<1>4. QED
  BY <1>1, <1>2, <1>3, UsersServed, HandlesServed DEF Next

\* The inductive invariant with the obligations.
LEMMA ServedAlways == Spec => [](Inv /\ LedgersServed)
<1>1. Init => Inv /\ LedgersServed
  BY InitType, InitSound, InitServed DEF Inv
<1>2. Inv /\ LedgersServed /\ [Next]_vars => (Inv /\ LedgersServed)'
  BY StepSound, StepServed
<1>3. QED
  BY <1>1, <1>2, PTL DEF Spec

\* A home owes every state it may send to every live outbound route, at the
\* route's revision and in the state it holds now: no operation forgets to queue
\* (`queueLedgerState` and its callers).
THEOREM EveryStateOwedAlways == Spec => []EveryStateOwed
<1>1. Inv /\ LedgersServed => EveryStateOwed
  <2> SUFFICES ASSUME Inv, LedgersServed, NEW h \in Home, NEW r \in Route, NEW d \in Doc,
                      Sender(h, r), Present(ledger[h], d), Granted(r, Origin[d])
               PROVE  LET L == ledger[h]  e == CurrentEntry(L, r, d) IN
                      /\ e.disposition \in {"pending", "blocked", "confirmed"}
                      /\ e.signed = Fingerprint(L.rec[d])
    BY DEF EveryStateOwed
  <2> DEFINE L == ledger[h]
             o == L.outbox[r][d]
  <2>1. Sendable(L, r, d)
    BY DEF Sender, AuthorizedOut, Authorized, Sendable
  <2>2. o.disposition # "none" /\ o.revision = L.route[r].revision
    BY <2>1 DEF LedgersServed, Served, AllDelivered, Delivers
  <2>3. o.disposition # "retired"
    BY <2>1, <2>2 DEF Inv, LedgersSound, Sound, Owed, OwedEntry
  <2>4. o.disposition \in Dispositions
    BY DEF Inv, TypeOK, LedgerType, Entry
  <2>5. o.signed = Fingerprint(L.rec[d])
    BY <2>2, <2>3 DEF Inv, LedgersSound, Sound, SignedEntry
  <2>6. CurrentEntry(L, r, d) = o
    BY <2>2 DEF CurrentEntry
  <2>7. QED
    BY <2>2, <2>3, <2>4, <2>5, <2>6 DEF Dispositions
<1>2. QED
  BY <1>1, ServedAlways, PTL

\* An obligation waits for trusted history only while that history is missing:
\* whatever establishes it releases every obligation that waited.
THEOREM NoStrandedWaitAlways == Spec => []NoStrandedWait
<1>1. Inv /\ LedgersServed => NoStrandedWait
  <2> SUFFICES ASSUME Inv, LedgersServed, NEW h \in Home, NEW r \in Route, NEW d \in Doc,
                      Sender(h, r), CurrentEntry(ledger[h], r, d).history
               PROVE  ~CanForward(ledger[h], r, d, FALSE)
    BY DEF NoStrandedWait
  <2> DEFINE L == ledger[h]
             o == L.outbox[r][d]
  <2>1. o.revision = L.route[r].revision /\ o.history
    BY DEF CurrentEntry, NoEntry
  <2>2. CASE Granted(r, Origin[d])
    <3>1. Sendable(L, r, d)
      BY <2>2 DEF Sender, AuthorizedOut, Authorized, Sendable
    <3>2. QED
      BY <2>1, <3>1 DEF LedgersServed, Served, AllDelivered, Delivers
  <2>3. CASE ~Granted(r, Origin[d])
    BY <2>3 DEF CanForward
  <2>4. QED
    BY <2>2, <2>3
<1>2. QED
  BY <1>1, ServedAlways, PTL

\* Reconnecting cannot resurrect what was deleted meanwhile: a copy is a member
\* of a route only after the terminal inventory of that very revision, and what
\* the inventory named deleted is deleted here (`completeInventory`).
THEOREM NothingResurrectedAlways == Spec => []NothingResurrected
<1>1. Inv /\ LedgersServed => NothingResurrected
  <2> SUFFICES ASSUME Inv, LedgersServed, NEW h \in Home, NEW r \in Route, NEW d \in Doc
               PROVE  LET L == ledger[h] IN
                      /\ L.history[r].cut[d].state = "deleted" => L.rec[d].state = "deleted"
                      /\ L.rec[d].from[r].state = "attached" =>
                           L.history[r].revision = L.route[r].revision
    BY DEF NothingResurrected
  <2>1. Reconnected(ledger[h]) /\ ContributionsBound(ledger[h])
    BY DEF LedgersServed, Served, Inv, LedgersSound, Sound, Frame
  <2>2. QED
    BY <2>1 DEF Reconnected, ContributionsBound
<1>2. QED
  BY <1>1, ServedAlways, PTL
=============================================================================
