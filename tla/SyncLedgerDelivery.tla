------------------------ MODULE SyncLedgerDelivery ------------------------
(***************************************************************************)
(* What the transitions of SyncLedger leave for others to rely on: that    *)
(* what a home owes is queued, that no confirmation, active route or       *)
(* attached copy comes from nowhere, what a receipt says, and what a       *)
(* completed inventory established.  One lemma per operation, cited by the *)
(* theorems about the machine.                                             *)
(***************************************************************************)
EXTENDS SyncLedgerProofs

-----------------------------------------------------------------------------
(* What is owed is queued.  `Delivers` is the invariant every operation     *)
(* keeps: an obligation exists for every state that may be sent, and it     *)
(* waits for trusted history only while that history is missing.            *)

\* An obligation waits for history only if it is one.
Waits(L, r, d) == L.outbox[r][d].history => L.outbox[r][d].disposition # "none"

Delivers(L, r, d) ==
  LET e == L.outbox[r][d] IN
  /\ Sendable(L, r, d) /\ Present(L, d) =>
       e.disposition # "none" /\ e.revision = L.route[r].revision
  /\ Sendable(L, r, d) /\ e.history /\ e.revision = L.route[r].revision =>
       ~CanForward(L, r, d, FALSE)
  /\ Waits(L, r, d)

AllDelivered(L) == \A r \in Route, d \in Doc : Delivers(L, r, d)

\* What a record may be sent as depends on its state and memberships, on the
\* routes and on the trusted history.
LEMMA SameForward ==
  ASSUME NEW L, NEW K, NEW r \in Route, NEW d \in Doc, NEW c,
         K.inbox = L.inbox, K.route = L.route, K.history = L.history,
         K.rec[d].state = L.rec[d].state,
         \A s \in Route : K.rec[d].from[s].state = L.rec[d].from[s].state
  PROVE  CanForward(K, r, d, c) <=> CanForward(L, r, d, c)
<1>1. \A s \in Route : \A o : Vouches(K, s, o) <=> Vouches(L, s, o)
  BY DEF Vouches
<1>2. \A o : Trusted(K, o) <=> Trusted(L, o)
  BY <1>1 DEF Trusted
<1>3. QED
  BY <1>1, <1>2 DEF CanForward

\* A pair nothing was done to is delivered as before.
LEMMA SameDelivers ==
  ASSUME NEW L, NEW K, NEW r \in Route, NEW d \in Doc, Delivers(L, r, d),
         K.inbox = L.inbox, K.route = L.route, K.history = L.history,
         K.rec[d].state = L.rec[d].state,
         \A s \in Route : K.rec[d].from[s].state = L.rec[d].from[s].state,
         K.outbox[r][d].revision = L.outbox[r][d].revision,
         K.outbox[r][d].disposition = "none" => L.outbox[r][d].disposition = "none",
         K.outbox[r][d].history => L.outbox[r][d].history
  PROVE  Delivers(K, r, d)
<1>1. CanForward(K, r, d, FALSE) <=> CanForward(L, r, d, FALSE)
  BY SameForward
<1>2. QED
  BY <1>1 DEF Delivers, Waits, Sendable, Live, Present

\* One queued obligation is one that is delivered.
LEMMA QueueEntryDelivers ==
  ASSUME NEW L \in LedgerType, NEW r \in Route, NEW d \in Doc, NEW force \in BOOLEAN,
         OwedEntry(L, r, d), Waits(L, r, d)
  PROVE  LET e == QueueEntry(L, r, d, force) IN
         /\ Sendable(L, r, d) => e.disposition # "none" /\ e.revision = L.route[r].revision
         /\ Sendable(L, r, d) /\ e.history => ~CanForward(L, r, d, FALSE)
         /\ e.history => e.disposition # "none"
<1> DEFINE e == CurrentEntry(L, r, d)
           o == L.outbox[r][d]
           same == e.disposition # "none" /\ e.signed = Fingerprint(L.rec[d])
           unblock == e.history /\ CanForward(L, r, d, FALSE)
<1>1. o \in Entry /\ L.rec[d] \in Record /\ L.route[r].revision \in Nat
  BY DEF LedgerType
<1>2. e = o \/ (e = NoEntry /\ o.revision # L.route[r].revision)
  BY DEF CurrentEntry
<1>3. CASE ~Sendable(L, r, d)
  <2>1. QueueEntry(L, r, d, force) =
          IF e.disposition = "none" THEN o ELSE [e EXCEPT !.disposition = "retired"]
    BY <1>3 DEF QueueEntry, Sendable
  <2>2. CASE e.disposition = "none"
    BY <1>3, <2>1, <2>2 DEF Waits
  <2>3. CASE e.disposition # "none"
    <3>1. e = o
      BY <1>2, <2>3 DEF NoEntry
    <3> HIDE DEF e, o
    <3>2. [e EXCEPT !.disposition = "retired"].disposition = "retired"
      BY <1>1, <3>1 DEF Entry
    <3>3. QED
      BY <1>3, <2>1, <2>3, <3>2
  <2>4. QED
    BY <2>2, <2>3
<1>4. CASE Sendable(L, r, d) /\ same /\ ~unblock
  <2>1. QueueEntry(L, r, d, force) = KeptEntry(L, r, d, e, force)
    BY <1>4 DEF QueueEntry, Sendable
  <2>2. e = o /\ o.disposition # "none"
    BY <1>2, <1>4 DEF NoEntry
  <2>3. o.revision = L.route[r].revision
    BY <1>1, <2>2 DEF CurrentEntry, NoEntry
  <2>4. o.history => ~CanForward(L, r, d, FALSE)
    BY <1>4, <2>2
  <2> HIDE DEF e, o, same, unblock
  <2>5. /\ KeptEntry(L, r, d, e, force).revision = o.revision
        /\ KeptEntry(L, r, d, e, force).disposition # "none"
        /\ KeptEntry(L, r, d, e, force).history =>
             o.history \/ ~CanForward(L, r, d, FALSE)
    BY <1>1, <2>2 DEF KeptEntry, Entry
  <2>6. QED
    BY <1>1, <2>1, <2>3, <2>4, <2>5
<1>5. CASE Sendable(L, r, d) /\ ~(same /\ ~unblock)
  <2>1. QueueEntry(L, r, d, force) = NewEntry(L, r, d, e)
    BY <1>5 DEF QueueEntry, Sendable
  <2> DEFINE n == NewEntry(L, r, d, e)
  <2>2. n.disposition # "none" /\ n.revision = L.route[r].revision
    BY DEF NewEntry
  <2>3. n.history = ~CanForward(L, r, d, FALSE)
    BY DEF NewEntry
  <2> HIDE DEF n
  <2>4. QED
    BY <2>1, <2>2, <2>3 DEF n
<1>6. QED
  BY <1>3, <1>4, <1>5

\* Queueing makes everything delivered that was not yet.
LEMMA QueueDelivers ==
  ASSUME NEW L \in LedgerType, NEW R \in SUBSET Route, NEW D \in SUBSET Doc,
         NEW force \in BOOLEAN, Owed(L),
         \A r \in Route, d \in Doc : Waits(L, r, d),
         \A r \in Route, d \in Doc : (r \in R /\ d \in D) \/ Delivers(L, r, d)
  PROVE  AllDelivered(Queue(L, R, D, force))
<1> DEFINE K == Queue(L, R, D, force)
<1>1. /\ K.inbox = L.inbox /\ K.rec = L.rec /\ K.route = L.route /\ K.history = L.history
  BY QueueFields
<1>2. \A r \in Route, d \in Doc :
        K.outbox[r][d] = IF r \in R /\ d \in D /\ Configured(L, r) /\ Present(L, d)
                         THEN QueueEntry(L, r, d, force) ELSE L.outbox[r][d]
  BY DEF Queue, LedgerType
<1> HIDE DEF K
<1> SUFFICES ASSUME NEW r \in Route, NEW d \in Doc PROVE Delivers(K, r, d)
  BY DEF AllDelivered, K
<1>3. CanForward(K, r, d, FALSE) <=> CanForward(L, r, d, FALSE)
  BY <1>1, SameForward
<1>4. /\ Sendable(K, r, d) <=> Sendable(L, r, d)
      /\ Present(K, d) <=> Present(L, d)
  BY <1>1 DEF Sendable, Live, Present
<1>5. OwedEntry(L, r, d) /\ Waits(L, r, d)
  BY DEF Owed
<1>6. CASE r \in R /\ d \in D /\ Configured(L, r) /\ Present(L, d)
  <2>1. K.outbox[r][d] = QueueEntry(L, r, d, force)
    BY <1>2, <1>6
  <2> DEFINE e == K.outbox[r][d]
  <2>2. /\ Sendable(L, r, d) => e.disposition # "none" /\ e.revision = L.route[r].revision
        /\ Sendable(L, r, d) /\ e.history => ~CanForward(L, r, d, FALSE)
        /\ e.history => e.disposition # "none"
    BY <1>5, <2>1, QueueEntryDelivers
  <2>3. QED
    BY <1>1, <1>3, <1>4, <2>2 DEF Delivers, Waits
<1>7. CASE r \in R /\ d \in D /\ ~(Configured(L, r) /\ Present(L, d))
  <2>1. K.outbox[r][d] = L.outbox[r][d]
    BY <1>2, <1>7
  <2>2. Sendable(L, r, d) => Configured(L, r)
    BY DEF Sendable, Live, Configured
  <2>3. ~Present(L, d) => L.outbox[r][d].disposition = "none"
    BY <1>5 DEF OwedEntry
  <2>4. QED
    BY <1>4, <1>5, <1>7, <2>1, <2>2, <2>3 DEF Delivers, Waits
<1>8. CASE ~(r \in R /\ d \in D)
  <2>1. K.outbox[r][d] = L.outbox[r][d] /\ Delivers(L, r, d)
    BY <1>2, <1>8
  <2>2. QED
    BY <1>1, <2>1, SameDelivers
<1>9. QED
  BY <1>6, <1>7, <1>8

\* A ledger whose routes are all fenced owes nothing, but a retired obligation
\* is still one.
LEMMA NothingSendable ==
  ASSUME NEW K, \A r \in Route : ~Live(K, r),
         \A r \in Route, d \in Doc : Waits(K, r, d)
  PROVE  AllDelivered(K)
BY DEF AllDelivered, Delivers, Sendable

\* Withdrawing obligations leaves none that waits without being one.
LEMMA DetachWaits ==
  ASSUME NEW L \in LedgerType, NEW R \in SUBSET Route, NEW K, K.outbox = Detach(L, R).outbox,
         \A r \in Route, d \in Doc : Waits(L, r, d)
  PROVE  \A r \in Route, d \in Doc : Waits(K, r, d)
<1> SUFFICES ASSUME NEW r \in Route, NEW d \in Doc PROVE Waits(K, r, d)
  OBVIOUS
<1>1. L.outbox[r][d] \in Entry
  BY DEF LedgerType
<1>2. K.outbox[r][d] = IF r \in R /\ L.outbox[r][d].disposition # "none"
                       THEN [L.outbox[r][d] EXCEPT !.disposition = "retired"]
                       ELSE L.outbox[r][d]
  BY DEF Detach, LedgerType
<1>3. \A e \in Entry : [e EXCEPT !.disposition = "retired"].disposition = "retired"
  BY DEF Entry
<1>4. QED
  BY <1>1, <1>2, <1>3 DEF Waits

\* A quarantine withdraws every obligation: no route is left that could owe one.
LEMMA QuarantineDelivers ==
  ASSUME NEW L \in LedgerType, \A r \in Route, d \in Doc : Waits(L, r, d)
  PROVE  AllDelivered(Quarantine(L))
<1> DEFINE K == Quarantine(L)
<1>1. K.outbox = Detach(L, Route).outbox
  BY DEF Quarantine, Fence, Detach, LedgerType
<1>2. \A r \in Route :
        K.route[r] = IF Configured(L, r)
                     THEN [revision |-> L.route[r].revision + 1, state |-> "blocked"]
                     ELSE L.route[r]
  BY DEF Quarantine, Fence, Detach, LedgerType
<1> HIDE DEF K
<1>3. ASSUME NEW r \in Route PROVE ~Live(K, r)
  <2>1. CASE Configured(L, r)
    <3>1. K.route[r] = [revision |-> L.route[r].revision + 1, state |-> "blocked"]
      BY <1>2, <2>1
    <3>2. QED
      BY <3>1 DEF Live
  <2>2. CASE ~Configured(L, r)
    BY <1>2, <2>2 DEF Configured, Live
  <2>3. QED
    BY <2>1, <2>2
<1>4. \A r \in Route, d \in Doc : Waits(K, r, d)
  BY <1>1, DetachWaits
<1>5. QED
  BY <1>3, <1>4, NothingSendable DEF K

-----------------------------------------------------------------------------
(* What the other homes can rely on.  `Follows` says of an operation that it *)
(* leaves the identity, the checkpoints and the routes alone, or moves a     *)
(* route past its revision, attaches copies to inbound routes only and       *)
(* confirms nothing.                                                         *)

Follows(L, K) ==
  /\ K.inbox = L.inbox /\ K.history = L.history /\ K.full = L.full
  /\ \A r \in Route :
       \/ K.route[r] = L.route[r]
       \/ K.route[r].revision > L.route[r].revision /\ K.route[r].state # "active"
  /\ \A d \in Doc, r \in Route :
       K.rec[d].from[r].state = "attached" =>
         L.rec[d].from[r].state = "attached" \/ Dst[r] = L.inbox
  /\ \A r \in Route, d \in Doc :
       K.outbox[r][d].disposition = "confirmed" =>
         /\ L.outbox[r][d].disposition = "confirmed"
         /\ K.outbox[r][d].signed = L.outbox[r][d].signed
         /\ K.outbox[r][d].outcome = L.outbox[r][d].outcome

BodiesKept(L, K) == \A d \in Doc : L.rec[d].body => K.rec[d].body

\* Every copy is in the state it was.
SameStates(L, K) == \A d \in Doc : Fingerprint(K.rec[d]) = Fingerprint(L.rec[d])

\* Two steps that only go forward make one.
LEMMA FollowsTransitive ==
  ASSUME NEW L \in LedgerType, NEW M \in LedgerType, NEW K \in LedgerType,
         Follows(L, M), Follows(M, K)
  PROVE  Follows(L, K)
<1>1. \A r \in Route : /\ L.route[r].revision \in Nat /\ M.route[r].revision \in Nat
                       /\ K.route[r].revision \in Nat
  BY DEF LedgerType
<1>2. ASSUME NEW r \in Route
      PROVE  \/ K.route[r] = L.route[r]
             \/ K.route[r].revision > L.route[r].revision /\ K.route[r].state # "active"
  BY <1>1 DEF Follows
<1>3. QED
  BY <1>2 DEF Follows

\* Queueing confirms nothing by itself.
LEMMA QueueEntryConfirmed ==
  ASSUME NEW L \in LedgerType, NEW r \in Route, NEW d \in Doc, NEW force \in BOOLEAN,
         QueueEntry(L, r, d, force).disposition = "confirmed"
  PROVE  /\ L.outbox[r][d].disposition = "confirmed"
         /\ QueueEntry(L, r, d, force).signed = L.outbox[r][d].signed
         /\ QueueEntry(L, r, d, force).outcome = L.outbox[r][d].outcome
<1> DEFINE e == CurrentEntry(L, r, d)
           o == L.outbox[r][d]
           q == QueueEntry(L, r, d, force)
<1>1. o \in Entry
  BY DEF LedgerType
<1>2. e = o \/ (e = NoEntry)
  BY DEF CurrentEntry
<1>3. \/ q = o
      \/ q = [e EXCEPT !.disposition = "retired"]
      \/ q = KeptEntry(L, r, d, e, force)
      \/ q = NewEntry(L, r, d, e)
  BY DEF QueueEntry
<1>4. e \in Entry
  <2>1. NoEntry \in Entry
    BY DEF NoEntry, NoState, Entry, OriginState, Dispositions, Outcomes, States
  <2>2. QED
    BY <1>1, <1>2, <2>1
<1> HIDE DEF q
<1>5. q # [e EXCEPT !.disposition = "retired"]
  BY <1>4 DEF q, Entry
<1>6. q # NewEntry(L, r, d, e)
  <2>1. NewEntry(L, r, d, e).disposition \in {"pending", "blocked"}
    BY DEF NewEntry
  <2>2. q.disposition = "confirmed"
    BY DEF q
  <2>3. QED
    BY <2>1, <2>2
<1>7. CASE q = KeptEntry(L, r, d, e, force)
  <2>1. e.disposition = "confirmed" /\ q.signed = e.signed /\ q.outcome = e.outcome
    <3> HIDE DEF e
    <3>1. QED
      BY <1>4, <1>7 DEF q, KeptEntry, Entry
  <2>2. e = o
    BY <1>2, <2>1 DEF NoEntry
  <2>3. QED
    BY <2>1, <2>2 DEF q
<1>8. QED
  BY <1>3, <1>5, <1>6, <1>7 DEF q

\* Queueing changes obligations only.
LEMMA QueueFollows ==
  ASSUME NEW L \in LedgerType, NEW R \in SUBSET Route, NEW D \in SUBSET Doc,
         NEW force \in BOOLEAN
  PROVE  LET K == Queue(L, R, D, force) IN
         Follows(L, K) /\ BodiesKept(L, K) /\ SameStates(L, K)
<1> DEFINE K == Queue(L, R, D, force)
<1>1. /\ K.inbox = L.inbox /\ K.rec = L.rec /\ K.route = L.route
      /\ K.history = L.history /\ K.full = L.full
  BY QueueFields
<1>2. \A r \in Route, d \in Doc :
        K.outbox[r][d] = IF r \in R /\ d \in D /\ Configured(L, r) /\ Present(L, d)
                         THEN QueueEntry(L, r, d, force) ELSE L.outbox[r][d]
  BY DEF Queue, LedgerType
<1> HIDE DEF K
<1>3. ASSUME NEW r \in Route, NEW d \in Doc, K.outbox[r][d].disposition = "confirmed"
      PROVE  /\ L.outbox[r][d].disposition = "confirmed"
             /\ K.outbox[r][d].signed = L.outbox[r][d].signed
             /\ K.outbox[r][d].outcome = L.outbox[r][d].outcome
  <2>1. K.outbox[r][d] = L.outbox[r][d] \/ K.outbox[r][d] = QueueEntry(L, r, d, force)
    BY <1>2
  <2>2. CASE K.outbox[r][d] = QueueEntry(L, r, d, force)
    BY <1>3, <2>2, QueueEntryConfirmed
  <2>3. QED
    BY <1>3, <2>1, <2>2
<1>4. QED
  BY <1>1, <1>3 DEF Follows, BodiesKept, SameStates, K

\* A ledger that differs in one record.
LEMMA RecordFollows ==
  ASSUME NEW L, NEW K, NEW d \in Doc,
         K.inbox = L.inbox, K.route = L.route, K.outbox = L.outbox,
         K.history = L.history, K.full = L.full,
         \A x \in Doc : x # d => K.rec[x] = L.rec[x],
         \A q \in Route : \/ K.rec[d].from[q] = L.rec[d].from[q]
                          \/ K.rec[d].from[q].state # "attached"
                          \/ Dst[q] = L.inbox
  PROVE  /\ Follows(L, K)
         /\ (L.rec[d].body => K.rec[d].body) => BodiesKept(L, K)
         /\ Fingerprint(K.rec[d]) = Fingerprint(L.rec[d]) => SameStates(L, K)
BY DEF Follows, BodiesKept, SameStates

\* Detaching, and moving routes past their revision.
LEMMA DetachFollows ==
  ASSUME NEW L \in LedgerType, NEW R \in SUBSET Route, NEW K,
         K.inbox = L.inbox, K.history = L.history, K.full = L.full,
         K.rec = Detach(L, R).rec, K.outbox = Detach(L, R).outbox,
         \A r \in Route :
           \/ K.route[r] = L.route[r]
           \/ K.route[r].revision = L.route[r].revision + 1 /\ K.route[r].state # "active"
  PROVE  Follows(L, K) /\ BodiesKept(L, K) /\ SameStates(L, K)
<1>1. \A r \in Route : L.route[r].revision \in Nat
  BY DEF LedgerType
<1>2. \A r \in Route : \/ K.route[r] = L.route[r]
                       \/ /\ K.route[r].revision > L.route[r].revision
                          /\ K.route[r].state # "active"
  BY <1>1
<1>3. ASSUME NEW d \in Doc
      PROVE  K.rec[d].body = L.rec[d].body /\ Fingerprint(K.rec[d]) = Fingerprint(L.rec[d])
  <2>1. L.rec[d] \in Record
    BY DEF LedgerType
  <2>2. K.rec[d].body = L.rec[d].body
    BY <2>1 DEF Detach, LedgerType, Record
  <2>3. QED
    BY <2>2, DetachFields DEF Fingerprint
<1>4. ASSUME NEW d \in Doc, NEW r \in Route, K.rec[d].from[r].state = "attached"
      PROVE  L.rec[d].from[r].state = "attached"
  BY <1>4, DetachFields
<1>5. ASSUME NEW r \in Route, NEW d \in Doc, K.outbox[r][d].disposition = "confirmed"
      PROVE  K.outbox[r][d] = L.outbox[r][d]
  <2>1. ~(r \in R /\ L.outbox[r][d].disposition # "none")
    BY <1>5, DetachFields
  <2>2. QED
    BY <2>1 DEF Detach, LedgerType
<1>6. QED
  BY <1>2, <1>3, <1>4, <1>5 DEF Follows, BodiesKept, SameStates

\* Nor does a quarantine take anything back that was told.
LEMMA QuarantineFollows ==
  ASSUME NEW L \in LedgerType
  PROVE  LET K == Quarantine(L) IN
         /\ Follows(L, K) /\ BodiesKept(L, K) /\ SameStates(L, K)
         /\ K.receipts = L.receipts
<1> DEFINE K == Quarantine(L)
<1>1. /\ K.inbox = L.inbox /\ K.receipts = L.receipts /\ K.history = L.history
      /\ K.full = L.full /\ K.rec = Detach(L, Route).rec /\ K.outbox = Detach(L, Route).outbox
  BY DEF Quarantine, Fence, Detach, LedgerType
<1>2. \A r \in Route :
        K.route[r] = IF Configured(L, r)
                     THEN [revision |-> L.route[r].revision + 1, state |-> "blocked"]
                     ELSE L.route[r]
  BY DEF Quarantine, Fence, Detach, LedgerType
<1> HIDE DEF K
<1>3. ASSUME NEW r \in Route
      PROVE  \/ K.route[r] = L.route[r]
             \/ K.route[r].revision = L.route[r].revision + 1 /\ K.route[r].state # "active"
  <2>1. CASE Configured(L, r)
    <3>1. K.route[r] = [revision |-> L.route[r].revision + 1, state |-> "blocked"]
      BY <1>2, <2>1
    <3>2. QED
      BY <3>1
  <2>2. CASE ~Configured(L, r)
    BY <1>2, <2>2
  <2>3. QED
    BY <2>1, <2>2
<1>4. QED
  BY <1>1, <1>3, DetachFollows DEF K

-----------------------------------------------------------------------------
(* The operations, one lemma each: what they owe is delivered, what others   *)
(* rely on stays.                                                            *)

Advances(L, K) == Follows(L, K) /\ BodiesKept(L, K) /\ AllDelivered(K)

\* One record in a new state, queued everywhere.
LEMMA StateQueued ==
  ASSUME NEW L \in LedgerType, NEW A \in LedgerType, NEW d \in Doc, Sound(L), AllDelivered(L),
         A.inbox = L.inbox, A.route = L.route, A.outbox = L.outbox, A.receipts = L.receipts,
         A.history = L.history, A.full = L.full,
         \A x \in Doc : x # d => A.rec[x] = L.rec[x],
         A.rec[d].state # "absent", L.rec[d].body => A.rec[d].body,
         \A q \in Route : \/ A.rec[d].from[q] = L.rec[d].from[q]
                          \/ A.rec[d].from[q].state = "none"
  PROVE  LET K == Queue(A, Route, {d}, FALSE) IN
         Advances(L, K) /\ K.rec = A.rec /\ K.receipts = L.receipts
<1> DEFINE K == Queue(A, Route, {d}, FALSE)
<1>1. Owed(A)
  BY RecordSound DEF Sound
<1>2. \A r \in Route, x \in Doc : Waits(A, r, x)
  BY DEF AllDelivered, Delivers, Waits
<1>3. \A r \in Route, x \in Doc : (r \in Route /\ x \in {d}) \/ Delivers(A, r, x)
  BY SameDelivers DEF AllDelivered
<1>4. AllDelivered(K)
  BY <1>1, <1>2, <1>3, QueueDelivers
<1>5. Follows(L, A) /\ BodiesKept(L, A)
  BY RecordFollows
<1>6. K \in LedgerType
  BY QueueType
<1>7. /\ K.inbox = A.inbox /\ K.next = A.next /\ K.quarantined = A.quarantined
      /\ K.rec = A.rec /\ K.route = A.route /\ K.receipts = A.receipts
      /\ K.history = A.history /\ K.full = A.full
  BY QueueFields
<1>8. Follows(A, K) /\ BodiesKept(A, K)
  BY QueueFollows
<1> HIDE DEF K
<1>9. Follows(L, K) /\ BodiesKept(L, K)
  BY <1>5, <1>6, <1>8, FollowsTransitive DEF BodiesKept
<1>10. QED
  BY <1>4, <1>7, <1>9 DEF Advances, K

\* A copy hidden, or its body lost, is in the state it was.
LEMMA SameStateAdvances ==
  ASSUME NEW L \in LedgerType, NEW d \in Doc, NEW rec \in Record, AllDelivered(L),
         rec.version = L.rec[d].version, rec.state = L.rec[d].state, rec.from = L.rec[d].from
  PROVE  LET K == [L EXCEPT !.rec[d] = rec] IN
         /\ Follows(L, K) /\ AllDelivered(K) /\ SameStates(L, K)
         /\ (L.rec[d].body => rec.body) => BodiesKept(L, K)
         /\ \A x \in Doc : x # d => K.rec[x].body = L.rec[x].body
         /\ K.receipts = L.receipts
<1> DEFINE K == [L EXCEPT !.rec[d] = rec]
<1>1. /\ K.inbox = L.inbox /\ K.route = L.route /\ K.outbox = L.outbox
      /\ K.receipts = L.receipts /\ K.history = L.history /\ K.full = L.full
      /\ K.rec[d] = rec /\ \A x \in Doc : x # d => K.rec[x] = L.rec[x]
  BY DEF LedgerType
<1> HIDE DEF K
<1>2. \A x \in Doc : K.rec[x].state = L.rec[x].state /\ K.rec[x].from = L.rec[x].from
  BY <1>1
<1>3. \A r \in Route, x \in Doc : Delivers(K, r, x)
  BY <1>1, <1>2, SameDelivers DEF AllDelivered
<1>4. Fingerprint(K.rec[d]) = Fingerprint(L.rec[d])
  BY <1>1 DEF Fingerprint
<1>5. /\ Follows(L, K) /\ SameStates(L, K)
      /\ (L.rec[d].body => rec.body) => BodiesKept(L, K)
  BY <1>1, <1>4, RecordFollows
<1>6. QED
  BY <1>1, <1>3, <1>5 DEF AllDelivered, K

\* Each operation goes forward and leaves everything owed that it makes the home owe.
LEMMA PublishAdvances ==
  ASSUME NEW L \in LedgerType, NEW d \in Doc, Sound(L), AllDelivered(L), ~Present(L, d)
  PROVE  LET K == Publish(L, d) IN
         /\ Advances(L, K)
         /\ Fingerprint(K.rec[d]) = [version |-> L.next, state |-> "live"]
         /\ \A x \in Doc : x # d => K.rec[x] = L.rec[x]
         /\ K.receipts = L.receipts
<1> DEFINE rec == [Absent EXCEPT !.version = L.next, !.state = "live", !.body = TRUE]
<1>1. L.next \in Nat /\ L.next + 1 \in Nat
  BY DEF LedgerType
<1>2. rec \in Record
  BY <1>1 DEF Absent, NoContribution, Record, Contribution, States
<1>3. /\ rec.version = L.next /\ rec.state = "live" /\ rec.body
      /\ \A q \in Route : rec.from[q].state = "none"
  BY DEF Absent, NoContribution
<1> DEFINE A == [L EXCEPT !.rec[d] = rec, !.next = L.next + 1]
           K == Queue(A, Route, {d}, FALSE)
<1>4. Publish(L, d) = K
  BY DEF Publish
<1> HIDE DEF rec
<1>a. A \in LedgerType
  BY <1>1, <1>2, WithRecord
<1>b. /\ A.inbox = L.inbox /\ A.route = L.route /\ A.outbox = L.outbox
      /\ A.receipts = L.receipts /\ A.history = L.history /\ A.full = L.full
      /\ A.rec[d] = rec /\ \A x \in Doc : x # d => A.rec[x] = L.rec[x]
  BY DEF LedgerType
<1> HIDE DEF A
<1>5. Advances(L, K) /\ K.rec = A.rec /\ K.receipts = L.receipts
  BY <1>1, <1>3, <1>a, <1>b, StateQueued
<1>6. Fingerprint(rec) = [version |-> L.next, state |-> "live"]
  BY <1>3 DEF Fingerprint
<1>7. QED
  BY <1>b, <1>4, <1>5, <1>6

LEMMA DeleteAdvances ==
  ASSUME NEW L \in LedgerType, NEW d \in Doc, Sound(L), AllDelivered(L), Present(L, d)
  PROVE  LET K == Delete(L, d) IN
         /\ Advances(L, K)
         /\ Origin[d] # L.inbox => SameStates(L, K)
         /\ Origin[d] = L.inbox => Fingerprint(K.rec[d]) = [version |-> L.next, state |-> "deleted"]
         /\ \A x \in Doc : x # d => Fingerprint(K.rec[x]) = Fingerprint(L.rec[x])
         /\ K.receipts = L.receipts
<1>1. L.rec[d] \in Record /\ L.next \in Nat /\ L.next + 1 \in Nat
  BY DEF LedgerType
<1>2. CASE Origin[d] # L.inbox
  <2> DEFINE rec == [L.rec[d] EXCEPT !.suppressed = TRUE]
  <2>1. rec \in Record /\ rec.version = L.rec[d].version /\ rec.state = L.rec[d].state
        /\ rec.from = L.rec[d].from /\ rec.body = L.rec[d].body
    BY <1>1 DEF Record
  <2>2. Delete(L, d) = [L EXCEPT !.rec[d] = rec]
    BY <1>2 DEF Delete, LedgerType
  <2> HIDE DEF rec
  <2>3. LET K == [L EXCEPT !.rec[d] = rec] IN
        /\ Follows(L, K) /\ AllDelivered(K) /\ SameStates(L, K)
        /\ (L.rec[d].body => rec.body) => BodiesKept(L, K)
        /\ K.receipts = L.receipts
    BY <2>1, SameStateAdvances
  <2>4. QED
    BY <1>2, <2>1, <2>2, <2>3 DEF Advances, SameStates
<1>3. CASE Origin[d] = L.inbox
  <2> DEFINE rec == [L.rec[d] EXCEPT !.version = L.next, !.state = "deleted"]
             A == [L EXCEPT !.rec[d] = rec, !.next = L.next + 1]
             K == Queue(A, Route, {d}, FALSE)
  <2>1. rec \in Record /\ rec.version = L.next /\ rec.state = "deleted"
        /\ rec.from = L.rec[d].from /\ rec.body = L.rec[d].body
    BY <1>1 DEF Record, States
  <2>2. Delete(L, d) = K
    BY <1>3 DEF Delete, LedgerType
  <2> HIDE DEF rec
  <2>a. A \in LedgerType
    BY <1>1, <2>1, WithRecord
  <2>b. /\ A.inbox = L.inbox /\ A.route = L.route /\ A.outbox = L.outbox
        /\ A.receipts = L.receipts /\ A.history = L.history /\ A.full = L.full
        /\ A.rec[d] = rec /\ \A x \in Doc : x # d => A.rec[x] = L.rec[x]
    BY DEF LedgerType
  <2> HIDE DEF A
  <2>3. Advances(L, K) /\ K.rec = A.rec /\ K.receipts = L.receipts
    BY <2>1, <2>a, <2>b, StateQueued DEF Present
  <2> HIDE DEF K
  <2>4. Fingerprint(rec) = [version |-> L.next, state |-> "deleted"]
    BY <2>1 DEF Fingerprint
  <2>5. QED
    BY <1>3, <2>b, <2>2, <2>3, <2>4
<1>4. QED
  BY <1>2, <1>3

LEMMA SuppressAdvances ==
  ASSUME NEW L \in LedgerType, NEW d \in Doc, NEW b \in BOOLEAN, Sound(L), AllDelivered(L),
         Present(L, d)
  PROVE  LET K == Suppress(L, d, b) IN
         Advances(L, K) /\ SameStates(L, K) /\ K.receipts = L.receipts
<1> DEFINE rec == [L.rec[d] EXCEPT !.suppressed = b]
           A == [L EXCEPT !.rec[d] = rec, !.next = L.next]
           K == Queue(A, Route, {d}, FALSE)
<1>1. L.rec[d] \in Record /\ L.next \in Nat
  BY DEF LedgerType
<1>2. rec \in Record /\ rec.version = L.rec[d].version /\ rec.state = L.rec[d].state
      /\ rec.from = L.rec[d].from /\ rec.body = L.rec[d].body
  BY <1>1 DEF Record
<1>3. A = [L EXCEPT !.rec[d].suppressed = b]
  BY DEF LedgerType
<1>4. Suppress(L, d, b) = K
  BY <1>3 DEF Suppress
<1> HIDE DEF rec
<1>a. A \in LedgerType
  BY <1>1, <1>2, WithRecord
<1>b. /\ A.inbox = L.inbox /\ A.route = L.route /\ A.outbox = L.outbox
      /\ A.receipts = L.receipts /\ A.history = L.history /\ A.full = L.full
      /\ A.rec[d] = rec /\ \A x \in Doc : x # d => A.rec[x] = L.rec[x]
  BY DEF LedgerType
<1> HIDE DEF A
<1>5. Advances(L, K) /\ K.rec = A.rec /\ K.receipts = L.receipts
  BY <1>2, <1>a, <1>b, StateQueued DEF Present
<1> HIDE DEF K
<1>6. QED
  BY <1>2, <1>b, <1>4, <1>5 DEF SameStates, Fingerprint

\* A route configured or revoked, and everything queued again.
LEMMA FencedQueueAdvances ==
  ASSUME NEW L \in LedgerType, NEW r \in Route, NEW K \in LedgerType, Sound(L), AllDelivered(L),
         K.inbox = L.inbox, K.receipts = L.receipts, K.history = L.history, K.full = L.full,
         K.rec = Detach(L, {r}).rec, K.outbox = Detach(L, {r}).outbox,
         \A q \in Route : q # r => K.route[q] = L.route[q],
         L.inbox \in {Src[r], Dst[r]}, K.route[r].state \notin {"none", "active"},
         K.route[r].revision = L.route[r].revision + 1
  PROVE  LET M == QueueAll(K) IN
         Advances(L, M) /\ SameStates(L, M) /\ M.receipts = L.receipts
<1> DEFINE M == Queue(K, Route, Doc, FALSE)
<1>1. \A q \in Route : \/ K.route[q] = L.route[q] /\ (q \in {r} => ~Configured(L, q))
                       \/ /\ q \in {r} /\ L.inbox \in {Src[q], Dst[q]}
                          /\ K.route[q].state # "none"
                          /\ K.route[q].revision = L.route[q].revision + 1
  OBVIOUS
<1>2. Owed(K)
  BY <1>1, DetachSound DEF Sound
<1>3. \A q \in Route, d \in Doc : Waits(K, q, d)
  BY DetachWaits DEF AllDelivered, Delivers
<1>4. AllDelivered(M)
  BY <1>2, <1>3, QueueDelivers
<1>5. \A q \in Route :
        \/ K.route[q] = L.route[q]
        \/ K.route[q].revision = L.route[q].revision + 1 /\ K.route[q].state # "active"
  OBVIOUS
<1>6. Follows(L, K) /\ BodiesKept(L, K) /\ SameStates(L, K)
  BY <1>5, DetachFollows
<1>7. M \in LedgerType
  BY QueueType
<1>8. Follows(K, M) /\ BodiesKept(K, M) /\ SameStates(K, M)
  BY QueueFollows
<1>9. M.receipts = K.receipts
  BY DEF Queue, LedgerType
<1> HIDE DEF M
<1>10. Follows(L, M) /\ BodiesKept(L, M) /\ SameStates(L, M)
  BY <1>6, <1>7, <1>8, FollowsTransitive DEF BodiesKept, SameStates
<1>11. QED
  BY <1>4, <1>9, <1>10 DEF Advances, QueueAll, M

LEMMA ConfigureAdvances ==
  ASSUME NEW L \in LedgerType, NEW r \in Route, NEW state \in {"reconnecting", "detached"},
         Sound(L), AllDelivered(L), CanConfigure(L, r)
  PROVE  LET K == Configure(L, r, state) IN
         Advances(L, K) /\ SameStates(L, K) /\ K.receipts = L.receipts
<1> DEFINE D == Detach(L, {r})
           v == [revision |-> L.route[r].revision + 1, state |-> state]
           K == [D EXCEPT !.route[r] = v]
<1>1. D \in LedgerType
  BY DetachType
<1>2. L.route[r].revision + 1 \in Nat
  BY DEF LedgerType
<1>3. v \in [revision : Nat, state : RouteStates]
  BY <1>2 DEF RouteStates
<1>4. D.route = L.route /\ D.inbox = L.inbox /\ D.receipts = L.receipts
      /\ D.history = L.history /\ D.full = L.full
  BY DetachFields
<1>5. v.revision = L.route[r].revision + 1 /\ v.state \notin {"none", "active"}
  OBVIOUS
<1> HIDE DEF D
<1>6. /\ K.inbox = D.inbox /\ K.receipts = D.receipts /\ K.history = D.history
      /\ K.full = D.full /\ K.rec = D.rec /\ K.outbox = D.outbox /\ K.route[r] = v
      /\ \A q \in Route : q # r => K.route[q] = D.route[q]
  BY <1>1 DEF LedgerType
<1>7. K \in LedgerType
  BY <1>1, <1>3, WithRoute
<1>8. Configure(L, r, state) = QueueAll(K)
  BY DEF Configure, D
<1> HIDE DEF K, v
<1>9. /\ K.rec = Detach(L, {r}).rec /\ K.outbox = Detach(L, {r}).outbox
      /\ K.inbox = L.inbox /\ K.receipts = L.receipts /\ K.history = L.history
      /\ K.full = L.full
      /\ \A q \in Route : q # r => K.route[q] = L.route[q]
      /\ K.route[r].state \notin {"none", "active"}
      /\ K.route[r].revision = L.route[r].revision + 1
  BY <1>4, <1>5, <1>6 DEF D
<1>10. L.inbox \in {Src[r], Dst[r]}
  BY DEF CanConfigure
<1>11. LET M == QueueAll(K) IN
       Advances(L, M) /\ SameStates(L, M) /\ M.receipts = L.receipts
  BY <1>7, <1>9, <1>10, FencedQueueAdvances
<1>12. QED
  BY <1>8, <1>11

LEMMA RevokeAdvances ==
  ASSUME NEW L \in LedgerType, NEW r \in Route, Sound(L), AllDelivered(L), Configured(L, r)
  PROVE  LET K == Revoke(L, r) IN
         Advances(L, K) /\ SameStates(L, K) /\ K.receipts = L.receipts
<1> DEFINE K == Fence(L, {r}, "detached")
<1>1. K \in LedgerType
  BY FenceType DEF RouteStates
<1>2. /\ K.inbox = L.inbox /\ K.receipts = L.receipts /\ K.history = L.history
      /\ K.full = L.full
      /\ K.rec = Detach(L, {r}).rec /\ K.outbox = Detach(L, {r}).outbox
      /\ K.route[r] = [revision |-> L.route[r].revision + 1, state |-> "detached"]
      /\ \A q \in Route : q # r => K.route[q] = L.route[q]
  BY DEF Fence, Detach, LedgerType
<1>3. L.inbox \in {Src[r], Dst[r]}
  BY DEF Sound, Frame, RoutesBound
<1> HIDE DEF K
<1>4. LET M == QueueAll(K) IN
      Advances(L, M) /\ SameStates(L, M) /\ M.receipts = L.receipts
  BY <1>1, <1>2, <1>3, FencedQueueAdvances
<1>5. QED
  BY <1>4 DEF Revoke, K

LEMMA QuarantineAdvances ==
  ASSUME NEW L \in LedgerType, AllDelivered(L)
  PROVE  LET K == Quarantine(L) IN
         Advances(L, K) /\ SameStates(L, K) /\ K.receipts = L.receipts
<1>1. \A r \in Route, d \in Doc : Waits(L, r, d)
  BY DEF AllDelivered, Delivers
<1>2. AllDelivered(Quarantine(L))
  BY <1>1, QuarantineDelivers
<1>3. QED
  BY <1>2, QuarantineFollows DEF Advances

-----------------------------------------------------------------------------
(* Applying. *)

\* A record stays in its state, or takes state s, which then is no earlier one.
Adopts(old, new, s) ==
  \/ Fingerprint(new) = Fingerprint(old)
  \/ /\ Fingerprint(new) = s /\ s.state # "absent"
     /\ old.state = "deleted" => s.state = "deleted"

\* What becomes of a record's state: it stays, or it becomes the state that was
\* sent, which then is no earlier one.
LEMMA AppliedState ==
  ASSUME NEW L \in LedgerType, NEW r \in Route, NEW d \in Doc, NEW s \in OriginState,
         NEW staged \in BOOLEAN
  PROVE  /\ L.rec[d].body => AppliedRecord(L, r, d, s, staged).body
         /\ Adopts(L.rec[d], AppliedRecord(L, r, d, s, staged), s)
<1> DEFINE rec == AppliedRecord(L, r, d, s, staged)
           old == L.rec[d]
           v == Verdict(L, r, d, s, staged)
<1>1. old \in Record /\ s.version \in Nat /\ s = [version |-> s.version, state |-> s.state]
  BY DEF LedgerType, OriginState
<1>2. v \in {"accept", "fence"} =>
        /\ s.state # "absent"
        /\ old.state = "deleted" => s.state = "deleted"
  <2>1. s.state \in {"live", "deleted", "absent"}
    BY DEF OriginState, States
  <2>2. QED
    BY <2>1 DEF Verdict
<1>3. CASE v = "accept"
  <2>1. rec = Accepted(L, r, d, s, staged)
    BY <1>3 DEF AppliedRecord
  <2> HIDE DEF rec
  <2>2. rec.version = s.version /\ rec.state = s.state /\ (old.body => rec.body)
    BY <1>1, <2>1 DEF Accepted, Record
  <2>3. QED
    BY <1>1, <1>2, <1>3, <2>2 DEF Fingerprint, Adopts, rec
<1>4. CASE v = "fence" /\ s.state = "deleted"
  <2>1. rec = [old EXCEPT !.version = s.version, !.state = s.state]
    BY <1>4 DEF AppliedRecord
  <2> HIDE DEF rec
  <2>2. rec.version = s.version /\ rec.state = s.state /\ rec.body = old.body
    BY <1>1, <2>1 DEF Record
  <2>3. QED
    BY <1>1, <1>2, <1>4, <2>2 DEF Fingerprint, Adopts, rec
<1>5. CASE v # "accept" /\ ~(v = "fence" /\ s.state = "deleted")
  BY <1>5 DEF AppliedRecord, Adopts
<1>6. QED
  BY <1>3, <1>4, <1>5

\* A receipt is about the state the record is in afterwards, and says committed
\* only of a body that is there.
LEMMA ReceiptOfHonest ==
  ASSUME NEW L \in LedgerType, NEW r \in Route, NEW d \in Doc, NEW s \in OriginState,
         NEW staged \in BOOLEAN, Verdict(L, r, d, s, staged) \in {"superseded", "accept"}
  PROVE  LET rec == AppliedRecord(L, r, d, s, staged)
             x == ReceiptOf(L, r, d, s, staged)
         IN /\ x.route = r /\ x.doc = d /\ x.signed = Fingerprint(rec) /\ rec.state # "absent"
            /\ x.disposition = "committed" => rec.body
<1> DEFINE rec == AppliedRecord(L, r, d, s, staged)
           x == ReceiptOf(L, r, d, s, staged)
           old == L.rec[d]
<1>1. old \in Record
  BY DEF LedgerType
<1>2. CASE Verdict(L, r, d, s, staged) = "superseded"
  <2>1. rec = old
    BY <1>2 DEF AppliedRecord
  <2>2. x = ReceiptFor(L, r, d, old, "superseded")
    BY <1>2 DEF ReceiptOf
  <2>3. old.state # "absent"
    BY <1>2 DEF Verdict
  <2> HIDE DEF rec, x, old
  <2>4. QED
    BY <2>1, <2>2, <2>3 DEF ReceiptFor, rec, x
<1>3. CASE Verdict(L, r, d, s, staged) = "accept"
  <2> DEFINE new == Accepted(L, r, d, s, staged)
  <2>1. rec = new
    BY <1>3 DEF AppliedRecord
  <2>2. x = ReceiptFor(L, r, d, new, Outcome(new))
    BY <1>3 DEF ReceiptOf
  <2>3. s.state # "absent" /\ (s.state = "live" /\ ~old.suppressed /\ ~staged => Available(old))
    BY <1>3 DEF Verdict
  <2>4. /\ new.state = s.state /\ new.suppressed = old.suppressed
        /\ old.body \/ (staged /\ s.state = "live" /\ ~old.suppressed) => new.body
    BY <1>1 DEF Accepted, Record
  <2>5. s.state \in {"live", "deleted", "absent"}
    BY DEF OriginState, States
  <2> HIDE DEF new
  <2>6. Outcome(new) = "committed" => new.state = "live" /\ ~new.suppressed
    BY <2>3, <2>4, <2>5 DEF Outcome
  <2>7. Outcome(new) = "committed" => new.body
    BY <2>3, <2>4, <2>6 DEF Available
  <2> HIDE DEF rec, x, old
  <2>8. x.route = r /\ x.doc = d /\ x.signed = Fingerprint(new) /\ x.disposition = Outcome(new)
    BY <2>2 DEF ReceiptFor
  <2>9. QED
    BY <2>1, <2>3, <2>4, <2>7, <2>8 DEF rec, x
<1>4. QED
  BY <1>2, <1>3

\* Receiving goes forward, whatever was received.
LEMMA AppliedFollows ==
  ASSUME NEW L \in LedgerType, NEW r \in Route, NEW S \in Cut, NEW staged \in BOOLEAN,
         Dst[r] = L.inbox
  PROVE  LET K == Applied(L, r, S, staged) IN
         Follows(L, K) /\ BodiesKept(L, K)
<1> DEFINE K == Applied(L, r, S, staged)
<1>1. /\ K.inbox = L.inbox /\ K.next = L.next /\ K.quarantined = L.quarantined
      /\ K.route = L.route /\ K.outbox = L.outbox
      /\ K.history = L.history /\ K.full = L.full
      /\ \A d \in Doc : K.rec[d] = AppliedRecord(L, r, d, S[d], staged)
  BY AppliedFields
<1>2. \A d \in Doc : S[d] \in OriginState
  BY DEF Cut
<1> HIDE DEF K
<1>3. ASSUME NEW d \in Doc
      PROVE  /\ L.rec[d].body => K.rec[d].body
             /\ \A q \in Route : K.rec[d].from[q].state = "attached" =>
                  L.rec[d].from[q].state = "attached" \/ Dst[q] = L.inbox
  <2>1. K.rec[d] = AppliedRecord(L, r, d, S[d], staged) /\ S[d] \in OriginState
    BY <1>1, <1>2
  <2>2. L.rec[d].body => K.rec[d].body
    BY <2>1, AppliedState
  <2>3. \A q \in Route : q # r => K.rec[d].from[q] = L.rec[d].from[q]
    <3> DEFINE rec == AppliedRecord(L, r, d, S[d], staged)
    <3>1. \A q \in Route : rec.from[q] =
            IF Verdict(L, r, d, S[d], staged) = "accept" /\ q = r
            THEN [revision |-> L.route[r].revision,
                  state |-> IF L.route[r].state = "active" THEN "attached" ELSE "detached"]
            ELSE L.rec[d].from[q]
      BY <2>1, AppliedRecordShape
    <3>2. K.rec[d] = rec
      BY <2>1
    <3> HIDE DEF rec
    <3>3. QED
      BY <3>1, <3>2
  <2>4. QED
    BY <2>2, <2>3
<1>4. QED
  BY <1>1, <1>3 DEF Follows, BodiesKept, K

\* What applying one state leaves: the record as `AppliedRecord` says, the others
\* as they were.
LEMMA ApplyAdvances ==
  ASSUME NEW L \in LedgerType, NEW r \in Route, NEW d \in Doc, NEW s \in OriginState,
         NEW staged \in BOOLEAN, Sound(L), AllDelivered(L), Configured(L, r), Dst[r] = L.inbox
  PROVE  LET K == Apply(L, r, d, s, staged)
             rec == AppliedRecord(L, r, d, s, staged)
         IN /\ Advances(L, K)
            /\ Fingerprint(K.rec[d]) = Fingerprint(rec)
            /\ rec.body => K.rec[d].body
            /\ \A x \in Doc : x # d => Fingerprint(K.rec[x]) = Fingerprint(L.rec[x])
<1> DEFINE S == OneState(d, s)
           A == Applied(L, r, S, staged)
           K == Apply(L, r, d, s, staged)
           rec == AppliedRecord(L, r, d, s, staged)
<1>1. S \in Cut /\ S[d] = s /\ \A x \in Doc : x # d => S[x] = NoState
  BY OneStateType DEF OneState, NoCut
<1>2. A \in LedgerType
  BY <1>1, AppliedType
<1>3. \A x \in Doc : x # d => Verdict(L, r, x, S[x], staged) = "nothing"
  BY <1>1 DEF Verdict, NoState
<1>4. /\ A.inbox = L.inbox /\ A.next = L.next /\ A.quarantined = L.quarantined
      /\ A.route = L.route /\ A.outbox = L.outbox
      /\ A.history = L.history /\ A.full = L.full
      /\ \A x \in Doc : A.rec[x] = AppliedRecord(L, r, x, S[x], staged)
  BY AppliedFields
<1>5. A.rec[d] = rec /\ \A x \in Doc : x # d => A.rec[x] = L.rec[x]
  BY <1>1, <1>3, <1>4 DEF AppliedRecord
<1>6. Follows(L, A) /\ BodiesKept(L, A)
  BY <1>1, AppliedFollows
<1>8. Owed(A)
  BY <1>1, AppliedSound DEF Sound
<1>9. K = CASE Verdict(L, r, d, s, staged) = "fence"  -> Quarantine(A)
            [] Verdict(L, r, d, s, staged) = "accept" -> Queue(A, Route, {d}, FALSE)
            [] OTHER -> A
  BY DEF Apply
<1> HIDE DEF A, S, rec, K
<1>10. \A x \in Doc : /\ Fingerprint(A.rec[x]) = IF x = d THEN Fingerprint(rec) ELSE Fingerprint(L.rec[x])
  BY <1>5
<1>11. \A q \in Route, x \in Doc : Waits(A, q, x)
  BY <1>4 DEF AllDelivered, Delivers, Waits
<1>12. \A q \in Route, x \in Doc : x # d => Delivers(A, q, x)
  BY <1>4, <1>5, SameDelivers DEF AllDelivered
<1>13. CASE Verdict(L, r, d, s, staged) = "fence"
  <2>1. K = Quarantine(A)
    BY <1>9, <1>13
  <2>2. AllDelivered(K) /\ Follows(A, K) /\ BodiesKept(A, K) /\ SameStates(A, K)
    BY <1>2, <1>11, <2>1, QuarantineDelivers, QuarantineFollows
  <2>3. K \in LedgerType
    BY <1>2, <2>1, QuarantineType
  <2>4. Follows(L, K) /\ BodiesKept(L, K)
    BY <1>2, <1>6, <2>2, <2>3, FollowsTransitive DEF BodiesKept
  <2>5. rec.body => K.rec[d].body
    BY <1>5, <2>2 DEF BodiesKept
  <2>6. QED
    BY <1>10, <2>2, <2>4, <2>5 DEF Advances, SameStates, K, rec
<1>14. CASE Verdict(L, r, d, s, staged) = "accept"
  <2>1. K = Queue(A, Route, {d}, FALSE)
    BY <1>9, <1>14
  <2>2. AllDelivered(Queue(A, Route, {d}, FALSE))
    BY <1>2, <1>8, <1>11, <1>12, QueueDelivers
  <2>3. K \in LedgerType
    BY <1>2, <2>1, QueueType
  <2>4. Follows(A, K) /\ BodiesKept(A, K) /\ SameStates(A, K)
    BY <1>2, <2>1, QueueFollows
  <2>6. Follows(L, K) /\ BodiesKept(L, K)
    BY <1>2, <1>6, <2>3, <2>4, FollowsTransitive DEF BodiesKept
  <2>7. rec.body => K.rec[d].body
    BY <1>5, <2>4 DEF BodiesKept
  <2>8. QED
    BY <1>10, <2>1, <2>2, <2>4, <2>6, <2>7 DEF Advances, SameStates, K, rec
<1>15. CASE Verdict(L, r, d, s, staged) \notin {"fence", "accept"}
  <2>1. K = A
    BY <1>9, <1>15
  <2>2. rec = L.rec[d]
    BY <1>15 DEF AppliedRecord, rec
  <2>3. \A q \in Route, x \in Doc : Delivers(A, q, x)
    BY <1>4, <1>5, <2>2, SameDelivers DEF AllDelivered
  <2>4. QED
    BY <1>5, <1>6, <1>10, <2>1, <2>3 DEF Advances, AllDelivered, K, rec
<1>16. QED
  BY <1>13, <1>14, <1>15

-----------------------------------------------------------------------------
(* The terminal inventory. *)

\* The ledger once the tombstones of the inventory are applied.
Buried(L, r, cut) == Applied(L, r, DeadPart(cut), FALSE)

\* What a completed inventory sets besides the records and the obligations.
LEMMA ActivatedFields ==
  ASSUME NEW L \in LedgerType, NEW r \in Route, NEW cut \in Cut
  PROVE  LET P == Buried(L, r, cut)
             A == Activated(L, r, cut)
         IN /\ A.inbox = P.inbox /\ A.rec = P.rec /\ A.outbox = P.outbox
            /\ A.receipts = P.receipts /\ A.next = P.next /\ A.quarantined = P.quarantined
            /\ A.full = P.full
            /\ A.route[r].state = "active" /\ A.route[r].revision = P.route[r].revision
            /\ A.history[r] = [revision |-> L.route[r].revision, cut |-> cut]
            /\ \A q \in Route : q # r => A.route[q] = P.route[q] /\ A.history[q] = P.history[q]
<1> DEFINE P == Buried(L, r, cut)
           A == Activated(L, r, cut)
           rt == [P.route EXCEPT ![r].state = "active"]
           hi == [P.history EXCEPT ![r] = [revision |-> L.route[r].revision, cut |-> cut]]
           N == [P EXCEPT !.route = rt, !.history = hi]
<1>1. P \in LedgerType
  BY PartTypes, AppliedType DEF Buried
<1>2. A = N
  BY <1>1 DEF Activated, LedgerType, Buried
<1> HIDE DEF P, A
<1>3. P.route \in [Route -> [revision : Nat, state : RouteStates]]
      /\ P.history \in [Route -> Checkpoint]
  BY <1>1 DEF LedgerType
<1>4. /\ rt[r].state = "active" /\ rt[r].revision = P.route[r].revision
      /\ hi[r] = [revision |-> L.route[r].revision, cut |-> cut]
      /\ \A q \in Route : q # r => rt[q] = P.route[q] /\ hi[q] = P.history[q]
  BY <1>3
<1> HIDE DEF rt, hi
<1>5. /\ N.inbox = P.inbox /\ N.rec = P.rec /\ N.outbox = P.outbox /\ N.receipts = P.receipts
      /\ N.next = P.next /\ N.quarantined = P.quarantined /\ N.full = P.full
      /\ N.route = rt /\ N.history = hi
  BY <1>1 DEF LedgerType
<1> HIDE DEF N
<1>6. QED
  BY <1>2, <1>4, <1>5 DEF P, A

\* What a completed inventory of route r leaves for others to rely on: the
\* route is active on the strength of that inventory, or fenced.
Reconnects(L, K, r, cut) ==
  /\ K.inbox = L.inbox /\ K.full = L.full
  /\ \A q \in Route : q # r =>
       /\ K.history[q] = L.history[q]
       /\ \/ K.route[q] = L.route[q]
          \/ K.route[q].revision > L.route[q].revision /\ K.route[q].state # "active"
  /\ K.history[r] \in {L.history[r], [revision |-> L.route[r].revision, cut |-> cut]}
  /\ \/ K.route[r].revision > L.route[r].revision /\ K.route[r].state # "active"
     \/ /\ K.route[r].revision = L.route[r].revision /\ K.route[r].state = "active"
        /\ K.history[r].revision = K.route[r].revision
  /\ \A d \in Doc, q \in Route :
       K.rec[d].from[q].state = "attached" =>
         L.rec[d].from[q].state = "attached" \/ Dst[q] = L.inbox
  /\ \A q \in Route, d \in Doc :
       K.outbox[q][d].disposition = "confirmed" =>
         /\ L.outbox[q][d].disposition = "confirmed"
         /\ K.outbox[q][d].signed = L.outbox[q][d].signed
         /\ K.outbox[q][d].outcome = L.outbox[q][d].outcome

\* Activation reconnects, and so does whatever follows it.
LEMMA ActivatedReconnects ==
  ASSUME NEW L \in LedgerType, NEW r \in Route, NEW cut \in Cut, Dst[r] = L.inbox
  PROVE  Reconnects(L, Activated(L, r, cut), r, cut)
<1> DEFINE P == Buried(L, r, cut)
           A == Activated(L, r, cut)
<1>1. /\ A.inbox = P.inbox /\ A.rec = P.rec /\ A.outbox = P.outbox
      /\ A.full = P.full
      /\ A.route[r].state = "active" /\ A.route[r].revision = P.route[r].revision
      /\ A.history[r] = [revision |-> L.route[r].revision, cut |-> cut]
      /\ \A q \in Route : q # r => A.route[q] = P.route[q] /\ A.history[q] = P.history[q]
  BY ActivatedFields
<1>2. Follows(L, P)
  BY PartTypes, AppliedFollows DEF Buried
<1>3. P.route = L.route /\ P.outbox = L.outbox
  BY DEF Buried, Applied, LedgerType
<1> HIDE DEF P, A
<1>4. A.history[r].revision = A.route[r].revision
  BY <1>1, <1>3
<1>5. QED
  BY <1>1, <1>2, <1>3, <1>4 DEF Reconnects, Follows, A

\* Reconnecting goes forward.
LEMMA ReconnectsFollows ==
  ASSUME NEW L \in LedgerType, NEW r \in Route, NEW cut \in Cut, NEW A \in LedgerType,
         NEW K \in LedgerType, Reconnects(L, A, r, cut), Follows(A, K)
  PROVE  Reconnects(L, K, r, cut)
<1>1. \A q \in Route : /\ L.route[q].revision \in Nat /\ A.route[q].revision \in Nat
                       /\ K.route[q].revision \in Nat
  BY DEF LedgerType
<1>2. ASSUME NEW q \in Route, q # r
      PROVE  \/ K.route[q] = L.route[q]
             \/ K.route[q].revision > L.route[q].revision /\ K.route[q].state # "active"
  BY <1>1, <1>2 DEF Follows, Reconnects
<1>3. \/ K.route[r].revision > L.route[r].revision /\ K.route[r].state # "active"
      \/ /\ K.route[r].revision = L.route[r].revision /\ K.route[r].state = "active"
         /\ K.history[r].revision = K.route[r].revision
  BY <1>1 DEF Follows, Reconnects
<1>4. QED
  BY <1>2, <1>3 DEF Follows, Reconnects

\* The tombstones of the inventory bury the live copies they are about.
LEMMA BuriedStates ==
  ASSUME NEW L \in LedgerType, NEW r \in Route, NEW cut \in Cut, NEW d \in Doc
  PROVE  LET P == Buried(L, r, cut) IN
         /\ cut[d].state = "deleted" => Adopts(L.rec[d], P.rec[d], cut[d])
         /\ cut[d].state # "deleted" => P.rec[d] = L.rec[d]
         /\ /\ CanCompleteInventory(L, r, cut) /\ ~Fences(L, r, DeadPart(cut), FALSE)
            /\ cut[d].state = "deleted"
            => P.rec[d].state = "deleted"
<1> DEFINE S == DeadPart(cut)
           P == Buried(L, r, cut)
           s == S[d]
           rec == AppliedRecord(L, r, d, s, FALSE)
<1>0. P = Applied(L, r, S, FALSE)
  BY DEF Buried
<1>2. /\ cut[d].state = "deleted" => s = cut[d]
      /\ cut[d].state # "deleted" => s.state = "absent"
  BY DEF DeadPart, NoState
<1>3. s \in OriginState /\ cut[d] \in OriginState
  BY PartTypes DEF Cut
<1> HIDE DEF P, S
<1>1. P.rec[d] = rec
  BY <1>0 DEF Applied, LedgerType
<1>4. ASSUME cut[d].state = "deleted" PROVE Adopts(L.rec[d], rec, cut[d])
  <2>1. s = cut[d]
    BY <1>2, <1>4
  <2> HIDE DEF s
  <2>2. Adopts(L.rec[d], rec, s)
    BY <1>3, AppliedState
  <2>3. QED
    BY <2>1, <2>2
<1>5. ASSUME cut[d].state # "deleted" PROVE rec = L.rec[d]
  <2>1. s.state = "absent"
    BY <1>2, <1>5
  <2> HIDE DEF s
  <2>2. QED
    BY <2>1 DEF Verdict, AppliedRecord
<1>6. ASSUME CanCompleteInventory(L, r, cut), ~Fences(L, r, DeadPart(cut), FALSE),
             cut[d].state = "deleted"
      PROVE  rec.state = "deleted"
  <2>1. Verdict(L, r, d, s, FALSE) \notin {"conflict", "fence"}
    BY <1>6 DEF CanCompleteInventory, Fences, S
  <2>2. s.state = "deleted"
    BY <1>2, <1>6
  <2> HIDE DEF s
  <2>3. CASE Verdict(L, r, d, s, FALSE) = "accept"
    <3>1. rec = Accepted(L, r, d, s, FALSE)
      BY <2>3 DEF AppliedRecord
    <3>2. L.rec[d] \in Record
      BY DEF LedgerType
    <3> HIDE DEF rec
    <3>3. QED
      BY <2>2, <3>1, <3>2 DEF Accepted, Record
  <2>4. CASE Verdict(L, r, d, s, FALSE) # "accept"
    <3>1. rec = L.rec[d]
      BY <2>1, <2>4 DEF AppliedRecord
    <3>2. L.rec[d].state = "deleted"
      BY <2>1, <2>2, <2>4 DEF Verdict
    <3>3. QED
      BY <3>1, <3>2
  <2>5. QED
    BY <2>3, <2>4
<1>7. QED
  BY <1>1, <1>4, <1>5, <1>6 DEF P, S

\* The live copies already held become members again.
Reattached(A, r, cut) == Applied(A, r, HeldPart(A, cut), FALSE)

\* Attaching the held copies again changes none of their states.
LEMMA ReattachedStates ==
  ASSUME NEW A \in LedgerType, NEW r \in Route, NEW cut \in Cut, NEW d \in Doc
  PROVE  LET B == Reattached(A, r, cut) IN
         /\ cut[d].state = "live" => Adopts(A.rec[d], B.rec[d], cut[d])
         /\ cut[d].state # "live" => B.rec[d] = A.rec[d]
<1> DEFINE S == HeldPart(A, cut)
           B == Reattached(A, r, cut)
           s == S[d]
           rec == AppliedRecord(A, r, d, s, FALSE)
<1>0. B = Applied(A, r, S, FALSE)
  BY DEF Reattached
<1>2. (s = cut[d] /\ cut[d].state = "live") \/ s.state = "absent"
  BY DEF HeldPart, NoState
<1>3. s \in OriginState
  BY PartTypes DEF Cut
<1> HIDE DEF B, S
<1>1. B.rec[d] = rec
  BY <1>0 DEF Applied, LedgerType
<1> HIDE DEF s
<1>4. CASE s.state = "absent"
  <2>1. rec = A.rec[d]
    BY <1>4 DEF Verdict, AppliedRecord
  <2>2. QED
    BY <1>1, <2>1 DEF Adopts, B
<1>5. CASE s = cut[d] /\ cut[d].state = "live"
  <2>1. Adopts(A.rec[d], rec, s)
    BY <1>3, AppliedState
  <2>2. QED
    BY <1>1, <1>5, <2>1 DEF B
<1>6. QED
  BY <1>2, <1>4, <1>5

\* An inventory completed: what it says deleted is deleted before the route is
\* active, and whatever waited for it is released.
LEMMA CompleteInventoryAdvances ==
  ASSUME NEW L \in LedgerType, NEW r \in Route, NEW cut \in Cut, Sound(L), AllDelivered(L),
         Live(L, r), Dst[r] = L.inbox
  PROVE  LET K == CompleteInventory(L, r, cut) IN
         /\ Reconnects(L, K, r, cut) /\ BodiesKept(L, K) /\ AllDelivered(K)
         /\ \A d \in Doc : Adopts(L.rec[d], K.rec[d], cut[d])
         /\ CanCompleteInventory(L, r, cut) /\ K.history[r] # L.history[r] =>
              \A d \in Doc : cut[d].state = "deleted" => K.rec[d].state = "deleted"
<1> DEFINE P == Buried(L, r, cut)
           A == Activated(L, r, cut)
           B == Reattached(A, r, cut)
           K == CompleteInventory(L, r, cut)
<1>1. P \in LedgerType /\ A \in LedgerType /\ B \in LedgerType
  BY PartTypes, AppliedType, ActivatedType DEF Buried, Reattached
<1>2. K = IF Fences(L, r, DeadPart(cut), FALSE) THEN Quarantine(P)
          ELSE IF Fences(A, r, HeldPart(A, cut), FALSE) THEN Quarantine(B) ELSE QueueAll(B)
  BY DEF CompleteInventory, Buried, Reattached
<1>3. Configured(L, r)
  BY DEF Live, Configured
<1>4. /\ A.inbox = P.inbox /\ A.rec = P.rec /\ A.outbox = P.outbox
      /\ A.receipts = P.receipts /\ A.next = P.next /\ A.quarantined = P.quarantined
      /\ A.full = P.full
      /\ A.route[r].state = "active" /\ A.route[r].revision = P.route[r].revision
      /\ A.history[r] = [revision |-> L.route[r].revision, cut |-> cut]
      /\ \A q \in Route : q # r => A.route[q] = P.route[q] /\ A.history[q] = P.history[q]
  BY ActivatedFields
<1>5. P.route = L.route /\ P.outbox = L.outbox /\ P.inbox = L.inbox
  BY DEF Buried, Applied, LedgerType
<1>6. B.outbox = A.outbox /\ B.inbox = A.inbox /\ B.history = A.history
  BY <1>1 DEF Reattached, Applied, LedgerType
<1>7. Follows(L, P) /\ BodiesKept(L, P)
  BY PartTypes, AppliedFollows DEF Buried
<1>8. Follows(A, B) /\ BodiesKept(A, B)
  BY <1>1, <1>4, <1>5, PartTypes, AppliedFollows DEF Reattached
<1>11. Frame(P) /\ Owed(P)
  BY <1>3, PartTypes, AppliedSound DEF Sound, Buried
<1>12. \A d \in Doc :
         /\ cut[d].state = "deleted" => Adopts(L.rec[d], P.rec[d], cut[d])
         /\ cut[d].state # "deleted" => P.rec[d] = L.rec[d]
         /\ /\ CanCompleteInventory(L, r, cut) /\ ~Fences(L, r, DeadPart(cut), FALSE)
            /\ cut[d].state = "deleted"
            => P.rec[d].state = "deleted"
  BY BuriedStates
<1>13. \A d \in Doc : /\ cut[d].state = "live" => Adopts(A.rec[d], B.rec[d], cut[d])
                      /\ cut[d].state # "live" => B.rec[d] = A.rec[d]
  BY <1>1, ReattachedStates
<1>14. Reconnects(L, A, r, cut)
  BY ActivatedReconnects
<1> HIDE DEF P, A
<1>15. Live(P, r) /\ Configured(A, r)
  BY <1>4, <1>5 DEF Live, Configured
<1>16. Frame(A) /\ Owed(A)
  BY <1>1, <1>4, <1>11, <1>15, ActiveSound
<1>17. Owed(B)
  BY <1>1, <1>15, <1>16, PartTypes, AppliedSound DEF Reattached
<1> HIDE DEF B
<1>18. Reconnects(L, B, r, cut)
  BY <1>1, <1>8, <1>14, ReconnectsFollows
<1>19. \A d \in Doc : L.rec[d].body => B.rec[d].body
  BY <1>4, <1>7, <1>8 DEF BodiesKept
<1>21. \A d \in Doc : Adopts(L.rec[d], B.rec[d], cut[d])
  <2> SUFFICES ASSUME NEW d \in Doc PROVE Adopts(L.rec[d], B.rec[d], cut[d])
    OBVIOUS
  <2>1. A.rec[d] = P.rec[d]
    BY <1>4
  <2>2. CASE cut[d].state = "deleted"
    <3>1. B.rec[d] = P.rec[d] /\ Adopts(L.rec[d], P.rec[d], cut[d])
      BY <1>12, <1>13, <2>1, <2>2
    <3>2. QED
      BY <3>1
  <2>3. CASE cut[d].state = "live"
    <3>1. A.rec[d] = L.rec[d] /\ Adopts(A.rec[d], B.rec[d], cut[d])
      BY <1>12, <1>13, <2>1, <2>3
    <3>2. QED
      BY <3>1
  <2>4. CASE cut[d].state \notin {"deleted", "live"}
    <3>1. B.rec[d] = L.rec[d]
      BY <1>12, <1>13, <2>1, <2>4
    <3>2. QED
      BY <3>1 DEF Adopts
  <2>5. QED
    BY <2>2, <2>3, <2>4
<1>22. \A q \in Route, d \in Doc : Waits(P, q, d) /\ Waits(B, q, d)
  <2>1. \A q \in Route, d \in Doc : Waits(L, q, d)
    BY DEF AllDelivered, Delivers
  <2>2. P.outbox = L.outbox /\ B.outbox = L.outbox
    BY <1>4, <1>5, <1>6
  <2>3. QED
    BY <2>1, <2>2 DEF Waits
<1> HIDE DEF K
\* Whatever comes last, the queue or the fence, keeps what the inventory left.
<1>23. ASSUME NEW M \in LedgerType, NEW N \in LedgerType, Follows(M, N), BodiesKept(M, N),
              SameStates(M, N),
              \A d \in Doc : L.rec[d].body => M.rec[d].body,
              \A d \in Doc : Adopts(L.rec[d], M.rec[d], cut[d])
       PROVE  /\ BodiesKept(L, N)
              /\ \A d \in Doc : Adopts(L.rec[d], N.rec[d], cut[d])
              /\ \A d \in Doc : N.rec[d].state = M.rec[d].state
  <2>1. \A d \in Doc : Fingerprint(N.rec[d]) = Fingerprint(M.rec[d])
    BY <1>23 DEF SameStates
  <2>3. \A d \in Doc : N.rec[d].state = M.rec[d].state
    BY <2>1 DEF Fingerprint
  <2>4. QED
    BY <1>23, <2>1, <2>3 DEF BodiesKept, Adopts
<1>24. CASE Fences(L, r, DeadPart(cut), FALSE)
  <2>1. K = Quarantine(P)
    BY <1>2, <1>24
  <2>2. /\ K \in LedgerType /\ AllDelivered(K)
        /\ Follows(P, K) /\ BodiesKept(P, K) /\ SameStates(P, K)
    BY <1>1, <1>22, <2>1, QuarantineType, QuarantineDelivers, QuarantineFollows
  <2>3. Follows(L, K)
    BY <1>1, <1>7, <2>2, FollowsTransitive
  <2>4. \A d \in Doc : Adopts(L.rec[d], P.rec[d], cut[d])
    BY <1>12 DEF Adopts
  <2>5. BodiesKept(L, K)
        /\ \A d \in Doc : Adopts(L.rec[d], K.rec[d], cut[d])
    BY <1>1, <1>7, <1>23, <2>2, <2>4 DEF BodiesKept
  <2>6. K.history = L.history
    BY <2>3 DEF Follows
  <2>7. K.route[r].revision > L.route[r].revision /\ K.route[r].state # "active"
    <3>1. Configured(P, r)
      BY <1>3, <1>5 DEF Configured
    <3>2. K.route[r] = [revision |-> P.route[r].revision + 1, state |-> "blocked"]
      BY <1>1, <2>1, <3>1 DEF Quarantine, Fence, Detach, LedgerType
    <3>3. L.route[r].revision \in Nat
      BY DEF LedgerType
    <3>4. QED
      BY <1>5, <3>2, <3>3
  <2>8. Reconnects(L, K, r, cut)
    BY <2>3, <2>7 DEF Follows, Reconnects
  <2>9. QED
    BY <2>2, <2>5, <2>6, <2>8 DEF K
<1>25. CASE ~Fences(L, r, DeadPart(cut), FALSE)
  <2>1. K = Quarantine(B) \/ K = QueueAll(B)
    BY <1>2, <1>25
  <2>2. AllDelivered(Quarantine(B)) /\ AllDelivered(QueueAll(B))
    BY <1>1, <1>17, <1>22, QuarantineDelivers, QueueDelivers DEF QueueAll
  <2>3. Quarantine(B) \in LedgerType /\ QueueAll(B) \in LedgerType
    BY <1>1, QuarantineType, QueueType DEF QueueAll
  <2>5. /\ K \in LedgerType /\ AllDelivered(K)
        /\ Follows(B, K) /\ BodiesKept(B, K) /\ SameStates(B, K)
    <3>1. CASE K = Quarantine(B)
      BY <1>1, <2>2, <2>3, <3>1, QuarantineFollows
    <3>2. CASE K = QueueAll(B)
      <4>1. Follows(B, QueueAll(B)) /\ BodiesKept(B, QueueAll(B)) /\ SameStates(B, QueueAll(B))
        BY <1>1, QueueFollows DEF QueueAll
      <4>2. QED
        BY <2>2, <2>3, <3>2, <4>1
    <3>3. QED
      BY <2>1, <3>1, <3>2
  <2>6. Reconnects(L, K, r, cut)
    BY <1>1, <1>18, <2>5, ReconnectsFollows
  <2>7. /\ BodiesKept(L, K)
        /\ \A d \in Doc : Adopts(L.rec[d], K.rec[d], cut[d])
        /\ \A d \in Doc : K.rec[d].state = B.rec[d].state
    BY <1>1, <1>19, <1>21, <1>23, <2>5
  <2>8. ASSUME CanCompleteInventory(L, r, cut), NEW d \in Doc, cut[d].state = "deleted"
        PROVE  K.rec[d].state = "deleted"
    <3>1. P.rec[d].state = "deleted"
      BY <1>12, <1>25, <2>8
    <3>2. B.rec[d] = A.rec[d]
      BY <1>13, <2>8
    <3>3. QED
      BY <1>4, <2>7, <3>1, <3>2
  <2>9. QED
    BY <2>5, <2>6, <2>7, <2>8 DEF K
<1>26. QED
  BY <1>24, <1>25

-----------------------------------------------------------------------------
(* Checkpoints, activation and observed tombstones. *)

\* The two ends of a reconciliation, and what arrives of them.
LEMMA CompleteReconciliationAdvances ==
  ASSUME NEW L \in LedgerType, NEW r \in Route, NEW cut \in Cut, AllDelivered(L)
  PROVE  LET K == CompleteReconciliation(L, r, cut) IN
         /\ K.inbox = L.inbox /\ K.rec = L.rec /\ K.route = L.route /\ K.outbox = L.outbox
         /\ K.receipts = L.receipts /\ K.history = L.history /\ K.full[r].cut = cut
         /\ \A q \in Route : q # r => K.full[q] = L.full[q]
         /\ AllDelivered(K)
<1> DEFINE K == CompleteReconciliation(L, r, cut)
<1>1. /\ K.inbox = L.inbox /\ K.rec = L.rec /\ K.route = L.route /\ K.outbox = L.outbox
      /\ K.receipts = L.receipts /\ K.history = L.history /\ K.full[r].cut = cut
      /\ \A q \in Route : q # r => K.full[q] = L.full[q]
  BY DEF CompleteReconciliation, LedgerType
<1> HIDE DEF K
<1>2. \A q \in Route, d \in Doc : Delivers(K, q, d)
  BY <1>1, SameDelivers DEF AllDelivered
<1>3. QED
  BY <1>1, <1>2 DEF AllDelivered, K

\* A route this inbox is the source of vouches for nothing here.
LEMMA OutboundForward ==
  ASSUME NEW L, NEW K, NEW r \in Route, NEW d \in Doc, NEW c,
         K.inbox = L.inbox, K.rec = L.rec, K.route[r] = L.route[r],
         \A s \in Route : Dst[s] = L.inbox => K.route[s] = L.route[s] /\ K.history[s] = L.history[s]
  PROVE  CanForward(K, r, d, c) <=> CanForward(L, r, d, c)
<1>1. \A s \in Route : \A o : Vouches(K, s, o) <=> Vouches(L, s, o)
  BY DEF Vouches
<1>2. \A o : Trusted(K, o) <=> Trusted(L, o)
  BY <1>1 DEF Trusted
<1>3. QED
  BY <1>1, <1>2 DEF CanForward

LEMMA ActivateOutboundAdvances ==
  ASSUME NEW L \in LedgerType, NEW r \in Route, Sound(L), AllDelivered(L), Live(L, r),
         Src[r] = L.inbox
  PROVE  LET K == ActivateOutbound(L, r) IN
         /\ K.inbox = L.inbox /\ K.rec = L.rec /\ K.receipts = L.receipts
         /\ K.history = L.history /\ K.full = L.full
         /\ K.route[r].revision = L.route[r].revision /\ K.route[r].state = "active"
         /\ \A q \in Route : q # r => K.route[q] = L.route[q]
         /\ \A q \in Route, d \in Doc :
              K.outbox[q][d].disposition = "confirmed" =>
                /\ L.outbox[q][d].disposition = "confirmed"
                /\ K.outbox[q][d].signed = L.outbox[q][d].signed
                /\ K.outbox[q][d].outcome = L.outbox[q][d].outcome
         /\ AllDelivered(K)
<1> DEFINE v == [L.route[r] EXCEPT !.state = "active"]
           A == [L EXCEPT !.route[r] = v]
           K == Queue(A, {r}, Doc, FALSE)
<1>1. v \in [revision : Nat, state : RouteStates]
      /\ v.state = "active" /\ v.revision = L.route[r].revision
  BY DEF LedgerType, RouteStates
<1>2. A = [L EXCEPT !.route[r].state = "active"]
  BY DEF LedgerType
<1>3. ActivateOutbound(L, r) = K
  BY <1>2 DEF ActivateOutbound
<1> HIDE DEF v
<1>4. A \in LedgerType
  BY <1>1, WithRoute
<1>5. /\ A.inbox = L.inbox /\ A.rec = L.rec /\ A.outbox = L.outbox /\ A.receipts = L.receipts
      /\ A.next = L.next /\ A.quarantined = L.quarantined /\ A.full = L.full
      /\ A.history = L.history /\ A.route[r] = v
      /\ \A q \in Route : q # r => A.route[q] = L.route[q]
  BY DEF LedgerType
<1> HIDE DEF A
<1>6. Owed(A)
  BY <1>1, <1>5, ActiveSound DEF Sound
<1>7. \A q \in Route, d \in Doc : Waits(A, q, d)
  BY <1>5 DEF AllDelivered, Delivers, Waits
<1>8. ASSUME NEW q \in Route, NEW d \in Doc, q # r PROVE Delivers(A, q, d)
  <2>1. A.route[q] = L.route[q]
    BY <1>5, <1>8
  <2>2. \A s \in Route : Dst[s] = L.inbox => A.route[s] = L.route[s] /\ A.history[s] = L.history[s]
    BY <1>5, LedgerAssumption
  <2>3. CanForward(A, q, d, FALSE) <=> CanForward(L, q, d, FALSE)
    BY <1>5, <2>1, <2>2, OutboundForward
  <2>4. Delivers(L, q, d)
    BY DEF AllDelivered
  <2>5. QED
    BY <1>5, <2>1, <2>3, <2>4 DEF Delivers, Waits, Sendable, Live, Present
<1>9. AllDelivered(K)
  BY <1>4, <1>6, <1>7, <1>8, QueueDelivers
<1>10. /\ K.inbox = A.inbox /\ K.next = A.next /\ K.quarantined = A.quarantined
       /\ K.rec = A.rec /\ K.route = A.route /\ K.receipts = A.receipts
       /\ K.history = A.history /\ K.full = A.full
  BY <1>4 DEF Queue, LedgerType
<1>11. Follows(A, K)
  BY <1>4, QueueFollows
<1> HIDE DEF K
<1>12. \A q \in Route, d \in Doc :
         K.outbox[q][d].disposition = "confirmed" =>
           /\ L.outbox[q][d].disposition = "confirmed"
           /\ K.outbox[q][d].signed = L.outbox[q][d].signed
           /\ K.outbox[q][d].outcome = L.outbox[q][d].outcome
  BY <1>5, <1>11 DEF Follows
<1>13. QED
  BY <1>1, <1>3, <1>5, <1>9, <1>10, <1>12

LEMMA ObserveOutboundAdvances ==
  ASSUME NEW L \in LedgerType, NEW d \in Doc, NEW s \in OriginState, Sound(L), AllDelivered(L),
         s.state = "deleted"
  PROVE  LET K == ObserveOutbound(L, d, s) IN
         /\ Advances(L, K) /\ Adopts(L.rec[d], K.rec[d], s) /\ K.receipts = L.receipts
         /\ \A x \in Doc : x # d => Fingerprint(K.rec[x]) = Fingerprint(L.rec[x])
<1> DEFINE rec == [L.rec[d] EXCEPT !.version = s.version, !.state = s.state]
           A == [L EXCEPT !.rec[d] = rec]
           Q == Queue(A, Route, {d}, FALSE)
           K == ObserveOutbound(L, d, s)
<1>0. L.rec[d] \in Record /\ s.version \in Nat /\ s.state \in States
      /\ s = [version |-> s.version, state |-> s.state]
  BY DEF LedgerType, OriginState, States
<1>1. rec \in Record /\ rec.version = s.version /\ rec.state = s.state
      /\ rec.from = L.rec[d].from /\ rec.body = L.rec[d].body
  BY <1>0 DEF Record
<1>2. K = IF L.rec[d].state = "deleted" /\ L.rec[d].version >= s.version THEN L
          ELSE IF Origin[d] = L.inbox /\ s.version >= L.next THEN Quarantine(A) ELSE Q
  BY DEF ObserveOutbound, LedgerType
<1> HIDE DEF rec, K
<1>3. A \in LedgerType
  BY <1>1, WithRecord
<1>4. /\ A.inbox = L.inbox /\ A.route = L.route /\ A.outbox = L.outbox
      /\ A.receipts = L.receipts /\ A.history = L.history /\ A.full = L.full
      /\ A.rec[d] = rec /\ \A x \in Doc : x # d => A.rec[x] = L.rec[x]
  BY DEF LedgerType
<1> HIDE DEF A
<1>5. Fingerprint(A.rec[d]) = s
  BY <1>0, <1>1, <1>4 DEF Fingerprint
<1>6. Follows(L, A) /\ BodiesKept(L, A)
  BY <1>1, <1>4, RecordFollows
<1>7. CASE K = L
  <2>1. Follows(L, L) /\ BodiesKept(L, L) /\ Adopts(L.rec[d], L.rec[d], s)
    BY DEF Follows, BodiesKept, Adopts
  <2>2. QED
    BY <1>7, <2>1 DEF Advances, K
<1>8. CASE K = Quarantine(A)
  <2>1. \A q \in Route, x \in Doc : Waits(A, q, x)
    BY <1>4 DEF AllDelivered, Delivers, Waits
  <2>2. /\ AllDelivered(K) /\ K \in LedgerType
        /\ Follows(A, K) /\ BodiesKept(A, K) /\ SameStates(A, K) /\ K.receipts = A.receipts
    BY <1>3, <1>8, <2>1, QuarantineDelivers, QuarantineFollows, QuarantineType
  <2>3. Follows(L, K) /\ BodiesKept(L, K)
    BY <1>3, <1>6, <2>2, FollowsTransitive DEF BodiesKept
  <2>4. Fingerprint(K.rec[d]) = s /\ \A x \in Doc : x # d => Fingerprint(K.rec[x]) = Fingerprint(L.rec[x])
    BY <1>4, <1>5, <2>2 DEF SameStates
  <2>5. QED
    BY <1>4, <2>2, <2>3, <2>4 DEF Advances, Adopts, K
<1>9. CASE K = Q
  <2>1. Advances(L, Q) /\ Q.rec = A.rec /\ Q.receipts = L.receipts
    BY <1>0, <1>1, <1>3, <1>4, StateQueued DEF States
  <2> HIDE DEF Q
  <2>2. Fingerprint(K.rec[d]) = s /\ \A x \in Doc : x # d => Fingerprint(K.rec[x]) = Fingerprint(L.rec[x])
    BY <1>4, <1>5, <1>9, <2>1
  <2>3. QED
    BY <1>9, <2>1, <2>2 DEF Adopts, K
<1>10. QED
  BY <1>2, <1>7, <1>8, <1>9

-----------------------------------------------------------------------------
(* Obligations. *)

\* A ledger that differs in its obligations only, none of which became
\* confirmed, or none, or due to wait.
LEMMA OutboxAdvances ==
  ASSUME NEW L \in LedgerType, NEW K, AllDelivered(L),
         K.inbox = L.inbox, K.rec = L.rec, K.route = L.route,
         K.history = L.history, K.full = L.full,
         \A q \in Route, d \in Doc :
           LET e == L.outbox[q][d]  f == K.outbox[q][d] IN
           /\ f.revision = e.revision
           /\ f.disposition = "none" => e.disposition = "none"
           /\ f.history => e.history
           /\ f.disposition = "confirmed" =>
                e.disposition = "confirmed" /\ f.signed = e.signed /\ f.outcome = e.outcome
  PROVE  Advances(L, K) /\ SameStates(L, K)
<1>1. \A q \in Route, d \in Doc : Delivers(K, q, d)
  BY SameDelivers DEF AllDelivered
<1>2. Follows(L, K) /\ BodiesKept(L, K) /\ SameStates(L, K)
  BY DEF Follows, BodiesKept, SameStates
<1>3. QED
  BY <1>1, <1>2 DEF Advances, AllDelivered

LEMMA ReconcileHoldingsAdvances ==
  ASSUME NEW L \in LedgerType, NEW r \in Route, NEW D \in SUBSET Doc,
         NEW holding \in [Doc -> Holding], NEW incarnation \in Nat, Sound(L), AllDelivered(L)
  PROVE  LET K == ReconcileHoldings(L, r, D, holding, incarnation) IN
         Advances(L, K) /\ SameStates(L, K) /\ K.receipts = L.receipts
<1> DEFINE missing == {d \in D : Reopens(L, r, d, holding[d], incarnation)}
           Q == Queue(L, {r}, missing, TRUE)
           ob == [d \in Doc |->
                    IF d \in missing /\ Q.outbox[r][d].revision = Q.route[r].revision
                    THEN [Q.outbox[r][d] EXCEPT !.incarnation = incarnation]
                    ELSE Q.outbox[r][d]]
           K == [Q EXCEPT !.outbox[r] = ob]
<1>1. missing \in SUBSET Doc
  OBVIOUS
<1>2. ReconcileHoldings(L, r, D, holding, incarnation) = K
  BY DEF ReconcileHoldings, Queue, LedgerType
<1> HIDE DEF missing
<1>3. Q \in LedgerType
  BY <1>1, QueueType
<1>4. \A q \in Route, d \in Doc : Waits(L, q, d) /\ Delivers(L, q, d)
  BY DEF AllDelivered, Delivers
<1>5. AllDelivered(Q)
  BY <1>1, <1>4, QueueDelivers DEF Sound
<1>6. Follows(L, Q) /\ BodiesKept(L, Q) /\ SameStates(L, Q)
  BY <1>1, QueueFollows
<1>7. Q.receipts = L.receipts
  BY DEF Queue, LedgerType
<1> HIDE DEF Q
<1>8. \A q \in Route, d \in Doc : Q.outbox[q][d] \in Entry
  BY <1>3 DEF LedgerType
<1>9. \A d \in Doc : /\ ob[d].revision = Q.outbox[r][d].revision
                     /\ ob[d].signed = Q.outbox[r][d].signed
                     /\ ob[d].disposition = Q.outbox[r][d].disposition
                     /\ ob[d].outcome = Q.outbox[r][d].outcome
  BY <1>8 DEF Entry
<1>10. \A d \in Doc : ob[d].history = Q.outbox[r][d].history
  <2>1. \A e \in Entry : [e EXCEPT !.incarnation = incarnation].history = e.history
    BY DEF Entry
  <2>2. QED
    BY <1>8, <2>1
<1> HIDE DEF ob
<1>11. /\ K.inbox = Q.inbox /\ K.rec = Q.rec /\ K.route = Q.route
       /\ K.history = Q.history /\ K.full = Q.full
       /\ K.receipts = Q.receipts /\ K.outbox[r] = ob
       /\ \A q \in Route : q # r => K.outbox[q] = Q.outbox[q]
  BY <1>3 DEF LedgerType
<1>12. K \in LedgerType
  BY <1>2, ReconcileHoldingsType
<1> HIDE DEF K
<1>13. \A q \in Route, d \in Doc :
         LET e == Q.outbox[q][d]  f == K.outbox[q][d] IN
         /\ f.revision = e.revision
         /\ f.disposition = "none" => e.disposition = "none"
         /\ f.history => e.history
         /\ f.disposition = "confirmed" =>
              e.disposition = "confirmed" /\ f.signed = e.signed /\ f.outcome = e.outcome
  BY <1>9, <1>10, <1>11
<1>14. Advances(Q, K) /\ SameStates(Q, K)
  BY <1>3, <1>5, <1>11, <1>13, OutboxAdvances
<1>15. Follows(L, K) /\ BodiesKept(L, K) /\ SameStates(L, K)
  BY <1>3, <1>6, <1>12, <1>14, FollowsTransitive DEF Advances, BodiesKept, SameStates
<1>16. QED
  BY <1>2, <1>7, <1>11, <1>14, <1>15 DEF Advances

\* A receipt stored, and the obligation it is about confirmed: the sender does
\* not vouch for the body the receipt speaks of.
LEMMA ReceiptAdvances ==
  ASSUME NEW L \in LedgerType, NEW r \in Route, NEW x \in Receipt, AllDelivered(L),
         CanAcknowledge(L, r, x), Src[r] = L.inbox
  PROVE  /\ LET K == StoreReceipt(L, x) IN
            Advances(L, K) /\ SameStates(L, K)
         /\ LET K == Acknowledge(L, x) IN
            /\ K.inbox = L.inbox /\ K.rec = L.rec /\ K.route = L.route
            /\ K.history = L.history /\ K.full = L.full
            /\ AllDelivered(K)
            /\ K.outbox[r][x.doc].disposition = "confirmed"
            /\ K.outbox[r][x.doc].signed = x.signed
            /\ K.outbox[r][x.doc].outcome = x.disposition
            /\ \A q \in Route, d \in Doc : q # r \/ d # x.doc => K.outbox[q][d] = L.outbox[q][d]
<1> DEFINE o == L.outbox[r][x.doc]
           R == L.receipts \cup NewReceipts(L.receipts, x)
           e == [o EXCEPT !.incarnation = x.incarnation]
           f == [e EXCEPT !.disposition = "confirmed", !.outcome = x.disposition,
                          !.history = FALSE]
           M == StoreReceipt(L, x)
           K == Acknowledge(L, x)
<1>1. x.doc \in Doc /\ x.route = r /\ o \in Entry
  BY DEF Receipt, LedgerType, CanAcknowledge
<1>2. CurrentEntry(L, r, x.doc).disposition # "none" /\ CurrentEntry(L, r, x.doc).signed = x.signed
  BY DEF CanAcknowledge
<1>3. o.disposition # "none" /\ o.signed = x.signed
  BY <1>2 DEF CurrentEntry, NoEntry
<1>6. /\ e.revision = o.revision /\ e.signed = o.signed /\ e.disposition = o.disposition
      /\ e.outcome = o.outcome
      /\ f.revision = o.revision /\ f.signed = o.signed /\ f.disposition = "confirmed"
      /\ f.outcome = x.disposition
  BY <1>1 DEF Entry
<1>7. ~f.history /\ (e.history => o.history)
  <2>1. \A y \in Entry : [y EXCEPT !.incarnation = x.incarnation].history = y.history
    BY DEF Entry
  <2>2. e.history = o.history
    BY <1>1, <2>1
  <2>3. e \in Entry
    BY <1>1 DEF Entry, Receipt
  <2>4. \A y \in Entry : [y EXCEPT !.disposition = "confirmed", !.outcome = x.disposition,
                                   !.history = FALSE].history = FALSE
    BY DEF Entry
  <2>5. f.history = FALSE
    BY <2>3, <2>4
  <2>6. QED
    BY <2>2, <2>5
<1>8. M = [L EXCEPT !.receipts = R, !.outbox[r][x.doc] = e]
  BY <1>1 DEF StoreReceipt, LedgerType
<1>9. K = [M EXCEPT !.outbox[r][x.doc] = f]
  <2> DEFINE N == [L EXCEPT !.receipts = R, !.outbox[r][x.doc] = e]
  <2> HIDE DEF e, R
  <2>1. N.outbox[r][x.doc] = e
    BY <1>1 DEF LedgerType
  <2>2. QED
    BY <1>1, <1>8, <2>1 DEF Acknowledge
<1> HIDE DEF e, f, R
<1>10. /\ M.inbox = L.inbox /\ M.rec = L.rec /\ M.route = L.route
       /\ M.history = L.history /\ M.full = L.full /\ M.receipts = R
       /\ M.outbox[r][x.doc] = e
       /\ \A q \in Route, d \in Doc : q # r \/ d # x.doc => M.outbox[q][d] = L.outbox[q][d]
  BY <1>1, <1>8 DEF LedgerType
<1>11. M \in LedgerType
  BY StoreReceiptType
<1> HIDE DEF M
<1>12. /\ K.inbox = M.inbox /\ K.rec = M.rec /\ K.route = M.route
       /\ K.history = M.history /\ K.full = M.full /\ K.receipts = M.receipts
       /\ K.outbox[r][x.doc] = f
       /\ \A q \in Route, d \in Doc : q # r \/ d # x.doc => K.outbox[q][d] = M.outbox[q][d]
  BY <1>1, <1>9, <1>11 DEF LedgerType
<1> HIDE DEF K, o
<1>14. Advances(L, M) /\ SameStates(L, M)
  <2>1. \A q \in Route, d \in Doc :
          LET a == L.outbox[q][d]  b == M.outbox[q][d] IN
          /\ b.revision = a.revision
          /\ b.disposition = "none" => a.disposition = "none"
          /\ b.history => a.history
          /\ b.disposition = "confirmed" =>
               a.disposition = "confirmed" /\ b.signed = a.signed /\ b.outcome = a.outcome
    BY <1>6, <1>7, <1>10 DEF o
  <2>2. QED
    BY <1>10, <2>1, OutboxAdvances
<1>15. AllDelivered(K)
  <2>1. \A q \in Route, d \in Doc :
          /\ K.outbox[q][d].revision = L.outbox[q][d].revision
          /\ K.outbox[q][d].disposition = "none" => L.outbox[q][d].disposition = "none"
          /\ K.outbox[q][d].history => L.outbox[q][d].history
    BY <1>6, <1>7, <1>10, <1>12 DEF o
  <2>2. K.inbox = L.inbox /\ K.rec = L.rec /\ K.route = L.route /\ K.history = L.history
    BY <1>10, <1>12
  <2>3. ASSUME NEW q \in Route, NEW d \in Doc PROVE Delivers(K, q, d)
    <3>1. Delivers(L, q, d)
      BY DEF AllDelivered
    <3>2. QED
      BY <2>1, <2>2, <3>1, SameDelivers
  <2>4. QED
    BY <2>3 DEF AllDelivered
<1>16. QED
  BY <1>3, <1>6, <1>10, <1>12, <1>14, <1>15 DEF K, M, o

\* Failed attempts and retries keep the obligation.
LEMMA UpdateAttemptAdvances ==
  ASSUME NEW L \in LedgerType, NEW r \in Route, NEW d \in Doc, NEW blocked \in BOOLEAN,
         AllDelivered(L)
  PROVE  LET K == UpdateAttempt(L, r, d, blocked) IN
         Advances(L, K) /\ SameStates(L, K) /\ K.receipts = L.receipts
<1> DEFINE o == L.outbox[r][d]
           e == [o EXCEPT !.disposition = IF blocked THEN "blocked" ELSE "pending",
                          !.history = FALSE]
           K == UpdateAttempt(L, r, d, blocked)
<1>1. o \in Entry
  BY DEF LedgerType
<1>2. e.revision = o.revision /\ e.disposition \in {"pending", "blocked"}
  BY <1>1 DEF Entry
<1>3. ~e.history
  <2>1. \A y \in Entry : \A z : [y EXCEPT !.disposition = z, !.history = FALSE].history = FALSE
    BY DEF Entry
  <2>2. e.history = FALSE
    BY <1>1, <2>1
  <2>3. QED
    BY <2>2
<1> HIDE DEF e
<1>4. K = [L EXCEPT !.outbox[r][d] = e]
  BY DEF UpdateAttempt, LedgerType, e
<1> HIDE DEF K
<1>5. /\ K.inbox = L.inbox /\ K.rec = L.rec /\ K.route = L.route
      /\ K.history = L.history /\ K.full = L.full /\ K.receipts = L.receipts
      /\ K.outbox[r][d] = e
      /\ \A q \in Route, x \in Doc : q # r \/ x # d => K.outbox[q][x] = L.outbox[q][x]
  BY <1>4 DEF LedgerType
<1>6. \A q \in Route, x \in Doc :
        LET a == L.outbox[q][x]  b == K.outbox[q][x] IN
        /\ b.revision = a.revision
        /\ b.disposition = "none" => a.disposition = "none"
        /\ b.history => a.history
        /\ b.disposition = "confirmed" =>
             a.disposition = "confirmed" /\ b.signed = a.signed /\ b.outcome = a.outcome
  BY <1>2, <1>3, <1>5
<1>7. QED
  BY <1>5, <1>6, OutboxAdvances DEF K

LEMMA RetryAdvances ==
  ASSUME NEW L \in LedgerType, NEW r \in Route, Sound(L), AllDelivered(L)
  PROVE  LET K == Retry(L, r) IN
         Advances(L, K) /\ SameStates(L, K) /\ K.receipts = L.receipts
<1> DEFINE ob == [d \in Doc |->
                    IF CurrentEntry(L, r, d).disposition \in {"pending", "blocked"}
                    THEN [L.outbox[r][d] EXCEPT !.disposition = "pending", !.history = FALSE]
                    ELSE L.outbox[r][d]]
           A == [L EXCEPT !.outbox[r] = ob]
           K == Queue(A, {r}, Doc, FALSE)
<1>1. ASSUME NEW d \in Doc
      PROVE  LET a == L.outbox[r][d]  b == ob[d] IN
             /\ b \in Entry /\ b.revision = a.revision /\ b.signed = a.signed
             /\ \/ b.disposition = a.disposition
                \/ {b.disposition, a.disposition} \cap {"none", "retired"} = {}
             /\ b.disposition = "none" => a.disposition = "none"
             /\ b.history => a.history
             /\ b.disposition = "confirmed" =>
                  a.disposition = "confirmed" /\ b.signed = a.signed /\ b.outcome = a.outcome
  <2> DEFINE o == L.outbox[r][d]
             e == [o EXCEPT !.disposition = "pending", !.history = FALSE]
  <2>1. o \in Entry
    BY DEF LedgerType
  <2>2. e \in Entry /\ e.revision = o.revision /\ e.signed = o.signed /\ e.disposition = "pending"
    BY <2>1 DEF Entry, Dispositions
  <2>3. ~e.history
    <3>1. \A y \in Entry : \A z : [y EXCEPT !.disposition = z, !.history = FALSE].history = FALSE
      BY DEF Entry
    <3>2. e.history = FALSE
      BY <2>1, <3>1
    <3>3. QED
      BY <3>2
  <2>4. CurrentEntry(L, r, d).disposition \in {"pending", "blocked"} =>
          o.disposition \in {"pending", "blocked"}
    BY DEF CurrentEntry, NoEntry
  <2>5. ob[d] = IF CurrentEntry(L, r, d).disposition \in {"pending", "blocked"} THEN e ELSE o
    OBVIOUS
  <2> HIDE DEF e, o, ob
  <2>6. QED
    BY <2>1, <2>2, <2>3, <2>4, <2>5 DEF o
<1>2. ob \in [Doc -> Entry]
  BY <1>1
<1>3. Retry(L, r) = K
  BY DEF Retry
<1> HIDE DEF ob
<1>4. A \in LedgerType
  BY <1>2 DEF LedgerType
<1>5. /\ A.inbox = L.inbox /\ A.next = L.next /\ A.quarantined = L.quarantined /\ A.rec = L.rec
      /\ A.route = L.route /\ A.history = L.history /\ A.full = L.full
      /\ A.receipts = L.receipts /\ A.outbox[r] = ob
      /\ \A q \in Route : q # r => A.outbox[q] = L.outbox[q]
  BY DEF LedgerType
<1> HIDE DEF A
<1>6. \A q \in Route, d \in Doc :
        LET e == L.outbox[q][d]  f == A.outbox[q][d] IN
        /\ f.revision = e.revision /\ f.signed = e.signed
        /\ f.disposition = e.disposition
           \/ {e.disposition, f.disposition} \cap {"none", "retired"} = {}
  BY <1>1, <1>5
<1>7. Sound(A)
  BY <1>5, <1>6, OutboxSound
<1>8. \A q \in Route, d \in Doc :
        LET a == L.outbox[q][d]  b == A.outbox[q][d] IN
        /\ b.revision = a.revision
        /\ b.disposition = "none" => a.disposition = "none"
        /\ b.history => a.history
        /\ b.disposition = "confirmed" =>
             a.disposition = "confirmed" /\ b.signed = a.signed /\ b.outcome = a.outcome
  BY <1>1, <1>5
<1>9. Advances(L, A) /\ SameStates(L, A)
  BY <1>5, <1>8, OutboxAdvances
<1>10. \A q \in Route, d \in Doc : Waits(A, q, d) /\ Delivers(A, q, d)
  BY <1>9 DEF Advances, AllDelivered, Delivers
<1>11. AllDelivered(K)
  BY <1>4, <1>7, <1>10, QueueDelivers DEF Sound
<1>12. K \in LedgerType /\ Follows(A, K) /\ BodiesKept(A, K) /\ SameStates(A, K)
  BY <1>4, QueueType, QueueFollows
<1>13. K.receipts = A.receipts
  BY <1>4 DEF Queue, LedgerType
<1> HIDE DEF K
<1>14. Follows(L, K) /\ BodiesKept(L, K) /\ SameStates(L, K)
  BY <1>4, <1>9, <1>12, FollowsTransitive DEF Advances, BodiesKept, SameStates
<1>15. QED
  BY <1>3, <1>5, <1>11, <1>13, <1>14 DEF Advances

-----------------------------------------------------------------------------
(* Identities. *)

\* A new ledger owes nothing.
LEMMA NewLedgerDelivers ==
  ASSUME NEW i \in Inbox PROVE AllDelivered(NewLedger(i))
BY DEF NewLedger, AllDelivered, Delivers, Waits, NoEntry, Sendable, Live

\* A restored ledger owes nothing: its routes are blocked.
LEMMA QuarantineRestoreAdvances ==
  ASSUME NEW L \in LedgerType, AllDelivered(L)
  PROVE  LET K == QuarantineRestore(L)
             Q == Quarantine(L)
         IN /\ AllDelivered(K) /\ K.inbox = L.inbox /\ K.rec = Q.rec /\ K.route = Q.route
            /\ K.outbox = Q.outbox /\ K.receipts = {}
            /\ K.history = [r \in Route |-> NoCheckpoint]
            /\ K.full = [r \in Route |-> NoCheckpoint]
            /\ Follows(L, Q) /\ BodiesKept(L, Q) /\ SameStates(L, Q)
            /\ \A r \in Route : ~Live(K, r)
<1> DEFINE K == QuarantineRestore(L)
           Q == Quarantine(L)
<1>1. Q \in LedgerType
  BY QuarantineType
<1>2. /\ K.inbox = Q.inbox /\ K.rec = Q.rec /\ K.route = Q.route /\ K.outbox = Q.outbox
      /\ K.receipts = {}
      /\ K.history = [r \in Route |-> NoCheckpoint]
      /\ K.full = [r \in Route |-> NoCheckpoint]
  BY <1>1 DEF QuarantineRestore, LedgerType
<1>3. AllDelivered(Q) /\ Follows(L, Q) /\ BodiesKept(L, Q) /\ SameStates(L, Q)
  BY QuarantineAdvances DEF Advances
<1>4. \A r \in Route :
        Q.route[r] = IF Configured(L, r)
                     THEN [revision |-> L.route[r].revision + 1, state |-> "blocked"]
                     ELSE L.route[r]
  BY DEF Quarantine, Fence, Detach, LedgerType
<1> HIDE DEF K, Q
<1>5. ASSUME NEW r \in Route PROVE ~Live(K, r)
  <2>1. CASE Configured(L, r)
    <3>1. Q.route[r] = [revision |-> L.route[r].revision + 1, state |-> "blocked"]
      BY <1>4, <2>1
    <3>2. QED
      BY <1>2, <3>1 DEF Live
  <2>2. CASE ~Configured(L, r)
    BY <1>2, <1>4, <2>2 DEF Configured, Live
  <2>3. QED
    BY <2>1, <2>2
<1>6. AllDelivered(K)
  <2>1. \A r \in Route, d \in Doc : Waits(Q, r, d)
    BY <1>3 DEF AllDelivered, Delivers
  <2>2. \A r \in Route, d \in Doc : Waits(K, r, d)
    BY <1>2, <2>1 DEF Waits
  <2>3. \A r \in Route : ~Live(K, r)
    BY <1>5
  <2>4. \A r \in Route, d \in Doc : Delivers(K, r, d)
    BY <2>2, <2>3 DEF Delivers, Sendable
  <2>5. QED
    BY <2>4 DEF AllDelivered
<1>7. QED
  BY <1>2, <1>3, <1>5, <1>6 DEF K, Q, Follows

\* Nor does a forked one.
LEMMA ForkAdvances ==
  ASSUME NEW L \in LedgerType, NEW i \in Inbox
  PROVE  LET K == Fork(L, i) IN
         /\ AllDelivered(K) /\ BodiesKept(L, K) /\ SameStates(L, K)
         /\ K.inbox = i /\ K.receipts = {}
         /\ K.route = [r \in Route |-> [revision |-> 0, state |-> "none"]]
         /\ K.outbox = [r \in Route |-> [d \in Doc |-> NoEntry]]
         /\ K.history = [r \in Route |-> NoCheckpoint]
         /\ K.full = [r \in Route |-> NoCheckpoint]
         /\ \A d \in Doc, r \in Route : K.rec[d].from[r].state = "none"
<1> DEFINE K == Fork(L, i)
<1>1. /\ K.inbox = i /\ K.receipts = {}
      /\ K.route = [r \in Route |-> [revision |-> 0, state |-> "none"]]
      /\ K.outbox = [r \in Route |-> [d \in Doc |-> NoEntry]]
      /\ K.history = [r \in Route |-> NoCheckpoint]
      /\ K.full = [r \in Route |-> NoCheckpoint]
  BY DEF Fork, NewLedger
<1>2. ASSUME NEW d \in Doc
      PROVE  /\ K.rec[d].version = L.rec[d].version /\ K.rec[d].state = L.rec[d].state
             /\ K.rec[d].from = Absent.from /\ K.rec[d].body = L.rec[d].body
  <2>1. L.rec[d] \in Record
    BY DEF LedgerType
  <2>2. QED
    BY <2>1 DEF Fork, NewLedger, Record
<1> HIDE DEF K
<1>3. \A d \in Doc, r \in Route : K.rec[d].from[r].state = "none"
  BY <1>2 DEF Absent, NoContribution
<1>4. BodiesKept(L, K) /\ SameStates(L, K)
  BY <1>2 DEF BodiesKept, SameStates, Fingerprint
<1>5. \A r \in Route, d \in Doc : ~Live(K, r) /\ Waits(K, r, d)
  BY <1>1 DEF Live, Waits, NoEntry
<1>6. \A r \in Route, d \in Doc : Delivers(K, r, d)
  BY <1>5 DEF Delivers, Sendable
<1>7. AllDelivered(K)
  BY <1>5, <1>6 DEF AllDelivered
<1>8. QED
  BY <1>1, <1>3, <1>4, <1>7 DEF K

-----------------------------------------------------------------------------
(* What a home may rely on after it reconnected: what an inventory it        *)
(* completed named deleted is deleted here, copies are attached to inbound   *)
(* routes only, and an inbound route is active on the strength of an         *)
(* inventory completed at that very revision.                                *)

Reconnected(L) ==
  /\ \A r \in Route, d \in Doc :
       L.history[r].cut[d].state = "deleted" => L.rec[d].state = "deleted"
  /\ \A r \in Route, d \in Doc : L.rec[d].from[r].state = "attached" => Dst[r] = L.inbox
  /\ \A r \in Route : Dst[r] = L.inbox /\ L.route[r].state = "active" =>
       L.history[r].revision = L.route[r].revision

Served(L) == AllDelivered(L) /\ Reconnected(L)

\* An operation that leaves the checkpoints alone, keeps the tombstones and
\* activates no route leaves a reconnected home reconnected.
LEMMA FollowsServed ==
  ASSUME NEW L, NEW K, Served(L), Follows(L, K), AllDelivered(K), TombstonesKept(L, K)
  PROVE  Served(K)
<1>1. \A r \in Route, d \in Doc :
        K.history[r].cut[d].state = "deleted" => K.rec[d].state = "deleted"
  BY DEF Follows, Served, Reconnected, TombstonesKept
<1>2. \A r \in Route, d \in Doc : K.rec[d].from[r].state = "attached" => Dst[r] = K.inbox
  BY DEF Follows, Served, Reconnected
<1>3. \A r \in Route : Dst[r] = K.inbox /\ K.route[r].state = "active" =>
        K.history[r].revision = K.route[r].revision
  BY DEF Follows, Served, Reconnected
<1>4. QED
  BY <1>1, <1>2, <1>3 DEF Served, Reconnected

\* So do going forward and keeping the tombstones.
LEMMA AdvancesServed ==
  ASSUME NEW L, NEW K, Served(L), Advances(L, K), TombstonesKept(L, K)
  PROVE  Served(K)
BY FollowsServed DEF Advances

\* So does one that leaves the records and the inbound routes alone.
LEMMA SameRecordsServed ==
  ASSUME NEW L, NEW K, Served(L), AllDelivered(K), K.inbox = L.inbox, K.rec = L.rec,
         K.history = L.history,
         \A r \in Route : K.route[r] = L.route[r] \/ Dst[r] # L.inbox
  PROVE  Served(K)
BY DEF Served, Reconnected

\* The one operation that activates an inbound route has its history.
LEMMA CompleteInventoryServed ==
  ASSUME NEW L \in LedgerType, NEW r \in Route, NEW cut \in Cut, Sound(L), Served(L),
         Live(L, r), Dst[r] = L.inbox, CanCompleteInventory(L, r, cut)
  PROVE  Served(CompleteInventory(L, r, cut))
<1> DEFINE K == CompleteInventory(L, r, cut)
<1>1. /\ Reconnects(L, K, r, cut) /\ AllDelivered(K)
      /\ K.history[r] # L.history[r] =>
           \A d \in Doc : cut[d].state = "deleted" => K.rec[d].state = "deleted"
  BY CompleteInventoryAdvances DEF Served
<1>2. TombstonesKept(L, K)
  BY CompleteInventoryKept
<1> HIDE DEF K
<1>3. ASSUME NEW q \in Route, NEW d \in Doc, K.history[q].cut[d].state = "deleted"
      PROVE  K.rec[d].state = "deleted"
  <2>1. CASE K.history[q] = L.history[q]
    BY <1>2, <1>3, <2>1 DEF Served, Reconnected, TombstonesKept
  <2>2. CASE K.history[q] # L.history[q]
    <3>1. q = r /\ K.history[r] = [revision |-> L.route[r].revision, cut |-> cut]
      BY <1>1, <2>2 DEF Reconnects
    <3>2. QED
      BY <1>1, <1>3, <2>2, <3>1
  <2>3. QED
    BY <2>1, <2>2
<1>4. \A q \in Route, d \in Doc : K.rec[d].from[q].state = "attached" => Dst[q] = K.inbox
  BY <1>1 DEF Reconnects, Served, Reconnected
<1>5. \A q \in Route : Dst[q] = K.inbox /\ K.route[q].state = "active" =>
        K.history[q].revision = K.route[q].revision
  BY <1>1 DEF Reconnects, Served, Reconnected
<1>6. QED
  BY <1>1, <1>3, <1>4, <1>5 DEF K, Served, Reconnected

\* A new ledger has no active route.
LEMMA NewLedgerServed ==
  ASSUME NEW i \in Inbox PROVE Served(NewLedger(i))
<1> DEFINE N == NewLedger(i)
<1>1. /\ N.history = [r \in Route |-> NoCheckpoint]
      /\ N.route = [r \in Route |-> [revision |-> 0, state |-> "none"]]
      /\ \A d \in Doc, r \in Route : N.rec[d].from[r].state = "none"
  BY DEF NewLedger, Absent, NoContribution
<1>2. AllDelivered(N)
  BY NewLedgerDelivers
<1> HIDE DEF N
<1>3. \A d \in Doc : NoCheckpoint.cut[d].state = "absent"
  BY DEF NoCheckpoint, NoCut, NoState
<1>4. QED
  BY <1>1, <1>2, <1>3 DEF N, Served, Reconnected

\* Nor has one that was restored or forked.
LEMMA IdentityServed ==
  ASSUME NEW L \in LedgerType, NEW i \in Inbox, Served(L)
  PROVE  Served(QuarantineRestore(L)) /\ Served(Fork(L, i))
<1> DEFINE R == QuarantineRestore(L)
           F == Fork(L, i)
<1>1. /\ AllDelivered(R) /\ R.inbox = L.inbox /\ R.rec = Quarantine(L).rec
      /\ R.history = [r \in Route |-> NoCheckpoint] /\ Follows(L, Quarantine(L))
      /\ \A r \in Route : ~Live(R, r)
  BY QuarantineRestoreAdvances DEF Served
<1>2. /\ AllDelivered(F) /\ F.history = [r \in Route |-> NoCheckpoint]
      /\ F.route = [r \in Route |-> [revision |-> 0, state |-> "none"]]
      /\ \A d \in Doc, r \in Route : F.rec[d].from[r].state = "none"
  BY ForkAdvances DEF Served
<1> HIDE DEF R, F
<1>3. \A d \in Doc : NoCheckpoint.cut[d].state = "absent"
  BY DEF NoCheckpoint, NoCut, NoState
<1>4. Served(R)
  <2>1. \A r \in Route, d \in Doc : R.rec[d].from[r].state = "attached" => Dst[r] = R.inbox
    BY <1>1 DEF Follows, Served, Reconnected
  <2>2. \A r \in Route : R.route[r].state # "active"
    BY <1>1 DEF Live
  <2>3. QED
    BY <1>1, <1>3, <2>1, <2>2 DEF Served, Reconnected
<1>5. Served(F)
  BY <1>2, <1>3 DEF Served, Reconnected
<1>6. QED
  BY <1>4, <1>5 DEF R, F
=============================================================================
