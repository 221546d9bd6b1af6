----------------------------- MODULE SyncLedger -----------------------------
(***************************************************************************)
(* The managed ledger of one inbox (`sync/ledger.json`) and the pure       *)
(* transitions its store makes under the store lock.  A ledger is a        *)
(* record; every operator below takes the ledger it read and returns the   *)
(* one it commits, so that the machines built on it (Replication) have one *)
(* atomic step per `mutate` call of sync-store.ts.                         *)
(*                                                                         *)
(* Data is abstracted to what authorization, delivery and terminal history *)
(* tell apart: a signed origin state is a document, a version and          *)
(* live/deleted; a body is present or not; keys, metadata, digests, local  *)
(* ids and provenance are left out (a signature never fails to verify      *)
(* because no machine here forges one).                                    *)
(***************************************************************************)
EXTENDS Naturals

CONSTANTS
  Inbox,         \* inbox identities (UUIDs)
  Doc,           \* origin documents, each owned by one inbox
  Route,         \* configured routes, identified by route id
  Origin,        \* Doc -> Inbox, the inbox that signs the document
  Src, Dst,      \* Route -> Inbox, the immediate ends of a route
  Scope,         \* Route -> SUBSET Inbox, its `allowedOrigins`
  Redistribute,  \* Route -> SUBSET Inbox, grants with `redistribute`
  Delegated      \* Route -> SUBSET Inbox, grants with `completeHistory`

ASSUME LedgerAssumption ==
  /\ Origin \in [Doc -> Inbox]
  /\ Src \in [Route -> Inbox] /\ Dst \in [Route -> Inbox]
  /\ \A r \in Route : Src[r] # Dst[r] /\ Src[r] \in Scope[r]
  /\ Scope \in [Route -> SUBSET Inbox]
  /\ Redistribute \in [Route -> SUBSET Inbox]
  /\ Delegated \in [Route -> SUBSET Inbox]

-----------------------------------------------------------------------------
(* The shape of a ledger. *)

States       == {"live", "deleted"}
RouteStates  == {"none", "reconnecting", "active", "blocked", "detached"}
Dispositions == {"none", "pending", "blocked", "confirmed", "retired"}
Outcomes     == {"committed", "deleted", "suppressed", "superseded"}

\* A signed origin state as the fingerprint sees it, and "nothing known".
OriginState == [version : Nat, state : States \cup {"absent"}]
NoState     == [version |-> 0, state |-> "absent"]

\* One route's membership in a record (`contributions`).
Contribution   == [revision : Nat, state : {"none", "attached", "detached"}]
NoContribution == [revision |-> 0, state |-> "none"]

\* A managed record; "absent" is a key that is not in `records`.
Record == [version : Nat, state : States \cup {"absent"}, body : BOOLEAN,
           suppressed : BOOLEAN, from : [Route -> Contribution]]
Absent == [version |-> 0, state |-> "absent", body |-> FALSE,
           suppressed |-> FALSE, from |-> [r \in Route |-> NoContribution]]

\* The newest outbox entry of a (route, document) pair.  Entries of older
\* revisions are retired and never looked up again; only the newest is kept.
\* `history` says that `lastError` is "Trusted terminal history is required".
Entry == [revision : Nat, signed : OriginState, disposition : Dispositions,
          incarnation : Nat, outcome : Outcomes \cup {"none"}, history : BOOLEAN]
NoEntry == [revision |-> 0, signed |-> NoState, disposition |-> "none",
            incarnation |-> 0, outcome |-> "none", history |-> FALSE]

\* A durable receipt.  Receipts keep the order in which they were first stored,
\* and of several about one state the earliest is shown: `first` marks it.
Receipt == [route : Route, revision : Nat, doc : Doc, signed : OriginState,
            incarnation : Nat, disposition : Outcomes, first : BOOLEAN]

\* An inventory cut, and the checkpoint a receiver keeps of the last one it
\* completed at a revision (0: none).
Cut        == [Doc -> OriginState]
Checkpoint == [revision : Nat, cut : Cut]
NoCut      == [d \in Doc |-> NoState]
NoCheckpoint == [revision |-> 0, cut |-> NoCut]

LedgerType ==
  [inbox : Inbox, incarnation : Nat, next : Nat,
   quarantined : BOOLEAN, rec : [Doc -> Record],
   route : [Route -> [revision : Nat, state : RouteStates]],
   outbox : [Route -> [Doc -> Entry]], receipts : SUBSET Receipt,
   history : [Route -> Checkpoint], full : [Route -> Checkpoint]]

\* A freshly enrolled, empty inbox.
NewLedger(i) ==
  [inbox |-> i, incarnation |-> 1, next |-> 1,
   quarantined |-> FALSE, rec |-> [d \in Doc |-> Absent],
   route |-> [r \in Route |-> [revision |-> 0, state |-> "none"]],
   outbox |-> [r \in Route |-> [d \in Doc |-> NoEntry]], receipts |-> {},
   history |-> [r \in Route |-> NoCheckpoint],
   full |-> [r \in Route |-> NoCheckpoint]]

-----------------------------------------------------------------------------
(* What the policy asks of a ledger. *)

Present(L, d)    == L.rec[d].state # "absent"
Fingerprint(rec) == [version |-> rec.version, state |-> rec.state]
Configured(L, r) == L.route[r].state # "none"
Live(L, r)       == L.route[r].state \in {"active", "reconnecting"}

\* Body presence, as `bodyAvailable` decides it without reading the bytes.
Available(rec)   == rec.state = "live" /\ ~rec.suppressed /\ rec.body

\* Keys and epochs of a configured route's grants are pinned when it is
\* configured, so the pinned grant is the route's own grant.
Granted(r, o) == o \in Scope[r] /\ (o = Src[r] \/ o \in Redistribute[r])

Authorized(L, r, revision) ==
  /\ ~L.quarantined
  /\ Live(L, r)
  /\ L.route[r].revision = revision

AuthorizedOut(L, r, revision) == Authorized(L, r, revision) /\ Src[r] = L.inbox
AuthorizedIn(L, r, revision)  == Authorized(L, r, revision) /\ Dst[r] = L.inbox

\* The inbound route is active and completed a terminal inventory at its
\* current revision that covers origin o.
Vouches(L, r, o) ==
  /\ Dst[r] = L.inbox
  /\ L.route[r].state = "active"
  /\ L.history[r].revision = L.route[r].revision
  /\ o \in Scope[r]

Trusted(L, o) == \E r \in Route : Vouches(L, r, o)

CanForward(L, r, d, complete) ==
  /\ Granted(r, Origin[d])
  /\ Src[r] = L.inbox
  /\ \/ L.route[r].state = "active"
     \/ L.route[r].state = "reconnecting" /\ (complete \/ L.rec[d].state = "deleted")
  /\ \/ Origin[d] = L.inbox
     \/ L.rec[d].state = "deleted" /\ (complete => Trusted(L, Origin[d]))
     \/ /\ L.rec[d].state = "live"
        /\ \E s \in Route : /\ L.rec[d].from[s].state = "attached"
                            /\ Vouches(L, s, Origin[d])

\* A complete inventory needs trusted history of every foreign origin in scope
\* and no record in scope that could not be forwarded.
InventoryReady(L, r) ==
  /\ \A o \in Scope[r] \ {L.inbox} : Trusted(L, o)
  /\ \A d \in Doc : Present(L, d) /\ Origin[d] \in Scope[r] => CanForward(L, r, d, TRUE)

\* Mutant of InventoryCut: the inventory lists live documents only.
LiveCut(L, r) ==
  [d \in Doc |-> IF L.rec[d].state = "live" /\ Origin[d] \in Scope[r]
                 THEN Fingerprint(L.rec[d]) ELSE NoState]

InventoryCut(L, r) ==
  [d \in Doc |-> IF Present(L, d) /\ Origin[d] \in Scope[r]
                 THEN Fingerprint(L.rec[d]) ELSE NoState]

-----------------------------------------------------------------------------
(* Outbox and fences. *)

NewEntry(L, r, d, existing) ==
  [revision    |-> L.route[r].revision,
   signed      |-> Fingerprint(L.rec[d]),
   disposition |-> IF CanForward(L, r, d, FALSE) THEN "pending" ELSE "blocked",
   incarnation |-> existing.incarnation,
   outcome     |-> "none",
   history     |-> ~CanForward(L, r, d, FALSE)]

\* The entry a pair has at the route's current revision.
CurrentEntry(L, r, d) ==
  IF L.outbox[r][d].revision = L.route[r].revision THEN L.outbox[r][d] ELSE NoEntry

\* An entry that already carries the record's state: a forced repair reopens a
\* confirmed one, and what may no longer be forwarded waits for history.
KeptEntry(L, r, d, e, force) ==
  LET forward  == CanForward(L, r, d, FALSE)
      reopened == IF force /\ e.disposition = "confirmed"
                  THEN [e EXCEPT !.disposition = IF forward THEN "pending" ELSE "blocked"]
                  ELSE e
  IN IF ~forward /\ reopened.disposition # "confirmed"
     THEN [reopened EXCEPT !.disposition = "blocked", !.history = TRUE]
     ELSE reopened

QueueEntry(L, r, d, force) ==
  LET e       == CurrentEntry(L, r, d)
      allowed == Src[r] = L.inbox /\ Live(L, r) /\ Granted(r, Origin[d])
      same    == e.disposition # "none" /\ e.signed = Fingerprint(L.rec[d])
      unblock == e.history /\ CanForward(L, r, d, FALSE)
  IN IF ~allowed
     THEN IF e.disposition = "none" THEN L.outbox[r][d]
          ELSE [e EXCEPT !.disposition = "retired"]
     ELSE IF same /\ ~unblock
     THEN KeptEntry(L, r, d, e, force)
     ELSE NewEntry(L, r, d, e)

\* `queueLedgerState` for the documents D on the routes R.
Queue(L, R, D, force) ==
  [L EXCEPT !.outbox =
     [r \in Route |-> [d \in Doc |->
        IF r \in R /\ d \in D /\ Configured(L, r) /\ Present(L, d)
        THEN QueueEntry(L, r, d, force) ELSE L.outbox[r][d]]]]

QueueAll(L) == Queue(L, Route, Doc, FALSE)

\* Mutant of Detach: obligations of the old revision survive the fence.
DetachKeepingOutbox(L, R) ==
  [L EXCEPT !.rec = [d \in Doc |-> [L.rec[d] EXCEPT !.from =
     [r \in Route |-> IF r \in R /\ L.rec[d].from[r].state # "none"
                      THEN [L.rec[d].from[r] EXCEPT !.state = "detached"]
                      ELSE L.rec[d].from[r]]]]]

\* Contributions of the routes R become detached, their obligations retired.
Detach(L, R) ==
  [L EXCEPT
     !.rec = [d \in Doc |-> [L.rec[d] EXCEPT !.from =
        [r \in Route |-> IF r \in R /\ L.rec[d].from[r].state # "none"
                         THEN [L.rec[d].from[r] EXCEPT !.state = "detached"]
                         ELSE L.rec[d].from[r]]]],
     !.outbox = [r \in Route |-> [d \in Doc |->
        IF r \in R /\ L.outbox[r][d].disposition # "none"
        THEN [L.outbox[r][d] EXCEPT !.disposition = "retired"]
        ELSE L.outbox[r][d]]]]

\* A fence also moves every configured route of R past its revision.
Fence(L, R, state) ==
  [Detach(L, R) EXCEPT !.route =
     [r \in Route |-> IF r \in R /\ Configured(L, r)
                      THEN [revision |-> L.route[r].revision + 1, state |-> state]
                      ELSE L.route[r]]]

Quarantine(L) == [Fence(L, Route, "blocked") EXCEPT !.quarantined = TRUE]

-----------------------------------------------------------------------------
(* Applying signed states at a receiver. *)

\* Cuts of one ledger only grow, as its generation counter does, so the order
\* of generations is modelled by the order of the cuts themselves.
Older(cut, than) == \E d \in Doc : cut[d].version < than[d].version

\* Mutant of Verdict: a body whose transfer was admitted is installed without
\* deciding again on the ledger of the day.
VerdictAtOffer(L, r, d, s, staged) ==
  IF staged THEN "accept"
  ELSE IF L.rec[d].state = "deleted" THEN "superseded"
  ELSE IF s.state = "live" /\ ~Available(L.rec[d]) THEN "needs-body" ELSE "accept"

\* What `applyLocked` decides about state s of document d, in its order.
Verdict(L, r, d, s, staged) ==
  LET rec == L.rec[d] IN
  IF s.state = "absent" THEN "nothing"
  ELSE IF rec.state = "deleted" /\ s.state = "live" THEN "superseded"
  ELSE IF rec.state # "absent" /\ s.version = rec.version /\ s.state # rec.state THEN "conflict"
  ELSE IF /\ rec.state # "absent" /\ s.version < rec.version
          /\ rec.state = "deleted" \/ s.state = "live" THEN "superseded"
  ELSE IF Origin[d] = L.inbox /\ s.version >= L.next THEN "fence"
  ELSE IF s.state = "live" /\ L.route[r].state # "active" THEN "conflict"
  ELSE IF s.state = "live" /\ ~rec.suppressed /\ ~Available(rec) /\ ~staged THEN "needs-body"
  ELSE "accept"

\* Mutant of Outcome: the receipt repeats the state instead of what became of it.
OutcomeIsState(rec) == rec.state

Outcome(rec) ==
  CASE rec.state = "deleted" -> "deleted"
    [] rec.state = "live" /\ rec.suppressed -> "suppressed"
    [] OTHER -> "committed"

ReceiptFor(L, r, d, rec, disposition) ==
  [route |-> r, revision |-> L.route[r].revision, doc |-> d, signed |-> Fingerprint(rec),
   incarnation |-> L.incarnation, disposition |-> disposition, first |-> TRUE]

\* Storing x again under its key changes nothing.
SameState(x, y) == /\ x.route = y.route /\ x.revision = y.revision /\ x.doc = y.doc
                   /\ x.signed = y.signed /\ x.incarnation = y.incarnation

NewReceipts(R, x) ==
  IF \E y \in R : SameState(x, y) /\ x.disposition = y.disposition THEN {}
  ELSE {[x EXCEPT !.first = ~ \E y \in R : SameState(x, y)]}

\* The record once s is accepted: its state, an installed body if one was
\* staged and is wanted, and the membership of the route that brought it.
Accepted(L, r, d, s, staged) ==
  LET rec == L.rec[d] IN
  [rec EXCEPT
     !.version = s.version, !.state = s.state,
     !.body    = rec.body \/ (staged /\ s.state = "live" /\ ~rec.suppressed),
     !.from    = [rec.from EXCEPT ![r] =
        [revision |-> L.route[r].revision,
         state    |-> IF L.route[r].state = "active" THEN "attached" ELSE "detached"]]]

\* A later state of our own document means that our history was rolled back: a
\* terminal state is kept whatever follows.
AppliedRecord(L, r, d, s, staged) ==
  LET verdict == Verdict(L, r, d, s, staged) IN
  IF verdict = "accept" THEN Accepted(L, r, d, s, staged)
  ELSE IF verdict = "fence" /\ s.state = "deleted"
       THEN [L.rec[d] EXCEPT !.version = s.version, !.state = s.state]
       ELSE L.rec[d]

\* The receipt `applyLocked` records and returns with a superseded or accepted
\* state.
ReceiptOf(L, r, d, s, staged) ==
  IF Verdict(L, r, d, s, staged) = "superseded"
  THEN ReceiptFor(L, r, d, L.rec[d], "superseded")
  ELSE LET rec == Accepted(L, r, d, s, staged) IN ReceiptFor(L, r, d, rec, Outcome(rec))

\* Every state of S applied to its own record; nothing is queued or fenced yet.
Applied(L, r, S, staged) ==
  [L EXCEPT
     !.rec = [d \in Doc |-> AppliedRecord(L, r, d, S[d], staged)],
     !.receipts = @ \cup UNION {NewReceipts(@, ReceiptOf(L, r, d, S[d], staged)) :
        d \in {x \in Doc : Verdict(L, r, x, S[x], staged) \in {"superseded", "accept"}}}]

Fences(L, r, S, staged) == \E d \in Doc : Verdict(L, r, d, S[d], staged) = "fence"

OneState(d, s) == [NoCut EXCEPT ![d] = s]

\* `applyStaged`: one state of one document, committed or fenced.
Apply(L, r, d, s, staged) ==
  LET A == Applied(L, r, OneState(d, s), staged) IN
  CASE Verdict(L, r, d, s, staged) = "fence"  -> Quarantine(A)
    [] Verdict(L, r, d, s, staged) = "accept" -> Queue(A, Route, {d}, FALSE)
    [] OTHER -> A

-----------------------------------------------------------------------------
(* The operations of the store: when each is not refused, what it commits. *)

\* Mutant of CanPublish: terminal history does not reserve the identity.
CanPublishAgain(L, d) == ~L.quarantined /\ Origin[d] = L.inbox /\ L.rec[d].state # "live"

CanPublish(L, d) == ~L.quarantined /\ Origin[d] = L.inbox /\ ~Present(L, d)

Publish(L, d) ==
  Queue([L EXCEPT !.rec[d] = [Absent EXCEPT !.version = L.next, !.state = "live", !.body = TRUE],
                  !.next = L.next + 1],
        Route, {d}, FALSE)

\* Deleting an imported copy only hides it here; the owner signs a tombstone.
CanDelete(L, d) ==
  /\ L.rec[d].state = "live" /\ ~L.rec[d].suppressed
  /\ Origin[d] = L.inbox => ~L.quarantined

\* Mutant of Delete: the tombstone is signed at the version of the live state.
DeleteSameVersion(L, d) ==
  IF Origin[d] # L.inbox THEN [L EXCEPT !.rec[d].suppressed = TRUE]
  ELSE Queue([L EXCEPT !.rec[d].state = "deleted"], Route, {d}, FALSE)

Delete(L, d) ==
  IF Origin[d] # L.inbox THEN [L EXCEPT !.rec[d].suppressed = TRUE]
  ELSE Queue([L EXCEPT !.rec[d] = [@ EXCEPT !.version = L.next, !.state = "deleted"],
                       !.next = L.next + 1],
             Route, {d}, FALSE)

Suppress(L, d, suppressed) ==
  Queue([L EXCEPT !.rec[d].suppressed = suppressed], Route, {d}, FALSE)

CanConfigure(L, r) == ~L.quarantined /\ L.inbox \in {Src[r], Dst[r]}

\* Mutant of Configure: what was published before the route is not queued.
ConfigureUnqueued(L, r, state) ==
  [Detach(L, {r}) EXCEPT !.route[r] = [revision |-> L.route[r].revision + 1, state |-> state]]

Configure(L, r, state) ==
  QueueAll([Detach(L, {r}) EXCEPT
              !.route[r] = [revision |-> L.route[r].revision + 1, state |-> state]])

Revoke(L, r) == QueueAll(Fence(L, {r}, "detached"))

\* Deleted states first, then activation, then the live copies already held:
\* only those are attached again without a transfer.
DeadPart(cut) == [d \in Doc |-> IF cut[d].state = "deleted" THEN cut[d] ELSE NoState]

HeldPart(L, cut) ==
  [d \in Doc |-> IF cut[d].state = "live" /\ Available(L.rec[d])
                    /\ cut[d].version >= L.rec[d].version
                 THEN cut[d] ELSE NoState]

CanCompleteInventory(L, r, cut) ==
  /\ Scope[r] \ {Src[r]} \subseteq Delegated[r]
  /\ \A d \in Doc : cut[d].state # "absent" => Granted(r, Origin[d])
  /\ L.history[r].revision = L.route[r].revision => ~Older(cut, L.history[r].cut)
  /\ \A d \in Doc : Verdict(L, r, d, DeadPart(cut)[d], FALSE) # "conflict"

\* Mutant of Activated: activation does not wait for the tombstones of the cut.
ActivatedFirst(L, r, cut) ==
  [L EXCEPT !.route[r].state = "active",
            !.history[r] = [revision |-> L.route[r].revision, cut |-> cut]]

Activated(L, r, cut) ==
  [Applied(L, r, DeadPart(cut), FALSE) EXCEPT
     !.route[r].state = "active",
     !.history[r] = [revision |-> L.route[r].revision, cut |-> cut]]

\* Mutant of CompleteInventory: obligations that waited for this history stay
\* blocked.
CompleteInventoryUnqueued(L, r, cut) == Activated(L, r, cut)

CompleteInventory(L, r, cut) ==
  LET A == Activated(L, r, cut)
      B == Applied(A, r, HeldPart(A, cut), FALSE)
  IN IF Fences(L, r, DeadPart(cut), FALSE)
     THEN Quarantine(Applied(L, r, DeadPart(cut), FALSE))
     ELSE IF Fences(A, r, HeldPart(A, cut), FALSE) THEN Quarantine(B) ELSE QueueAll(B)

\* Mutant of Reconciled: the newest state of the cut vouches for the others.
ReconciledByNewest(L, r, cut) ==
  \A d \in Doc : cut[d].state # "absent" /\ (\A x \in Doc : cut[x].version <= cut[d].version) =>
    Present(L, d) /\ (L.rec[d].state = "deleted" \/ L.rec[d].suppressed \/ Available(L.rec[d]))

\* A receiver is fully reconciled with a cut when it holds every state of it.
Reconciled(L, r, cut) ==
  \A d \in Doc : cut[d].state # "absent" =>
    /\ Present(L, d)
    /\ \/ L.rec[d].state = "deleted"
       \/ /\ L.rec[d].from[r] = [revision |-> L.route[r].revision, state |-> "attached"]
          /\ L.rec[d].version >= cut[d].version
          /\ L.rec[d].suppressed \/ Available(L.rec[d])

CanCompleteReconciliation(L, r, cut) ==
  /\ L.history[r].revision = L.route[r].revision
  /\ ~Older(L.history[r].cut, cut)
  /\ Reconciled(L, r, cut)
  /\ L.full[r].revision = L.route[r].revision => ~Older(cut, L.full[r].cut)

CompleteReconciliation(L, r, cut) ==
  [L EXCEPT !.full[r] = [revision |-> L.route[r].revision, cut |-> cut]]

ActivateOutbound(L, r) == Queue([L EXCEPT !.route[r].state = "active"], {r}, Doc, FALSE)

\* The receiver showed a signed tombstone of a document we hold.
CanObserve(L, r, d, s) == Present(L, d) /\ s.state = "deleted" /\ Granted(r, Origin[d])

ObserveOutbound(L, d, s) ==
  LET A == [L EXCEPT !.rec[d] = [@ EXCEPT !.version = s.version, !.state = s.state]] IN
  IF L.rec[d].state = "deleted" /\ L.rec[d].version >= s.version THEN L
  ELSE IF Origin[d] = L.inbox /\ s.version >= L.next THEN Quarantine(A)
  ELSE Queue(A, Route, {d}, FALSE)

\* What a receiver says it holds now decides whether a confirmed obligation is
\* reopened.
Holding == [signed : OriginState, available : BOOLEAN, suppressed : BOOLEAN]

HoldingOf(rec) ==
  [signed |-> Fingerprint(rec), available |-> Available(rec), suppressed |-> rec.suppressed]

\* Mutant of MissingAt: knowing the state counts as holding the body.
MissingState(L, r, d, holding, incarnation) == holding.signed # Fingerprint(L.rec[d])

MissingAt(L, r, d, holding, incarnation) ==
  \/ holding.signed # Fingerprint(L.rec[d])
  \/ /\ L.rec[d].state = "live"
     /\ \/ ~holding.available /\ ~holding.suppressed
        \/ /\ holding.suppressed
           /\ ~ \E x \in L.receipts :
                  /\ x.route = r /\ x.revision = L.route[r].revision /\ x.doc = d
                  /\ x.signed = Fingerprint(L.rec[d])
                  /\ x.incarnation = incarnation /\ x.disposition = "suppressed"

Reopens(L, r, d, holding, incarnation) ==
  LET e == CurrentEntry(L, r, d) IN
  \/ MissingAt(L, r, d, holding, incarnation)
  \/ e.incarnation \notin {0, incarnation}
  \/ e.disposition = "none"

ReconcileHoldings(L, r, D, holding, incarnation) ==
  LET missing == {d \in D : Reopens(L, r, d, holding[d], incarnation)}
      Q       == Queue(L, {r}, missing, TRUE)
  IN [Q EXCEPT !.outbox[r] = [d \in Doc |->
        IF d \in missing /\ Q.outbox[r][d].revision = L.route[r].revision
        THEN [Q.outbox[r][d] EXCEPT !.incarnation = incarnation]
        ELSE Q.outbox[r][d]]]

\* A receipt must be for the state the obligation is about.
\* Mutant of CanAcknowledge: a receipt for an earlier state confirms this one.
CanAcknowledgeAny(L, r, x) ==
  x.route = r /\ x.revision = L.route[r].revision /\ CurrentEntry(L, r, x.doc).disposition # "none"

CanAcknowledge(L, r, x) ==
  LET e == CurrentEntry(L, r, x.doc) IN
  /\ x.route = r /\ x.revision = L.route[r].revision
  /\ Granted(r, Origin[x.doc])
  /\ x.disposition = "superseded" => x.signed.state = "deleted"
  /\ e.disposition # "none" /\ e.signed = x.signed
  /\ e.incarnation \in {0, x.incarnation}

\* The receipt is stored first and the obligation confirmed by a second commit.
StoreReceipt(L, x) ==
  [L EXCEPT !.receipts = @ \cup NewReceipts(@, x),
            !.outbox[x.route][x.doc].incarnation = x.incarnation]

Acknowledge(L, x) ==
  LET A == StoreReceipt(L, x) IN
  [A EXCEPT !.outbox[x.route][x.doc] =
     [@ EXCEPT !.disposition = "confirmed", !.outcome = x.disposition, !.history = FALSE]]

CanUpdateAttempt(L, r, d) == CurrentEntry(L, r, d).disposition \in {"pending", "blocked"}

UpdateAttempt(L, r, d, blocked) ==
  [L EXCEPT !.outbox[r][d] =
     [@ EXCEPT !.disposition = IF blocked THEN "blocked" ELSE "pending", !.history = FALSE]]

Retry(L, r) ==
  Queue([L EXCEPT !.outbox[r] = [d \in Doc |->
           IF CurrentEntry(L, r, d).disposition \in {"pending", "blocked"}
           THEN [L.outbox[r][d] EXCEPT !.disposition = "pending", !.history = FALSE]
           ELSE L.outbox[r][d]]],
        {r}, Doc, FALSE)

QuarantineRestore(L) ==
  [Quarantine(L) EXCEPT !.incarnation = L.incarnation + 1, !.receipts = {},
     !.history = [r \in Route |-> NoCheckpoint], !.full = [r \in Route |-> NoCheckpoint]]

\* A quarantined owner goes on under a fresh identity: every former record is an
\* inherited copy without membership, every route and obligation is gone.
Fork(L, inbox) ==
  [NewLedger(inbox) EXCEPT
     !.incarnation = L.incarnation + 1,
     !.rec = [d \in Doc |-> [L.rec[d] EXCEPT
        !.from = Absent.from,
        !.suppressed = @ /\ ~(Origin[d] = L.inbox /\ L.rec[d].from = Absent.from)]]]

-----------------------------------------------------------------------------
(* The cross-checks of `parseLedger`, made on every commit and every read,  *)
(* but for those of publicationIntents, of the revision in routeRetries and *)
(* of historyEpoch and originKeys, fields this ledger does not have.        *)

OwnerCounterAhead(L) ==
  \A d \in Doc : Origin[d] = L.inbox /\ Present(L, d) /\ ~L.quarantined
                   => L.rec[d].version < L.next

ContributionsBound(L) ==
  \A d \in Doc, r \in Route :
    LET c == L.rec[d].from[r] IN
    /\ c.state # "none" =>
         Present(L, d) /\ Configured(L, r) /\ c.revision <= L.route[r].revision
    /\ c.state = "attached" =>
         c.revision = L.route[r].revision /\ L.route[r].state = "active"

RoutesBound(L) == \A r \in Route : Configured(L, r) => L.inbox \in {Src[r], Dst[r]}

OutboxBound(L) ==
  \A r \in Route, d \in Doc :
    LET e == L.outbox[r][d] IN
    /\ e.disposition # "none" =>
         Present(L, d) /\ Configured(L, r) /\ e.revision <= L.route[r].revision
    /\ e.disposition \notin {"none", "retired"} =>
         e.revision = L.route[r].revision /\ e.signed = Fingerprint(L.rec[d])

ReceiptsBound(L) ==
  /\ \A x \in L.receipts : Configured(L, x.route)
  /\ \A r \in Route : L.history[r].revision # 0 \/ L.full[r].revision # 0 => Configured(L, r)

\* No receipt contradicts the state it is about (`parseReceipt`).
ReceiptsAgree(L) ==
  \A x \in L.receipts :
    /\ x.disposition = "deleted" => x.signed.state # "live"
    /\ x.disposition \in {"committed", "suppressed"} => x.signed.state # "deleted"

Parses(L) ==
  /\ OwnerCounterAhead(L) /\ ContributionsBound(L) /\ RoutesBound(L)
  /\ OutboxBound(L) /\ ReceiptsBound(L) /\ ReceiptsAgree(L)
=============================================================================
