---------------------------- MODULE Replication ----------------------------
(***************************************************************************)
(* Managed inboxes exchanging signed origin states over configured routes. *)
(*                                                                         *)
(* A home is one state directory with its ledger.  Every store operation   *)
(* runs under that home's store lock and is one step here.  What crosses   *)
(* between homes is one request or response at a time of at most MaxPasses *)
(* concurrent passes: a pass (push or pull of sync-reconciliation.ts) is   *)
(* the chain of steps its messages drive, and it ends silently when a      *)
(* message is lost, an endpoint crashes or a handler refuses (`Lose`).     *)
(* Everything else may happen in between.                                  *)
(***************************************************************************)
EXTENDS SyncLedger, FiniteSets

CONSTANTS
  Home,         \* state directories
  InboxOf,      \* Home -> Inbox, the identity each home is enrolled with
  Disruption,   \* Home -> the disturbances that may happen there, of Disruptions
  MaxRevision,  \* bound: no route is configured or revoked past this revision
  MaxVersion,   \* bound: no inbox signs past this version
  MaxPasses     \* bound: passes in progress at once

Disruptions == {"suppress", "lose-body", "fail", "reconfigure", "detach", "restore",
                "audit", "crash", "pull"}

ASSUME ReplicationAssumption ==
  /\ InboxOf \in [Home -> Inbox]
  /\ \A g, h \in Home : InboxOf[g] = InboxOf[h] => g = h
  /\ Disruption \in [Home -> SUBSET Disruptions]
  /\ MaxRevision \in Nat /\ MaxVersion \in Nat /\ MaxPasses \in Nat

VARIABLES
  ledger,       \* [Home -> ledger], what each home's ledger.json says
  wire          \* the requests and responses in flight

vars == <<ledger, wire>>

-----------------------------------------------------------------------------
(* Requests and responses.  Each carries the route revision it was          *)
(* authorized at; "push" and "pull" say which end drives the pass.          *)

Modes == {"push", "pull"}

StateMessage ==      \* offer a state, ask for its body, carry its body
  [kind : {"offer", "wanted", "body"}, mode : Modes, route : Route, revision : Nat,
   doc : Doc, signed : OriginState]
CutMessage ==        \* the terminal inventory, its readiness, its activation
  [kind : {"manifest", "ready", "active"}, mode : Modes, route : Route,
   revision : Nat, cut : Cut]
ReceiptMessage ==    \* the answer to `signed`: a durable receipt
  [kind : {"receipt"}, route : Route, revision : Nat, signed : OriginState,
   receipt : Receipt]
QueryMessage ==      \* which of these states do you hold?
  [kind : {"query"}, route : Route, revision : Nat, cut : Cut]
HoldingsMessage ==   \* the answer; `left` are the tombstones not yet observed
  [kind : {"holdings"}, route : Route, revision : Nat, cut : Cut,
   holding : [Doc -> Holding], receipts : SUBSET Receipt, incarnation : Nat,
   left : SUBSET Doc]

Message == StateMessage \cup CutMessage \cup ReceiptMessage \cup QueryMessage
             \cup HoldingsMessage

StateMsg(kind, mode, r, revision, d, s) ==
  [kind |-> kind, mode |-> mode, route |-> r, revision |-> revision, doc |-> d, signed |-> s]
CutMsg(kind, mode, r, revision, cut) ==
  [kind |-> kind, mode |-> mode, route |-> r, revision |-> revision, cut |-> cut]
ReceiptMsg(r, revision, s, x) ==
  [kind |-> "receipt", route |-> r, revision |-> revision, signed |-> s, receipt |-> x]

Init ==
  /\ ledger = [h \in Home |-> NewLedger(InboxOf[h])]
  /\ wire = {}

-----------------------------------------------------------------------------
Commit(h, L)    == ledger' = [ledger EXCEPT ![h] = L]
Reply(m, reply) == wire' = (wire \ {m}) \cup {reply}
Done(m)         == wire' = wire \ {m}

\* A pass sends its next request only while fewer than the bound are in flight.
Request(m) ==
  /\ Cardinality(wire) < MaxPasses
  /\ wire' = wire \cup {m}

Rev(h, r)     == ledger[h].route[r].revision
Sender(h, r)  == AuthorizedOut(ledger[h], r, Rev(h, r))
\* Mutant of SentBy: the revision a response was authorized at is not compared.
SentByRoute(h, m) == Sender(h, m.route)
SentBy(h, m)  == AuthorizedOut(ledger[h], m.route, m.revision)
SentTo(h, m)  == AuthorizedIn(ledger[h], m.route, m.revision)

-----------------------------------------------------------------------------
(* What users, operators and the environment do to one home. *)

PublishDocument(h, d) ==
  /\ CanPublish(ledger[h], d) /\ ledger[h].next <= MaxVersion
  /\ Commit(h, Publish(ledger[h], d)) /\ UNCHANGED wire

DeleteDocument(h, d) ==
  /\ CanDelete(ledger[h], d) /\ (Origin[d] = ledger[h].inbox => ledger[h].next <= MaxVersion)
  /\ Commit(h, Delete(ledger[h], d)) /\ UNCHANGED wire

SetSuppressed(h, d, suppressed) ==
  /\ "suppress" \in Disruption[h]
  /\ Present(ledger[h], d) /\ Origin[d] # ledger[h].inbox
  /\ Commit(h, Suppress(ledger[h], d, suppressed)) /\ UNCHANGED wire

ConfigureRoute(h, r, state) ==
  /\ CanConfigure(ledger[h], r)
  /\ Configured(ledger[h], r) => "reconfigure" \in Disruption[h]
  /\ state = "reconnecting" \/ "detach" \in Disruption[h]
  /\ Rev(h, r) < MaxRevision
  /\ Commit(h, Configure(ledger[h], r, state)) /\ UNCHANGED wire

RevokeRoute(h, r) ==
  /\ "detach" \in Disruption[h] /\ Configured(ledger[h], r) /\ Rev(h, r) < MaxRevision
  /\ Commit(h, Revoke(ledger[h], r)) /\ UNCHANGED wire

\* `retry` needs an authorized route of either direction.
RetryRoute(h, r) ==
  /\ "fail" \in Disruption[h] /\ Authorized(ledger[h], r, Rev(h, r))
  /\ Commit(h, Retry(ledger[h], r)) /\ UNCHANGED wire

\* A failed attempt is recorded against the obligation that was pending.
FailAttempt(h, r, d, blocked) ==
  /\ "fail" \in Disruption[h] /\ Sender(h, r) /\ CanUpdateAttempt(ledger[h], r, d)
  /\ Commit(h, UpdateAttempt(ledger[h], r, d, blocked)) /\ UNCHANGED wire

\* The body file disappears behind the store's back.
LoseBody(h, d) ==
  /\ "lose-body" \in Disruption[h] /\ Available(ledger[h].rec[d])
  /\ Commit(h, [ledger[h] EXCEPT !.rec[d].body = FALSE]) /\ UNCHANGED wire

\* The audit finds a body whose bytes drifted.
AuditConflict(h) ==
  /\ "audit" \in Disruption[h] /\ ~ledger[h].quarantined
  /\ \E d \in Doc : ledger[h].rec[d].state = "live" /\ ledger[h].rec[d].body
  /\ Commit(h, Quarantine(ledger[h])) /\ UNCHANGED wire

QuarantineRestored(h) ==
  /\ "restore" \in Disruption[h] /\ ~ledger[h].quarantined
  /\ Commit(h, QuarantineRestore(ledger[h])) /\ UNCHANGED wire

\* A fork takes an identity nobody ever used (a fresh UUID): no document, no
\* configured route and no message under way can name it yet.
Fresh(i) ==
  /\ \A g \in Home : ledger[g].inbox # i /\ InboxOf[g] # i
  /\ \A g \in Home, d \in Doc : Present(ledger[g], d) => Origin[d] # i
  /\ \A g \in Home, r \in Route : Configured(ledger[g], r) => i \notin {Src[r], Dst[r]}
  /\ \A m \in wire : i \notin {Src[m.route], Dst[m.route]}

ForkIdentity(h, i) ==
  /\ ledger[h].quarantined /\ Fresh(i)
  /\ Commit(h, Fork(ledger[h], i)) /\ UNCHANGED wire

-----------------------------------------------------------------------------
(* The sending end of a route. *)

\* Pending tombstones are offered before the inventory is even attempted.
OfferTerminal(h, r, d) ==
  LET L == ledger[h]  e == CurrentEntry(L, r, d) IN
  /\ Sender(h, r) /\ L.rec[d].state = "deleted"
  /\ e.disposition = "pending" /\ e.signed = Fingerprint(L.rec[d]) /\ CanForward(L, r, d, FALSE)
  /\ Request(StateMsg("offer", "push", r, Rev(h, r), d, Fingerprint(L.rec[d])))
  /\ UNCHANGED ledger

SendManifest(h, r, mode) ==
  /\ mode = "pull" => "pull" \in Disruption[h]
  /\ Sender(h, r) /\ InventoryReady(ledger[h], r)
  /\ Request(CutMsg("manifest", mode, r, Rev(h, r), InventoryCut(ledger[h], r)))
  /\ UNCHANGED ledger

QueryHoldings(h, r) ==
  /\ Sender(h, r) /\ ledger[h].route[r].state = "active" /\ InventoryReady(ledger[h], r)
  /\ InventoryCut(ledger[h], r) # NoCut
  /\ Request([kind |-> "query", route |-> r, revision |-> Rev(h, r),
                 cut |-> InventoryCut(ledger[h], r)])
  /\ UNCHANGED ledger

\* Any pending state is offered once the inventory holds it.
OfferState(h, r, d) ==
  LET L == ledger[h]  e == CurrentEntry(L, r, d) IN
  /\ Sender(h, r) /\ L.route[r].state = "active" /\ InventoryReady(L, r)
  /\ Present(L, d) /\ CanForward(L, r, d, FALSE)
  /\ e.disposition = "pending" /\ e.signed = Fingerprint(L.rec[d])
  /\ Request(StateMsg("offer", "push", r, Rev(h, r), d, Fingerprint(L.rec[d])))
  /\ UNCHANGED ledger

\* The body is pinned again under the lock: the state must not have changed and
\* must still be forwardable; a suppressed copy is pinned all the same.
SendBody(h, m) ==
  /\ m.kind = "wanted" /\ SentBy(h, m)
  /\ CanForward(ledger[h], m.route, m.doc, FALSE)
  /\ Fingerprint(ledger[h].rec[m.doc]) = m.signed
  /\ m.signed.state = "live" /\ ledger[h].rec[m.doc].body
  /\ Reply(m, [m EXCEPT !.kind = "body"])
  /\ UNCHANGED ledger

ActivateRoute(h, m) ==
  /\ m.kind = "ready" /\ SentBy(h, m)
  /\ Commit(h, ActivateOutbound(ledger[h], m.route))
  /\ IF m.mode = "pull" THEN Reply(m, [m EXCEPT !.kind = "active"]) ELSE Done(m)

\* The receipt answers the offered state: the obligation is confirmed, unless
\* the process dies between its two commits.
Receive(h, m) ==
  /\ m.kind = "receipt" /\ SentBy(h, m)
  /\ m.receipt.signed = m.signed /\ CanAcknowledge(ledger[h], m.route, m.receipt)

AcknowledgeReceipt(h, m) ==
  /\ Receive(h, m)
  /\ Commit(h, Acknowledge(ledger[h], m.receipt)) /\ Done(m)

CrashAfterReceipt(h, m) ==
  /\ "crash" \in Disruption[h] /\ Receive(h, m)
  /\ Commit(h, StoreReceipt(ledger[h], m.receipt)) /\ Done(m)

\* The receipt is about another state: only a tombstone may be learnt from it.
ObserveReceipt(h, m) ==
  /\ m.kind = "receipt" /\ SentBy(h, m) /\ m.receipt.signed # m.signed
  /\ CanObserve(ledger[h], m.route, m.receipt.doc, m.receipt.signed)
  /\ Commit(h, ObserveOutbound(ledger[h], m.receipt.doc, m.receipt.signed)) /\ Done(m)

ObserveHolding(h, m, d) ==
  /\ m.kind = "holdings" /\ SentBy(h, m) /\ d \in m.left
  /\ CanObserve(ledger[h], m.route, d, m.holding[d].signed)
  /\ Commit(h, ObserveOutbound(ledger[h], d, m.holding[d].signed))
  /\ Reply(m, [m EXCEPT !.left = @ \ {d}])

\* Custody receipts are acknowledged after their page was reconciled.
CustodyOf(m) ==
  {x \in m.receipts : /\ x.signed = m.cut[x.doc]
                      /\ x.disposition # "committed" \/ m.holding[x.doc].available}

ReconcileHeld(h, m) ==
  LET asked == {d \in Doc : m.cut[d].state # "absent"} IN
  /\ m.kind = "holdings" /\ SentBy(h, m) /\ m.left = {}
  /\ \A d \in asked : Present(ledger[h], d) /\ CanForward(ledger[h], m.route, d, TRUE)
  /\ Commit(h, ReconcileHoldings(ledger[h], m.route, asked, m.holding, m.incarnation))
  /\ wire' = (wire \ {m}) \cup {ReceiptMsg(m.route, m.revision, x.signed, x) : x \in CustodyOf(m)}

-----------------------------------------------------------------------------
(* The receiving end of a route. *)

\* What the receiver answers to a state it was sent, and what it commits.
Answer(h, m, staged) ==
  LET L == ledger[h]  verdict == Verdict(L, m.route, m.doc, m.signed, staged) IN
  /\ verdict # "conflict"
  /\ Commit(h, Apply(L, m.route, m.doc, m.signed, staged))
  /\ CASE verdict = "needs-body" -> Reply(m, [m EXCEPT !.kind = "wanted"])
       [] verdict \in {"accept", "superseded"} /\ m.mode = "push" ->
            Reply(m, ReceiptMsg(m.route, m.revision, m.signed,
                                ReceiptOf(L, m.route, m.doc, m.signed, staged)))
       [] OTHER -> Done(m)

ReceiveOffer(h, m) ==
  /\ m.kind = "offer" /\ SentTo(h, m) /\ Granted(m.route, Origin[m.doc])
  /\ Answer(h, m, FALSE)

ReceiveBody(h, m) ==
  /\ m.kind = "body" /\ SentTo(h, m) /\ Granted(m.route, Origin[m.doc])
  /\ Answer(h, m, TRUE)

\* Tombstones of a manifest page are applied as the page arrives, before the
\* inventory is known to be complete.
ApplyPageTerminal(h, m, d) ==
  LET L == ledger[h] IN
  /\ m.kind = "manifest" /\ SentTo(h, m) /\ Granted(m.route, Origin[d])
  /\ m.cut[d].state = "deleted"
  /\ Verdict(L, m.route, d, m.cut[d], FALSE) # "conflict"
  /\ Commit(h, Apply(L, m.route, d, m.cut[d], FALSE)) /\ UNCHANGED wire

FinishInventory(h, m) ==
  /\ m.kind = "manifest" /\ SentTo(h, m) /\ CanCompleteInventory(ledger[h], m.route, m.cut)
  /\ Commit(h, CompleteInventory(ledger[h], m.route, m.cut))
  /\ IF Fences(ledger[h], m.route, DeadPart(m.cut), FALSE) THEN Done(m)
     ELSE Reply(m, [m EXCEPT !.kind = "ready"])

\* A pulling receiver applies the live states of the cut itself and asks for the
\* bodies it lacks.
PullDocument(h, m, d) ==
  LET L == ledger[h]  verdict == Verdict(L, m.route, d, m.cut[d], FALSE) IN
  /\ m.kind = "active" /\ SentTo(h, m) /\ m.cut[d].state = "live"
  /\ verdict # "conflict"
  /\ Commit(h, Apply(L, m.route, d, m.cut[d], FALSE))
  /\ wire' = IF verdict = "needs-body"
             THEN wire \cup {StateMsg("wanted", "pull", m.route, m.revision, d, m.cut[d])}
             ELSE wire

FinishReconciliation(h, m) ==
  /\ m.kind = "active" /\ SentTo(h, m)
  /\ CanCompleteReconciliation(ledger[h], m.route, m.cut)
  /\ Commit(h, CompleteReconciliation(ledger[h], m.route, m.cut)) /\ Done(m)

\* With what is held goes the earliest receipt this incarnation gave for the
\* very state it holds.
Custody(L, r, d) ==
  {x \in L.receipts : /\ x.route = r /\ x.revision = L.route[r].revision /\ x.doc = d
                      /\ x.signed = Fingerprint(L.rec[d]) /\ x.incarnation = L.incarnation
                      /\ x.first}

AnswerQuery(h, m) ==
  LET L     == ledger[h]
      asked == {d \in Doc : m.cut[d].state # "absent"}
  IN /\ m.kind = "query" /\ SentTo(h, m)
     /\ Reply(m, [kind |-> "holdings", route |-> m.route, revision |-> m.revision,
                  cut |-> m.cut, holding |-> [d \in Doc |-> HoldingOf(L.rec[d])],
                  receipts |-> UNION {Custody(L, m.route, d) : d \in asked},
                  incarnation |-> L.incarnation,
                  left |-> {d \in asked : /\ L.rec[d].state = "deleted"
                                          /\ Fingerprint(L.rec[d]) # m.cut[d]}])
     /\ UNCHANGED ledger

\* A request or response is lost, refused, or its pass gives up.
Lose(m) == Done(m) /\ UNCHANGED ledger

-----------------------------------------------------------------------------
Users(h) ==
  \/ \E d \in Doc : PublishDocument(h, d) \/ DeleteDocument(h, d) \/ LoseBody(h, d)
  \/ \E d \in Doc, suppressed \in BOOLEAN : SetSuppressed(h, d, suppressed)
  \/ \E r \in Route, state \in {"reconnecting", "detached"} : ConfigureRoute(h, r, state)
  \/ \E r \in Route : RevokeRoute(h, r) \/ RetryRoute(h, r)
  \/ \E r \in Route, d \in Doc, blocked \in BOOLEAN : FailAttempt(h, r, d, blocked)
  \/ AuditConflict(h) \/ QuarantineRestored(h) \/ \E i \in Inbox : ForkIdentity(h, i)

Sends(h) ==
  \/ \E r \in Route, d \in Doc : OfferTerminal(h, r, d) \/ OfferState(h, r, d)
  \/ \E r \in Route, mode \in Modes : SendManifest(h, r, mode)
  \/ \E r \in Route : QueryHoldings(h, r)

Handles(h, m) ==
  \/ SendBody(h, m) \/ ActivateRoute(h, m)
  \/ AcknowledgeReceipt(h, m) \/ CrashAfterReceipt(h, m) \/ ObserveReceipt(h, m)
  \/ \E d \in Doc : ObserveHolding(h, m, d)
  \/ ReconcileHeld(h, m)
  \/ ReceiveOffer(h, m) \/ ReceiveBody(h, m)
  \/ \E d \in Doc : ApplyPageTerminal(h, m, d)
  \/ FinishInventory(h, m)
  \/ \E d \in Doc : PullDocument(h, m, d)
  \/ FinishReconciliation(h, m) \/ AnswerQuery(h, m)

Next ==
  \/ \E h \in Home : Users(h) \/ Sends(h)
  \/ \E h \in Home, m \in wire : Handles(h, m)
  \/ \E m \in wire : Lose(m)

Spec == Init /\ [][Next]_vars
=============================================================================
