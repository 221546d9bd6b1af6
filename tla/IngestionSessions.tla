------------------------- MODULE IngestionSessions -------------------------
(***************************************************************************)
(* The ingestion server of a worker: what it keeps between the requests of *)
(* a peer (sessions and transfers, in memory and bounded) and what its     *)
(* handlers do with them between two awaits, while the route changes in    *)
(* the store, leases run out, peers disconnect, a command quiesces the     *)
(* route and the worker closes.                                            *)
(*                                                                         *)
(* One route; its direction decides what a peer may ask.  A revision of    *)
(* the route stands for all that authorises a request.                     *)
(***************************************************************************)
EXTENDS Naturals, FiniteSets

CONSTANTS
  Handler,        \* requests handled at the same time
  Session,        \* session ids, each drawn once
  Transfer,       \* transfer ids, each drawn once
  Unnamed,        \* no session, no transfer
  MaxSessions, MaxTransfers, MaxBodies,
  Pages,          \* pages of the terminal inventory
  MaxRevision,    \* bound: changes of the route
  MaxSlips        \* bound: store calls that fail, peers that go, leases that end

ASSUME IngestionSessionsAssumption ==
  /\ Unnamed \notin Session \cup Transfer
  /\ {MaxSessions, MaxTransfers, MaxBodies, Pages, MaxRevision} \subseteq Nat \ {0}
  /\ MaxSlips \in Nat

VARIABLES
  direction,      \* of the route: inbound or outbound
  revision,       \* of the route, in the store
  sess,           \* Session -> what the server keeps of it
  trans,          \* Transfer -> likewise
  uses,           \* Transfer -> bodies received for it
  hand,           \* Handler -> the request it handles
  server,         \* open, closing, settled or stuck
  slips

ingestionVars == <<direction, revision, sess, trans, uses, hand, server, slips>>

Idle    == [where |-> "idle", op |-> "none", on |-> Unnamed, rev |-> 0, cut |-> FALSE]
Op      == {"identity", "page", "ready", "complete", "get", "offer", "put"}
NewSess == [kept |-> "no", rev |-> 0, busy |-> FALSE, pages |-> 0, ready |-> FALSE,
            active |-> FALSE, expired |-> FALSE]
NewTrans == [kept |-> "no", rev |-> 0, expired |-> FALSE]

IngestionInit ==
  /\ direction \in {"inbound", "outbound"} /\ revision = 1
  /\ sess = [s \in Session |-> NewSess]
  /\ trans = [t \in Transfer |-> NewTrans]
  /\ uses = [t \in Transfer |-> 0]
  /\ hand = [h \in Handler |-> Idle] /\ server = "open" /\ slips = 0

Slip == slips < MaxSlips /\ slips' = slips + 1

Kept(f)   == {x \in DOMAIN f : f[x].kept = "yes"}
Now(h, w) == hand[h].where = w
Goes(h, w) == hand' = [hand EXCEPT ![h].where = w]
Answers(h) == hand' = [hand EXCEPT ![h] = Idle]
Current(h) == hand[h].rev = revision
Is(h, op)  == Now(h, "reading") /\ hand[h].op = op

\* What a handler still writes to a session that is not kept reaches nobody; it
\* may still send a body for it.
Forgotten(session) == [NewSess EXCEPT !.kept = "gone", !.pages = session.pages,
                                      !.active = session.active]
DropSess(xs) == [s \in Session |-> IF s \in xs THEN Forgotten(sess[s]) ELSE sess[s]]
DropTrans(xs) ==
  [t \in Transfer |-> IF t \in xs THEN [NewTrans EXCEPT !.kept = "gone"] ELSE trans[t]]
Writes(s, session) == [sess EXCEPT ![s] = IF @.kept = "gone" THEN @ ELSE session]

\* What the operations leave alone.
OnlyHandlers == UNCHANGED <<direction, revision, sess, trans, uses, server>>
OnlySessions == UNCHANGED <<direction, revision, trans, uses, server>>
OnlyTransfers == UNCHANGED <<direction, revision, sess, server>>

-----------------------------------------------------------------------------
(* Every request: admission, authorization under the store lock, the attempt. *)

\* What is not kept is refused, and no id is kept twice: nothing to follow.
Targets(op) == CASE op \in {"identity", "offer"} -> {Unnamed}
                 [] op = "put" -> Kept(trans)
                 [] OTHER -> Kept(sess)

Permitted(op) ==
  \/ op \in {"identity", "page", "ready", "complete"}
  \/ direction = "inbound" /\ op \in {"offer", "put"}
  \/ direction = "outbound" /\ op = "get"

\* authenticate and openRouteAttempt, which authorises again under the store lock;
\* a request that either refuses leaves nothing behind.  Then what has expired is
\* forgotten.  Which of the idle handlers takes a request makes no difference.
Authenticate(h) ==
  /\ server = "open" /\ Now(h, "idle") /\ h = CHOOSE g \in Handler : Now(g, "idle")
  /\ \E op \in Op : \E x \in Targets(op) : Permitted(op) /\
       hand' = [hand EXCEPT ![h] = [where |-> "reading", op |-> op, on |-> x,
                                    rev |-> revision, cut |-> FALSE]]
  /\ trans' = DropTrans({t \in Kept(trans) : trans[t].expired})
  /\ sess' = DropSess({s \in Kept(sess) : sess[s].expired /\ ~sess[s].busy})
  /\ UNCHANGED <<direction, revision, uses, server, slips>>

\* Anything may fail while the envelope is read: it is invalid, or the peer goes.
Reject(h) ==
  /\ Now(h, "reading") /\ Slip /\ Answers(h) /\ OnlyHandlers

\* Only a handler that sends a body looks at its peer again.
PeerGoes(h) ==
  /\ hand[h].where \in {"pinning", "sending"} /\ ~hand[h].cut /\ Slip
  /\ hand' = [hand EXCEPT ![h].cut = TRUE]
  /\ OnlyHandlers

\* The attempt's watcher, or a change in this process.
WatcherAborts(h) ==
  /\ hand[h].where \in {"pinning", "sending"} /\ ~Current(h) /\ ~hand[h].cut
  /\ hand' = [hand EXCEPT ![h].cut = TRUE] /\ OnlyHandlers /\ UNCHANGED slips
-----------------------------------------------------------------------------
(* Sessions. *)

\* sessionFor
Usable(h) ==
  LET s == hand[h].on IN
  /\ sess[s].kept = "yes" /\ ~sess[s].expired /\ ~sess[s].busy /\ sess[s].rev = hand[h].rev

\* Mutant of Reserved: admission is not reserved before the inventory is read.
ReservedLater(s, r) == sess

Reserved(s, r) ==
  [sess EXCEPT ![s] = [NewSess EXCEPT !.kept = "yes", !.rev = r,
                                      !.busy = (direction = "outbound")]]

Identity(h) ==
  /\ Is(h, "identity")
  /\ IF Cardinality(Kept(sess)) >= MaxSessions
     THEN Answers(h) /\ UNCHANGED sess
     ELSE LET free == {s \in Session : sess[s].kept = "no" /\ \A g \in Handler : hand[g].on # s}
              s == CHOOSE s \in free : TRUE
          IN /\ free # {} /\ sess' = Reserved(s, hand[h].rev)
             /\ IF direction = "inbound" THEN Answers(h)
                ELSE hand' = [hand EXCEPT ![h].where = "inventory", ![h].on = s]
  /\ OnlySessions /\ UNCHANGED slips

Finished(s) == Writes(s, [sess[s] EXCEPT !.busy = FALSE])

\* A session whose inventory could not be read is forgotten.
InventoryRead(h) ==
  LET s == hand[h].on IN
  /\ Now(h, "inventory") /\ Answers(h)
  /\ \/ Current(h) /\ sess' = Writes(s, [sess[s] EXCEPT !.kept = "yes", !.busy = FALSE])
        /\ UNCHANGED slips
     \/ ~Current(h) /\ sess' = DropSess({s}) /\ UNCHANGED slips
     \/ Slip /\ sess' = DropSess({s})
  /\ OnlySessions

NextPage(s) ==
  Writes(s, [sess[s] EXCEPT !.pages = @ + 1, !.ready = (sess[s].pages + 1 = Pages),
                            !.busy = FALSE])

\* The peer pulls the next page of ours, or pushes the next page of its own.
ServePage(h) ==
  LET s == hand[h].on IN
  /\ Is(h, "page") /\ direction = "outbound" /\ Answers(h)
  /\ sess' = IF Usable(h) /\ ~sess[s].ready THEN NextPage(s) ELSE sess
  /\ OnlySessions /\ UNCHANGED slips

TakePage(h) ==
  LET s == hand[h].on IN
  /\ Is(h, "page") /\ direction = "inbound"
  /\ IF Usable(h) /\ ~sess[s].ready
     THEN sess' = [sess EXCEPT ![s].busy = TRUE] /\ Goes(h, "applying")
     ELSE Answers(h) /\ UNCHANGED sess
  /\ OnlySessions /\ UNCHANGED slips

\* Deleted states are applied, and with the last page the inventory completed.
PageApplied(h) ==
  LET s == hand[h].on IN
  /\ Now(h, "applying") /\ Answers(h)
  /\ \/ Current(h) /\ sess' = NextPage(s) /\ UNCHANGED slips
     \/ ~Current(h) /\ sess' = Finished(s) /\ UNCHANGED slips
     \/ Slip /\ sess' = Finished(s)
  /\ OnlySessions

Activate(h) ==
  LET s == hand[h].on IN
  /\ Is(h, "ready")
  /\ IF direction = "outbound" /\ Usable(h) /\ sess[s].ready /\ ~sess[s].active
     THEN sess' = [sess EXCEPT ![s].busy = TRUE] /\ Goes(h, "activating")
     ELSE Answers(h) /\ UNCHANGED sess
  /\ OnlySessions /\ UNCHANGED slips

Activated(h) ==
  LET s == hand[h].on IN
  /\ Now(h, "activating") /\ Answers(h)
  /\ \/ Current(h) /\ sess' = Writes(s, [sess[s] EXCEPT !.busy = FALSE, !.active = TRUE])
        /\ UNCHANGED slips
     \/ ~Current(h) /\ sess' = Finished(s) /\ UNCHANGED slips
     \/ Slip /\ sess' = Finished(s)
  /\ OnlySessions

CompleteSession(h) ==
  /\ Is(h, "complete") /\ Answers(h)
  /\ sess' = IF Usable(h) THEN DropSess({hand[h].on}) ELSE sess
  /\ OnlySessions /\ UNCHANGED slips

\* Mutant of MayGet: a session whose pages were all served may get bodies.
GetWhenServed(s) == sess[s].ready

MayGet(s) == sess[s].active

Get(h) ==
  LET s == hand[h].on IN
  /\ Is(h, "get")
  /\ IF Usable(h) /\ MayGet(s)
     THEN sess' = [sess EXCEPT ![s].busy = TRUE] /\ Goes(h, "pinning")
     ELSE Answers(h) /\ UNCHANGED sess
  /\ OnlySessions /\ UNCHANGED slips

\* Whatever did not leave whole takes the session with it.
AfterGet(s, whole) == IF whole THEN Finished(s) ELSE DropSess({s})

\* pinOutgoing, which a peer that is gone does not wait for.  It authorizes under the
\* store lock; from then on the body is on its way ("sending"), and a route that
\* changes before the head is written does not stop it any more.
Pinned(h) ==
  LET s == hand[h].on IN
  /\ Now(h, "pinning")
  /\ \/ ~hand[h].cut /\ Current(h) /\ Goes(h, "sending") /\ UNCHANGED <<sess, slips>>
     \/ (hand[h].cut \/ ~Current(h)) /\ Answers(h) /\ sess' = AfterGet(s, FALSE) /\ UNCHANGED slips
     \/ Slip /\ Answers(h) /\ sess' = AfterGet(s, FALSE)
  /\ OnlySessions

Sent(h) ==
  /\ Now(h, "sending") /\ Answers(h)
  /\ sess' = AfterGet(hand[h].on, ~hand[h].cut /\ server = "open")
  /\ OnlySessions /\ UNCHANGED slips
-----------------------------------------------------------------------------
(* Transfers. *)

Offer(h) ==
  /\ Is(h, "offer") /\ Goes(h, "offering") /\ OnlyHandlers /\ UNCHANGED slips

\* Without a body to ask for, or with no room, nothing is kept.
OfferApplied(h) ==
  /\ Now(h, "offering") /\ Answers(h)
  /\ \/ UNCHANGED trans
     \/ /\ Current(h) /\ Cardinality(Kept(trans)) < MaxTransfers
        /\ \E t \in Transfer : trans[t].kept = "no" /\
             trans' = [trans EXCEPT ![t] = [kept |-> "yes", rev |-> hand[h].rev, expired |-> FALSE]]
  /\ OnlyTransfers /\ UNCHANGED <<uses, slips>>

Receiving == {h \in Handler : Now(h, "receiving")}

Claimed(t) == DropTrans({t})

\* The transfer is claimed before the body is looked at, whatever becomes of it.
Put(h) ==
  LET t == hand[h].on IN
  /\ Is(h, "put")
  /\ IF trans[t].kept = "yes" /\ ~trans[t].expired /\ trans[t].rev = hand[h].rev
     THEN /\ trans' = Claimed(t)
          /\ IF Cardinality(Receiving) < MaxBodies
             THEN Goes(h, "receiving") /\ uses' = [uses EXCEPT ![t] = @ + 1]
             ELSE Answers(h) /\ UNCHANGED uses
     ELSE Answers(h) /\ UNCHANGED <<trans, uses>>
  /\ OnlyTransfers /\ UNCHANGED slips

Received(h) == Now(h, "receiving") /\ Answers(h) /\ OnlyHandlers /\ UNCHANGED slips
-----------------------------------------------------------------------------
ChangeRoute ==
  /\ revision < MaxRevision /\ revision' = revision + 1
  /\ UNCHANGED <<direction, sess, trans, uses, hand, server, slips>>

Expiry ==
  /\ Slip
  /\ \/ \E s \in Kept(sess) : sess' = [sess EXCEPT ![s].expired = TRUE] /\ UNCHANGED trans
     \/ \E t \in Kept(trans) : trans' = [trans EXCEPT ![t].expired = TRUE] /\ UNCHANGED sess
  /\ UNCHANGED <<direction, revision, uses, hand, server>>

\* A command that fences the route has the worker forget it: busy or not.
InvalidateRoute ==
  /\ revision > 1 /\ server = "open"
  /\ sess' = DropSess(Kept(sess)) /\ trans' = DropTrans(Kept(trans))
  /\ UNCHANGED <<direction, revision, uses, hand, server, slips>>

\* The sockets are destroyed; the handlers are awaited.
BeginServerClose ==
  /\ server = "open" /\ server' = "closing"
  /\ sess' = DropSess(Kept(sess)) /\ trans' = DropTrans(Kept(trans))
  /\ hand' = [h \in Handler |-> IF Now(h, "idle") THEN Idle ELSE [hand[h] EXCEPT !.cut = TRUE]]
  /\ UNCHANGED <<direction, revision, uses, slips>>

AllAnswered == \A h \in Handler : Now(h, "idle")

ServerClosed ==
  /\ server = "closing"
  /\ \/ AllAnswered /\ server' = "settled" /\ UNCHANGED slips
     \/ ~AllAnswered /\ Slip /\ server' = "stuck"
  /\ UNCHANGED <<direction, revision, sess, trans, uses, hand>>

IngestionNext ==
  \/ \E h \in Handler :
       \/ Authenticate(h) \/ Reject(h) \/ PeerGoes(h)
       \/ WatcherAborts(h) \/ Identity(h) \/ InventoryRead(h) \/ ServePage(h) \/ TakePage(h)
       \/ PageApplied(h) \/ Activate(h) \/ Activated(h) \/ CompleteSession(h) \/ Get(h)
       \/ Pinned(h) \/ Sent(h) \/ Offer(h) \/ OfferApplied(h) \/ Put(h) \/ Received(h)
  \/ ChangeRoute \/ Expiry \/ InvalidateRoute \/ BeginServerClose \/ ServerClosed

IngestionSpec == IngestionInit /\ [][IngestionNext]_ingestionVars
-----------------------------------------------------------------------------
\* The server never keeps more sessions than it may, and no session stays busy,
\* and so unpurgeable, when the one handler that works on it is done: across
\* concurrent identities, failures, disconnects and a route that is fenced.
\* A transfer id admits one body, however its PUTs overlap and fail.
SessionsAccounted ==
  /\ Cardinality(Kept(sess)) <= MaxSessions
  /\ \A s \in Kept(sess) :
       LET on == {h \in Handler : hand[h].on = s /\ hand[h].where \in
                    {"inventory", "applying", "activating", "pinning", "sending"}}
       IN sess[s].busy <=> \E h \in on : on = {h}
  /\ \A t \in Transfer : uses[t] <= 1

\* A body is pinned, and leaves, only for a session that has served every page and
\* whose receiver has acknowledged the complete terminal inventory, at the revision
\* the route has while it is pinned.
BodyIsEarned ==
  [][\A h \in Handler : Now(h, "pinning") /\ hand'[h].where = "sending" =>
       LET s == hand[h].on IN sess[s].pages = Pages /\ sess[s].active /\ hand[h].rev = revision]_ingestionVars
=============================================================================
