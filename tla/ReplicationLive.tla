-------------------------- MODULE ReplicationLive --------------------------
(***************************************************************************)
(* What must eventually happen.  The worker of each home keeps running     *)
(* passes (every reconcile interval and after every wake), so a request    *)
(* that a pass may send infinitely often is sent again and again, and an   *)
(* endpoint that can handle a message does.  Only a stopped route gets no  *)
(* pass: a permanent failure that ends a pass blocks the whole route, and  *)
(* it stays so until somebody retries it or changes its configuration.     *)
(* Messages are lost at most MaxLosses times, fewer than the failures in a *)
(* row that stop a route as well (`maxAttempts`); what nobody can handle   *)
(* is refused, which ends its pass and may stop the route.  Nothing is     *)
(* assumed of users, operators or faults.                                  *)
(***************************************************************************)
EXTENDS ReplicationProperties

CONSTANT MaxLosses    \* bound: messages lost or timed out

VARIABLES
  losses,             \* how many were
  stopped             \* the routes that are `blocked` in their source's `routeRetries`

liveVars == <<ledger, wire, losses, stopped>>

\* The home enrolled at each end of a route; after a fork nobody is connected.
HomeOf(i) == CHOOSE h \in Home : InboxOf[h] = i

-----------------------------------------------------------------------------
Handle(m) == \E h \in Home : Handles(h, m)

\* The pass of m ends, and with a permanent failure its route is stopped.
Stops(m) == Lose(m) /\ stopped' = stopped \cup {m.route}

FailForGood(m) == "fail" \in Disruption[HomeOf(Src[m.route])] /\ Stops(m) /\ UNCHANGED losses
Refuse(m)      == /\ ~ENABLED Handle(m)
                  /\ Stops(m) \/ (Lose(m) /\ UNCHANGED stopped)
                  /\ UNCHANGED losses
LoseOne(m)     == losses < MaxLosses /\ losses' = losses + 1 /\ Lose(m) /\ UNCHANGED stopped

\* A pass is run only for a route that is not stopped (`isRouteDue`).
Unstopped(r) == r \notin stopped /\ UNCHANGED <<losses, stopped>>
Pass(h)      == Sends(h) /\ \A m \in wire' \ wire : Unstopped(m.route)

\* An explicit retry, or a change of the route's revision, deletes its retry state.
RetriedAt(h, r) == RetryRoute(h, r) /\ h = HomeOf(Src[r]) /\ stopped' = stopped \ {r}
Renewed == {r \in Route : LET h == HomeOf(Src[r]) IN
              ledger'[h].route[r].revision # ledger[h].route[r].revision}

LiveInit == Init /\ losses = 0 /\ stopped = {}

LiveNext ==
  \/ \E h \in Home, r \in Route : RetriedAt(h, r) /\ UNCHANGED losses
  \/ \E h \in Home : /\ Users(h) /\ (\A r \in stopped : ~RetryRoute(h, r))
                     /\ stopped' = stopped \ Renewed /\ UNCHANGED losses
  \/ \E h \in Home : Pass(h) /\ UNCHANGED <<losses, stopped>>
  \/ \E m \in wire : Handle(m) /\ stopped' = stopped \ Renewed /\ UNCHANGED losses
  \/ \E m \in wire : Refuse(m) \/ FailForGood(m) \/ LoseOne(m)

\* A route that does not stop again and again gets its passes.
PassFairness ==
  \A r \in Route :
    \/ []<>(r \in stopped)
    \/ /\ SF_liveVars(\E h \in Home : SendManifest(h, r, "push") /\ Unstopped(r))
       /\ SF_liveVars(\E h \in Home : QueryHoldings(h, r) /\ Unstopped(r))
       /\ \A d \in Doc : SF_liveVars(\E h \in Home : OfferState(h, r, d) /\ Unstopped(r))

LiveSpec ==
  /\ LiveInit /\ [][LiveNext]_liveVars
  /\ PassFairness
  /\ WF_liveVars(\E m \in wire : Handle(m) /\ stopped' = stopped \ Renewed /\ UNCHANGED losses)
  /\ WF_liveVars(\E m \in wire : Refuse(m))

-----------------------------------------------------------------------------
\* Both ends have route r at the same revision and may use it.
Connected(r) ==
  /\ Sender(HomeOf(Src[r]), r)
  /\ AuthorizedIn(ledger[HomeOf(Dst[r])], r, Rev(HomeOf(Src[r]), r))

Sent(r, d)     == ledger[HomeOf(Src[r])].rec[d]
Received(r, d) == ledger[HomeOf(Dst[r])].rec[d]

\* A deletion reaches the destination of every route that stays connected and is
\* not stopped, even when its own obligation was blocked by a permanent failure
\* that the pass survived, as one of the live copy that was on its way: the
\* terminal inventory of a later pass carries it (`inventory`,
\* `completeInventory`).
DeletionReaches ==
  \A r \in Route, d \in Doc :
    Connected(r) /\ Sent(r, d).state = "deleted"
      ~> Received(r, d).state = "deleted" \/ ~Connected(r) \/ r \in stopped

\* A live document reaches the destination, and reaches it again after the
\* destination lost the body, unless it is deleted or hidden meanwhile, its
\* obligation was blocked by a permanent failure or its route is stopped by one
\* (`reconcileHoldings`).
CopyRepaired ==
  \A r \in Route, d \in Doc :
    Connected(r) /\ Sent(r, d).state = "live"
      ~> \/ Available(Received(r, d)) \/ Received(r, d).suppressed
         \/ Sent(r, d).state # "live" \/ ~Connected(r) \/ r \in stopped
         \/ CurrentEntry(ledger[HomeOf(Src[r])], r, d).disposition = "blocked"
=============================================================================
