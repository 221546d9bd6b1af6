----------------------------- MODULE Publication -----------------------------
(***************************************************************************)
(* One foreground publication in a managed home (publishManagedDocument):  *)
(* the document is durable and queued before this begins.  The command     *)
(* looks at the delivery, has the worker run a ticket for it, looks again  *)
(* until it is decided or the time to finish has come, and tells the       *)
(* outcome by its exit code.  SIGINT may arrive at any await, and so may   *)
(* either of the two deadlines; what the worker achieves meanwhile, with   *)
(* or without the ticket, is the environment's.                            *)
(***************************************************************************)
EXTENDS Naturals, FiniteSets

CONSTANTS
  Way,          \* outbound routes to the intended target
  MaxTurns      \* bound: changes of the obligations' states

ASSUME PublicationAssumption == MaxTurns \in Nat

\* The obligation of the document on a route, and what the receiver told of it.
Fate == {"queued", "history", "blocked", "committed", "suppressed", "restored", "revoked"}

VARIABLES
  point,        \* where the command is
  purpose,      \* which of the three inspections it is making
  interrupted,  \* SIGINT has arrived
  clock,        \* "early", then past "finish" (finishAt), then past the "deadline"
  targeted,     \* the publication has an intended target
  retries,      \* the worker was enabled and not paused
  fate,         \* Way -> Fate
  was,          \* Way -> the fates it has had during the command
  snap,         \* fate in the snapshot of the inspection
  unseen,       \* routes the inspection has still to look at
  blockedBy,    \* it has met a block
  canRetry,     \* it has met a route that may still deliver
  delivery,     \* the outcome so far
  attempted, submitted, cancelled,  \* the ticket
  viewerReady, exit, turns

pubVars == <<point, purpose, interrupted, clock, targeted, retries, fate, was, snap, unseen,
             blockedBy, canRetry, delivery, attempted, submitted, cancelled, viewerReady, exit, turns>>

outside == <<interrupted, clock, fate, was, viewerReady, turns>>
given   == <<targeted, retries>>
ticket  == <<attempted, submitted, cancelled>>
looking == <<purpose, snap, unseen, blockedBy, canRetry>>

PublicationInit ==
  /\ point = "inspect" /\ purpose = "first" /\ interrupted = FALSE /\ clock = "early"
  /\ targeted \in BOOLEAN /\ retries \in BOOLEAN
  /\ fate = [r \in Way |-> "queued"] /\ was = [r \in Way |-> {"queued"}] /\ snap = fate
  /\ unseen = {} /\ blockedBy = FALSE /\ canRetry = FALSE /\ delivery = "pending"
  /\ attempted = FALSE /\ submitted = FALSE /\ cancelled = FALSE
  /\ viewerReady = FALSE /\ exit = 99 /\ turns = 0

-----------------------------------------------------------------------------
(* inspectDelivery *)

Bound == IF purpose = "last" THEN clock # "deadline" ELSE clock = "early"

Matching(f) == {r \in Way : f[r] # "revoked"}

Inspected(outcome) ==
  /\ delivery' = outcome
  /\ point' = CASE purpose = "first" -> "decide" [] purpose = "wait" -> "wait" [] OTHER -> "viewer"

Snapshot ==
  /\ point = "inspect" /\ snap' = fate
  /\ IF ~targeted THEN Inspected("local-only") /\ UNCHANGED unseen
     ELSE IF Matching(fate) = {} THEN Inspected("blocked") /\ UNCHANGED unseen
     ELSE unseen' = Matching(fate) /\ point' = "look" /\ UNCHANGED delivery
  /\ blockedBy' = FALSE /\ canRetry' = FALSE
  /\ UNCHANGED <<purpose, outside, given, ticket, exit>>

\* Only custody that deliveryStatus vouches for confirms; the snapshot does not.
Confirms(heard, answered) == heard = "committed" /\ answered

\* deliveryStatus answers in time, or the snapshot has to explain.
Look ==
  /\ point = "look"
  /\ \E r \in unseen, answered \in (IF Bound THEN BOOLEAN ELSE {FALSE}) :
       LET heard == IF answered THEN fate[r] ELSE snap[r] IN
       IF Confirms(heard, answered)
       THEN Inspected("confirmed") /\ unseen' = {} /\ UNCHANGED <<blockedBy, canRetry>>
       ELSE /\ unseen' = unseen \ {r}
            /\ blockedBy' = (blockedBy \/ heard \in {"suppressed", "blocked"})
            /\ canRetry' = (canRetry \/ heard \notin {"suppressed", "blocked"})
            /\ UNCHANGED <<delivery, point>>
  /\ UNCHANGED <<purpose, snap, outside, given, ticket, exit>>

Concluded ==
  /\ point = "look" /\ unseen = {}
  /\ Inspected(IF ~canRetry /\ blockedBy THEN "blocked" ELSE "pending")
  /\ UNCHANGED <<looking, outside, given, ticket, exit>>

\* An error that is no deadline ends the command, except where it has nothing to lose.
InspectionFails ==
  /\ point \in {"inspect", "look"}
  /\ IF purpose = "last" \/ (~interrupted /\ (purpose = "first" \/ submitted))
     THEN point' = "thrown" /\ UNCHANGED <<delivery, unseen>>
     ELSE /\ point' = IF purpose = "first" THEN "decide" ELSE "settle"
          /\ delivery' = "pending" /\ unseen' = {}
  /\ UNCHANGED <<purpose, snap, blockedBy, canRetry, outside, given, ticket, exit>>

-----------------------------------------------------------------------------
Decide ==
  /\ point = "decide"
  /\ point' = IF /\ targeted /\ delivery = "pending" /\ retries
                 /\ ~interrupted /\ clock = "early" THEN "ensure" ELSE "settle"
  /\ UNCHANGED <<looking, delivery, outside, given, ticket, exit>>

\* ensureOwnedSyncWorker, which SIGINT aborts; then the routes are read.
EnsureWorker ==
  /\ point = "ensure"
  /\ \/ Matching(fate) # {} /\ clock = "early" /\ point' = "submit" /\ attempted' = TRUE
     \/ point' \in {"wait", "settle"} /\ UNCHANGED attempted
  /\ UNCHANGED <<looking, delivery, submitted, cancelled, outside, given, exit>>

Submit ==
  /\ point = "submit"
  /\ \/ submitted' = TRUE /\ point' = "wait"
     \/ point' = "settle" /\ UNCHANGED submitted
  /\ UNCHANGED <<looking, delivery, attempted, cancelled, outside, given, exit>>

\* Every turn of the wait begins with the outcome of the last.
Await ==
  /\ point = "wait"
  /\ IF delivery = "pending" /\ ~interrupted /\ clock = "early"
     THEN point' = "inspect" /\ purpose' = "wait"
     ELSE point' = "settle" /\ UNCHANGED purpose
  /\ UNCHANGED <<snap, unseen, blockedBy, canRetry, delivery, outside, given, ticket, exit>>

Settle ==
  /\ point = "settle"
  /\ point' = IF (interrupted /\ attempted) \/ (submitted /\ delivery # "confirmed")
              THEN "cancel" ELSE "last"
  /\ UNCHANGED <<looking, delivery, outside, given, ticket, exit>>

\* cancelForegroundTicket: tried once, whatever becomes of it.
Cancel ==
  /\ point \in {"cancel", "cancel late"} /\ cancelled' = TRUE
  /\ point' = IF point = "cancel" THEN "last" ELSE "report"
  /\ UNCHANGED <<looking, delivery, attempted, submitted, outside, given, exit>>

LastInspection ==
  /\ point = "last"
  /\ IF ~interrupted /\ delivery # "confirmed" /\ clock # "deadline"
     THEN point' = "inspect" /\ purpose' = "last"
     ELSE point' = "viewer" /\ UNCHANGED purpose
  /\ UNCHANGED <<snap, unseen, blockedBy, canRetry, delivery, outside, given, ticket, exit>>

\* Mutant of CancelLate: whoever interrupts after the wait is not heard.
HeardBefore == FALSE

CancelLate == interrupted /\ attempted /\ ~cancelled

\* The viewer is awaited, then the worker's status; the rest is one turn.
AfterStatus ==
  /\ point = "viewer" /\ viewerReady
  /\ point' = IF CancelLate THEN "cancel late" ELSE "report"
  /\ UNCHANGED <<looking, delivery, outside, given, ticket, exit>>

Report ==
  /\ point = "report" /\ point' = "exit"
  /\ exit' = CASE interrupted -> 130
               [] ~interrupted /\ delivery \in {"confirmed", "local-only"} -> 0
               [] ~interrupted /\ delivery = "blocked" -> 3
               [] OTHER -> 2
  /\ UNCHANGED <<looking, delivery, outside, given, ticket>>

-----------------------------------------------------------------------------
Underway == point \notin {"exit", "thrown", "report"}

\* Nothing but an await lets the signal in.
Interrupt ==
  /\ Underway /\ ~interrupted /\ interrupted' = TRUE
  /\ UNCHANGED <<point, looking, delivery, clock, fate, was, viewerReady, turns, given, ticket, exit>>

ClockMoves ==
  /\ Underway /\ clock # "deadline" /\ clock' = IF clock = "early" THEN "finish" ELSE "deadline"
  /\ UNCHANGED <<point, looking, delivery, interrupted, fate, was, viewerReady, turns, given, ticket, exit>>

ViewerSettles ==
  /\ Underway /\ ~viewerReady /\ viewerReady' = TRUE
  /\ UNCHANGED <<point, looking, delivery, interrupted, clock, fate, was, turns, given, ticket, exit>>

\* Passes of the worker, blocks and retries, a restore at the other end, a revocation.
Turns ==
  [queued |-> {"history", "blocked", "committed", "suppressed", "revoked"},
   history |-> {"queued", "revoked"}, blocked |-> {"queued", "revoked"},
   committed |-> {"restored", "revoked"}, suppressed |-> {"revoked"},
   restored |-> {"queued", "revoked"}, revoked |-> {}]

RouteTurns(r) ==
  /\ Underway /\ targeted /\ turns < MaxTurns /\ turns' = turns + 1
  /\ \E f \in Turns[fate[r]] : fate' = [fate EXCEPT ![r] = f] /\ was' = [was EXCEPT ![r] = @ \cup {f}]
  /\ UNCHANGED <<point, looking, delivery, interrupted, clock, viewerReady, given, ticket, exit>>

PublicationNext ==
  \/ Snapshot \/ Look \/ Concluded \/ InspectionFails
  \/ Decide \/ EnsureWorker \/ Submit \/ Await \/ Settle \/ Cancel
  \/ LastInspection \/ AfterStatus \/ Report
  \/ Interrupt \/ ClockMoves \/ ViewerSettles \/ \E r \in Way : RouteTurns(r)

PublicationSpec == PublicationInit /\ [][PublicationNext]_pubVars
-----------------------------------------------------------------------------
\* The exit code is true.  0 for a targeted publication: the target held the
\* document during the command.  3: every route was blocked, suppressed or gone
\* at some moment of it.  130: a ticket that may be with the worker has been
\* cancelled, at whichever await the signal came.  2: so has one that was submitted.
ExitIsTrue ==
  /\ exit = 0 /\ targeted => \E r \in Way : "committed" \in was[r]
  /\ exit = 3 => \A r \in Way : was[r] \cap {"blocked", "suppressed", "revoked"} # {}
  /\ exit = 130 /\ attempted => cancelled
  /\ exit = 2 /\ submitted => cancelled
=============================================================================
