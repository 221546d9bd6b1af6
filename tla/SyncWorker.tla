----------------------------- MODULE SyncWorker -----------------------------
(***************************************************************************)
(* One owned worker of a home, from the moment its record is public until  *)
(* it has given its lifetime lock back: the drain that runs passes over    *)
(* the routes, the control operations (run, cancel, wake, quiesce, stop),  *)
(* the tick, and the commands of other processes that change the ledger    *)
(* under it (pause, resume, mapping remove, retry, reconfiguration).       *)
(*                                                                         *)
(* The worker is one thread, so a step here is what runs between two       *)
(* awaits; everything read before an await may be stale after it.          *)
(***************************************************************************)
EXTENDS Naturals, FiniteSets

CONSTANTS
  Ticket,       \* foreground runs a client may submit
  Route,        \* routes of the home
  None,         \* no ticket, no route
  AllRoutes,    \* what `sync pause` quiesces
  MaxFaults     \* bound: reads and writes that fail, passes that run out of time

ASSUME SyncWorkerAssumption ==
  None \notin Ticket \cup Route /\ AllRoutes \notin Route /\ MaxFaults \in Nat

VARIABLES
  ledger,       \* what the worker reads of it: enabled, paused, stale, revoked, due
  temporary,    \* a one-shot `sync run`, or the standing worker?
  ticket,       \* Ticket -> its state
  aborted,      \* tickets whose controller is aborted
  background,   \* backgroundRequested
  drain,        \* where the drain is
  job,          \* the ticket of the pass, None for a background pass
  seen,         \* the ledger as the drain last read it
  left,         \* routes the pass has still to look at
  route,        \* the route being reconciled
  attempt,      \* its attempt: none, opening, open
  stopped,      \* is the controller of the attempt aborted?
  inFlight,     \* is a request of the attempt on its way?
  fence,        \* what the command that fences a route, or all, waits for
  closing,      \* no, closing, settled, released, stuck
  record,       \* is the runtime record public?
  lifetime,     \* does the worker hold its lifetime lock?
  faults

worker  == <<ticket, aborted, background, drain, job, seen, left>>
current == <<route, attempt, stopped, inFlight>>
owned   == <<closing, record, lifetime>>
vars == <<ledger, temporary, worker, current, owned, fence, faults>>

\* What the drain keeps of the ledger between reading it and deciding.
Unread == [enabled |-> FALSE, paused |-> FALSE, stale |-> FALSE, revoked |-> {}, due |-> {}]

Open       == closing = "no"
Unsettled(t) == ticket[t] \in {"queued", "running"}
Fence      == Route \cup {AllRoutes}
Covers(f, r) == f \in {AllRoutes, r}

\* Mutant of MayStart: the pause is left to the drain.
PauseUnchecked(r) == r \notin ledger.revoked

\* startCommunication: what the store checks, under its lock, before any
\* request of a local attempt leaves.
MayStart(r) == ~ledger.paused /\ r \notin ledger.revoked

Init ==
  /\ temporary \in BOOLEAN
  /\ \E on \in BOOLEAN : ledger = [enabled |-> on \/ ~temporary, paused |-> FALSE,
       stale |-> FALSE, revoked |-> {}, due |-> Route]
  /\ ticket = [t \in Ticket |-> "new"] /\ aborted = {}
  /\ background = ~temporary
  /\ drain = "idle" /\ job = None /\ seen = Unread /\ left = {}
  /\ route = None /\ attempt = "none" /\ stopped = FALSE /\ inFlight = FALSE
  /\ fence = [f \in Fence |-> "idle"]
  /\ closing = "no" /\ record = TRUE /\ lifetime = TRUE
  /\ faults = 0

Fault == faults < MaxFaults /\ faults' = faults + 1

-----------------------------------------------------------------------------
(* The control operations, and close, which is also what a signal does. *)

RequestRun(t) ==
  /\ Open /\ ticket[t] = "new"
  /\ ticket' = [ticket EXCEPT ![t] = "queued"]
  /\ UNCHANGED <<ledger, temporary, aborted, background, drain, job, seen, left,
                 current, owned, fence, faults>>

RequestWake ==
  /\ Open /\ background' = TRUE
  /\ UNCHANGED <<ledger, temporary, ticket, aborted, drain, job, seen, left,
                 current, owned, fence, faults>>

Cancel(t) ==
  /\ Unsettled(t)
  /\ ticket' = [ticket EXCEPT ![t] = "cancelled"] /\ aborted' = aborted \cup {t}
  /\ stopped' = (stopped \/ (job = t /\ attempt # "none"))
  /\ UNCHANGED <<ledger, temporary, background, drain, job, seen, left,
                 route, attempt, inFlight, owned, fence, faults>>

\* close(): nothing new is admitted, every ticket and the attempt are aborted.
Closing ==
  /\ closing' = (IF Open THEN "closing" ELSE closing)
  /\ ticket' = [t \in Ticket |-> IF Unsettled(t) THEN "cancelled" ELSE ticket[t]]
  /\ aborted' = aborted \cup {t \in Ticket : Unsettled(t)}
  /\ stopped' = (stopped \/ attempt # "none")

RequestClose ==
  /\ Open /\ Closing
  /\ UNCHANGED <<ledger, temporary, background, drain, job, seen, left, route,
                 attempt, inFlight, record, lifetime, fence, faults>>

\* The ingestion server and the control listener are closed, or one fails.
CloseListeners ==
  /\ closing = "closing"
  /\ \/ closing' = "settled" /\ UNCHANGED faults
     \/ closing' = "stuck" /\ Fault
  /\ UNCHANGED <<ledger, temporary, worker, current, record, lifetime, fence>>

Drained == drain = "idle"

\* Only when everything has stopped is the record removed, then the lock
\* released; a failure on the way keeps whatever evidence of ownership is left.
RemoveRecord ==
  /\ closing = "settled" /\ Drained /\ record
  /\ \/ record' = FALSE /\ UNCHANGED <<closing, faults>>
     \/ closing' = "stuck" /\ Fault /\ UNCHANGED record
  /\ UNCHANGED <<ledger, temporary, worker, current, lifetime, fence>>

ReleaseLifetime ==
  /\ closing = "settled" /\ Drained /\ ~record
  /\ \/ lifetime' = FALSE /\ closing' = "released" /\ UNCHANGED faults
     \/ closing' = "stuck" /\ Fault /\ UNCHANGED lifetime
  /\ UNCHANGED <<ledger, temporary, worker, current, record, fence>>

-----------------------------------------------------------------------------
(* The drain. *)

Queued == {t \in Ticket : ticket[t] = "queued"}

Jobs == IF Queued # {} THEN Queued ELSE IF background THEN {None} ELSE {}

\* kick: the drain takes a queued ticket before the background pass, and reads
\* the ledger.
BeginDrain ==
  /\ Open /\ drain = "idle" /\ job' \in Jobs
  /\ drain' = "deciding" /\ seen' = [ledger EXCEPT !.due = {}]
  /\ UNCHANGED <<ledger, temporary, ticket, aborted, background, left, current,
                 owned, fence, faults>>

Settle(t, state) == [ticket EXCEPT ![t] = state]

\* Mutant of Stale: only a foreground run compares the configuration.
StaleForRuns == seen.stale /\ job # None

Stale == seen.stale

\* The worker's record names a configuration the ledger no longer has.
Retire ==
  /\ drain = "deciding" /\ Stale
  /\ Closing /\ drain' = "idle" /\ job' = None /\ seen' = Unread
  /\ UNCHANGED <<ledger, temporary, background, left, route, attempt,
                 inFlight, record, lifetime, fence, faults>>

Refused == seen.paused \/ (job = None /\ ~seen.enabled)

Refuse ==
  /\ drain = "deciding" /\ ~Stale /\ Refused
  /\ IF job = None THEN background' = FALSE /\ UNCHANGED ticket
                   ELSE ticket' = Settle(job, "complete") /\ UNCHANGED background
  /\ drain' = "idle" /\ job' = None /\ seen' = Unread
  /\ UNCHANGED <<ledger, temporary, aborted, left, current, owned, fence, faults>>

\* Whatever became of the ticket while the ledger was read, it is running now.
StartPass ==
  /\ drain = "deciding" /\ ~Stale /\ ~Refused
  /\ IF job = None THEN background' = FALSE /\ UNCHANGED ticket
                   ELSE ticket' = Settle(job, "running") /\ UNCHANGED background
  /\ drain' = "pass" /\ left' = Route \ seen.revoked /\ seen' = Unread
  /\ UNCHANGED <<ledger, temporary, aborted, job, current, owned, fence, faults>>

\* Mutant of PassOver: once one ticket is cancelled, every later pass is.
SharedController == ~Open \/ aborted # {} \/ left = {}

PassOver == ~Open \/ job \in aborted \/ left = {}

\* The next route of the pass, with the ledger as it is now.
LookAt(r) ==
  /\ drain = "pass" /\ ~PassOver /\ r \in left
  /\ left' = left \ {r}
  /\ IF r \in ledger.due /\ MayStart(r)
     THEN drain' = "credentials" /\ route' = r ELSE UNCHANGED <<drain, route>>
  /\ UNCHANGED <<ledger, temporary, ticket, aborted, background, job, seen,
                 attempt, stopped, inFlight, owned, fence, faults>>

Recorded(r) == [ledger EXCEPT !.due = @ \ {r}]

\* recordRouteRun blocks a route whose credentials cannot be read.
CredentialMissing ==
  /\ drain = "credentials" /\ route \notin ledger.revoked /\ Fault
  /\ ledger' = Recorded(route) /\ drain' = "pass" /\ route' = None
  /\ UNCHANGED <<temporary, ticket, aborted, background, job, seen, left,
                 attempt, stopped, inFlight, owned, fence>>

\* Mutant of AlreadyStopped: an abort that came before the listener is missed.
AbortMissed == FALSE

AlreadyStopped == ~Open \/ job \in aborted

Launch ==
  /\ drain = "credentials"
  /\ drain' = "reconciling" /\ attempt' = "opening" /\ stopped' = AlreadyStopped
  /\ UNCHANGED <<ledger, temporary, ticket, aborted, background, job, seen, left,
                 route, inFlight, owned, fence, faults>>

\* openRouteAttempt, under the store lock.
OpenAttempt ==
  /\ attempt = "opening" /\ ~stopped /\ MayStart(route) /\ attempt' = "open"
  /\ UNCHANGED <<ledger, temporary, worker, route, stopped, inFlight, owned, fence, faults>>

\* Each request of the attempt is admitted the same way.
StartRequest ==
  /\ attempt = "open" /\ ~stopped /\ ~inFlight /\ MayStart(route) /\ inFlight' = TRUE
  /\ UNCHANGED <<ledger, temporary, worker, route, attempt, stopped, owned, fence, faults>>

\* A refused request, or the watcher of the attempt, aborts it.
Fenced ==
  /\ attempt # "none" /\ ~stopped /\ ~MayStart(route) /\ stopped' = TRUE
  /\ UNCHANGED <<ledger, temporary, worker, route, attempt, inFlight, owned, fence, faults>>

FinishRequest ==
  /\ inFlight /\ inFlight' = FALSE
  /\ UNCHANGED <<ledger, temporary, worker, route, attempt, stopped, owned, fence, faults>>

\* The pass ran out of time: the attempt is aborted and nothing is recorded.
Expire ==
  /\ attempt # "none" /\ ~stopped /\ Fault /\ stopped' = TRUE
  /\ UNCHANGED <<ledger, temporary, worker, route, attempt, inFlight, owned, fence>>

\* The attempt is over.  Its outcome is recorded unless it was aborted; the
\* drain survives a failure to record it.
FinishAttempt ==
  /\ attempt # "none" /\ ~inFlight /\ (attempt = "open" \/ stopped)
  /\ \/ /\ ledger' = IF stopped \/ route \in ledger.revoked THEN ledger ELSE Recorded(route)
        /\ UNCHANGED faults
     \/ ~stopped /\ Fault /\ UNCHANGED ledger
  /\ attempt' = "none" /\ stopped' = FALSE /\ route' = None /\ drain' = "pass"
  /\ fence' = [f \in Fence |-> IF fence[f] = "waiting" THEN "settling" ELSE fence[f]]
  /\ UNCHANGED <<temporary, ticket, aborted, background, job, seen, left, inFlight, owned>>

\* recordWorkerRun; a ticket cancelled meanwhile stays so.
FinishPass ==
  /\ drain = "pass" /\ PassOver
  /\ ticket' = IF job # None /\ ticket[job] = "running"
               THEN Settle(job, "complete") ELSE ticket
  /\ drain' = "idle" /\ job' = None /\ left' = {}
  /\ UNCHANGED <<ledger, temporary, aborted, background, seen, current, owned, fence, faults>>

\* A read or a write of the ledger fails: every waiting ticket ends with an
\* error, a wake is forgotten, and the failure is recorded.
DrainFails ==
  /\ drain \in {"deciding", "pass", "credentials"} /\ Fault
  /\ ticket' = [t \in Ticket |-> IF Unsettled(t) THEN "complete" ELSE ticket[t]]
  /\ background' = FALSE /\ drain' = "failing" /\ job' = None /\ left' = {}
  /\ route' = None /\ seen' = Unread
  /\ UNCHANGED <<ledger, temporary, aborted, attempt, stopped, inFlight, owned, fence>>

RecordFailure ==
  /\ drain = "failing" /\ drain' = "idle"
  /\ UNCHANGED <<ledger, temporary, ticket, aborted, background, job, seen, left,
                 current, owned, fence, faults>>

\* Not even the failure can be recorded: fatalStop.
FatalStop ==
  /\ drain = "failing" /\ Fault /\ Closing /\ drain' = "idle"
  /\ UNCHANGED <<ledger, temporary, background, job, seen, left, route, attempt,
                 inFlight, record, lifetime, fence>>

\* Every reconcileMs, on a gap of the clock, or when a retry falls due.
Tick ==
  /\ Open /\ ~temporary /\ ledger.enabled /\ ~ledger.paused /\ ~background
  /\ background' = TRUE
  /\ UNCHANGED <<ledger, temporary, ticket, aborted, drain, job, seen, left,
                 current, owned, fence, faults>>
-----------------------------------------------------------------------------
(* Commands in other processes; each commits to the ledger first. *)

Commit(new) ==
  /\ ledger' = new
  /\ UNCHANGED <<temporary, worker, current, owned, faults>>

\* A backoff runs out, or `sync retry` clears it and then wakes the worker.
RetryDue(r) ==
  /\ r \notin ledger.due \cup ledger.revoked
  /\ Commit([ledger EXCEPT !.due = @ \cup {r}]) /\ UNCHANGED fence

\* A change of configuration that did not find this worker to stop it.
Reconfigure == ~ledger.stale /\ Commit([ledger EXCEPT !.stale = TRUE]) /\ UNCHANGED fence

Disable == ledger.enabled /\ Commit([ledger EXCEPT !.enabled = FALSE]) /\ UNCHANGED fence

Pause ==
  /\ fence[AllRoutes] = "idle" /\ Commit([ledger EXCEPT !.paused = TRUE])
  /\ fence' = [fence EXCEPT ![AllRoutes] = "committed"]

Resume ==
  /\ fence[AllRoutes] \in {"quiet", "failed"} /\ Commit([ledger EXCEPT !.paused = FALSE])
  /\ fence' = [fence EXCEPT ![AllRoutes] = "idle"]

RemoveMapping(r) ==
  /\ fence[r] = "idle"
  /\ Commit([ledger EXCEPT !.revoked = @ \cup {r}, !.due = @ \ {r}])
  /\ fence' = [fence EXCEPT ![r] = "committed"]

Fences(f, to) == fence' = [fence EXCEPT ![f] = to]

\* The command asks the worker to quiesce; it aborts the attempt it finds.
Quiesce(f) ==
  /\ fence[f] = "committed" /\ record /\ closing \in {"no", "closing"}
  /\ LET matches == attempt # "none" /\ Covers(f, route)
     IN /\ Fences(f, IF matches THEN "waiting" ELSE "settling")
        /\ stopped' = (stopped \/ matches)
  /\ UNCHANGED <<ledger, temporary, worker, route, attempt, inFlight, owned, faults>>

\* There is no worker to ask, or it does not answer.
QuiesceNoWorker(f) ==
  /\ fence[f] = "committed"
  /\ \/ ~record /\ ~lifetime /\ Fences(f, "quiet")
     \/ closing # "no" /\ lifetime /\ Fences(f, "failed")
  /\ UNCHANGED <<ledger, temporary, worker, current, owned, faults>>

\* quiesceRoute: the attempts of the route are aborted and awaited.
QuiesceStore(f) ==
  /\ fence[f] = "settling"
  /\ LET matches == f # AllRoutes /\ attempt # "none" /\ route = f
     IN /\ Fences(f, IF matches THEN "waiting" ELSE "quiet")
        /\ stopped' = (stopped \/ matches)
  /\ UNCHANGED <<ledger, temporary, worker, route, attempt, inFlight, owned, faults>>

QuiesceTimesOut(f) ==
  /\ fence[f] \in {"waiting", "settling"} /\ Fault /\ Fences(f, "failed")
  /\ UNCHANGED <<ledger, temporary, worker, current, owned>>
-----------------------------------------------------------------------------
WorkerStep ==
  \/ BeginDrain \/ Retire \/ Refuse \/ StartPass \/ (\E r \in Route : LookAt(r))
  \/ Launch \/ OpenAttempt \/ Fenced \/ FinishRequest \/ FinishAttempt
  \/ FinishPass \/ RecordFailure \/ CloseListeners \/ RemoveRecord \/ ReleaseLifetime

Next ==
  \/ WorkerStep \/ StartRequest \/ Tick
  \/ CredentialMissing \/ Expire \/ DrainFails \/ FatalStop
  \/ RequestWake \/ RequestClose
  \/ \E t \in Ticket : RequestRun(t) \/ Cancel(t)
  \/ Reconfigure \/ Disable \/ Pause \/ Resume
  \/ \E r \in Route : RetryDue(r) \/ RemoveMapping(r)
  \/ \E f \in Fence : Quiesce(f) \/ QuiesceNoWorker(f) \/ QuiesceStore(f) \/ QuiesceTimesOut(f)

\* The event loop runs what is ready, a request has a time limit, the requests of
\* an attempt end with the time of its pass, and the interval of the tick fires.
Fairness == WF_vars(WorkerStep) /\ SF_vars(FinishAttempt) /\ WF_vars(Tick)

Spec == Init /\ [][Next]_vars

-----------------------------------------------------------------------------
\* When `sync mapping remove` has reported that the route is quiet, no attempt
\* of it is open; when `sync pause` has returned, no local request is on its way
\* and none starts until the resume: quiesce against the drain, which looks a
\* route up, resolves its credentials and opens an attempt with awaits between.
FencedIsQuiet ==
  /\ \A r \in Route : fence[r] = "quiet" => ~(attempt = "open" /\ route = r)
  /\ fence[AllRoutes] = "quiet" => ~inFlight

\* No request leaves for a pass whose ticket was cancelled, or of a worker that
\* is stopping, whatever await the cancellation fell into.
NoRequestAfterCancel ==
  [][~inFlight /\ inFlight' => Open /\ job \notin aborted]_vars

\* The lifetime lock is given back, and the record removed, only by a worker
\* that has stopped replicating: the next one may start beside nothing.
ReleasedIsIdle ==
  ~record \/ ~lifetime => drain = "idle" /\ attempt = "none" /\ ~inFlight /\ ~Open

\* Every foreground run ends: it completes, fails or is cancelled, and does not
\* stay queued behind a drain that has returned or a close that began.
TicketEnds == \A t \in Ticket : ticket[t] = "queued" ~> ~Unsettled(t)

\* A standing worker that stays enabled and unpaused does not go on under a
\* configuration other than the ledger's.
StaleRetires ==
  <>[](~temporary /\ ledger.stale /\ ledger.enabled /\ ~ledger.paused) => <>~Open

\* A route that falls due is attempted: no wake, failure or cancelled pass
\* leaves it due for ever under a standing worker that may run.
DueServed == \A r \in Route :
  []<>(r \notin ledger.due \/ ~Open \/ temporary \/ ~ledger.enabled \/ ledger.paused)

\* Whoever was told that the worker is quiet, or finds its lock free, finds it so.
QuietAsReported == FencedIsQuiet /\ ReleasedIsIdle

\* The drain keeps nobody waiting for ever: neither the one who asked for a run,
\* nor the one who changed the configuration a standing worker runs under.
RunsEnd == TicketEnds /\ StaleRetires
=============================================================================
