-------------------------- MODULE ViewerLifecycle --------------------------
(***************************************************************************)
(* Who may serve a home's viewer, and whose Tailscale route leads to it.   *)
(* A viewer starts under the start lock, its own or that of the command    *)
(* that spawned it; it clears what an earlier viewer exposed, listens,     *)
(* exposes its port when asked to, and publishes viewer.json last.  It     *)
(* closes without the start lock.  `viewer stop` asks the process of the   *)
(* record to close and clears what it leaves behind.                       *)
(*                                                                         *)
(* The route belongs to the node, and other people change it: it is ours   *)
(* only while tailscale-serve.json, the journal, says so.                  *)
(***************************************************************************)
EXTENDS Naturals, FiniteSets

CONSTANTS
  Ensurer,      \* commands that spawn a viewer
  ViewerOf,     \* Ensurer -> the viewer it spawns
  Foreground,   \* viewers started in the foreground
  Closer,       \* `viewer stop`
  Curator,      \* offline maintenance of the home's identity
  NoOne,
  Foreign,      \* a root route that somebody else set
  MaxDeaths,    \* bound: processes killed
  MaxTrouble    \* bound: Tailscale commands that fail, changes by hand, signals from outside

Spawned == {ViewerOf[s] : s \in Ensurer}
Viewer  == Foreground \cup Spawned
Actor   == Viewer \cup Ensurer \cup Closer \cup Curator

ASSUME ViewerLifecycleAssumption ==
  /\ NoOne \notin Actor /\ Foreign \notin Actor \cup {NoOne}
  /\ MaxDeaths \in Nat /\ MaxTrouble \in Nat
  /\ \A a, b \in Ensurer : ViewerOf[a] = ViewerOf[b] => a = b
  /\ Foreground \cap Spawned = {} /\ Viewer \cap (Ensurer \cup Closer \cup Curator) = {}
  /\ Ensurer \cap Closer = {} /\ Curator \cap (Ensurer \cup Closer) = {}

VARIABLES
  at,           \* Actor -> where it is
  up,           \* the processes that are alive
  startLock,    \* whose viewer-start.lock is there
  viewerJson,   \* whose viewer.json is there
  failed,       \* does it carry a shutdownError?
  journal,      \* whose tailscale-serve.json is there
  active,       \* is it past "pending"?
  serve,        \* the root route: NoOne, Foreign or the viewer it proxies to
  nodeLock,     \* who holds the lock of the Tailscale node
  listening,    \* viewers whose listeners are open
  exposed,      \* viewers that were asked to expose their port and may
  asked,        \* viewers told to close
  late,         \* a `tailscale serve` whose process was killed over it
  goal,         \* the viewer a stop is closing
  strays,       \* viewers whose launcher was killed before they were ready, or
                \* whose record a fork removed
  swept,        \* routes whose journal maintenance removed
  deaths, trouble

procs   == <<at, up, startLock, asked, strays, deaths, goal>>
files   == <<viewerJson, failed, journal, active>>
network == <<serve, nodeLock, listening, exposed, late, swept, trouble>>
viewerVars == <<procs, files, network>>

ViewerInit ==
  /\ at = [p \in Actor |-> "idle"] /\ up = Actor \ Spawned
  /\ startLock = NoOne /\ asked = {} /\ strays = {} /\ deaths = 0 /\ goal = NoOne
  /\ viewerJson = NoOne /\ failed = FALSE /\ journal = NoOne /\ active = FALSE
  /\ serve \in {NoOne, Foreign} /\ nodeLock = NoOne /\ listening = {} /\ exposed = {}
  /\ late = NoOne /\ swept = {} /\ trouble = 0

Go(p, from, to) == p \in up /\ at[p] = from /\ at' = [at EXCEPT ![p] = to]
Dies(p)   == up' = up \ {p} /\ listening' = listening \ {p}
Trouble   == trouble < MaxTrouble /\ trouble' = trouble + 1
Unlocked(p) == startLock' = IF startLock = p THEN NoOne ELSE startLock

\* The process of the record is gone, or there is none.
Replaceable == viewerJson \notin up

\* getViewerStatus: the record's process answers on its control endpoint.
Ready(v) == v \in up /\ v \in listening /\ viewerJson = v
Mapped(v) == v \notin exposed \/ (journal = v /\ active /\ serve = v)
StatusRunning(v) == Ready(v) /\ Mapped(v)

\* acquireViewerStartLock, which also takes over the lock of a dead owner.
LockStart(p) ==
  /\ p \notin Spawned /\ startLock \notin up /\ Go(p, "idle", "locked") /\ startLock' = p
  /\ UNCHANGED <<up, asked, strays, deaths, goal, files, network>>
-----------------------------------------------------------------------------
(* cleanupTailscale: whoever clears a route runs it at one of these steps. *)

Cleared ==       \* where each goes on
  [clearing |-> "preparing", unexposing |-> "unlisting", cleaning |-> "tidying",
   replacing |-> "spawning", undoing |-> "tidying"]

NotCleared ==
  [clearing |-> "closing", unexposing |-> "reporting", cleaning |-> "failed",
   replacing |-> "failed", undoing |-> "failed"]

Cleaning(p) == p \in up /\ at[p] \in DOMAIN Cleared
Leave(p, to) == at' = [at EXCEPT ![p] = to[at[p]]]

\* Whose journal the cleaner may clear: its own, its stop's, or any.
MayClear(p) ==
  CASE at[p] = "unexposing" -> journal = p
    [] at[p] = "cleaning" /\ goal # NoOne -> journal = goal
    [] OTHER -> TRUE

ClearNothing(p) ==
  /\ Cleaning(p) /\ nodeLock # p /\ journal = NoOne /\ Leave(p, Cleared)
  /\ UNCHANGED <<up, startLock, asked, strays, deaths, goal, files, network>>

\* withTailscaleServeLock: the directory of a dead owner is nobody's to remove.
ClearLock(p) ==
  /\ Cleaning(p) /\ journal # NoOne /\ nodeLock # p
  /\ IF nodeLock = NoOne THEN nodeLock' = p /\ UNCHANGED at
                         ELSE Leave(p, NotCleared) /\ UNCHANGED nodeLock
  /\ UNCHANGED <<up, startLock, asked, strays, deaths, goal, files,
                 serve, listening, exposed, late, swept, trouble>>

\* Mutant of OwnsRoute: any root route is taken for the recorded one.
AnyRoute == serve # NoOne

OwnsRoute == serve = journal

\* The route is turned off only when it is the journal's, and the journal goes
\* only when the route is gone.
ClearOff(p) ==
  /\ Cleaning(p) /\ nodeLock = p /\ journal # NoOne /\ MayClear(p) /\ OwnsRoute
  /\ serve' = NoOne
  /\ UNCHANGED <<procs, files, nodeLock, listening, exposed, late, swept, trouble>>

ClearDone(p) ==
  /\ Cleaning(p) /\ nodeLock = p
  /\ \/ /\ (journal = NoOne \/ MayClear(p)) /\ serve = NoOne
        /\ journal' = NoOne /\ active' = FALSE /\ Leave(p, Cleared) /\ UNCHANGED trouble
     \/ /\ (~MayClear(p) \/ (serve # NoOne /\ ~OwnsRoute))
        /\ Leave(p, NotCleared) /\ UNCHANGED <<journal, active, trouble>>
     \/ Trouble /\ Leave(p, NotCleared) /\ UNCHANGED <<journal, active>>
  /\ nodeLock' = NoOne
  /\ UNCHANGED <<up, startLock, asked, strays, deaths, goal, viewerJson, failed,
                 serve, listening, exposed, late, swept>>
-----------------------------------------------------------------------------
(* startViewer *)

Launcher(v) == CHOOSE s \in Ensurer : ViewerOf[s] = v

\* hasInheritedViewerStartLock
InheritLock(v) ==
  /\ v \in Spawned
  /\ IF startLock = Launcher(v) /\ Launcher(v) \in up
     THEN Go(v, "idle", "locked") /\ UNCHANGED <<up, listening>>
     ELSE Go(v, "idle", "gone") /\ Dies(v)
  /\ UNCHANGED <<startLock, asked, strays, deaths, goal, files,
                 serve, nodeLock, exposed, late, swept, trouble>>

Admit(v) ==
  /\ v \in Viewer
  /\ \/ Replaceable /\ Go(v, "locked", "clearing") /\ UNCHANGED <<up, startLock, listening>>
     \/ ~Replaceable /\ Go(v, "locked", "gone") /\ Dies(v) /\ Unlocked(v)
  /\ UNCHANGED <<asked, strays, deaths, goal, files,
                 serve, nodeLock, exposed, late, swept, trouble>>

Closes(v) == v \in asked

\* assertAvailableRoute
Available == serve = NoOne

\* With or without exposure: prepareTailscale changes nothing.
Prepare(v) ==
  /\ v \in Viewer
  /\ \/ ~Closes(v) /\ Go(v, "preparing", "binding") /\ UNCHANGED exposed
     \/ ~Closes(v) /\ Available /\ Go(v, "preparing", "binding") /\ exposed' = exposed \cup {v}
     \/ (Closes(v) \/ ~Available) /\ Go(v, "preparing", "closing") /\ UNCHANGED exposed
  /\ UNCHANGED <<up, startLock, asked, strays, deaths, goal, files,
                 serve, nodeLock, listening, late, swept, trouble>>

Listen(v) ==
  /\ v \in Viewer /\ listening' = listening \cup {v}
  /\ Go(v, "binding", IF v \in exposed THEN "exposing" ELSE "publishing")
  /\ UNCHANGED <<up, startLock, asked, strays, deaths, goal, files,
                 serve, nodeLock, exposed, late, swept, trouble>>

\* startTailscale, under the lock of the node.
ServeLock(v) ==
  /\ v \in Viewer /\ nodeLock # v
  /\ \/ ~Closes(v) /\ nodeLock = NoOne /\ Go(v, "exposing", "exposing") /\ nodeLock' = v
     \/ (Closes(v) \/ nodeLock # NoOne) /\ Go(v, "exposing", "closing") /\ UNCHANGED nodeLock
  /\ UNCHANGED <<up, startLock, asked, strays, deaths, goal, files,
                 serve, listening, exposed, late, swept, trouble>>

\* Mutant of ServeJournal: the route is set before the journal is written.
ServeUnjournalled(v) ==
  /\ v \in Viewer /\ nodeLock = v /\ Available /\ Go(v, "exposing", "serving") /\ serve' = v
  /\ UNCHANGED <<up, startLock, asked, strays, deaths, goal, files,
                 nodeLock, listening, exposed, late, swept, trouble>>

ServeJournal(v) ==
  /\ v \in Viewer /\ nodeLock = v
  /\ \/ Available /\ Go(v, "exposing", "serving")
        /\ journal' = v /\ active' = FALSE /\ UNCHANGED nodeLock
     \/ ~Available /\ Go(v, "exposing", "closing")
        /\ nodeLock' = NoOne /\ UNCHANGED <<journal, active>>
  /\ UNCHANGED <<up, startLock, asked, strays, deaths, goal, viewerJson, failed,
                 serve, listening, exposed, late, swept, trouble>>

ServeRoute(v) ==
  /\ v \in Viewer /\ Go(v, "serving", "verifying")
  /\ \/ serve' = v /\ UNCHANGED trouble
     \/ Trouble /\ UNCHANGED serve
  /\ UNCHANGED <<up, startLock, asked, strays, deaths, goal, files,
                 nodeLock, listening, exposed, late, swept>>

\* Verified, or undone by the same scoped cleanup, still under the node's lock.
ServeVerify(v) ==
  /\ v \in Viewer
  /\ \/ serve = v /\ Go(v, "verifying", "publishing") /\ journal' = v /\ active' = TRUE
        /\ UNCHANGED <<serve, trouble>>
     \/ serve # v /\ Go(v, "verifying", "closing")
        /\ journal' = (IF serve = NoOne THEN NoOne ELSE journal) /\ UNCHANGED <<active, serve, trouble>>
     \/ /\ serve = v /\ Trouble /\ Go(v, "verifying", "closing") /\ UNCHANGED active
        /\ \/ serve' = NoOne /\ journal' = NoOne
           \/ UNCHANGED <<serve, journal>>
  /\ nodeLock' = NoOne
  /\ UNCHANGED <<up, startLock, asked, strays, deaths, goal, viewerJson, failed,
                 listening, exposed, late, swept>>

WhenPublished(v) == viewerJson' = v

PublishViewer(v) ==
  /\ v \in Viewer
  /\ \/ ~Closes(v) /\ Go(v, "publishing", "serves") /\ WhenPublished(v) /\ failed' = FALSE /\ Unlocked(v)
     \/ Closes(v) /\ Go(v, "publishing", "closing") /\ UNCHANGED <<viewerJson, failed, startLock>>
  /\ UNCHANGED <<up, asked, strays, deaths, goal, journal, active, network>>

\* SIGTERM or SIGINT from outside, or the listener closed by itself.
AskedToClose(v) ==
  /\ v \in Viewer /\ v \in up /\ ~Closes(v) /\ at[v] \notin {"idle", "locked", "gone"}
  /\ Trouble /\ asked' = asked \cup {v}
  /\ UNCHANGED <<at, up, startLock, strays, deaths, goal, files,
                 serve, nodeLock, listening, exposed, late, swept>>

BeginClosing(v) ==
  /\ v \in Viewer /\ Closes(v) /\ Go(v, "serves", "closing")
  /\ UNCHANGED <<up, startLock, asked, strays, deaths, goal, files, network>>

\* The listeners close and admitted mutations drain; then the route goes.
CloseReader(v) ==
  /\ v \in Viewer /\ Go(v, "closing", IF v \in exposed THEN "unexposing" ELSE "unlisting")
  /\ listening' = listening \ {v}
  /\ UNCHANGED <<up, startLock, asked, strays, deaths, goal, files,
                 serve, nodeLock, exposed, late, swept, trouble>>

\* reportShutdownFailure: the error goes into the viewer's own record.
ReportFailure(v) ==
  /\ v \in Viewer /\ Go(v, "reporting", "gone") /\ Dies(v) /\ Unlocked(v)
  /\ failed' = (failed \/ viewerJson = v)
  /\ UNCHANGED <<asked, strays, deaths, goal, viewerJson, journal, active,
                 serve, nodeLock, exposed, late, swept, trouble>>

\* removeViewerRecord of its own process only.
Unlist(v) ==
  /\ v \in Viewer /\ Go(v, "unlisting", "gone") /\ Dies(v) /\ Unlocked(v)
  /\ viewerJson' = (IF viewerJson = v THEN NoOne ELSE viewerJson)
  /\ UNCHANGED <<asked, strays, deaths, goal, failed, journal, active,
                 serve, nodeLock, exposed, late, swept, trouble>>
-----------------------------------------------------------------------------
(* ensureViewer *)

EnsureFound(s) ==
  /\ s \in Ensurer /\ ~Replaceable /\ Unlocked(s)
  /\ Go(s, "locked", IF StatusRunning(viewerJson) THEN "done" ELSE "failed")
  /\ UNCHANGED <<up, asked, strays, deaths, goal, files, network>>

EnsureClear(s) ==
  /\ s \in Ensurer /\ Replaceable /\ Go(s, "locked", "replacing")
  /\ UNCHANGED <<up, startLock, asked, strays, deaths, goal, files, network>>

SpawnViewer(s) ==
  /\ s \in Ensurer /\ Go(s, "spawning", "waiting")
  /\ viewerJson' = NoOne /\ failed' = FALSE /\ up' = up \cup {ViewerOf[s]}
  /\ UNCHANGED <<startLock, asked, strays, deaths, goal, journal, active, network>>

EnsureReady(s) ==
  /\ s \in Ensurer /\ StatusRunning(ViewerOf[s]) /\ Go(s, "waiting", "done") /\ Unlocked(s)
  /\ UNCHANGED <<up, asked, strays, deaths, goal, files, network>>

\* Not ready in time, or gone: its process group is terminated, then killed,
\* with the command it may be running.
EnsureGivesUp(s) ==
  /\ s \in Ensurer /\ Go(s, "waiting", "terminating")
  /\ asked' = asked \cup {ViewerOf[s]}
  /\ UNCHANGED <<up, startLock, strays, deaths, goal, files, network>>

KillGroup(s) ==
  /\ s \in Ensurer /\ Go(s, "terminating", "undoing") /\ Dies(ViewerOf[s])
  /\ UNCHANGED <<startLock, asked, strays, deaths, goal, files,
                 serve, nodeLock, exposed, late, swept, trouble>>

EnsureFailed(s) ==
  /\ s \in Ensurer /\ Go(s, "tidying", "failed")
  /\ viewerJson' = (IF viewerJson = ViewerOf[s] THEN NoOne ELSE viewerJson) /\ Unlocked(s)
  /\ UNCHANGED <<up, asked, strays, deaths, goal, failed, journal, active, network>>

\* Whoever failed on the way gives the start lock back.
GiveBack(p) ==
  /\ p \notin Viewer /\ p \in up /\ startLock = p /\ at[p] \in {"failed", "stopped"}
  /\ startLock' = NoOne
  /\ UNCHANGED <<at, up, asked, strays, deaths, goal, files, network>>
-----------------------------------------------------------------------------
(* stopViewer *)

\* The record's process is alive and answers: it is signalled.
SignalViewer(q) ==
  /\ q \in Closer /\ ~Replaceable /\ Ready(viewerJson)
  /\ Go(q, "locked", "watching") /\ asked' = asked \cup {viewerJson} /\ goal' = viewerJson
  /\ UNCHANGED <<up, startLock, strays, deaths, files, network>>

\* It has closed its listeners already, or is dead, or there is no record.
StopUnheard(q) ==
  /\ q \in Closer /\ (viewerJson = NoOne \/ ~Ready(viewerJson))
  /\ Go(q, "locked", IF viewerJson = NoOne \/ failed THEN "cleaning" ELSE "watching")
  /\ goal' = viewerJson
  /\ UNCHANGED <<up, startLock, asked, strays, deaths, files, network>>

Departed == viewerJson = NoOne \/ (viewerJson = goal /\ ~failed /\ goal \notin up)

Watch(q) ==
  /\ q \in Closer
  /\ \/ goal \notin listening /\ Departed /\ Go(q, "watching", "cleaning")
     \/ Go(q, "watching", "failed")
  /\ UNCHANGED <<up, startLock, asked, strays, deaths, goal, files, network>>

StopDone(q) ==
  /\ q \in Closer /\ Go(q, "tidying", "stopped")
  /\ viewerJson' = (IF viewerJson = goal THEN NoOne ELSE viewerJson)
  /\ UNCHANGED <<up, startLock, asked, strays, deaths, goal, failed, journal, active, network>>
-----------------------------------------------------------------------------
Swept ==
  /\ viewerJson' = NoOne /\ failed' = FALSE /\ journal' = NoOne /\ active' = FALSE
  /\ swept' = swept \cup ({journal} \ {NoOne})
  /\ strays' = strays \cup ({viewerJson} \cap up)

(* maintainSyncIdentity, under the start lock: no viewer may live.  A quarantine
   keeps the lock until it has removed the records; a fork is not awaited, the
   lock is back at once, and it removes them, journal and all, when it is done. *)
Sweep(k) ==
  /\ k \in Curator
  /\ \/ Replaceable /\ Go(k, "locked", "done") /\ Swept
     \/ Go(k, "forking", "done") /\ Swept
     \/ Replaceable /\ Go(k, "locked", "forking") /\ UNCHANGED <<files, strays, swept>>
     \/ ~Replaceable /\ Go(k, "locked", "failed") /\ UNCHANGED <<files, strays, swept>>
  /\ Unlocked(k)
  /\ UNCHANGED <<up, asked, deaths, goal,
                 serve, nodeLock, listening, exposed, late, trouble>>

\* SIGKILL.  A `tailscale serve` already started goes on without its process.
KillProcess(p) ==
  /\ p \in up /\ at[p] # "idle" /\ deaths < MaxDeaths /\ deaths' = deaths + 1
  /\ Dies(p)
  /\ late' = IF at[p] = "serving" THEN p ELSE late
  /\ strays' = IF p \in Ensurer /\ at[p] \in {"waiting", "terminating"}
               THEN strays \cup {ViewerOf[p]} ELSE strays
  /\ UNCHANGED <<at, startLock, asked, goal, files,
                 serve, nodeLock, exposed, swept, trouble>>

LateCommand ==
  /\ late # NoOne /\ late' = NoOne /\ serve' = late
  /\ UNCHANGED <<procs, files, nodeLock, listening, exposed, swept, trouble>>

\* `tailscale serve` by hand, while no command of ours is at it.
ByHand ==
  /\ nodeLock = NoOne /\ late = NoOne /\ Trouble
  /\ serve' \in {NoOne, Foreign} \ {serve}
  /\ UNCHANGED <<procs, files, nodeLock, listening, exposed, late, swept>>

\* Somebody confirms that the owner of a left node lock and its command are gone.
FreeNode ==
  /\ nodeLock # NoOne /\ nodeLock \notin up /\ late = NoOne /\ nodeLock' = NoOne
  /\ UNCHANGED <<procs, files, serve, listening, exposed, late, swept, trouble>>

ViewerStep(p) ==
  \/ LockStart(p) \/ ClearNothing(p) \/ ClearLock(p) \/ ClearOff(p) \/ ClearDone(p)
  \/ InheritLock(p) \/ Admit(p) \/ Prepare(p) \/ Listen(p)
  \/ ServeLock(p) \/ ServeJournal(p) \/ ServeRoute(p) \/ ServeVerify(p) \/ PublishViewer(p)
  \/ BeginClosing(p) \/ CloseReader(p) \/ ReportFailure(p) \/ Unlist(p)
  \/ EnsureFound(p) \/ EnsureClear(p) \/ SpawnViewer(p) \/ EnsureReady(p)
  \/ EnsureGivesUp(p) \/ KillGroup(p) \/ EnsureFailed(p) \/ GiveBack(p)
  \/ SignalViewer(p) \/ StopUnheard(p) \/ Watch(p) \/ StopDone(p) \/ Sweep(p)

ViewerNext ==
  \/ \E p \in Actor : ViewerStep(p) \/ AskedToClose(p) \/ KillProcess(p)
  \/ LateCommand \/ ByHand \/ FreeNode

ViewerSpec == ViewerInit /\ [][ViewerNext]_viewerVars
-----------------------------------------------------------------------------
\* One process at most serves the home, and it can be found by its record, for
\* as long as no launcher is killed over the viewer it has spawned, and no fork
\* removes the record of a viewer that started beside it.
OneViewer ==
  strays = {} => \A v \in listening : at[v] = "serves" =>
    viewerJson = v /\ \A w \in listening : at[w] = "serves" => v = w

\* A route to one of our ports has its journal, so that a stop can remove it:
\* across crashes in the middle of a command, failed commands and changes made
\* by hand; but not when maintenance removed the journal of a crashed viewer.
RouteIsJournalled == serve \in Viewer /\ serve \notin swept => journal = serve

\* A stop that reports "stopped" leaves nothing served and nothing exposed.
StoppedIsClosed ==
  strays = {} => \A q \in Closer : at[q] = "stopped" /\ q \in up /\ startLock = q =>
    listening = {} /\ serve \notin Viewer \ swept

\* A root route that somebody else set is never turned off or replaced.
ForeignRouteKept == [][serve = Foreign => serve' = Foreign \/ trouble' > trouble]_viewerVars

\* A viewer and what it exposes can be found and ended by the next command.
ViewerIsAccounted == OneViewer /\ RouteIsJournalled /\ StoppedIsClosed
=============================================================================
