-------------------------- MODULE WorkerLifecycle --------------------------
(***************************************************************************)
(* Who may run a home's sync worker.  A process that starts one, stops one *)
(* or maintains the home's identity holds the startup lock; the worker     *)
(* itself holds the lifetime lock and publishes a runtime record between   *)
(* taking it and giving it back.  `sync worker start` spawns the worker as *)
(* a child that runs under its parent's startup lock; a supervisor's       *)
(* `start --foreground` and a one-shot `sync run` take the lock themselves.*)
(*                                                                         *)
(* The locks are those of StoreLock: taken from nobody or from a dead      *)
(* owner.  A process may be killed between any two steps.                  *)
(***************************************************************************)
EXTENDS Naturals, FiniteSets

CONSTANTS
  Starter,      \* commands that ensure a worker by spawning one
  ChildOf,      \* Starter -> the process it spawns
  Standing,     \* processes that become a worker themselves
  Stopper,      \* `sync worker stop` and all that stops it first
  Keeper,       \* offline maintenance of the home's identity
  Nobody,
  MaxKills      \* bound: processes killed

Child   == {ChildOf[s] : s \in Starter}
Worker  == Standing \cup Child
Command == Starter \cup Stopper \cup Keeper
Proc    == Worker \cup Command

ASSUME WorkerLifecycleAssumption ==
  /\ Nobody \notin Proc /\ MaxKills \in Nat
  /\ \A s1, s2 \in Starter : ChildOf[s1] = ChildOf[s2] => s1 = s2
  /\ Standing \cap Child = {} /\ Worker \cap Command = {}

VARIABLES
  step,         \* Proc -> where it is
  running,      \* processes that are alive
  startup,      \* whose startup.lock is there
  lifetime,     \* whose lifetime.lock is there
  runtime,      \* whose record runtime.json is
  target,       \* the worker a stop waits for
  orphans,      \* children whose parent was killed before they were ready, and
                \* workers whose record a fork removed
  kills

procVars == <<step, running, startup, lifetime, runtime, target, orphans, kills>>

LifecycleInit ==
  /\ step = [p \in Proc |-> "idle"] /\ running = Proc \ Child
  /\ startup = Nobody /\ lifetime = Nobody /\ runtime = Nobody
  /\ target = Nobody /\ orphans = {} /\ kills = 0

Alive(p) == p \in running
Moves(p, from, to) ==
  Alive(p) /\ step[p] = from /\ step' = [step EXCEPT ![p] = to]

\* A worker that may be replicating, and one that has nothing more to do.
Active(w)  == Alive(w) /\ step[w] \in {"owning", "running", "closing"}
Serving(w) == Alive(w) /\ step[w] = "running"

Free(lock) == ~Alive(lock)

\* acquireWorkerExclusion, and its release.
Exclude(p) ==
  /\ p \in Command \cup Standing /\ Moves(p, "idle", "excluded")
  /\ Free(startup) /\ startup' = p
  /\ UNCHANGED <<running, lifetime, runtime, target, orphans, kills>>

Released(p) == startup' = IF startup = p THEN Nobody ELSE startup

\* inspectWorkerOwner: what a process concludes from the record and the locks.
Owner ==
  CASE runtime = Nobody -> IF Alive(lifetime) THEN "unknown" ELSE "stopped"
    [] runtime # Nobody /\ ~Alive(runtime) -> "stopped"
    [] OTHER -> IF lifetime = runtime THEN "owned" ELSE "unknown"

-----------------------------------------------------------------------------
(* ensureOwnedSyncWorker *)

\* The worker that runs is left alone, or nothing can be verified.
EnsureSettled(s) ==
  /\ s \in Starter
  /\ \/ Owner = "owned" /\ Moves(s, "excluded", "done")
     \/ Owner # "stopped" /\ Moves(s, "excluded", "failed")
  /\ Released(s) /\ UNCHANGED <<running, lifetime, runtime, target, orphans, kills>>

EnsureInspect(s) ==
  /\ s \in Starter /\ Owner = "stopped" /\ Moves(s, "excluded", "spawning")
  /\ UNCHANGED <<running, startup, lifetime, runtime, target, orphans, kills>>

\* What is left of a dead worker's record is removed, and the child spawned.
Spawn(s) ==
  /\ s \in Starter /\ Moves(s, "spawning", "waiting")
  /\ runtime' = Nobody /\ running' = running \cup {ChildOf[s]}
  /\ UNCHANGED <<startup, lifetime, target, orphans, kills>>

ChildReady(s) ==
  /\ s \in Starter /\ Serving(ChildOf[s]) /\ runtime = ChildOf[s] /\ Moves(s, "waiting", "done")
  /\ Released(s) /\ UNCHANGED <<running, lifetime, runtime, target, orphans, kills>>

\* No readiness in time, or the child is gone: it is terminated and reaped.
GiveUp(s) ==
  /\ s \in Starter /\ Moves(s, "waiting", "terminating")
  /\ UNCHANGED <<running, startup, lifetime, runtime, target, orphans, kills>>

\* SIGTERM asks the child to close; SIGKILL follows.
TerminateChild(s) ==
  /\ s \in Starter /\ step[s] = "terminating" /\ Alive(s) /\ Alive(ChildOf[s])
  /\ LET c == ChildOf[s] IN
     \/ step[c] \in {"owning", "running"} /\ step' = [step EXCEPT ![c] = "closing"]
        /\ UNCHANGED running
     \/ running' = running \ {c} /\ UNCHANGED step
  /\ UNCHANGED <<startup, lifetime, runtime, target, orphans, kills>>

ChildReaped(s) ==
  /\ s \in Starter /\ ~Alive(ChildOf[s]) /\ Moves(s, "terminating", "failed")
  /\ Released(s) /\ UNCHANGED <<running, lifetime, runtime, target, orphans, kills>>
-----------------------------------------------------------------------------
(* startOwnedSyncWorker *)

ParentOf(w) == CHOOSE s \in Starter : ChildOf[s] = w

\* The child finds its parent's startup lock, and its parent.
Inherit(w) ==
  /\ w \in Child
  /\ IF startup = ParentOf(w) /\ Alive(ParentOf(w))
     THEN Moves(w, "idle", "excluded") /\ UNCHANGED running
     ELSE Moves(w, "idle", "gone") /\ running' = running \ {w}
  /\ UNCHANGED <<startup, lifetime, runtime, target, orphans, kills>>

\* A worker that cannot start leaves, and returns the lock if it is its own.
Refused(w) ==
  /\ w \in Worker /\ Owner # "stopped" /\ Moves(w, "excluded", "gone")
  /\ running' = running \ {w} /\ Released(w)
  /\ UNCHANGED <<lifetime, runtime, target, orphans, kills>>

Admitted(w) ==
  /\ w \in Worker /\ Owner = "stopped" /\ Moves(w, "excluded", "admitted")
  /\ UNCHANGED <<running, startup, lifetime, runtime, target, orphans, kills>>

MayOwn == Free(lifetime)

TakeLifetime(w) ==
  /\ w \in Worker
  /\ \/ MayOwn /\ lifetime' = w /\ Moves(w, "admitted", "owning") /\ UNCHANGED <<running, startup>>
     \/ ~MayOwn /\ Moves(w, "admitted", "gone") /\ running' = running \ {w} /\ Released(w)
        /\ UNCHANGED lifetime
  /\ UNCHANGED <<runtime, target, orphans, kills>>

\* The store is recovered and both listeners are up: the record is published
\* and the startup lock given back.
Publish(w) ==
  /\ w \in Worker /\ Moves(w, "owning", "running") /\ runtime' = w /\ Released(w)
  /\ UNCHANGED <<running, lifetime, target, orphans, kills>>

\* A signal, a stop, a failure of the startup or a configuration it does not have.
BeginClose(w) ==
  /\ w \in Worker /\ (Moves(w, "owning", "closing") \/ Moves(w, "running", "closing"))
  /\ UNCHANGED <<running, startup, lifetime, runtime, target, orphans, kills>>

CleanRecord(w) == IF runtime = w THEN Nobody ELSE runtime

\* Drained: the record goes first, then the lock.
CloseRecord(w) ==
  /\ w \in Worker /\ Moves(w, "closing", "unlisted") /\ runtime' = CleanRecord(w)
  /\ UNCHANGED <<running, startup, lifetime, target, orphans, kills>>

CloseLifetime(w) ==
  /\ w \in Worker /\ Moves(w, "unlisted", "gone")
  /\ lifetime' = (IF lifetime = w THEN Nobody ELSE lifetime) /\ Released(w)
  /\ running' = running \ {w} /\ UNCHANGED <<runtime, target, orphans, kills>>
-----------------------------------------------------------------------------
(* stopWorkerUnderExclusion *)

StopSettled(q) ==
  /\ q \in Stopper
  /\ \/ Owner = "stopped" /\ Moves(q, "excluded", "stopped")
     \/ Owner # "stopped" /\ Moves(q, "excluded", "failed")
  /\ UNCHANGED <<running, startup, lifetime, runtime, target, orphans, kills>>

\* The worker has answered; close runs when the answer has been sent.
AskToStop(q) ==
  /\ q \in Stopper /\ Owner = "owned" /\ Alive(q) /\ step[q] = "excluded"
  /\ step[runtime] \in {"running", "closing"}
  /\ step' = [step EXCEPT ![q] = "polling", ![runtime] = "closing"]
  /\ target' = runtime
  /\ UNCHANGED <<running, startup, lifetime, runtime, orphans, kills>>

Gone == runtime = Nobody

Poll(q) ==
  /\ q \in Stopper
  /\ \/ Gone /\ Moves(q, "polling", "stopped")
     \/ ~Gone /\ Moves(q, "polling", "failed")
  /\ target' = Nobody
  /\ UNCHANGED <<running, startup, lifetime, runtime, orphans, kills>>

StopReturns(q) ==
  /\ q \in Stopper /\ Alive(q) /\ step[q] \in {"stopped", "failed"} /\ startup = q
  /\ startup' = Nobody /\ UNCHANGED <<step, running, lifetime, runtime, target, orphans, kills>>
-----------------------------------------------------------------------------
(* maintainSyncIdentity, after the stop: the exclusion and the second look. *)

\* Mutant of SecondLook: what the stop saw is taken for granted.
NoSecondLook == TRUE

SecondLook == ~Alive(runtime)

\* A quarantine keeps the exclusion to its end; a fork returns the promise of
\* its transition, unawaited, and goes on when the exclusion has been released.
Maintain(k) ==
  /\ k \in Keeper
  /\ \/ SecondLook /\ Moves(k, "excluded", "maintaining") /\ UNCHANGED startup
     \/ SecondLook /\ Moves(k, "excluded", "forking") /\ Released(k)
     \/ ~SecondLook /\ Moves(k, "excluded", "failed") /\ Released(k)
  /\ UNCHANGED <<running, lifetime, runtime, target, orphans, kills>>

FinishMaintenance(k) ==
  /\ k \in Keeper /\ (Moves(k, "maintaining", "done") \/ Moves(k, "forking", "done"))
  /\ runtime' = Nobody /\ Released(k) /\ orphans' = orphans \cup ({runtime} \cap running)
  /\ UNCHANGED <<running, lifetime, target, kills>>
-----------------------------------------------------------------------------
Kill(p) ==
  /\ Alive(p) /\ step[p] # "idle" /\ kills < MaxKills /\ kills' = kills + 1
  /\ running' = running \ {p}
  /\ orphans' = IF p \in Starter /\ step[p] \in {"waiting", "terminating"} /\ ~Serving(ChildOf[p])
                THEN orphans \cup {ChildOf[p]} ELSE orphans
  /\ UNCHANGED <<step, startup, lifetime, runtime, target>>

LifecycleStep(p) ==
  \/ Exclude(p)
  \/ EnsureSettled(p) \/ EnsureInspect(p) \/ Spawn(p) \/ ChildReady(p) \/ GiveUp(p)
  \/ TerminateChild(p) \/ ChildReaped(p)
  \/ Inherit(p) \/ Refused(p) \/ Admitted(p) \/ TakeLifetime(p) \/ Publish(p)
  \/ BeginClose(p) \/ CloseRecord(p) \/ CloseLifetime(p)
  \/ StopSettled(p) \/ AskToStop(p) \/ Poll(p) \/ StopReturns(p)
  \/ Maintain(p) \/ FinishMaintenance(p)

LifecycleNext == \E p \in Proc : LifecycleStep(p) \/ Kill(p)

LifecycleSpec == LifecycleInit /\ [][LifecycleNext]_procVars

-----------------------------------------------------------------------------
\* Two workers never replicate for the same home, whoever starts them and
\* whoever is killed while doing so; and one that serves can be reached: the
\* record and the lock that the others find it by are its own for as long as it
\* runs, except for a child left behind and for a worker that started while an
\* identity was forked.
OneWorker ==
  /\ \A v, w \in Worker : Active(v) /\ Active(w) => v = w
  /\ \A w \in Worker : Serving(w) /\ w \notin orphans => runtime = w /\ lifetime = w

\* When a stop has said "stopped", and while a quarantine changes the home,
\* nothing replicates and no worker is on its way, unless a process that was
\* starting one was killed and left its child behind.
StoppedIsStopped ==
  \A p \in Stopper \cup Keeper :
    startup = p /\ Alive(p) /\ step[p] \in {"stopped", "maintaining"} =>
      \A w \in Worker \ orphans : ~Active(w)

\* What docs/phase2-sync/worker-cli-contract.md:104 asks of every change of
\* identity in place, a fork too: no worker of the home is active while it is
\* made.  maintainSyncIdentity does not await its fork under the exclusion.
QuiescentForChange ==
  \A k \in Keeper : Alive(k) /\ step[k] \in {"maintaining", "forking"} =>
    \A w \in Worker \ orphans : ~Active(w)

\* Starting, stopping and maintenance exclude one another (worker-cli-contract.md):
\* both of the above, of one home.
WorkersExclude == OneWorker /\ StoppedIsStopped
=============================================================================
