----------------------------- MODULE StoreLock -----------------------------
(***************************************************************************)
(* The lock every store operation of a home runs under: a promise queue    *)
(* inside a process (withStoreLock) and, across processes, ownership of    *)
(* the file `mutation.lock` (acquireSyncOwnership).  An acquisition writes *)
(* a candidate file of its own, hard-links it to the public name, and      *)
(* removes the candidate.  Whoever finds the name taken may reclaim it     *)
(* from a dead owner, under the guard file `mutation.lock.reap`.           *)
(*                                                                         *)
(* Every file operation is a step of its own and a process may die between *)
(* any two.  An inode and its record are named by the acquisition that     *)
(* wrote them (its token is a fresh UUID); its link count says whether     *)
(* the candidate is still there.                                           *)
(***************************************************************************)
EXTENDS Naturals

CONSTANTS
  Process,      \* process ids; one that died may be given out again
  Call,         \* calls of withStoreLock, each acquiring once
  ProcessOf,    \* Call -> Process, the process id under which it runs
  None,         \* no such file
  KnowsStart,   \* does the platform tell when a process started?
  Impatient,    \* the calls whose deadline may pass
  MaxLives      \* bound: processes a process id is given to

ASSUME StoreLockAssumption ==
  /\ ProcessOf \in [Call -> Process] /\ None \notin Call
  /\ KnowsStart \in BOOLEAN /\ Impatient \subseteq Call /\ MaxLives \in Nat

VARIABLES
  life,         \* Process -> how often the id was given out
  alive,        \* Process -> is the latest of them running?
  pc,           \* Call -> where the call is
  born,         \* Call -> the life of its process it runs in
  ahead,        \* Call -> calls of its process that had entered the queue before
  lock,         \* the acquisition whose inode has the public name, or None
  candidate,    \* acquisitions whose candidate file exists
  guard,        \* the acquisition that created the guard file, or None
  seen          \* Call -> the owner record it took for dead, with its links

vars == <<life, alive, pc, born, ahead, lock, candidate, guard, seen>>

Waiting  == {"trying", "taken", "judging", "judged"}
Reaping  == {"guarded", "clearing", "reaping", "unlinking", "unguarding"}
Named    == {"linked", "named", "holding", "releasing"}
Active   == {"queued"} \cup Waiting \cup Reaping \cup Named
Over     == {"done", "crashed"}

\* What a reader of the lock file can tell about it.
Links(c)   == IF c \in candidate THEN 2 ELSE 1
Evidence   == [owner : Call, links : {1, 2}]
Snapshot   == [owner |-> lock, links |-> Links(lock)]
NoEvidence == [owner |-> None, links |-> 1]

Init ==
  /\ life = [p \in Process |-> 1] /\ alive = [p \in Process |-> TRUE]
  /\ pc = [c \in Call |-> "idle"] /\ born = [c \in Call |-> 0]
  /\ ahead = [c \in Call |-> {}]
  /\ lock = None /\ candidate = {} /\ guard = None
  /\ seen = [c \in Call |-> NoEvidence]

Goto(c, label) == pc' = [pc EXCEPT ![c] = label]
Step(c, from, to) == pc[c] = from /\ Goto(c, to)

-----------------------------------------------------------------------------
(* The queue inside a process. *)

Begin(c) ==
  /\ Step(c, "idle", "queued") /\ alive[ProcessOf[c]]
  /\ born' = [born EXCEPT ![c] = life[ProcessOf[c]]]
  /\ ahead' = [ahead EXCEPT ![c] =
       {b \in Call : ProcessOf[b] = ProcessOf[c] /\ pc[b] \in Active}]
  /\ UNCHANGED <<life, alive, lock, candidate, guard, seen>>

\* Mutant of ItsTurn: a call waits only until the one before it is released,
\* which may have left the queue at its deadline.
SomeoneLeft(c) == ahead[c] = {} \/ \E b \in ahead[c] : pc[b] \in Over

\* Everyone ahead has released: a call that leaves at its deadline does not let
\* those behind it pass the ones before it.
ItsTurn(c) == \A b \in ahead[c] : pc[b] \in Over

\* The candidate is complete on disk before the public name is tried.
CreateCandidate(c) ==
  /\ Step(c, "queued", "trying") /\ ItsTurn(c)
  /\ candidate' = candidate \cup {c}
  /\ UNCHANGED <<life, alive, born, ahead, lock, guard, seen>>

\* The deadline passes, in the queue or between two attempts.
GiveUp(c) ==
  /\ c \in Impatient /\ pc[c] \in {"queued", "trying"} /\ Goto(c, "done")
  /\ candidate' = candidate \ {c}
  /\ UNCHANGED <<life, alive, born, ahead, lock, guard, seen>>

-----------------------------------------------------------------------------
(* The public name. *)

Link(c) ==
  /\ pc[c] = "trying"
  /\ IF lock = None THEN Goto(c, "linked") /\ lock' = c
                    ELSE Goto(c, "taken") /\ UNCHANGED lock
  /\ UNCHANGED <<life, alive, born, ahead, candidate, guard, seen>>

RemoveCandidate(c) ==
  /\ Step(c, "linked", "named")
  /\ candidate' = candidate \ {c}
  /\ UNCHANGED <<life, alive, born, ahead, lock, guard, seen>>

\* The name is validated once more and then the operation runs, unless the
\* deadline has passed meanwhile.
Enter(c) ==
  /\ Step(c, "named", "holding") /\ lock = c
  /\ UNCHANGED <<life, alive, born, ahead, lock, candidate, guard, seen>>

\* Validating before the name is removed is a step before the removal.
LeaveOperation(c) ==
  /\ \/ Step(c, "holding", "releasing")
     \/ c \in Impatient /\ Step(c, "named", "releasing")
  /\ lock = c
  /\ UNCHANGED <<life, alive, born, ahead, lock, candidate, guard, seen>>

Release(c) ==
  /\ Step(c, "releasing", "done")
  /\ lock' = None
  /\ UNCHANGED <<life, alive, born, ahead, candidate, guard, seen>>

-----------------------------------------------------------------------------
(* Reclaiming the name from a dead owner. *)

\* Mutant of Dead: a reused process id is taken for the owner.
DeadById(b) == ~alive[ProcessOf[b]]

\* The process that recorded itself in b's file is gone: no process has its id,
\* or the one that has it started at another time.
Dead(b) ==
  \/ ~alive[ProcessOf[b]]
  \/ KnowsStart /\ born[b] # life[ProcessOf[b]]

ReadLock(c) ==
  /\ pc[c] = "taken"
  /\ IF lock = None THEN Goto(c, "trying") /\ UNCHANGED seen
     ELSE Goto(c, "judging") /\ seen' = [seen EXCEPT ![c] = Snapshot]
  /\ UNCHANGED <<life, alive, born, ahead, lock, candidate, guard>>

\* A live or unknown owner is waited for.
Judge(c) ==
  /\ pc[c] = "judging"
  /\ Goto(c, IF Dead(seen[c].owner) THEN "judged" ELSE "trying")
  /\ UNCHANGED <<life, alive, born, ahead, lock, candidate, guard, seen>>

\* Mutant of CanGuard: an existing guard file does not stop a reaper.
CanAlwaysGuard == TRUE

\* Exclusive creation of the guard file.
CanGuard == guard = None

TakeGuard(c) ==
  /\ pc[c] = "judged"
  /\ IF CanGuard THEN Goto(c, "guarded") /\ guard' = c
     ELSE Goto(c, "trying") /\ UNCHANGED guard
  /\ UNCHANGED <<life, alive, born, ahead, lock, candidate, seen>>

\* Mutant of Unchanged: what was judged dead is removed without another look.
NotLookedAt(c) == lock # None

\* Under the guard the file must still be the very one that was judged.
Unchanged(c) == lock # None /\ Snapshot = seen[c] /\ Dead(lock)

Recheck(c) ==
  /\ pc[c] = "guarded"
  /\ Goto(c, IF Unchanged(c) THEN "clearing" ELSE "unguarding")
  /\ UNCHANGED <<life, alive, born, ahead, lock, candidate, guard, seen>>

\* A candidate its owner did not live to remove goes first.
ClearCandidate(c) ==
  /\ Step(c, "clearing", "reaping")
  /\ candidate' = candidate \ {lock}
  /\ UNCHANGED <<life, alive, born, ahead, lock, guard, seen>>

ValidateReaped(c) ==
  /\ Step(c, "reaping", "unlinking") /\ lock # None
  /\ UNCHANGED <<life, alive, born, ahead, lock, candidate, guard, seen>>

Reclaim(c) ==
  /\ Step(c, "unlinking", "unguarding")
  /\ lock' = None
  /\ UNCHANGED <<life, alive, born, ahead, candidate, guard, seen>>

DropGuard(c) ==
  /\ Step(c, "unguarding", "trying")
  /\ guard' = None
  /\ UNCHANGED <<life, alive, born, ahead, lock, candidate, seen>>

-----------------------------------------------------------------------------
(* Processes die with everything they had in memory, and files stay. *)

Crash(p) ==
  /\ alive[p]
  /\ alive' = [alive EXCEPT ![p] = FALSE]
  /\ pc' = [c \in Call |-> IF ProcessOf[c] = p /\ pc[c] \in Active THEN "crashed" ELSE pc[c]]
  /\ UNCHANGED <<life, born, ahead, lock, candidate, guard, seen>>

Reuse(p) ==
  /\ ~alive[p] /\ life[p] < MaxLives
  /\ alive' = [alive EXCEPT ![p] = TRUE] /\ life' = [life EXCEPT ![p] = @ + 1]
  /\ UNCHANGED <<pc, born, ahead, lock, candidate, guard, seen>>

Acquire(c) ==
  \/ Begin(c) \/ CreateCandidate(c) \/ Link(c) \/ RemoveCandidate(c) \/ Enter(c)
  \/ LeaveOperation(c) \/ Release(c)

Reap(c) ==
  \/ ReadLock(c) \/ Judge(c) \/ TakeGuard(c) \/ Recheck(c) \/ ClearCandidate(c)
  \/ ValidateReaped(c) \/ Reclaim(c) \/ DropGuard(c)

Next ==
  \/ \E c \in Call : Acquire(c) \/ Reap(c) \/ GiveUp(c)
  \/ \E p \in Process : Crash(p) \/ Reuse(p)

Spec == Init /\ [][Next]_vars

\* A call that began goes on until it is over; processes may crash at will.
CallsGoOn == \A c \in Call : WF_vars(pc[c] # "idle" /\ (Acquire(c) \/ Reap(c)))

-----------------------------------------------------------------------------
TypeOK ==
  /\ life \in [Process -> Nat] /\ alive \in [Process -> BOOLEAN]
  /\ pc \in [Call -> {"idle"} \cup Active \cup Over]
  /\ born \in [Call -> Nat] /\ ahead \in [Call -> SUBSET Call]
  /\ lock \in Call \cup {None} /\ candidate \subseteq Call /\ guard \in Call \cup {None}
  /\ seen \in [Call -> Evidence \cup {NoEvidence}]

\* At most one store operation runs at a time, whatever died and was reclaimed
\* meanwhile (`withStoreLock`, `reclaimCheckedDeadLock`).
OneHolder == \A b, c \in Call : pc[b] = "holding" /\ pc[c] = "holding" => b = c

\* Calls of one process reach the lock file one at a time, in the order they
\* came, although waiters leave the queue at their deadline (`withStoreLock`).
OneAtATime ==
  \A b, c \in Call :
    ProcessOf[b] = ProcessOf[c] /\ b # c /\ pc[b] \in Active \ {"queued"}
      => pc[c] \notin Active \ {"queued"}

\* The public name is taken away from an acquisition only by its own release or
\* after its process died (`removeHeldLock`, `isDeadOwner`).
NeverStolen ==
  [][\A c \in Call : lock = c /\ lock' # c => pc[c] \in {"releasing", "crashed"}]_vars

\* A reaper died before it removed its guard: nobody may remove that file.
GuardAbandoned == guard # None /\ pc[guard] = "crashed"

\* Every call comes to hold the lock and is over, or leaves at its deadline where
\* it may, however many owners died and whoever was given their process ids,
\* unless a guard was abandoned (`acquireSyncOwnership`, `reclaimDeadLock`).
EveryCallServed == \A c \in Call : pc[c] = "queued" ~> pc[c] \in Over \/ GuardAbandoned
=============================================================================
