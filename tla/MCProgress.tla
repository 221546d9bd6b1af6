----------------------------- MODULE MCProgress -----------------------------
(***************************************************************************)
(* What must go on under the scheduling of the code alone, side by side:   *)
(* one worker with one route and one foreground run, under the fairness of *)
(* its event loop, and the store lock of two process ids, under the chain  *)
(* of awaits of each call.  `part` names the one that is followed.         *)
(*                                                                         *)
(* Of the calls c1 to c4, c4 is of process q and the others of process p;  *)
(* what a call has seen is `evidence` here.                                *)
(***************************************************************************)
EXTENDS SyncWorker

CONSTANTS Process, Call, ProcessOf, KnowsStart, Impatient, MaxLives, p, q, c1, c2, c3, c4

VARIABLES part, life, alive, pc, born, ahead, lock, candidate, guard, evidence

Lock == INSTANCE StoreLock WITH seen <- evidence

lockVars == <<life, alive, pc, born, ahead, lock, candidate, guard, evidence>>

LockProcessOf == [c \in Call |-> IF c \in {c1, c2, c3} THEN p ELSE q]

\* A worker that is never asked for anything stands still while the lock is followed.
ProgressInit ==
  /\ part \in {"worker", "lock"}
  /\ Init /\ Lock!Init
  /\ part = "lock" => temporary /\ ~ledger.enabled

ProgressNext ==
  \/ part = "worker" /\ Next /\ UNCHANGED <<part, lockVars>>
  \/ part = "lock" /\ Lock!Next /\ UNCHANGED <<part, vars>>

ProgressSpec ==
  ProgressInit /\ [][ProgressNext]_<<part, vars, lockVars>> /\ Fairness /\ Lock!CallsGoOn

\* Every call of the lock comes to hold it and is over, or leaves at its deadline where
\* it may, however many owners died, unless a guard was abandoned (`acquireSyncOwnership`).
EveryCallServed == Lock!EveryCallServed
=============================================================================
