-------------------------- MODULE StoreLockProofs --------------------------
(***************************************************************************)
(* The store lock and the files below it.  Of the lock: one holder, one    *)
(* waiter at a time and no theft, for every set of processes and calls,    *)
(* every bound and either platform.  Of the files, which DurableStore      *)
(* changes under a lock with one holder: nothing promised is lost and no   *)
(* stage is left without an owner, for any faults and restarts.  Of a      *)
(* record read without the lock: the answer is of its time, for any number *)
(* of attempts and inode numbers.                                          *)
(***************************************************************************)
EXTENDS StoreLock, DurableStore, RecordReader, SequenceTheorems, FiniteSetTheorems, TLAPS

\* The parts of the invariant.

\* Whoever has the public name owns the file, and the file belongs to a call
\* that has it or that died with it.
Owned ==
  /\ \A c \in Call : pc[c] \in Named => lock = c
  /\ lock # None => pc[lock] \in Named \cup {"crashed"}

\* A reaper owns the guard file until it removes it, or died with it.
Guarded ==
  /\ \A c \in Call : pc[c] \in Reaping => guard = c
  /\ guard # None => pc[guard] \in Reaping \cup {"crashed"}

\* What a reaper is about to remove belongs to a call that crashed.
Doomed ==
  \A c \in Call : pc[c] \in {"clearing", "reaping", "unlinking"} =>
    lock # None /\ pc[lock] = "crashed"

\* A call goes on only in the process that recorded itself.
Recorded ==
  \A c \in Call : pc[c] \in Active =>
    alive[ProcessOf[c]] /\ born[c] = life[ProcessOf[c]]

\* Of two calls of a process one came first, and who has passed the queue has
\* nobody ahead.
Queued ==
  /\ \A b, c \in Call :
       pc[b] \in Active /\ pc[c] \in Active /\ ProcessOf[b] = ProcessOf[c] /\ b # c
         => b \in ahead[c] \/ c \in ahead[b]
  /\ \A c \in Call : pc[c] \in Active \ {"queued"} =>
       \A b \in ahead[c] : pc[b] \in Over

LockInv == TypeOK /\ Owned /\ Guarded /\ Doomed /\ Recorded /\ Queued

\* Every step keeps the types.
LEMMA TypeStep ==
  ASSUME LockInv, [Next]_vars PROVE TypeOK'
<1> USE StoreLockAssumption DEF LockInv, TypeOK, Evidence, NoEvidence, Snapshot, Links, Goto, Step, Active, Waiting, Reaping, Named, Over
<1>1. ASSUME NEW c \in Call, Begin(c) PROVE TypeOK'
  BY <1>1 DEF Begin
<1>2. ASSUME NEW c \in Call, CreateCandidate(c) PROVE TypeOK'
  BY <1>2 DEF CreateCandidate
<1>3. ASSUME NEW c \in Call, GiveUp(c) PROVE TypeOK'
  BY <1>3 DEF GiveUp
<1>4. ASSUME NEW c \in Call, Link(c) PROVE TypeOK'
  BY <1>4 DEF Link
<1>5. ASSUME NEW c \in Call, RemoveCandidate(c) PROVE TypeOK'
  BY <1>5 DEF RemoveCandidate
<1>6. ASSUME NEW c \in Call, Enter(c) PROVE TypeOK'
  BY <1>6 DEF Enter
<1>7. ASSUME NEW c \in Call, LeaveOperation(c) PROVE TypeOK'
  BY <1>7 DEF LeaveOperation
<1>8. ASSUME NEW c \in Call, Release(c) PROVE TypeOK'
  BY <1>8 DEF Release
<1>9. ASSUME NEW c \in Call, ReadLock(c) PROVE TypeOK'
  BY <1>9 DEF ReadLock
<1>10. ASSUME NEW c \in Call, Judge(c) PROVE TypeOK'
  BY <1>10 DEF Judge
<1>11. ASSUME NEW c \in Call, TakeGuard(c) PROVE TypeOK'
  BY <1>11 DEF TakeGuard
<1>12. ASSUME NEW c \in Call, Recheck(c) PROVE TypeOK'
  BY <1>12 DEF Recheck, Unchanged
<1>13. ASSUME NEW c \in Call, ClearCandidate(c) PROVE TypeOK'
  BY <1>13 DEF ClearCandidate
<1>14. ASSUME NEW c \in Call, ValidateReaped(c) PROVE TypeOK'
  BY <1>14 DEF ValidateReaped
<1>15. ASSUME NEW c \in Call, Reclaim(c) PROVE TypeOK'
  BY <1>15 DEF Reclaim
<1>16. ASSUME NEW c \in Call, DropGuard(c) PROVE TypeOK'
  BY <1>16 DEF DropGuard
<1>17. ASSUME NEW p \in Process, Crash(p) PROVE TypeOK'
  BY <1>17 DEF Crash
<1>18. ASSUME NEW p \in Process, Reuse(p) PROVE TypeOK'
  BY <1>18 DEF Reuse
<1>19. CASE UNCHANGED vars
  BY <1>19 DEF vars
<1> QED
  BY <1>1, <1>2, <1>3, <1>4, <1>5, <1>6, <1>7, <1>8, <1>9, <1>10, <1>11, <1>12, <1>13, <1>14, <1>15, <1>16, <1>17, <1>18, <1>19 DEF Next, Acquire, Reap

\* The public name passes only through None, and only a release or the removal of
\* a crashed owner's file leads there.
LEMMA OwnedStep ==
  ASSUME LockInv, [Next]_vars PROVE Owned'
<1> USE StoreLockAssumption DEF LockInv, TypeOK, Owned, Goto, Step, Active, Waiting, Reaping, Named, Over, Doomed
<1>1. ASSUME NEW c \in Call, Begin(c) PROVE Owned'
  BY <1>1 DEF Begin
<1>2. ASSUME NEW c \in Call, CreateCandidate(c) PROVE Owned'
  BY <1>2 DEF CreateCandidate
<1>3. ASSUME NEW c \in Call, GiveUp(c) PROVE Owned'
  BY <1>3 DEF GiveUp
<1>4. ASSUME NEW c \in Call, Link(c) PROVE Owned'
  BY <1>4 DEF Link
<1>5. ASSUME NEW c \in Call, RemoveCandidate(c) PROVE Owned'
  BY <1>5 DEF RemoveCandidate
<1>6. ASSUME NEW c \in Call, Enter(c) PROVE Owned'
  BY <1>6 DEF Enter
<1>7. ASSUME NEW c \in Call, LeaveOperation(c) PROVE Owned'
  BY <1>7 DEF LeaveOperation
<1>8. ASSUME NEW c \in Call, Release(c) PROVE Owned'
  BY <1>8 DEF Release
<1>9. ASSUME NEW c \in Call, ReadLock(c) PROVE Owned'
  BY <1>9 DEF ReadLock
<1>10. ASSUME NEW c \in Call, Judge(c) PROVE Owned'
  BY <1>10 DEF Judge
<1>11. ASSUME NEW c \in Call, TakeGuard(c) PROVE Owned'
  BY <1>11 DEF TakeGuard
<1>12. ASSUME NEW c \in Call, Recheck(c) PROVE Owned'
  BY <1>12 DEF Recheck
<1>13. ASSUME NEW c \in Call, ClearCandidate(c) PROVE Owned'
  BY <1>13 DEF ClearCandidate
<1>14. ASSUME NEW c \in Call, ValidateReaped(c) PROVE Owned'
  BY <1>14 DEF ValidateReaped
<1>15. ASSUME NEW c \in Call, Reclaim(c) PROVE Owned'
  BY <1>15 DEF Reclaim
<1>16. ASSUME NEW c \in Call, DropGuard(c) PROVE Owned'
  BY <1>16 DEF DropGuard
<1>17. ASSUME NEW p \in Process, Crash(p) PROVE Owned'
  BY <1>17 DEF Crash
<1>18. ASSUME NEW p \in Process, Reuse(p) PROVE Owned'
  BY <1>18 DEF Reuse
<1>19. CASE UNCHANGED vars
  BY <1>19 DEF vars
<1> QED
  BY <1>1, <1>2, <1>3, <1>4, <1>5, <1>6, <1>7, <1>8, <1>9, <1>10, <1>11, <1>12, <1>13, <1>14, <1>15, <1>16, <1>17, <1>18, <1>19 DEF Next, Acquire, Reap

\* The guard file is created exclusively and removed by its creator alone.
LEMMA GuardedStep ==
  ASSUME LockInv, [Next]_vars PROVE Guarded'
<1> USE StoreLockAssumption DEF LockInv, TypeOK, Guarded, Goto, Step, Active, Waiting, Reaping, Named, Over
<1>1. ASSUME NEW c \in Call, Begin(c) PROVE Guarded'
  BY <1>1 DEF Begin
<1>2. ASSUME NEW c \in Call, CreateCandidate(c) PROVE Guarded'
  BY <1>2 DEF CreateCandidate
<1>3. ASSUME NEW c \in Call, GiveUp(c) PROVE Guarded'
  BY <1>3 DEF GiveUp
<1>4. ASSUME NEW c \in Call, Link(c) PROVE Guarded'
  BY <1>4 DEF Link
<1>5. ASSUME NEW c \in Call, RemoveCandidate(c) PROVE Guarded'
  BY <1>5 DEF RemoveCandidate
<1>6. ASSUME NEW c \in Call, Enter(c) PROVE Guarded'
  BY <1>6 DEF Enter
<1>7. ASSUME NEW c \in Call, LeaveOperation(c) PROVE Guarded'
  BY <1>7 DEF LeaveOperation
<1>8. ASSUME NEW c \in Call, Release(c) PROVE Guarded'
  BY <1>8 DEF Release
<1>9. ASSUME NEW c \in Call, ReadLock(c) PROVE Guarded'
  BY <1>9 DEF ReadLock
<1>10. ASSUME NEW c \in Call, Judge(c) PROVE Guarded'
  BY <1>10 DEF Judge
<1>11. ASSUME NEW c \in Call, TakeGuard(c) PROVE Guarded'
  BY <1>11 DEF TakeGuard, CanGuard
<1>12. ASSUME NEW c \in Call, Recheck(c) PROVE Guarded'
  BY <1>12 DEF Recheck
<1>13. ASSUME NEW c \in Call, ClearCandidate(c) PROVE Guarded'
  BY <1>13 DEF ClearCandidate
<1>14. ASSUME NEW c \in Call, ValidateReaped(c) PROVE Guarded'
  BY <1>14 DEF ValidateReaped
<1>15. ASSUME NEW c \in Call, Reclaim(c) PROVE Guarded'
  BY <1>15 DEF Reclaim
<1>16. ASSUME NEW c \in Call, DropGuard(c) PROVE Guarded'
  BY <1>16 DEF DropGuard
<1>17. ASSUME NEW p \in Process, Crash(p) PROVE Guarded'
  BY <1>17 DEF Crash
<1>18. ASSUME NEW p \in Process, Reuse(p) PROVE Guarded'
  BY <1>18 DEF Reuse
<1>19. CASE UNCHANGED vars
  BY <1>19 DEF vars
<1> QED
  BY <1>1, <1>2, <1>3, <1>4, <1>5, <1>6, <1>7, <1>8, <1>9, <1>10, <1>11, <1>12, <1>13, <1>14, <1>15, <1>16, <1>17, <1>18, <1>19 DEF Next, Acquire, Reap

\* Under the guard the owner was found dead once more, so its call has crashed;
\* nobody else removes the name, and nobody can take it.
LEMMA DoomedStep ==
  ASSUME LockInv, [Next]_vars PROVE Doomed'
<1> USE StoreLockAssumption DEF LockInv, TypeOK, Doomed, Goto, Step, Active, Waiting, Reaping, Named, Over, Owned, Guarded, Recorded
<1>1. ASSUME NEW c \in Call, Begin(c) PROVE Doomed'
  BY <1>1 DEF Begin
<1>2. ASSUME NEW c \in Call, CreateCandidate(c) PROVE Doomed'
  BY <1>2 DEF CreateCandidate
<1>3. ASSUME NEW c \in Call, GiveUp(c) PROVE Doomed'
  BY <1>3 DEF GiveUp
<1>4. ASSUME NEW c \in Call, Link(c) PROVE Doomed'
  BY <1>4 DEF Link
<1>5. ASSUME NEW c \in Call, RemoveCandidate(c) PROVE Doomed'
  BY <1>5 DEF RemoveCandidate
<1>6. ASSUME NEW c \in Call, Enter(c) PROVE Doomed'
  BY <1>6 DEF Enter
<1>7. ASSUME NEW c \in Call, LeaveOperation(c) PROVE Doomed'
  BY <1>7 DEF LeaveOperation
<1>8. ASSUME NEW c \in Call, Release(c) PROVE Doomed'
  BY <1>8 DEF Release
<1>9. ASSUME NEW c \in Call, ReadLock(c) PROVE Doomed'
  BY <1>9 DEF ReadLock
<1>10. ASSUME NEW c \in Call, Judge(c) PROVE Doomed'
  BY <1>10 DEF Judge
<1>11. ASSUME NEW c \in Call, TakeGuard(c) PROVE Doomed'
  BY <1>11 DEF TakeGuard
<1>12. ASSUME NEW c \in Call, Recheck(c) PROVE Doomed'
  BY <1>12 DEF Recheck, Unchanged, Dead
<1>13. ASSUME NEW c \in Call, ClearCandidate(c) PROVE Doomed'
  BY <1>13 DEF ClearCandidate
<1>14. ASSUME NEW c \in Call, ValidateReaped(c) PROVE Doomed'
  BY <1>14 DEF ValidateReaped
<1>15. ASSUME NEW c \in Call, Reclaim(c) PROVE Doomed'
  BY <1>15 DEF Reclaim
<1>16. ASSUME NEW c \in Call, DropGuard(c) PROVE Doomed'
  BY <1>16 DEF DropGuard
<1>17. ASSUME NEW p \in Process, Crash(p) PROVE Doomed'
  BY <1>17 DEF Crash
<1>18. ASSUME NEW p \in Process, Reuse(p) PROVE Doomed'
  BY <1>18 DEF Reuse
<1>19. CASE UNCHANGED vars
  BY <1>19 DEF vars
<1> QED
  BY <1>1, <1>2, <1>3, <1>4, <1>5, <1>6, <1>7, <1>8, <1>9, <1>10, <1>11, <1>12, <1>13, <1>14, <1>15, <1>16, <1>17, <1>18, <1>19 DEF Next, Acquire, Reap

\* A process id is given out again only when its process has died.
LEMMA RecordedStep ==
  ASSUME LockInv, [Next]_vars PROVE Recorded'
<1> USE StoreLockAssumption DEF LockInv, TypeOK, Recorded, Goto, Step, Active, Waiting, Reaping, Named, Over
<1>1. ASSUME NEW c \in Call, Begin(c) PROVE Recorded'
  BY <1>1 DEF Begin
<1>2. ASSUME NEW c \in Call, CreateCandidate(c) PROVE Recorded'
  BY <1>2 DEF CreateCandidate
<1>3. ASSUME NEW c \in Call, GiveUp(c) PROVE Recorded'
  BY <1>3 DEF GiveUp
<1>4. ASSUME NEW c \in Call, Link(c) PROVE Recorded'
  BY <1>4 DEF Link
<1>5. ASSUME NEW c \in Call, RemoveCandidate(c) PROVE Recorded'
  BY <1>5 DEF RemoveCandidate
<1>6. ASSUME NEW c \in Call, Enter(c) PROVE Recorded'
  BY <1>6 DEF Enter
<1>7. ASSUME NEW c \in Call, LeaveOperation(c) PROVE Recorded'
  BY <1>7 DEF LeaveOperation
<1>8. ASSUME NEW c \in Call, Release(c) PROVE Recorded'
  BY <1>8 DEF Release
<1>9. ASSUME NEW c \in Call, ReadLock(c) PROVE Recorded'
  BY <1>9 DEF ReadLock
<1>10. ASSUME NEW c \in Call, Judge(c) PROVE Recorded'
  BY <1>10 DEF Judge
<1>11. ASSUME NEW c \in Call, TakeGuard(c) PROVE Recorded'
  BY <1>11 DEF TakeGuard
<1>12. ASSUME NEW c \in Call, Recheck(c) PROVE Recorded'
  BY <1>12 DEF Recheck
<1>13. ASSUME NEW c \in Call, ClearCandidate(c) PROVE Recorded'
  BY <1>13 DEF ClearCandidate
<1>14. ASSUME NEW c \in Call, ValidateReaped(c) PROVE Recorded'
  BY <1>14 DEF ValidateReaped
<1>15. ASSUME NEW c \in Call, Reclaim(c) PROVE Recorded'
  BY <1>15 DEF Reclaim
<1>16. ASSUME NEW c \in Call, DropGuard(c) PROVE Recorded'
  BY <1>16 DEF DropGuard
<1>17. ASSUME NEW p \in Process, Crash(p) PROVE Recorded'
  BY <1>17 DEF Crash
<1>18. ASSUME NEW p \in Process, Reuse(p) PROVE Recorded'
  BY <1>18 DEF Reuse
<1>19. CASE UNCHANGED vars
  BY <1>19 DEF vars
<1> QED
  BY <1>1, <1>2, <1>3, <1>4, <1>5, <1>6, <1>7, <1>8, <1>9, <1>10, <1>11, <1>12, <1>13, <1>14, <1>15, <1>16, <1>17, <1>18, <1>19 DEF Next, Acquire, Reap

\* A call that is over stays over, and a new call sees everyone who came before.
LEMMA QueuedStep ==
  ASSUME LockInv, [Next]_vars PROVE Queued'
<1> USE StoreLockAssumption DEF LockInv, TypeOK, Queued, Goto, Step, Active, Waiting, Reaping, Named, Over
<1>1. ASSUME NEW c \in Call, Begin(c) PROVE Queued'
  BY <1>1 DEF Begin
<1>2. ASSUME NEW c \in Call, CreateCandidate(c) PROVE Queued'
  BY <1>2 DEF CreateCandidate, ItsTurn
<1>3. ASSUME NEW c \in Call, GiveUp(c) PROVE Queued'
  BY <1>3 DEF GiveUp
<1>4. ASSUME NEW c \in Call, Link(c) PROVE Queued'
  BY <1>4 DEF Link
<1>5. ASSUME NEW c \in Call, RemoveCandidate(c) PROVE Queued'
  BY <1>5 DEF RemoveCandidate
<1>6. ASSUME NEW c \in Call, Enter(c) PROVE Queued'
  BY <1>6 DEF Enter
<1>7. ASSUME NEW c \in Call, LeaveOperation(c) PROVE Queued'
  BY <1>7 DEF LeaveOperation
<1>8. ASSUME NEW c \in Call, Release(c) PROVE Queued'
  BY <1>8 DEF Release
<1>9. ASSUME NEW c \in Call, ReadLock(c) PROVE Queued'
  BY <1>9 DEF ReadLock
<1>10. ASSUME NEW c \in Call, Judge(c) PROVE Queued'
  BY <1>10 DEF Judge
<1>11. ASSUME NEW c \in Call, TakeGuard(c) PROVE Queued'
  BY <1>11 DEF TakeGuard
<1>12. ASSUME NEW c \in Call, Recheck(c) PROVE Queued'
  BY <1>12 DEF Recheck
<1>13. ASSUME NEW c \in Call, ClearCandidate(c) PROVE Queued'
  BY <1>13 DEF ClearCandidate
<1>14. ASSUME NEW c \in Call, ValidateReaped(c) PROVE Queued'
  BY <1>14 DEF ValidateReaped
<1>15. ASSUME NEW c \in Call, Reclaim(c) PROVE Queued'
  BY <1>15 DEF Reclaim
<1>16. ASSUME NEW c \in Call, DropGuard(c) PROVE Queued'
  BY <1>16 DEF DropGuard
<1>17. ASSUME NEW p \in Process, Crash(p) PROVE Queued'
  BY <1>17 DEF Crash
<1>18. ASSUME NEW p \in Process, Reuse(p) PROVE Queued'
  BY <1>18 DEF Reuse
<1>19. CASE UNCHANGED vars
  BY <1>19 DEF vars
<1> QED
  BY <1>1, <1>2, <1>3, <1>4, <1>5, <1>6, <1>7, <1>8, <1>9, <1>10, <1>11, <1>12, <1>13, <1>14, <1>15, <1>16, <1>17, <1>18, <1>19 DEF Next, Acquire, Reap

LEMMA LockInvInit == Init => LockInv
BY StoreLockAssumption DEF Init, LockInv, TypeOK, Owned, Guarded, Doomed, Recorded, Queued,
  Active, Waiting, Reaping, Named, Over, Evidence, NoEvidence

LEMMA LockInvStep == LockInv /\ [Next]_vars => LockInv'
BY TypeStep, OwnedStep, GuardedStep, DoomedStep, RecordedStep, QueuedStep DEF LockInv

LEMMA LockInvHolds == Spec => []LockInv
BY LockInvInit, LockInvStep, PTL DEF Spec

\* The state of the lock is always well formed (`acquireSyncOwnership`).
THEOREM LockTypeCorrect == Spec => []TypeOK
<1>1. LockInv => TypeOK  BY DEF LockInv
<1> QED  BY <1>1, LockInvHolds, PTL

\* At most one store operation of a home runs at a time, for any number of
\* processes, crashes and reused process ids (`withStoreLock`).
THEOREM OneHolderAlways == Spec => []OneHolder
<1>1. LockInv => OneHolder  BY DEF LockInv, Owned, OneHolder, Named
<1> QED  BY <1>1, LockInvHolds, PTL

\* At most one call of a process is past the queue (`withStoreLock`).
THEOREM OneAtATimeAlways == Spec => []OneAtATime
<1>1. LockInv => OneAtATime
  BY DEF LockInv, Queued, OneAtATime, Active, Waiting, Reaping, Named, Over
<1> QED  BY <1>1, LockInvHolds, PTL

\* The public name is removed by its own acquisition or after that crashed, never
\* from a live owner (`removeHeldLock`, `reclaimCheckedDeadLock`).
THEOREM NeverStolenEver == Spec => NeverStolen
<1>1. ASSUME LockInv, [Next]_vars
      PROVE \A c \in Call : lock = c /\ lock' # c => pc[c] \in {"releasing", "crashed"}
  <2> SUFFICES ASSUME NEW c \in Call, lock = c, lock' # c
               PROVE pc[c] \in {"releasing", "crashed"}
    OBVIOUS
  <2> USE <1>1 DEF LockInv
  <2>1. lock # None  BY StoreLockAssumption
  <2>2. ASSUME NEW b \in Call, Release(b) PROVE pc[c] = "releasing"
    BY <2>2 DEF Release, Step, Owned, Named
  <2>3. ASSUME NEW b \in Call, Reclaim(b) PROVE pc[c] = "crashed"
    BY <2>3 DEF Reclaim, Step, Doomed
  <2>4. (\E b \in Call : Release(b)) \/ (\E b \in Call : Reclaim(b))
    BY <2>1 DEF Next, vars, Acquire, Reap, Begin, CreateCandidate, GiveUp, Link, RemoveCandidate,
      Enter, LeaveOperation, ReadLock, Judge, TakeGuard, Recheck, ClearCandidate,
      ValidateReaped, DropGuard, Crash, Reuse
  <2> QED  BY <2>2, <2>3, <2>4
<1>2. LockInv /\ [Next]_vars
      => [\A c \in Call : lock = c /\ lock' # c => pc[c] \in {"releasing", "crashed"}]_vars
  BY <1>1
<1> QED  BY <1>2, LockInvHolds, PTL DEF Spec, NeverStolen

-----------------------------------------------------------------------------
(* The store.  Every operation is a list of the steps it has left, and what  *)
(* may be said of the files depends on the steps that are still to come:     *)
(* `Rule` is the order the lists keep, `StoreInv` what it is good for.       *)

Order == {"mutate", "lock", "unlock", "read", "doubt", "sure", "recovered", "sweep", "lease", "writeLease",
          "syncLease", "stage", "write", "sync", "install", "moveBody", "refer", "moveLedger", "discard", "tell",
          "flushLedger", "flushBodies", "flushStages"}

Plan         == Seq(Order)
Listed(s)    == {s[i] : i \in 1 .. Len(s)}
First(s)     == IF s = << >> THEN "end" ELSE s[1]
Later(s, i)  == {s[j] : j \in i + 1 .. Len(s)}
NextTo(s, i) == IF i < Len(s) THEN s[i + 1] ELSE "end"

\* The steps taken without the lock.
Outside(purpose) ==
  {"mutate", "lock", "end"} \cup (IF purpose = "speak" THEN {} ELSE {"tell"})
  \cup (IF purpose = "apply" THEN {"write", "sync"} ELSE {})

Leasing == {"lease", "writeLease", "syncLease", "stage"}
Filling == {"write", "sync", "install", "moveBody"}

\* What follows a step of an operation.
Rule(purpose, a, rest, next) ==
  /\ a \in {"mutate", "read"} =>
       /\ "moveLedger" \in rest => rest \cap {"refer", "install"} # {}
       /\ purpose = "speak" /\ "tell" \in rest => "flushLedger" \in rest
  /\ a = "unlock" =>
       /\ next \in Outside(purpose)
       /\ "moveLedger" \in rest => "mutate" \in rest
       /\ purpose = "speak" => "tell" \notin rest
  /\ a \in Outside(purpose) \ {"mutate", "lock"} =>
       /\ next \in Outside(purpose)
       /\ "lease" \notin rest
  /\ a \in Filling \cup Leasing => "lease" \notin rest
  /\ a = "lease" => {"writeLease", "syncLease", "stage", "write", "sync"} \subseteq rest
  /\ a = "writeLease" => {"syncLease", "stage", "write", "sync"} \subseteq rest /\ "writeLease" \notin rest
  /\ a = "syncLease" => {"stage", "write", "sync"} \subseteq rest /\ {"writeLease", "syncLease"} \cap rest = {}
  /\ a = "stage" => {"write", "sync"} \subseteq rest /\ Leasing \cap rest = {}
  /\ a = "write" => "sync" \in rest
  /\ a = "sync" => {"write", "sync"} \cap rest = {}
  /\ a \in {"install", "moveBody", "discard"} => rest \cap (Filling \cup Leasing) = {}
  /\ a = "install" => "flushBodies" \notin rest
  /\ a = "moveBody" => "flushBodies" \in rest
  /\ a = "refer" => "flushBodies" \notin rest
  /\ a = "moveLedger" =>
       /\ rest \cap {"mutate", "read", "refer", "install", "moveLedger"} = {}
       /\ "flushLedger" \in rest
  /\ a = "tell" => rest \cap {"flushLedger", "moveLedger", "mutate", "read"} = {}

InOrder(purpose, s) == \A i \in 1 .. Len(s) : Rule(purpose, s[i], Later(s, i), NextTo(s, i))

\* A file that a restart of the host leaves where it is, whole.
Safe(f) == f \in Name /\ content[f] = "synced" /\ \A b \in bodiesDisk : f \in b

\* Its file is leased to it, and not a body yet.
Keeps(u) ==
  /\ job[u].file \in staging.leases /\ lessee[job[u].file] = u
  /\ \A b \in bodiesDisk : job[u].file \notin b

Among(u) == Listed(left[u])
Past(u, steps) == steps \cap Among(u) = {}

\* From the read of the ledger to its replacement, or to the end of what is told of it.
Copied(u) == "moveLedger" \in Among(u) \/ (job[u].kind = "speak" /\ "tell" \in Among(u))

JobRecord == [kind : {"none", "publish", "apply", "speak"}, doc : Held \cup {Nothing},
              file : Name \cup {Nothing}, copy : [Held -> Name \cup {Nothing}]]

StoreForm ==
  /\ ledger \in ledgerDisk /\ ledgerDisk \subseteq [Held -> Name \cup {Nothing}]
  /\ bodies \in bodiesDisk /\ bodiesDisk \subseteq SUBSET Name
  /\ staging \in stagingDisk /\ stagingDisk \subseteq [stages : SUBSET Name, leases : SUBSET Name]
  /\ content \in [Name -> {"none", "written", "synced", "torn"}]
  /\ lease \in [Name -> {"empty", "written", "synced", "torn"}]
  /\ lessee \in [Name -> User \cup {Nothing}]
  /\ locked \in User \cup {Nothing} /\ told \subseteq Held
  /\ left \in [User -> Plan]
  /\ job \in [User -> JobRecord]

\* What every operation still does is in order, of a document if it changes one.
PlanOf(u) ==
  /\ InOrder(job[u].kind, left[u])
  /\ Among(u) \cap {"install", "refer", "moveLedger"} # {} => job[u].doc \in Held /\ job[u].kind # "speak"
  /\ "tell" \in Among(u) /\ job[u].kind # "speak" => job[u].doc \in Held

LockOf(u) ==
  /\ First(left[u]) \notin Outside(job[u].kind) => locked = u
  /\ Copied(u) /\ "mutate" \notin Among(u) => locked = u

\* A file is its operation's until it is the directory's; its lease is whole before there
\* is a stage.
StageOf(u) ==
  /\ "lease" \in Among(u) => job[u].file = Nothing
  /\ "lease" \notin Among(u) /\ Among(u) \cap Filling # {} =>
       /\ Keeps(u)
       /\ "writeLease" \notin Among(u) /\ "syncLease" \notin Among(u) => lease[job[u].file] = "synced"
       /\ "writeLease" \in Among(u) \/ "syncLease" \in Among(u) => lease[job[u].file] # "synced"
       /\ "stage" \notin Among(u) => job[u].file \in staging.stages
       /\ "sync" \notin Among(u) => content[job[u].file] = "synced"

BodyOf(u) ==
  /\ "refer" \in Among(u) /\ "moveBody" \notin Among(u) =>
       job[u].file \in bodies /\ content[job[u].file] = "synced"
  /\ "refer" \in Among(u) /\ "flushBodies" \notin Among(u) => Safe(job[u].file)

\* What is going to replace the ledger is the ledger with one document more, and what
\* is going to be told of it is on the disk.
CopyOf(u) ==
  /\ "moveLedger" \in Among(u) /\ Past(u, {"mutate", "read"}) =>
       /\ \A d \in Held : job[u].copy[d] # Nothing => Safe(job[u].copy[d])
       /\ \A d \in Held : ledger[d] # Nothing => job[u].copy[d] # Nothing
       /\ Past(u, {"refer", "install"}) => job[u].copy[job[u].doc] # Nothing
  /\ job[u].kind = "speak" /\ "tell" \in Among(u) /\ Past(u, {"mutate", "read"}) =>
       /\ \A d \in Held : job[u].copy[d] # Nothing => ledger[d] # Nothing
       /\ "flushLedger" \notin Among(u) =>
            \A v \in ledgerDisk : \A d \in Held : job[u].copy[d] # Nothing => v[d] # Nothing

TellsOf(u) ==
  job[u].kind # "speak" /\ "tell" \in Among(u) /\ "moveLedger" \notin Among(u) =>
    /\ ledger[job[u].doc] # Nothing
    /\ "flushLedger" \notin Among(u) => \A v \in ledgerDisk : v[job[u].doc] # Nothing

OperationIsSound(u) == PlanOf(u) /\ LockOf(u) /\ StageOf(u) /\ BodyOf(u) /\ CopyOf(u) /\ TellsOf(u)

StagesLeased ==
  \A s \in stagingDisk :
    /\ \A f \in s.stages : f \in s.leases /\ lease[f] = "synced"
    /\ IsFiniteSet(s.leases) /\ Cardinality(s.leases) <= MaxReserved

\* No two operations have one file.
FilesApart == \A u \in User : \A w \in User \ {u} : job[u].file = job[w].file => job[u].file = Nothing

StoreInv ==
  /\ StoreForm /\ (\A u \in User : OperationIsSound(u)) /\ FilesApart
  /\ StagesLeased /\ BodiesSurvive /\ ToldIsKept

\* A step put in front of a list.
LEMMA PlanCons ==
  ASSUME NEW a \in Order, NEW s \in Plan
  PROVE  LET t == <<a>> \o s IN
         /\ t \in Plan /\ t # << >> /\ Head(t) = a /\ Tail(t) = s
         /\ Listed(t) = {a} \cup Listed(s) /\ First(t) = a
         /\ \A purpose : InOrder(purpose, t) <=> InOrder(purpose, s) /\ Rule(purpose, a, Listed(s), First(s))
<1> DEFINE t == <<a>> \o s
<1>1. /\ t \in Plan /\ Len(t) = 1 + Len(s) /\ t[1] = a /\ Len(s) \in Nat
      /\ \A i \in 1 .. Len(s) : t[i + 1] = s[i]
  BY DEF Plan
<1>2. t # << >> /\ Head(t) = a /\ First(t) = a
  BY <1>1 DEF First, Plan
<1>3. Tail(t) = s
  BY DEF Plan
<1> HIDE DEF t
<1>4. Listed(t) = {a} \cup Listed(s)
  <2>1. ASSUME NEW x \in Listed(t) PROVE x \in {a} \cup Listed(s)
    <3>1. PICK i \in 1 .. Len(t) : x = t[i]
      BY DEF Listed
    <3>2. CASE i = 1
      BY <1>1, <3>1, <3>2
    <3>3. CASE i # 1
      <4>1. i - 1 \in 1 .. Len(s) /\ t[i] = s[i - 1]
        BY <1>1, <3>3
      <4> QED  BY <3>1, <4>1 DEF Listed
    <3> QED  BY <3>2, <3>3
  <2>2. Listed(s) \subseteq Listed(t) /\ a \in Listed(t)
    BY <1>1 DEF Listed
  <2> QED  BY <2>1, <2>2
<1>5. \A i \in 1 .. Len(s) : Later(t, i + 1) = Later(s, i) /\ NextTo(t, i + 1) = NextTo(s, i)
  <2> SUFFICES ASSUME NEW i \in 1 .. Len(s) PROVE Later(t, i + 1) = Later(s, i) /\ NextTo(t, i + 1) = NextTo(s, i)
    OBVIOUS
  <2>1. \A j \in i + 2 .. Len(t) : j - 1 \in i + 1 .. Len(s) /\ t[j] = s[j - 1]
    BY <1>1
  <2>2. \A j \in i + 1 .. Len(s) : j + 1 \in i + 2 .. Len(t) /\ t[j + 1] = s[j]
    BY <1>1
  <2>3. ASSUME NEW x \in Later(t, i + 1) PROVE x \in Later(s, i)
    <3>1. PICK j \in i + 2 .. Len(t) : x = t[j]
      BY DEF Later
    <3> QED  BY <2>1, <3>1 DEF Later
  <2>4. ASSUME NEW x \in Later(s, i) PROVE x \in Later(t, i + 1)
    <3>1. PICK j \in i + 1 .. Len(s) : x = s[j]
      BY DEF Later
    <3> QED  BY <2>2, <3>1 DEF Later
  <2>5. NextTo(t, i + 1) = NextTo(s, i)
    BY <1>1 DEF NextTo
  <2> QED  BY <2>3, <2>4, <2>5
<1>6. Later(t, 1) = Listed(s) /\ NextTo(t, 1) = First(s)
  <2>1. \A j \in 2 .. Len(t) : j - 1 \in 1 .. Len(s) /\ t[j] = s[j - 1]
    BY <1>1
  <2>2. \A j \in 1 .. Len(s) : j + 1 \in 2 .. Len(t) /\ t[j + 1] = s[j]
    BY <1>1
  <2>3. ASSUME NEW x \in Later(t, 1) PROVE x \in Listed(s)
    <3>1. PICK j \in 2 .. Len(t) : x = t[j]
      BY DEF Later
    <3> QED  BY <2>1, <3>1 DEF Listed
  <2>5. ASSUME NEW x \in Listed(s) PROVE x \in Later(t, 1)
    <3>1. PICK j \in 1 .. Len(s) : x = s[j]
      BY DEF Listed
    <3> QED  BY <2>2, <3>1 DEF Later
  <2>4. s = << >> <=> Len(s) = 0
    BY EmptySeq DEF Plan
  <2>6. Later(t, 1) = Listed(s)
    BY <2>3, <2>5
  <2>7. CASE s = << >>
    BY <1>1, <2>4, <2>6, <2>7 DEF NextTo, First
  <2>8. CASE s # << >>
    <3>1. 1 \in 1 .. Len(s) /\ t[1 + 1] = s[1]
      BY <1>1, <2>4, <2>8
    <3> QED  BY <1>1, <2>6, <2>8, <3>1 DEF NextTo, First
  <2> QED  BY <2>7, <2>8
<1>7. ASSUME NEW purpose PROVE InOrder(purpose, t) <=> InOrder(purpose, s) /\ Rule(purpose, a, Listed(s), First(s))
  <2>1. ASSUME InOrder(purpose, t) PROVE InOrder(purpose, s) /\ Rule(purpose, a, Listed(s), First(s))
    <3>1. \A i \in 1 .. Len(s) : i + 1 \in 1 .. Len(t)
      BY <1>1
    <3>2. \A i \in 1 .. Len(s) : Rule(purpose, s[i], Later(s, i), NextTo(s, i))
      BY <1>1, <1>5, <2>1, <3>1 DEF InOrder
    <3>3. 1 \in 1 .. Len(t)
      BY <1>1
    <3> QED  BY <1>1, <1>6, <2>1, <3>2, <3>3 DEF InOrder
  <2>2. ASSUME InOrder(purpose, s), Rule(purpose, a, Listed(s), First(s)) PROVE InOrder(purpose, t)
    <3>1. \A j \in 1 .. Len(t) : j = 1 \/ (j - 1 \in 1 .. Len(s) /\ j = (j - 1) + 1)
      BY <1>1
    <3> QED  BY <1>1, <1>5, <1>6, <2>2, <3>1 DEF InOrder
  <2> QED  BY <2>1, <2>2
<1> QED  BY <1>1, <1>2, <1>3, <1>4, <1>7 DEF t

\* The first step of a list, and the rest.
LEMMA PlanTail ==
  ASSUME NEW t \in Plan, t # << >>
  PROVE  /\ Head(t) \in Order /\ Tail(t) \in Plan /\ First(t) = Head(t)
         /\ Listed(t) = {Head(t)} \cup Listed(Tail(t))
         /\ \A purpose : InOrder(purpose, t) => /\ InOrder(purpose, Tail(t))
                                          /\ Rule(purpose, Head(t), Listed(Tail(t)), First(Tail(t)))
<1>1. Head(t) \in Order /\ Tail(t) \in Plan /\ First(t) = Head(t)
  BY HeadTailProperties DEF Plan, First
<1>2. t = <<Head(t)>> \o Tail(t)
  BY <1>1 DEF Plan
<1> DEFINE a == Head(t)  s == Tail(t)
<1>3. a \in Order /\ s \in Plan /\ t = <<a>> \o s
  BY <1>1, <1>2
<1> HIDE DEF a, s
<1>4. /\ Listed(t) = {a} \cup Listed(s)
      /\ \A purpose : InOrder(purpose, t) <=> InOrder(purpose, s) /\ Rule(purpose, a, Listed(s), First(s))
  BY <1>3, PlanCons
<1> QED  BY <1>1, <1>4 DEF a, s

\* A step that obeys its rule may go before operations in order.
LEMMA RuledCons ==
  ASSUME NEW a \in Order, NEW s \in Plan, NEW purpose, InOrder(purpose, s),
         Rule(purpose, a, Listed(s), First(s))
  PROVE  LET t == <<a>> \o s IN
         t \in Plan /\ Listed(t) = {a} \cup Listed(s) /\ First(t) = a /\ InOrder(purpose, t)
BY PlanCons

\* Where most steps ask for nothing.
Plain == {"doubt", "sure", "recovered", "sweep", "flushLedger", "flushBodies", "flushStages"}

LEMMA PlainCons ==
  ASSUME NEW a \in Plain, NEW s \in Plan
  PROVE  LET t == <<a>> \o s IN
         /\ t \in Plan /\ Listed(t) = {a} \cup Listed(s) /\ First(t) = a
         /\ \A purpose : InOrder(purpose, s) => InOrder(purpose, t)
<1>1. a \in Order
  BY DEF Plain, Order
<1>2. \A purpose : Rule(purpose, a, Listed(s), First(s))
  BY DEF Plain, Rule, Outside, Filling, Leasing
<1> QED  BY <1>1, <1>2, PlanCons

LEMMA BaselinePlan ==
  ASSUME NEW s \in Plan
  PROVE  /\ Baseline \o s \in Plan /\ First(Baseline \o s) = "doubt"
         /\ Listed(Baseline \o s) = {"doubt", "flushLedger", "flushBodies", "flushStages", "sure"} \cup Listed(s)
         /\ \A purpose : InOrder(purpose, s) => InOrder(purpose, Baseline \o s)
<1> DEFINE s1 == <<"sure">> \o s          s2 == <<"flushStages">> \o s1  s3 == <<"flushBodies">> \o s2
           s4 == <<"flushLedger">> \o s3  s5 == <<"doubt">> \o s4
<1>1. Baseline \o s = s5
  BY DEF Baseline, Plan
<1>2. /\ s1 \in Plan /\ Listed(s1) = {"sure"} \cup Listed(s)
      /\ \A purpose : InOrder(purpose, s) => InOrder(purpose, s1)
  BY PlainCons DEF Plain
<1> HIDE DEF s1
<1>3. /\ s2 \in Plan /\ Listed(s2) = {"flushStages"} \cup Listed(s1)
      /\ \A purpose : InOrder(purpose, s1) => InOrder(purpose, s2)
  BY <1>2, PlainCons DEF Plain
<1> HIDE DEF s2
<1>4. /\ s3 \in Plan /\ Listed(s3) = {"flushBodies"} \cup Listed(s2)
      /\ \A purpose : InOrder(purpose, s2) => InOrder(purpose, s3)
  BY <1>3, PlainCons DEF Plain
<1> HIDE DEF s3
<1>5. /\ s4 \in Plan /\ Listed(s4) = {"flushLedger"} \cup Listed(s3)
      /\ \A purpose : InOrder(purpose, s3) => InOrder(purpose, s4)
  BY <1>4, PlainCons DEF Plain
<1> HIDE DEF s4
<1>6. /\ s5 \in Plan /\ Listed(s5) = {"doubt"} \cup Listed(s4) /\ First(s5) = "doubt"
      /\ \A purpose : InOrder(purpose, s4) => InOrder(purpose, s5)
  BY <1>5, PlainCons DEF Plain
<1> HIDE DEF s5
<1> QED  BY <1>1, <1>2, <1>3, <1>4, <1>5, <1>6

LEMMA EmptyPlan == << >> \in Plan /\ Listed(<< >>) = {} /\ First(<< >>) = "end" /\ \A purpose : InOrder(purpose, << >>)
BY DEF Plan, Listed, First, InOrder

LEMMA DiscardPlan ==
  ASSUME NEW s \in Plan, NEW purpose, InOrder(purpose, s),
         Listed(s) \cap (Filling \cup Leasing) = {}
  PROVE  /\ Discard \o s \in Plan /\ First(Discard \o s) = "discard"
         /\ Listed(Discard \o s) = {"discard", "flushStages"} \cup Listed(s)
         /\ InOrder(purpose, Discard \o s)
<1> DEFINE s1 == <<"flushStages">> \o s  s2 == <<"discard">> \o s1
<1>1. Discard \o s = s2
  BY DEF Discard, Plan
<1>2. s1 \in Plan /\ Listed(s1) = {"flushStages"} \cup Listed(s) /\ First(s1) = "flushStages" /\ InOrder(purpose, s1)
  BY PlainCons DEF Plain
<1> HIDE DEF s1
<1>3. s2 \in Plan /\ Listed(s2) = {"discard"} \cup Listed(s1) /\ First(s2) = "discard" /\ InOrder(purpose, s2)
  <2>1. Rule(purpose, "discard", Listed(s1), First(s1))
    BY <1>2 DEF Rule, Outside, Filling, Leasing
  <2> QED  BY <2>1, <1>2, RuledCons DEF Order
<1> HIDE DEF s2
<1> QED  BY <1>1, <1>2, <1>3

LEMMA CommitPlan ==
  ASSUME NEW s \in Plan, NEW purpose, InOrder(purpose, s),
         Listed(s) \cap {"mutate", "read", "refer", "install", "moveLedger"} = {}
  PROVE  /\ CommitLedger \o s \in Plan /\ First(CommitLedger \o s) = "moveLedger"
         /\ Listed(CommitLedger \o s) = {"moveLedger", "flushLedger", "sure"} \cup Listed(s)
         /\ InOrder(purpose, CommitLedger \o s)
<1> DEFINE s1 == <<"sure">> \o s  s2 == <<"flushLedger">> \o s1  s3 == <<"moveLedger">> \o s2
<1>1. CommitLedger \o s = s3
  BY DEF CommitLedger, Plan
<1>2. s1 \in Plan /\ Listed(s1) = {"sure"} \cup Listed(s) /\ First(s1) = "sure" /\ InOrder(purpose, s1)
  BY PlainCons DEF Plain
<1> HIDE DEF s1
<1>3. s2 \in Plan /\ Listed(s2) = {"flushLedger"} \cup Listed(s1) /\ First(s2) = "flushLedger" /\ InOrder(purpose, s2)
  BY <1>2, PlainCons DEF Plain
<1> HIDE DEF s2
<1>4. s3 \in Plan /\ Listed(s3) = {"moveLedger"} \cup Listed(s2) /\ First(s3) = "moveLedger" /\ InOrder(purpose, s3)
  <2>1. Rule(purpose, "moveLedger", Listed(s2), First(s2))
    BY <1>2, <1>3 DEF Rule, Outside, Filling, Leasing
  <2> QED  BY <2>1, <1>3, RuledCons DEF Order
<1> HIDE DEF s3
<1> QED  BY <1>1, <1>2, <1>3, <1>4

LEMMA InstallPlan ==
  ASSUME NEW s \in Plan, NEW purpose, InOrder(purpose, s),
         Listed(s) \cap (Filling \cup Leasing \cup {"flushBodies"}) = {}
  PROVE  /\ InstallBody \o s \in Plan /\ First(InstallBody \o s) = "moveBody"
         /\ Listed(InstallBody \o s) = {"moveBody", "flushBodies", "flushStages", "sure", "discard", "refer"} \cup Listed(s)
         /\ InOrder(purpose, InstallBody \o s)
<1> DEFINE s1 == <<"refer">> \o s  s2 == <<"flushStages">> \o s1  s3 == <<"discard">> \o s2
           s4 == <<"sure">> \o s3  s5 == <<"flushStages">> \o s4  s6 == <<"flushBodies">> \o s5
           s7 == <<"moveBody">> \o s6
<1>1. InstallBody \o s = s7
  BY DEF InstallBody, Discard, Plan
<1>2. s1 \in Plan /\ Listed(s1) = {"refer"} \cup Listed(s) /\ First(s1) = "refer" /\ InOrder(purpose, s1)
  <2>1. Rule(purpose, "refer", Listed(s), First(s))
    BY DEF Rule, Outside, Filling, Leasing
  <2> QED  BY <2>1, RuledCons DEF Order
<1> HIDE DEF s1
<1>3. s2 \in Plan /\ Listed(s2) = {"flushStages"} \cup Listed(s1) /\ First(s2) = "flushStages" /\ InOrder(purpose, s2)
  BY <1>2, PlainCons DEF Plain
<1> HIDE DEF s2
<1>4. s3 \in Plan /\ Listed(s3) = {"discard"} \cup Listed(s2) /\ First(s3) = "discard" /\ InOrder(purpose, s3)
  <2>1. Rule(purpose, "discard", Listed(s2), First(s2))
    BY <1>2, <1>3 DEF Rule, Outside, Filling, Leasing
  <2> QED  BY <2>1, <1>3, RuledCons DEF Order
<1> HIDE DEF s3
<1>5. s4 \in Plan /\ Listed(s4) = {"sure"} \cup Listed(s3) /\ First(s4) = "sure" /\ InOrder(purpose, s4)
  BY <1>4, PlainCons DEF Plain
<1> HIDE DEF s4
<1>6. s5 \in Plan /\ Listed(s5) = {"flushStages"} \cup Listed(s4) /\ First(s5) = "flushStages" /\ InOrder(purpose, s5)
  BY <1>5, PlainCons DEF Plain
<1> HIDE DEF s5
<1>7. s6 \in Plan /\ Listed(s6) = {"flushBodies"} \cup Listed(s5) /\ First(s6) = "flushBodies" /\ InOrder(purpose, s6)
  BY <1>6, PlainCons DEF Plain
<1> HIDE DEF s6
<1>8. s7 \in Plan /\ Listed(s7) = {"moveBody"} \cup Listed(s6) /\ First(s7) = "moveBody" /\ InOrder(purpose, s7)
  <2>1. Rule(purpose, "moveBody", Listed(s6), First(s6))
    BY <1>2, <1>3, <1>4, <1>5, <1>6, <1>7 DEF Rule, Outside, Filling, Leasing
  <2> QED  BY <2>1, <1>7, RuledCons DEF Order
<1> HIDE DEF s7
<1> QED  BY <1>1, <1>2, <1>3, <1>4, <1>5, <1>6, <1>7, <1>8

LEMMA ReservePlan ==
  ASSUME NEW s \in Plan, NEW purpose, InOrder(purpose, s),
         {"write", "sync"} \subseteq Listed(s),
         Listed(s) \cap Leasing = {}
  PROVE  /\ Reserve \o s \in Plan /\ First(Reserve \o s) = "sweep"
         /\ Listed(Reserve \o s) = {"sweep", "flushStages"} \cup Leasing \cup Listed(s)
         /\ InOrder(purpose, Reserve \o s)
<1> DEFINE s1 == <<"flushStages">> \o s  s2 == <<"stage">> \o s1  s3 == <<"flushStages">> \o s2
           s4 == <<"syncLease">> \o s3  s5 == <<"writeLease">> \o s4  s6 == <<"lease">> \o s5
           s7 == <<"sweep">> \o s6
<1>1. Reserve \o s = s7
  BY DEF Reserve, Plan
<1>2. s1 \in Plan /\ Listed(s1) = {"flushStages"} \cup Listed(s) /\ First(s1) = "flushStages" /\ InOrder(purpose, s1)
  BY PlainCons DEF Plain
<1> HIDE DEF s1
<1>3. s2 \in Plan /\ Listed(s2) = {"stage"} \cup Listed(s1) /\ First(s2) = "stage" /\ InOrder(purpose, s2)
  <2>1. Rule(purpose, "stage", Listed(s1), First(s1))
    BY <1>2 DEF Rule, Outside, Filling, Leasing
  <2> QED  BY <2>1, <1>2, RuledCons DEF Order
<1> HIDE DEF s2
<1>4. s3 \in Plan /\ Listed(s3) = {"flushStages"} \cup Listed(s2) /\ First(s3) = "flushStages" /\ InOrder(purpose, s3)
  BY <1>3, PlainCons DEF Plain
<1> HIDE DEF s3
<1>5. s4 \in Plan /\ Listed(s4) = {"syncLease"} \cup Listed(s3) /\ First(s4) = "syncLease" /\ InOrder(purpose, s4)
  <2>1. Rule(purpose, "syncLease", Listed(s3), First(s3))
    BY <1>2, <1>3, <1>4 DEF Rule, Outside, Filling, Leasing
  <2> QED  BY <2>1, <1>4, RuledCons DEF Order
<1> HIDE DEF s4
<1>6. s5 \in Plan /\ Listed(s5) = {"writeLease"} \cup Listed(s4) /\ First(s5) = "writeLease" /\ InOrder(purpose, s5)
  <2>1. Rule(purpose, "writeLease", Listed(s4), First(s4))
    BY <1>2, <1>3, <1>4, <1>5 DEF Rule, Outside, Filling, Leasing
  <2> QED  BY <2>1, <1>5, RuledCons DEF Order
<1> HIDE DEF s5
<1>7. s6 \in Plan /\ Listed(s6) = {"lease"} \cup Listed(s5) /\ First(s6) = "lease" /\ InOrder(purpose, s6)
  <2>1. Rule(purpose, "lease", Listed(s5), First(s5))
    BY <1>2, <1>3, <1>4, <1>5, <1>6 DEF Rule, Outside, Filling, Leasing
  <2> QED  BY <2>1, <1>6, RuledCons DEF Order
<1> HIDE DEF s6
<1>8. s7 \in Plan /\ Listed(s7) = {"sweep"} \cup Listed(s6) /\ First(s7) = "sweep" /\ InOrder(purpose, s7)
  BY <1>7, PlainCons DEF Plain
<1> HIDE DEF s7
<1> QED  BY <1>1, <1>2, <1>3, <1>4, <1>5, <1>6, <1>7, <1>8 DEF Leasing

LEMMA StageBodyPlan ==
  ASSUME NEW s \in Plan, NEW purpose, InOrder(purpose, s),
         Listed(s) \cap ({"write", "sync"} \cup Leasing) = {},
         purpose = "apply" => First(s) = "mutate",
         purpose \in {"publish", "apply"}
  PROVE  /\ StageBody \o s \in Plan /\ First(StageBody \o s) = "write"
         /\ Listed(StageBody \o s) = {"write", "sync"} \cup Listed(s)
         /\ InOrder(purpose, StageBody \o s)
<1> DEFINE s1 == <<"sync">> \o s  s2 == <<"write">> \o s1
<1>1. StageBody \o s = s2
  BY DEF StageBody, Plan
<1>2. s1 \in Plan /\ Listed(s1) = {"sync"} \cup Listed(s) /\ First(s1) = "sync" /\ InOrder(purpose, s1)
  <2>1. Rule(purpose, "sync", Listed(s), First(s))
    BY DEF Rule, Outside, Filling, Leasing
  <2> QED  BY <2>1, RuledCons DEF Order
<1> HIDE DEF s1
<1>3. s2 \in Plan /\ Listed(s2) = {"write"} \cup Listed(s1) /\ First(s2) = "write" /\ InOrder(purpose, s2)
  <2>1. Rule(purpose, "write", Listed(s1), First(s1))
    BY <1>2 DEF Rule, Outside, Filling, Leasing
  <2> QED  BY <2>1, <1>2, RuledCons DEF Order
<1> HIDE DEF s2
<1> QED  BY <1>1, <1>2, <1>3

LEMMA ReleasePlan ==
  ASSUME NEW s \in Plan, NEW purpose, InOrder(purpose, s),
         Listed(s) \subseteq {"tell"},
         First(s) \in Outside(purpose),
         purpose = "speak" => "tell" \notin Listed(s)
  PROVE  /\ ReleaseStage \o s \in Plan /\ First(ReleaseStage \o s) = "lock"
         /\ Listed(ReleaseStage \o s) = {"lock", "discard", "flushStages", "unlock"} \cup Listed(s)
         /\ InOrder(purpose, ReleaseStage \o s)
<1> DEFINE s1 == <<"unlock">> \o s  s2 == <<"flushStages">> \o s1  s3 == <<"discard">> \o s2
           s4 == <<"lock">> \o s3
<1>1. ReleaseStage \o s = s4
  BY DEF ReleaseStage, Discard, Plan
<1>2. s1 \in Plan /\ Listed(s1) = {"unlock"} \cup Listed(s) /\ First(s1) = "unlock" /\ InOrder(purpose, s1)
  <2>1. Rule(purpose, "unlock", Listed(s), First(s))
    BY DEF Rule, Outside, Filling, Leasing
  <2> QED  BY <2>1, RuledCons DEF Order
<1> HIDE DEF s1
<1>3. s2 \in Plan /\ Listed(s2) = {"flushStages"} \cup Listed(s1) /\ First(s2) = "flushStages" /\ InOrder(purpose, s2)
  BY <1>2, PlainCons DEF Plain
<1> HIDE DEF s2
<1>4. s3 \in Plan /\ Listed(s3) = {"discard"} \cup Listed(s2) /\ First(s3) = "discard" /\ InOrder(purpose, s3)
  <2>1. Rule(purpose, "discard", Listed(s2), First(s2))
    BY <1>2, <1>3 DEF Rule, Outside, Filling, Leasing
  <2> QED  BY <2>1, <1>3, RuledCons DEF Order
<1> HIDE DEF s3
<1>5. s4 \in Plan /\ Listed(s4) = {"lock"} \cup Listed(s3) /\ First(s4) = "lock" /\ InOrder(purpose, s4)
  <2>1. Rule(purpose, "lock", Listed(s3), First(s3))
    BY <1>2, <1>3, <1>4 DEF Rule, Outside, Filling, Leasing
  <2> QED  BY <2>1, <1>4, RuledCons DEF Order
<1> HIDE DEF s4
<1> QED  BY <1>1, <1>2, <1>3, <1>4, <1>5

\* What comes before the read of the ledger.
LEMMA ReadPlan ==
  ASSUME NEW s \in Plan, NEW purpose, InOrder(purpose, s)
  PROVE  /\ Recovery \o s \in Plan /\ First(Recovery \o s) = "doubt"
         /\ Listed(Recovery \o s) = {"doubt", "flushLedger", "flushBodies", "flushStages", "sure", "sweep", "recovered"} \cup Listed(s)
         /\ InOrder(purpose, Recovery \o s)
<1> DEFINE s1 == <<"recovered">> \o s  s2 == <<"sweep">> \o s1  s3 == <<"sure">> \o s2
           s4 == <<"flushStages">> \o s3  s5 == <<"flushBodies">> \o s4  s6 == <<"flushLedger">> \o s5
           s7 == <<"doubt">> \o s6
<1>1. Recovery \o s = s7
  BY DEF Recovery, Baseline, Plan
<1>2. s1 \in Plan /\ Listed(s1) = {"recovered"} \cup Listed(s) /\ First(s1) = "recovered" /\ InOrder(purpose, s1)
  BY PlainCons DEF Plain
<1> HIDE DEF s1
<1>3. s2 \in Plan /\ Listed(s2) = {"sweep"} \cup Listed(s1) /\ First(s2) = "sweep" /\ InOrder(purpose, s2)
  BY <1>2, PlainCons DEF Plain
<1> HIDE DEF s2
<1>4. s3 \in Plan /\ Listed(s3) = {"sure"} \cup Listed(s2) /\ First(s3) = "sure" /\ InOrder(purpose, s3)
  BY <1>3, PlainCons DEF Plain
<1> HIDE DEF s3
<1>5. s4 \in Plan /\ Listed(s4) = {"flushStages"} \cup Listed(s3) /\ First(s4) = "flushStages" /\ InOrder(purpose, s4)
  BY <1>4, PlainCons DEF Plain
<1> HIDE DEF s4
<1>6. s5 \in Plan /\ Listed(s5) = {"flushBodies"} \cup Listed(s4) /\ First(s5) = "flushBodies" /\ InOrder(purpose, s5)
  BY <1>5, PlainCons DEF Plain
<1> HIDE DEF s5
<1>7. s6 \in Plan /\ Listed(s6) = {"flushLedger"} \cup Listed(s5) /\ First(s6) = "flushLedger" /\ InOrder(purpose, s6)
  BY <1>6, PlainCons DEF Plain
<1> HIDE DEF s6
<1>8. s7 \in Plan /\ Listed(s7) = {"doubt"} \cup Listed(s6) /\ First(s7) = "doubt" /\ InOrder(purpose, s7)
  BY <1>7, PlainCons DEF Plain
<1> HIDE DEF s7
<1> QED  BY <1>1, <1>2, <1>3, <1>4, <1>5, <1>6, <1>7, <1>8

LEMMA StepCons ==
  ASSUME NEW a \in Order, NEW s \in Plan, NEW purpose, InOrder(purpose, s), Rule(purpose, a, Listed(s), First(s))
  PROVE  /\ <<a>> \o s \in Plan /\ Listed(<<a>> \o s) = {a} \cup Listed(s)
         /\ First(<<a>> \o s) = a /\ InOrder(purpose, <<a>> \o s)
BY PlanCons

\* The three operations.
LEMMA PublishPlan ==
  /\ PublishSteps \in Plan /\ InOrder("publish", PublishSteps)
  /\ {"mutate", "lease", "moveLedger", "moveBody", "flushBodies"} \subseteq Listed(PublishSteps) /\ First(PublishSteps) = "mutate"
<1> USE EmptyPlan
<1> DEFINE s1 == <<"tell">> \o << >>  s2 == <<"unlock">> \o s1  s3 == CommitLedger \o s2
           s4 == InstallBody \o s3    s5 == StageBody \o s4     s6 == Reserve \o s5
           s7 == <<"mutate">> \o s6
<1>1. PublishSteps = s7
  BY DEF PublishSteps, Reserve, StageBody, InstallBody, Discard, CommitLedger
<1>2. s1 \in Plan /\ Listed(s1) = {"tell"} \cup Listed(<< >>) /\ First(s1) = "tell" /\ InOrder("publish", s1)
  <2>1. Rule("publish", "tell", Listed(<< >>), First(<< >>))
    BY DEF Rule, Outside, Filling, Leasing
  <2> QED  BY <2>1, StepCons DEF Order
<1> HIDE DEF s1
<1>3. s2 \in Plan /\ Listed(s2) = {"unlock"} \cup Listed(s1) /\ First(s2) = "unlock" /\ InOrder("publish", s2)
  <2>1. Rule("publish", "unlock", Listed(s1), First(s1))
    BY <1>2 DEF Rule, Outside, Filling, Leasing
  <2> QED  BY <1>2, <2>1, StepCons DEF Order
<1> HIDE DEF s2
<1>4. /\ s3 \in Plan /\ Listed(s3) = {"moveLedger", "flushLedger", "sure"} \cup Listed(s2)
      /\ First(s3) = "moveLedger" /\ InOrder("publish", s3)
  <2>1. Listed(s2) \cap {"mutate", "read", "refer", "install", "moveLedger"} = {}
    BY <1>2, <1>3
  <2> QED  BY <1>3, <2>1, CommitPlan
<1> HIDE DEF s3
<1>5. /\ s4 \in Plan /\ InOrder("publish", s4) /\ First(s4) = "moveBody"
      /\ Listed(s4) = {"moveBody", "flushBodies", "flushStages", "sure", "discard", "refer"} \cup Listed(s3)
  <2>1. Listed(s3) \cap (Filling \cup Leasing \cup {"flushBodies"}) = {}
    BY <1>2, <1>3, <1>4 DEF Filling, Leasing
  <2> QED  BY <1>4, <2>1, InstallPlan
<1> HIDE DEF s4
<1>6. /\ s5 \in Plan /\ Listed(s5) = {"write", "sync"} \cup Listed(s4) /\ InOrder("publish", s5)
      /\ First(s5) = "write"
  <2>1. Listed(s4) \cap ({"write", "sync"} \cup Leasing) = {}
    BY <1>2, <1>3, <1>4, <1>5 DEF Leasing
  <2> QED  BY <1>5, <2>1, StageBodyPlan
<1> HIDE DEF s5
<1>7. /\ s6 \in Plan /\ Listed(s6) = {"sweep", "flushStages"} \cup Leasing \cup Listed(s5)
      /\ InOrder("publish", s6) /\ First(s6) = "sweep"
  <2>1. Listed(s5) \cap Leasing = {}
    BY <1>2, <1>3, <1>4, <1>5, <1>6 DEF Leasing
  <2> QED  BY <1>6, <2>1, ReservePlan
<1> HIDE DEF s6
<1>8. s7 \in Plan /\ Listed(s7) = {"mutate"} \cup Listed(s6) /\ First(s7) = "mutate" /\ InOrder("publish", s7)
  <2>1. Rule("publish", "mutate", Listed(s6), First(s6))
    BY <1>2, <1>3, <1>4, <1>5, <1>6, <1>7 DEF Rule, Outside, Filling, Leasing
  <2> QED  BY <1>7, <2>1, StepCons DEF Order
<1> HIDE DEF s7
<1> QED  BY <1>1, <1>4, <1>5, <1>6, <1>7, <1>8 DEF Leasing

LEMMA ApplyPlan ==
  /\ ApplySteps \in Plan /\ InOrder("apply", ApplySteps)
  /\ {"mutate", "lease", "moveLedger"} \subseteq Listed(ApplySteps) /\ First(ApplySteps) = "mutate"
  /\ "refer" \notin Listed(ApplySteps)
<1> USE EmptyPlan
<1> DEFINE s1 == <<"tell">> \o << >>    s2 == ReleaseStage \o s1  s3 == <<"unlock">> \o s2
           s4 == CommitLedger \o s3     s5 == <<"install">> \o s4  s6 == <<"mutate">> \o s5
           s7 == StageBody \o s6        s8 == <<"unlock">> \o s7   s9 == Reserve \o s8
           s10 == <<"mutate">> \o s9
<1>1. ApplySteps = s10
  BY DEF ApplySteps, Reserve, StageBody, ReleaseStage, Discard, CommitLedger
<1>2. s1 \in Plan /\ Listed(s1) = {"tell"} \cup Listed(<< >>) /\ First(s1) = "tell" /\ InOrder("apply", s1)
  <2>1. Rule("apply", "tell", Listed(<< >>), First(<< >>))
    BY DEF Rule, Outside, Filling, Leasing
  <2> QED  BY <2>1, StepCons DEF Order
<1> HIDE DEF s1
<1>3. /\ s2 \in Plan /\ Listed(s2) = {"lock", "discard", "flushStages", "unlock"} \cup Listed(s1)
      /\ First(s2) = "lock" /\ InOrder("apply", s2)
  <2>1. First(s1) \in Outside("apply")
    BY <1>2 DEF Outside
  <2> QED  BY <1>2, <2>1, ReleasePlan
<1> HIDE DEF s2
<1>4. s3 \in Plan /\ Listed(s3) = {"unlock"} \cup Listed(s2) /\ First(s3) = "unlock" /\ InOrder("apply", s3)
  <2>1. Rule("apply", "unlock", Listed(s2), First(s2))
    BY <1>2, <1>3 DEF Rule, Outside, Filling, Leasing
  <2> QED  BY <1>3, <2>1, StepCons DEF Order
<1> HIDE DEF s3
<1>5. /\ s4 \in Plan /\ Listed(s4) = {"moveLedger", "flushLedger", "sure"} \cup Listed(s3)
      /\ First(s4) = "moveLedger" /\ InOrder("apply", s4)
  <2>1. Listed(s3) \cap {"mutate", "read", "refer", "install", "moveLedger"} = {}
    BY <1>2, <1>3, <1>4
  <2> QED  BY <1>4, <2>1, CommitPlan
<1> HIDE DEF s4
<1>6. s5 \in Plan /\ Listed(s5) = {"install"} \cup Listed(s4) /\ First(s5) = "install" /\ InOrder("apply", s5)
  <2>1. Rule("apply", "install", Listed(s4), First(s4))
    BY <1>2, <1>3, <1>4, <1>5 DEF Rule, Outside, Filling, Leasing
  <2> QED  BY <1>5, <2>1, StepCons DEF Order
<1> HIDE DEF s5
<1>7. s6 \in Plan /\ Listed(s6) = {"mutate"} \cup Listed(s5) /\ First(s6) = "mutate" /\ InOrder("apply", s6)
  <2>1. Rule("apply", "mutate", Listed(s5), First(s5))
    BY <1>2, <1>3, <1>4, <1>5, <1>6 DEF Rule, Outside, Filling, Leasing
  <2> QED  BY <1>6, <2>1, StepCons DEF Order
<1> HIDE DEF s6
<1>8. /\ s7 \in Plan /\ Listed(s7) = {"write", "sync"} \cup Listed(s6) /\ InOrder("apply", s7)
      /\ First(s7) = "write"
  <2>1. Listed(s6) \cap ({"write", "sync"} \cup Leasing) = {}
    BY <1>2, <1>3, <1>4, <1>5, <1>6, <1>7 DEF Leasing
  <2> QED  BY <1>7, <2>1, StageBodyPlan
<1> HIDE DEF s7
<1>9. s8 \in Plan /\ Listed(s8) = {"unlock"} \cup Listed(s7) /\ First(s8) = "unlock" /\ InOrder("apply", s8)
  <2>1. Rule("apply", "unlock", Listed(s7), First(s7))
    BY <1>2, <1>3, <1>4, <1>5, <1>6, <1>7, <1>8 DEF Rule, Outside, Filling, Leasing
  <2> QED  BY <1>8, <2>1, StepCons DEF Order
<1> HIDE DEF s8
<1>10. /\ s9 \in Plan /\ Listed(s9) = {"sweep", "flushStages"} \cup Leasing \cup Listed(s8)
       /\ InOrder("apply", s9) /\ First(s9) = "sweep"
  <2>1. Listed(s8) \cap Leasing = {}
    BY <1>2, <1>3, <1>4, <1>5, <1>6, <1>7, <1>8, <1>9 DEF Leasing
  <2> QED  BY <1>8, <1>9, <2>1, ReservePlan
<1> HIDE DEF s9
<1>11. s10 \in Plan /\ Listed(s10) = {"mutate"} \cup Listed(s9) /\ First(s10) = "mutate" /\ InOrder("apply", s10)
  <2>1. Rule("apply", "mutate", Listed(s9), First(s9))
    BY <1>2, <1>3, <1>4, <1>5, <1>6, <1>7, <1>8, <1>9, <1>10 DEF Rule, Outside, Filling, Leasing
  <2> QED  BY <1>10, <2>1, StepCons DEF Order
<1> HIDE DEF s10
<1> QED  BY <1>1, <1>2, <1>3, <1>4, <1>5, <1>6, <1>7, <1>8, <1>9, <1>10, <1>11 DEF Leasing

LEMMA SpeakPlan ==
  /\ SpeakSteps \in Plan /\ InOrder("speak", SpeakSteps) /\ First(SpeakSteps) = "mutate"
  /\ Listed(SpeakSteps) = {"mutate", "tell", "unlock", "doubt", "flushLedger", "flushBodies", "flushStages", "sure"}
<1> USE EmptyPlan
<1> DEFINE s1 == <<"unlock">> \o << >>  s2 == <<"tell">> \o s1  s3 == Baseline \o s2  s4 == <<"mutate">> \o s3
<1>1. SpeakSteps = s4
  BY DEF SpeakSteps, Baseline
<1>2. s1 \in Plan /\ Listed(s1) = {"unlock"} \cup Listed(<< >>) /\ First(s1) = "unlock" /\ InOrder("speak", s1)
  <2>1. Rule("speak", "unlock", Listed(<< >>), First(<< >>))
    BY DEF Rule, Outside, Filling, Leasing
  <2> QED  BY <2>1, StepCons DEF Order
<1> HIDE DEF s1
<1>3. s2 \in Plan /\ Listed(s2) = {"tell"} \cup Listed(s1) /\ First(s2) = "tell" /\ InOrder("speak", s2)
  <2>1. Rule("speak", "tell", Listed(s1), First(s1))
    BY <1>2 DEF Rule, Outside, Filling, Leasing
  <2> QED  BY <1>2, <2>1, StepCons DEF Order
<1> HIDE DEF s2
<1>4. /\ s3 \in Plan /\ InOrder("speak", s3) /\ First(s3) = "doubt"
      /\ Listed(s3) = {"doubt", "flushLedger", "flushBodies", "flushStages", "sure"} \cup Listed(s2)
  BY <1>3, BaselinePlan
<1> HIDE DEF s3
<1>5. s4 \in Plan /\ Listed(s4) = {"mutate"} \cup Listed(s3) /\ First(s4) = "mutate" /\ InOrder("speak", s4)
  <2>1. Rule("speak", "mutate", Listed(s3), First(s3))
    BY <1>2, <1>3, <1>4 DEF Rule, Outside, Filling, Leasing
  <2> QED  BY <1>4, <2>1, StepCons DEF Order
<1> HIDE DEF s4
<1> QED  BY <1>1, <1>2, <1>3, <1>4, <1>5

-----------------------------------------------------------------------------
\* The next step is taken.
LEMMA ProceedsPlan ==
  ASSUME StoreForm, NEW u \in User, left[u] # << >>, Proceeds(u), InOrder(job[u].kind, left[u])
  PROVE  /\ left' \in [User -> Plan] /\ left'[u] = Tail(left[u]) /\ \A w \in User \ {u} : left'[w] = left[w]
         /\ Head(left[u]) \in Order /\ First(left[u]) = Head(left[u])
         /\ Listed(left[u]) = {Head(left[u])} \cup Listed(left'[u])
         /\ InOrder(job[u].kind, left'[u])
         /\ Rule(job[u].kind, Head(left[u]), Listed(left'[u]), First(left'[u]))
<1>1. left \in [User -> Plan] /\ left[u] \in Plan
  BY DEF StoreForm
<1>2. Tail(left[u]) \in Plan
  BY <1>1, PlanTail
<1>3. /\ left' \in [User -> Plan] /\ left'[u] = Tail(left[u]) /\ \A w \in User \ {u} : left'[w] = left[w]
  BY <1>1, <1>2 DEF Proceeds, Follow
<1> QED  BY <1>1, <1>3, PlanTail

\* A step throws: what is left gives back the stage, if there is one, and the lock.
LEMMA ThrowsPlan ==
  ASSUME StoreForm, NEW u \in User, left[u] # << >>, Throws(u)
  PROVE  /\ left' \in [User -> Plan] /\ \A w \in User \ {u} : left'[w] = left[w]
         /\ Listed(left'[u]) \subseteq {"unlock", "lock", "discard", "flushStages"}
         /\ InOrder(job[u].kind, left'[u])
         /\ First(left'[u]) \notin Outside(job[u].kind) => locked = u
<1> DEFINE k == job[u].kind  spare == {"unlock", "lock", "discard", "flushStages"}
           sound(s) == /\ s \in Plan /\ Listed(s) \subseteq spare /\ InOrder(k, s)
                       /\ First(s) \notin Outside(k) => locked = u
<1>1. PICK inner \in {Discard, << >>}, transfer \in {ReleaseStage, << >>} :
        /\ Finally(u) = inner \o (IF locked = u THEN <<"unlock">> ELSE << >>) \o transfer
        /\ inner = Discard => locked = u
  <2> DEFINE owns == "stage" \in Ahead(u) => At(u, "stage")
             filling == "write" \in Ahead(u) /\ locked = u
             inner == IF owns /\ locked = u /\ (filling \/ Installing(u)) THEN Discard ELSE << >>
             transfer == IF owns /\ "lock" \in Ahead(u) /\ ~filling THEN ReleaseStage ELSE << >>
  <2>1. Finally(u) = inner \o (IF locked = u THEN <<"unlock">> ELSE << >>) \o transfer
    BY DEF Finally
  <2>2. inner \in {Discard, << >>} /\ transfer \in {ReleaseStage, << >>} /\ (inner = Discard => locked = u)
    BY DEF Discard
  <2> HIDE DEF inner, transfer
  <2> QED  BY <2>1, <2>2
<1>2. ReleaseStage \o << >> = ReleaseStage /\ \A s \in Plan : << >> \o s = s
  BY DEF ReleaseStage, Discard, Plan
<1>3. /\ sound(transfer) /\ First(transfer) \in {"lock", "end"}
  <2>1. First(<< >>) \in Outside(k) /\ Listed(<< >>) = {}
    BY EmptyPlan DEF Outside
  <2>2. /\ ReleaseStage \o << >> \in Plan /\ InOrder(k, ReleaseStage \o << >>)
        /\ Listed(ReleaseStage \o << >>) = {"lock", "discard", "flushStages", "unlock"} \cup {}
        /\ First(ReleaseStage \o << >>) = "lock"
    BY <2>1, EmptyPlan, ReleasePlan
  <2> QED  BY <1>2, <2>1, <2>2, EmptyPlan DEF Outside
<1> DEFINE after == (IF locked = u THEN <<"unlock">> ELSE << >>) \o transfer
<1>4. sound(after)
  <2>1. CASE locked # u
    BY <1>2, <1>3, <2>1
  <2>2. CASE locked = u
    <3>1. Rule(k, "unlock", Listed(transfer), First(transfer)) /\ "unlock" \in Order
      BY <1>3 DEF Rule, Outside, Filling, Leasing, Order
    <3>2. /\ <<"unlock">> \o transfer \in Plan /\ InOrder(k, <<"unlock">> \o transfer)
          /\ Listed(<<"unlock">> \o transfer) = {"unlock"} \cup Listed(transfer)
      BY <1>3, <3>1, StepCons
    <3> QED  BY <1>3, <2>2, <3>2
  <2> QED  BY <2>1, <2>2
<1>5. Finally(u) = inner \o after
  <2>1. ASSUME NEW unlock \in {<<"unlock">>, << >>} PROVE inner \o unlock \o transfer = inner \o (unlock \o transfer)
    BY DEF Discard, ReleaseStage
  <2> QED  BY <1>1, <2>1
<1> HIDE DEF after
<1>6. sound(Finally(u))
  <2>1. CASE inner = << >>
    BY <1>2, <1>4, <1>5, <2>1
  <2>2. CASE inner = Discard
    <3>1. Listed(after) \cap (Filling \cup Leasing) = {}
      BY <1>4 DEF Filling, Leasing
    <3>2. /\ Discard \o after \in Plan /\ InOrder(k, Discard \o after)
          /\ Listed(Discard \o after) = {"discard", "flushStages"} \cup Listed(after)
      BY <1>4, <3>1, DiscardPlan
    <3> QED  BY <1>1, <1>4, <1>5, <2>2, <3>2
  <2> QED  BY <2>1, <2>2
<1> QED  BY <1>6 DEF Throws, Follow, StoreForm

-----------------------------------------------------------------------------
\* What no step takes back.
Grown ==
  /\ \A f \in Name : Safe(f) => Safe(f)'
  /\ \A f \in bodies : f \in bodies' /\ (content[f] = "synced" => content'[f] = "synced")
  /\ \A d \in Held : ledger[d] # Nothing => ledger'[d] # Nothing
  /\ \A v \in ledgerDisk' : v \in ledgerDisk \/ \A d \in Held : ledger[d] # Nothing => v[d] # Nothing

\* What is left alone of the file of an operation.
Spared(w) ==
  Keeps(w) => /\ Keeps(w)' /\ lease'[job[w].file] = lease[job[w].file]
              /\ job[w].file \in staging.stages => job[w].file \in staging'.stages
              /\ content[job[w].file] = "synced" => content'[job[w].file] = "synced"

LEMMA StageStays ==
  ASSUME NEW w \in User, StageOf(w), Spared(w), job'[w].file = job[w].file,
         Among(w)' \cap (Filling \cup Leasing) \subseteq Among(w),
         Among(w) \cap (Leasing \cup {"sync"}) \subseteq Among(w)'
  PROVE  StageOf(w)'
BY DEF StageOf, Spared, Filling, Leasing

LEMMA BodyStays ==
  ASSUME NEW w \in User, StoreForm, BodyOf(w), Grown, job'[w].file = job[w].file,
         "refer" \in Among(w)' => "refer" \in Among(w),
         Among(w) \cap {"moveBody", "flushBodies"} \subseteq Among(w)'
  PROVE  BodyOf(w)'
BY DEF BodyOf, Grown, StoreForm, Safe

LEMMA CopyStays ==
  ASSUME NEW w \in User, StoreForm, CopyOf(w), Grown, job'[w] = job[w],
         Among(w)' \cap {"moveLedger", "tell"} \subseteq Among(w),
         Past(w, {"mutate", "read"})' => Past(w, {"mutate", "read"}),
         Among(w) \cap {"refer", "install", "flushLedger"} \subseteq Among(w)',
         Copied(w) /\ "mutate" \notin Among(w) => ledger' = ledger
  PROVE  CopyOf(w)'
BY DEF CopyOf, Grown, StoreForm, JobRecord, Copied, Past

LEMMA TellsStays ==
  ASSUME NEW w \in User, StoreForm, PlanOf(w), TellsOf(w), Grown,
         job'[w].kind = job[w].kind, job'[w].doc = job[w].doc,
         "tell" \in Among(w)' => "tell" \in Among(w),
         Among(w) \cap {"moveLedger", "flushLedger"} \subseteq Among(w)'
  PROVE  TellsOf(w)'
BY DEF TellsOf, PlanOf, Grown, StoreForm

LEMMA OthersStay ==
  ASSUME NEW w \in User, StoreForm, OperationIsSound(w), Grown, Spared(w), job'[w] = job[w], left'[w] = left[w],
         locked = w => locked' = w,
         locked = w => ledger' = ledger
  PROVE  OperationIsSound(w)'
<1>1. Among(w)' = Among(w)
  BY DEF Among
<1>2. StageOf(w)' /\ BodyOf(w)' /\ TellsOf(w)'
  BY <1>1, StageStays, BodyStays, TellsStays DEF OperationIsSound
<1>3. LockOf(w)' /\ PlanOf(w)'
  BY <1>1 DEF OperationIsSound, LockOf, PlanOf, Copied
<1>4. CopyOf(w)'
  BY <1>1, CopyStays DEF OperationIsSound, LockOf, Past
<1> QED  BY <1>2, <1>3, <1>4 DEF OperationIsSound

\* What the others find after a step of u.
Apart(u) ==
  \A w \in User \ {u} :
    /\ Spared(w) /\ job'[w] = job[w] /\ left'[w] = left[w]
    /\ job'[u].file \in {job[u].file, Nothing} \/ job'[u].file # job[w].file
    /\ locked = w => locked' = w /\ ledger' = ledger

LEMMA Assembled ==
  ASSUME StoreInv, NEW u \in User, StoreForm', Grown, Apart(u), OperationIsSound(u)',
         StagesLeased', BodiesSurvive', ToldIsKept'
  PROVE  StoreInv'
<1>1. ASSUME NEW w \in User \ {u} PROVE OperationIsSound(w)'
  BY <1>1, OthersStay DEF StoreInv, Apart
<1>2. FilesApart'
  BY DEF StoreInv, Apart, FilesApart
<1> QED  BY <1>1, <1>2 DEF StoreInv

\* A step that changes no file.
LEMMA FilesStay ==
  ASSUME StoreInv, NEW u \in User, UNCHANGED <<ledgerFile, bodyFiles, stageFiles, content>>
  PROVE  /\ Grown /\ StagesLeased' /\ BodiesSurvive' /\ (told' = told => ToldIsKept')
         /\ \A w \in User : job'[w].file = job[w].file => Spared(w)
         /\ ledger' = ledger /\ ledgerDisk' = ledgerDisk /\ bodies' = bodies /\ bodiesDisk' = bodiesDisk
         /\ staging' = staging /\ stagingDisk' = stagingDisk /\ lease' = lease /\ lessee' = lessee /\ content' = content
<1>1. /\ ledger' = ledger /\ ledgerDisk' = ledgerDisk /\ bodies' = bodies /\ bodiesDisk' = bodiesDisk
      /\ staging' = staging /\ stagingDisk' = stagingDisk /\ lease' = lease /\ lessee' = lessee /\ content' = content
  BY DEF ledgerFile, bodyFiles, stageFiles
<1>2. StagesLeased /\ BodiesSurvive /\ ToldIsKept
  BY DEF StoreInv
<1>3. StagesLeased' /\ BodiesSurvive' /\ (told' = told => ToldIsKept')
  BY <1>1, <1>2 DEF StagesLeased, BodiesSurvive, ToldIsKept, Referenced
<1>4. Grown
  BY <1>1 DEF Grown, Safe
<1>5. \A w \in User : job'[w].file = job[w].file => Spared(w)
  BY <1>1 DEF Spared, Keeps
<1> QED  BY <1>1, <1>3, <1>4, <1>5

\* A step that nothing relies on.
LEMMA PlainStep ==
  ASSUME StoreInv, NEW u \in User, left[u] # << >>, Proceeds(u), job'[u] = job[u], Grown, Spared(u),
         Head(left[u]) \in {"doubt", "sure", "recovered", "sweep", "flushStages"},
         locked' = locked, ledger' = ledger
  PROVE  OperationIsSound(u)'
<1> DEFINE h == Head(left[u])
<1>1. StoreForm /\ OperationIsSound(u)
  BY DEF StoreInv
<1>2. First(left[u]) = h /\ Among(u) = {h} \cup Among(u)' /\ InOrder(job[u].kind, left'[u])
  BY <1>1, ProceedsPlan DEF OperationIsSound, PlanOf, Among
<1>3. StageOf(u)'
  BY <1>1, <1>2, StageStays DEF OperationIsSound, Filling, Leasing
<1>4. BodyOf(u)'
  BY <1>1, <1>2, BodyStays DEF OperationIsSound
<1>5. CopyOf(u)'
  BY <1>1, <1>2, CopyStays DEF OperationIsSound, Past
<1>6. TellsOf(u)'
  BY <1>1, <1>2, TellsStays DEF OperationIsSound
<1>7. PlanOf(u)' /\ LockOf(u)'
  BY <1>1, <1>2 DEF OperationIsSound, PlanOf, LockOf, Copied, Outside
<1> QED  BY <1>3, <1>4, <1>5, <1>6, <1>7 DEF OperationIsSound

\* A step that throws.
LEMMA ThrowsStep ==
  ASSUME StoreInv, NEW u \in User, left[u] # << >>, Throws(u), locked' = locked, job'[u].kind = job[u].kind
  PROVE  /\ OperationIsSound(u)'
         /\ left' \in [User -> Plan] /\ \A w \in User \ {u} : left'[w] = left[w]
<1>1. StoreForm
  BY DEF StoreInv
<1>2. /\ left' \in [User -> Plan] /\ \A w \in User \ {u} : left'[w] = left[w]
      /\ Among(u)' \subseteq {"unlock", "lock", "discard", "flushStages"}
      /\ InOrder(job[u].kind, left'[u])
      /\ First(left'[u]) \notin Outside(job[u].kind) => locked = u
  BY <1>1, ThrowsPlan DEF Among
<1>3. StageOf(u)'
  BY <1>2 DEF StageOf, Filling
<1>4. BodyOf(u)' /\ CopyOf(u)' /\ TellsOf(u)'
  BY <1>2 DEF BodyOf, CopyOf, TellsOf
<1>5. PlanOf(u)' /\ LockOf(u)'
  BY <1>2 DEF PlanOf, LockOf, Copied
<1> QED  BY <1>2, <1>3, <1>4, <1>5 DEF OperationIsSound

LEMMA SetFlagStep ==
  ASSUME StoreInv, NEW u \in User, SetFlag(u)
  PROVE  StoreInv'
<1>1. /\ Head(left[u]) \in {"doubt", "sure", "recovered"} /\ left[u] # << >> /\ Proceeds(u)
      /\ UNCHANGED <<ledgerFile, bodyFiles, stageFiles, content>> /\ told' = told /\ job' = job /\ locked' = locked
  BY DEF SetFlag, At
<1>2. /\ Grown /\ StagesLeased' /\ BodiesSurvive' /\ ToldIsKept' /\ \A w \in User : Spared(w)
      /\ ledger' = ledger
  BY <1>1, FilesStay
<1>3. StoreForm /\ InOrder(job[u].kind, left[u])
  BY DEF StoreInv, OperationIsSound, PlanOf
<1>4. left' \in [User -> Plan] /\ \A w \in User \ {u} : left'[w] = left[w]
  BY <1>1, <1>3, ProceedsPlan
<1>5. StoreForm'
  BY <1>1, <1>3, <1>4, FilesStay DEF StoreForm
<1>6. Apart(u)
  BY <1>1, <1>2, <1>4 DEF Apart
<1>7. OperationIsSound(u)'
  BY <1>1, <1>2, PlainStep
<1> QED  BY <1>2, <1>5, <1>6, <1>7, Assembled

LEMMA RefuseReservationStep ==
  ASSUME StoreInv, NEW u \in User, RefuseReservation(u)
  PROVE  StoreInv'
<1>1. /\ Head(left[u]) = "lease" /\ left[u] # << >> /\ Throws(u)
      /\ UNCHANGED <<ledgerFile, bodyFiles, stageFiles, content>> /\ told' = told /\ job' = job /\ locked' = locked
  BY DEF RefuseReservation, At, flags
<1>2. /\ Grown /\ StagesLeased' /\ BodiesSurvive' /\ ToldIsKept' /\ \A w \in User : Spared(w)
      /\ ledger' = ledger
  BY <1>1, FilesStay
<1>3. StoreForm
  BY DEF StoreInv
<1>4. OperationIsSound(u)' /\ left' \in [User -> Plan] /\ \A w \in User \ {u} : left'[w] = left[w]
  BY <1>1, <1>2, ThrowsStep
<1>5. StoreForm'
  BY <1>1, <1>3, <1>4, FilesStay DEF StoreForm
<1>6. Apart(u)
  BY <1>1, <1>2, <1>4 DEF Apart
<1> QED  BY <1>2, <1>4, <1>5, <1>6, Assembled

LEMMA StepFailsStep ==
  ASSUME StoreInv, NEW u \in User, StepFails(u)
  PROVE  StoreInv'
<1>1. /\ left[u] # << >> /\ Throws(u)
      /\ UNCHANGED <<ledgerFile, bodyFiles, stageFiles, content>> /\ told' = told /\ job' = job /\ locked' = locked
  BY DEF StepFails
<1>2. /\ Grown /\ StagesLeased' /\ BodiesSurvive' /\ ToldIsKept' /\ \A w \in User : Spared(w)
      /\ ledger' = ledger
  BY <1>1, FilesStay
<1>3. StoreForm
  BY DEF StoreInv
<1>4. OperationIsSound(u)' /\ left' \in [User -> Plan] /\ \A w \in User \ {u} : left'[w] = left[w]
  BY <1>1, <1>2, ThrowsStep
<1>5. StoreForm'
  BY <1>1, <1>3, <1>4, FilesStay DEF StoreForm
<1>6. Apart(u)
  BY <1>1, <1>2, <1>4 DEF Apart
<1> QED  BY <1>2, <1>4, <1>5, <1>6, Assembled

LEMMA LockOrUnlockStep ==
  ASSUME StoreInv, NEW u \in User, LockOrUnlock(u)
  PROVE  StoreInv'
<1> DEFINE h == Head(left[u])
<1>1. /\ h \in {"lock", "unlock"} /\ left[u] # << >> /\ Proceeds(u)
      /\ h = "lock" => locked = Nothing /\ locked' = u
      /\ h = "unlock" => locked' = Nothing
      /\ UNCHANGED <<ledgerFile, bodyFiles, stageFiles, content>> /\ told' = told /\ job' = job
  BY DEF LockOrUnlock, At
<1>2. /\ Grown /\ StagesLeased' /\ BodiesSurvive' /\ ToldIsKept' /\ \A w \in User : Spared(w)
      /\ ledger' = ledger
  BY <1>1, FilesStay
<1>3. StoreForm /\ OperationIsSound(u)
  BY DEF StoreInv
<1>4. /\ left' \in [User -> Plan] /\ \A w \in User \ {u} : left'[w] = left[w]
      /\ First(left[u]) = h /\ Among(u) = {h} \cup Among(u)' /\ InOrder(job[u].kind, left'[u])
      /\ Rule(job[u].kind, h, Among(u)', First(left'[u]))
  BY <1>1, <1>3, ProceedsPlan DEF OperationIsSound, PlanOf, Among
<1>5. StoreForm'
  BY <1>1, <1>3, <1>4, FilesStay DEF StoreForm
<1>6. h = "unlock" => locked = u
  BY <1>3, <1>4 DEF OperationIsSound, LockOf, Outside
<1>7. Apart(u)
  BY <1>1, <1>2, <1>4, <1>6, DurableAssumption DEF Apart
<1>8. StageOf(u)'
  BY <1>1, <1>2, <1>3, <1>4, StageStays DEF OperationIsSound, Filling, Leasing
<1>9. BodyOf(u)'
  BY <1>1, <1>2, <1>3, <1>4, BodyStays DEF OperationIsSound
<1>10. CopyOf(u)'
  BY <1>1, <1>2, <1>3, <1>4, CopyStays DEF OperationIsSound, Past
<1>11. TellsOf(u)'
  BY <1>1, <1>2, <1>3, <1>4, TellsStays DEF OperationIsSound
<1>12. PlanOf(u)'
  BY <1>1, <1>3, <1>4 DEF OperationIsSound, PlanOf
<1>13. LockOf(u)'
  <2>1. CASE h = "lock"
    BY <1>1, <2>1 DEF LockOf
  <2>2. CASE h = "unlock"
    BY <1>1, <1>4, <2>2 DEF LockOf, Copied, Rule
  <2> QED  BY <1>1, <2>1, <2>2
<1> QED  BY <1>2, <1>5, <1>7, <1>8, <1>9, <1>10, <1>11, <1>12, <1>13, Assembled DEF OperationIsSound

LEMMA MutateStep ==
  ASSUME StoreInv, NEW u \in User, Mutate(u)
  PROVE  StoreInv'
<1>1. /\ Head(left[u]) = "mutate" /\ left[u] # << >> /\ locked = Nothing
      /\ UNCHANGED <<ledgerFile, bodyFiles, stageFiles, content>> /\ told' = told /\ job' = job
      /\ \/ Throws(u) /\ locked' = locked
         \/ /\ locked' = u
            /\ \/ Follow(u, <<"read">> \o Tail(left[u]))
               \/ Follow(u, Recovery \o <<"read">> \o Tail(left[u]))
  <2>1. left[u] # << >> /\ left \in [User -> Plan]
    BY DEF Mutate, At, StoreInv, StoreForm
  <2>2. << >> \o <<"read">> \o Tail(left[u]) = <<"read">> \o Tail(left[u])
    BY <2>1 DEF Plan
  <2> QED  BY <2>1, <2>2 DEF Mutate, At
<1>2. /\ Grown /\ StagesLeased' /\ BodiesSurvive' /\ ToldIsKept' /\ \A w \in User : Spared(w)
      /\ ledger' = ledger
  BY <1>1, FilesStay
<1>3. StoreForm /\ OperationIsSound(u) /\ left \in [User -> Plan]
  BY DEF StoreInv, StoreForm
<1>4. CASE Throws(u) /\ locked' = locked
  <2>1. OperationIsSound(u)' /\ left' \in [User -> Plan] /\ \A w \in User \ {u} : left'[w] = left[w]
    BY <1>1, <1>2, <1>4, ThrowsStep
  <2>2. StoreForm'
    BY <1>1, <1>3, <1>4, <2>1, FilesStay DEF StoreForm
  <2>3. Apart(u)
    BY <1>1, <1>2, <1>4, <2>1 DEF Apart
  <2> QED  BY <1>2, <2>1, <2>2, <2>3, Assembled
<1>5. CASE /\ locked' = u
           /\ \/ Follow(u, <<"read">> \o Tail(left[u]))
              \/ Follow(u, Recovery \o <<"read">> \o Tail(left[u]))
  <2> DEFINE k == job[u].kind  t == Tail(left[u])  r == <<"read">> \o t
  <2>1. /\ t \in Plan /\ Among(u) = {"mutate"} \cup Listed(t) /\ InOrder(k, t)
        /\ Rule(k, "mutate", Listed(t), First(t))
    BY <1>1, <1>3, PlanTail DEF OperationIsSound, PlanOf, Among
  <2> HIDE DEF t
  <2>2. r \in Plan /\ Listed(r) = {"read"} \cup Listed(t) /\ InOrder(k, r)
    <3>1. Rule(k, "read", Listed(t), First(t))
      BY <2>1 DEF Rule, Outside, Filling, Leasing
    <3> QED  BY <2>1, <3>1, StepCons DEF Order
  <2>3. Recovery \o <<"read">> \o t = Recovery \o r
    BY <2>1 DEF Plan, Recovery, Baseline
  <2> HIDE DEF r
  <2>4. /\ Recovery \o r \in Plan /\ InOrder(k, Recovery \o r)
        /\ Listed(Recovery \o r) =
             {"doubt", "flushLedger", "flushBodies", "flushStages", "sure", "sweep", "recovered"} \cup Listed(r)
    BY <2>2, ReadPlan
  <2>5. /\ left' \in [User -> Plan] /\ \A w \in User \ {u} : left'[w] = left[w]
        /\ left'[u] = r \/ left'[u] = Recovery \o r
    BY <1>3, <1>5, <2>2, <2>3, <2>4 DEF Follow, r, t
  <2>6. /\ InOrder(k, left'[u]) /\ Listed(t) \subseteq Among(u)' /\ "read" \in Among(u)'
        /\ Among(u)' \subseteq Listed(t) \cup Plain \cup {"read"}
    BY <2>2, <2>4, <2>5 DEF Plain, Among
  <2>7. StoreForm'
    BY <1>1, <1>3, <1>5, <2>5, FilesStay DEF StoreForm
  <2>8. Apart(u)
    BY <1>1, <1>2, <2>5, DurableAssumption DEF Apart
  <2>9. StageOf(u)'
    BY <1>1, <1>2, <1>3, <2>1, <2>6, StageStays DEF OperationIsSound, Filling, Leasing, Plain
  <2>10. BodyOf(u)'
    BY <1>1, <1>2, <1>3, <2>1, <2>6, BodyStays DEF OperationIsSound, Plain
  <2>11. CopyOf(u)'
    BY <2>6 DEF CopyOf, Past
  <2>12. TellsOf(u)'
    BY <1>1, <1>2, <1>3, <2>1, <2>6, TellsStays DEF OperationIsSound, Plain
  <2>13. PlanOf(u)'
    BY <1>1, <1>3, <2>1, <2>6 DEF OperationIsSound, PlanOf, Plain
  <2>14. LockOf(u)'
    BY <1>5 DEF LockOf
  <2> QED  BY <1>2, <2>7, <2>8, <2>9, <2>10, <2>11, <2>12, <2>13, <2>14, Assembled DEF OperationIsSound
<1> QED  BY <1>1, <1>4, <1>5

LEMMA ReadLedgerStep ==
  ASSUME StoreInv, NEW u \in User, ReadLedger(u)
  PROVE  StoreInv'
<1>1. /\ Head(left[u]) = "read" /\ left[u] # << >> /\ (Throws(u) \/ Proceeds(u))
      /\ UNCHANGED <<ledgerFile, bodyFiles, stageFiles, content>> /\ told' = told /\ locked' = locked
      /\ job' = [job EXCEPT ![u].copy = ledger]
  BY DEF ReadLedger, At, flags
<1>2. StoreForm /\ OperationIsSound(u)
  BY DEF StoreInv
<1>3. /\ job'[u].kind = job[u].kind /\ job'[u].doc = job[u].doc /\ job'[u].file = job[u].file
      /\ job'[u].copy = ledger /\ \A w \in User \ {u} : job'[w] = job[w]
  BY <1>1, <1>2 DEF StoreForm, JobRecord
<1>4. /\ Grown /\ StagesLeased' /\ BodiesSurvive' /\ ToldIsKept' /\ \A w \in User : Spared(w)
      /\ ledger' = ledger /\ ledgerDisk' = ledgerDisk /\ bodies' = bodies /\ bodiesDisk' = bodiesDisk
      /\ staging' = staging /\ stagingDisk' = stagingDisk /\ lease' = lease /\ lessee' = lessee /\ content' = content
  BY <1>1, <1>3, FilesStay
<1>6. ASSUME left' \in [User -> Plan], \A w \in User \ {u} : left'[w] = left[w], OperationIsSound(u)'
      PROVE  StoreInv'
  <2>1. StoreForm'
    <3>1. job[u] \in JobRecord /\ ledger \in [Held -> Name \cup {Nothing}] /\ job \in [User -> JobRecord]
      BY <1>2 DEF StoreForm
    <3>2. [job[u] EXCEPT !.copy = ledger] \in JobRecord
      BY <3>1 DEF JobRecord
    <3>3. job' \in [User -> JobRecord]
      BY <1>1, <3>1, <3>2
    <3> QED  BY <1>1, <1>2, <1>4, <1>6, <3>3 DEF StoreForm
  <2>2. Apart(u)
    BY <1>1, <1>3, <1>4, <1>6 DEF Apart
  <2> QED  BY <1>4, <1>6, <2>1, <2>2, Assembled
<1>7. CASE Throws(u)
  BY <1>1, <1>3, <1>4, <1>6, <1>7, ThrowsStep
<1>8. CASE Proceeds(u)
  <2>1. /\ left' \in [User -> Plan] /\ \A w \in User \ {u} : left'[w] = left[w]
        /\ First(left[u]) = "read" /\ Among(u) = {"read"} \cup Among(u)' /\ InOrder(job[u].kind, left'[u])
        /\ Rule(job[u].kind, "read", Among(u)', First(left'[u]))
    BY <1>1, <1>2, <1>8, ProceedsPlan DEF OperationIsSound, PlanOf, Among
  <2>2. StageOf(u)'
    BY <1>2, <1>3, <1>4, <2>1, StageStays DEF OperationIsSound, Filling, Leasing
  <2>3. BodyOf(u)'
    BY <1>2, <1>3, <1>4, <2>1, BodyStays DEF OperationIsSound
  <2>4. TellsOf(u)'
    BY <1>2, <1>3, <1>4, <2>1, TellsStays DEF OperationIsSound
  <2>5. PlanOf(u)'
    BY <1>2, <1>3, <2>1 DEF OperationIsSound, PlanOf
  <2>6. LockOf(u)'
    BY <1>1, <1>2, <1>3, <2>1 DEF OperationIsSound, LockOf, Copied, Outside
  <2>7. CopyOf(u)'
    <3>1. \A d \in Held : ledger[d] # Nothing => Safe(ledger[d])
      BY <1>2 DEF StoreInv, BodiesSurvive, Referenced, Safe, StoreForm
    <3>2. \A d \in Held : ledger[d] # Nothing => Safe(ledger[d])'
      BY <1>4, <3>1 DEF Safe
    <3> QED  BY <1>3, <1>4, <2>1, <3>2 DEF CopyOf, Rule, Past
  <2> QED  BY <1>6, <2>1, <2>2, <2>3, <2>4, <2>5, <2>6, <2>7 DEF OperationIsSound
<1> QED  BY <1>1, <1>7, <1>8

LEMMA InstallStep ==
  ASSUME StoreInv, NEW u \in User, Install(u)
  PROVE  StoreInv'
<1> DEFINE k == job[u].kind  t == Tail(left[u])
<1>1. /\ Head(left[u]) = "install" /\ left[u] # << >>
      /\ UNCHANGED <<ledgerFile, bodyFiles, stageFiles, content>> /\ told' = told /\ locked' = locked /\ job' = job
      /\ \/ job[u].copy[job[u].doc] \in bodies /\ Follow(u, << >> \o t)
         \/ Follow(u, InstallBody \o t)
  BY DEF Install, At, flags
<1>2. StoreForm /\ OperationIsSound(u) /\ left \in [User -> Plan]
  BY DEF StoreInv, StoreForm
<1>3. /\ Grown /\ StagesLeased' /\ BodiesSurvive' /\ ToldIsKept' /\ \A w \in User : Spared(w)
      /\ ledger' = ledger
  BY <1>1, FilesStay
<1>4. /\ t \in Plan /\ Among(u) = {"install"} \cup Listed(t) /\ InOrder(k, t) /\ First(left[u]) = "install"
      /\ Rule(k, "install", Listed(t), First(t))
  BY <1>1, <1>2, PlanTail DEF OperationIsSound, PlanOf, Among
<1> HIDE DEF t
<1>5. /\ << >> \o t = t
      /\ InstallBody \o t \in Plan /\ InOrder(k, InstallBody \o t)
      /\ Listed(InstallBody \o t) = {"moveBody", "flushBodies", "flushStages", "sure", "discard", "refer"} \cup Listed(t)
  <2>1. Listed(t) \cap (Filling \cup Leasing \cup {"flushBodies"}) = {}
    BY <1>4 DEF Rule, Filling
  <2> QED  BY <1>4, <2>1, InstallPlan DEF Plan
<1>6. /\ left' \in [User -> Plan] /\ \A w \in User \ {u} : left'[w] = left[w]
      /\ InOrder(k, left'[u])
      /\ \/ job[u].copy[job[u].doc] \in bodies /\ Among(u)' = Listed(t)
         \/ Among(u)' = {"moveBody", "flushBodies", "flushStages", "sure", "discard", "refer"} \cup Listed(t)
  BY <1>1, <1>2, <1>4, <1>5 DEF Follow, Among
<1>7. StoreForm'
  BY <1>1, <1>2, <1>6, FilesStay DEF StoreForm
<1>8. Apart(u)
  BY <1>1, <1>3, <1>6 DEF Apart
<1>9. locked = u
  BY <1>2, <1>4 DEF OperationIsSound, LockOf, Outside
<1>10. PlanOf(u)' /\ LockOf(u)'
  <2>1. job[u].doc \in Held /\ job[u].kind # "speak"
    BY <1>2, <1>4 DEF OperationIsSound, PlanOf
  <2>2. PlanOf(u)'
    <3>1. InOrder(job[u].kind, left[u])' /\ job'[u].doc \in Held /\ job'[u].kind # "speak"
      BY <1>1, <1>6, <2>1
    <3> QED  BY <3>1 DEF PlanOf
  <2> QED  BY <1>1, <1>9, <2>2 DEF LockOf
<1>11. TellsOf(u)'
  BY <1>1, <1>2, <1>3, <1>4, <1>6, TellsStays DEF OperationIsSound
<1>12. StageOf(u)'
  BY <1>1, <1>2, <1>3, <1>4, <1>6 DEF OperationIsSound, StageOf, Spared, Filling, Leasing, Rule
<1>13. BodyOf(u)'
  <2>1. CASE Among(u)' = Listed(t)
    BY <1>1, <1>2, <1>3, <1>4, <2>1, BodyStays DEF OperationIsSound
  <2>2. CASE Among(u)' = {"moveBody", "flushBodies", "flushStages", "sure", "discard", "refer"} \cup Listed(t)
    BY <2>2 DEF BodyOf
  <2> QED  BY <1>6, <2>1, <2>2
<1>14. CopyOf(u)'
  <2>0. job[u].kind # "speak" /\ CopyOf(u) /\ Nothing \notin bodies
    BY <1>2, <1>4, DurableAssumption DEF OperationIsSound, PlanOf, StoreForm
  <2>1. "moveLedger" \in Among(u)' /\ Past(u, {"mutate", "read"})' =>
          "moveLedger" \in Among(u) /\ Past(u, {"mutate", "read"})
    BY <1>4, <1>6 DEF Past
  <2>2. Past(u, {"refer", "install"})' => job[u].copy[job[u].doc] # Nothing
    BY <1>6, <2>0 DEF Past
  <2> QED  BY <1>1, <1>2, <1>3, <2>0, <2>1, <2>2 DEF CopyOf, Grown, StoreForm, JobRecord
<1> QED  BY <1>3, <1>7, <1>8, <1>10, <1>11, <1>12, <1>13, <1>14, Assembled DEF OperationIsSound

LEMMA ReferStep ==
  ASSUME StoreInv, NEW u \in User, Refer(u)
  PROVE  StoreInv'
<1>1. /\ Head(left[u]) = "refer" /\ left[u] # << >> /\ Proceeds(u)
      /\ UNCHANGED <<ledgerFile, bodyFiles, stageFiles, content>> /\ told' = told /\ locked' = locked
      /\ job' = [job EXCEPT ![u].copy[job[u].doc] = job[u].file]
  BY DEF Refer, At, flags
<1>2. StoreForm /\ OperationIsSound(u)
  BY DEF StoreInv
<1>3. /\ left' \in [User -> Plan] /\ \A w \in User \ {u} : left'[w] = left[w]
      /\ First(left[u]) = "refer" /\ Among(u) = {"refer"} \cup Among(u)' /\ InOrder(job[u].kind, left'[u])
      /\ Rule(job[u].kind, "refer", Among(u)', First(left'[u]))
  BY <1>1, <1>2, ProceedsPlan DEF OperationIsSound, PlanOf, Among
<1>4. job[u].doc \in Held /\ job[u].kind # "speak" /\ Safe(job[u].file)
  BY <1>2, <1>3 DEF OperationIsSound, PlanOf, BodyOf, Rule
<1>5. /\ job'[u].kind = job[u].kind /\ job'[u].doc = job[u].doc /\ job'[u].file = job[u].file
      /\ job'[u].copy = [job[u].copy EXCEPT ![job[u].doc] = job[u].file]
      /\ \A w \in User \ {u} : job'[w] = job[w]
      /\ job' \in [User -> JobRecord]
  <2> DEFINE c == [job[u].copy EXCEPT ![job[u].doc] = job[u].file]
  <2>1. job[u] \in JobRecord /\ job \in [User -> JobRecord]
    BY <1>2 DEF StoreForm
  <2>2. c \in [Held -> Name \cup {Nothing}]
    BY <1>4, <2>1 DEF JobRecord
  <2>3. job' = [job EXCEPT ![u] = [job[u] EXCEPT !.copy = c]]
    BY <1>1, <2>1
  <2> HIDE DEF c
  <2>4. [job[u] EXCEPT !.copy = c] \in JobRecord
    BY <2>1, <2>2 DEF JobRecord
  <2>5. job' \in [User -> JobRecord] /\ job'[u] = [job[u] EXCEPT !.copy = c] /\ \A w \in User \ {u} : job'[w] = job[w]
    BY <2>1, <2>3, <2>4
  <2> QED  BY <2>1, <2>5 DEF JobRecord, c
<1>6. /\ Grown /\ StagesLeased' /\ BodiesSurvive' /\ ToldIsKept' /\ \A w \in User : Spared(w)
      /\ ledger' = ledger
  BY <1>1, <1>5, FilesStay
<1>7. StoreForm'
  BY <1>1, <1>2, <1>3, <1>5, FilesStay DEF StoreForm
<1>8. Apart(u)
  BY <1>1, <1>3, <1>5, <1>6 DEF Apart
<1>9. StageOf(u)'
  BY <1>2, <1>3, <1>5, <1>6, StageStays DEF OperationIsSound, Filling, Leasing
<1>10. BodyOf(u)'
  BY <1>2, <1>3, <1>5, <1>6, BodyStays DEF OperationIsSound
<1>11. TellsOf(u)'
  BY <1>2, <1>3, <1>5, <1>6, TellsStays DEF OperationIsSound
<1>12. PlanOf(u)' /\ LockOf(u)'
  BY <1>1, <1>2, <1>3, <1>5 DEF OperationIsSound, PlanOf, LockOf, Copied, Outside
<1>13. CopyOf(u)'
  <2>1. "moveLedger" \in Among(u)' /\ Past(u, {"mutate", "read"})' =>
          "moveLedger" \in Among(u) /\ Past(u, {"mutate", "read"})
    BY <1>3 DEF Past
  <2>2. CopyOf(u) /\ job[u].copy \in [Held -> Name \cup {Nothing}] /\ job[u].file # Nothing
    BY <1>2, <1>4, DurableAssumption DEF OperationIsSound, StoreForm, JobRecord, Safe
  <2>3. \A d \in Held : job'[u].copy[d] = IF d = job[u].doc THEN job[u].file ELSE job[u].copy[d]
    BY <1>4, <1>5, <2>2
  <2>4. ASSUME NEW d \in Held, job'[u].copy[d] # Nothing, "moveLedger" \in Among(u), Past(u, {"mutate", "read"})
        PROVE  Safe(job[u].copy[d])'
    <3>1. PICK f : f = job'[u].copy[d]
      OBVIOUS
    <3>2. Safe(f)
      BY <1>4, <2>2, <2>3, <2>4, <3>1 DEF CopyOf
    <3>3. Safe(f)'
      BY <1>6, <3>2 DEF Grown, Safe
    <3> QED  BY <3>1, <3>3 DEF Safe
  <2>5. \A d \in Held : job[u].copy[d] # Nothing => job'[u].copy[d] # Nothing
    BY <2>2, <2>3
  <2>6. job'[u].copy[job'[u].doc] # Nothing
    BY <1>4, <1>5, <2>2, <2>3
  <2> QED  BY <1>4, <1>5, <1>6, <2>1, <2>2, <2>4, <2>5, <2>6 DEF CopyOf
<1> QED  BY <1>6, <1>7, <1>8, <1>9, <1>10, <1>11, <1>12, <1>13, Assembled DEF OperationIsSound

\* What a step that the list goes on from leaves of it.
LEMMA GoesOn ==
  ASSUME StoreInv, NEW u \in User, left[u] # << >>, Proceeds(u), locked' = locked,
         Head(left[u]) \notin {"mutate", "lock", "unlock"},
         job'[u].kind = job[u].kind, job'[u].doc = job[u].doc
  PROVE  /\ left' \in [User -> Plan] /\ \A w \in User \ {u} : left'[w] = left[w]
         /\ Among(u) = {Head(left[u])} \cup Among(u)'
         /\ InOrder(job[u].kind, left'[u])
         /\ Rule(job[u].kind, Head(left[u]), Among(u)', First(left'[u]))
         /\ Head(left[u]) \notin Outside(job[u].kind) => locked = u
         /\ PlanOf(u)' /\ LockOf(u)'
<1> DEFINE h == Head(left[u])
<1>1. StoreForm /\ PlanOf(u) /\ LockOf(u)
  BY DEF StoreInv, OperationIsSound
<1>2. /\ left' \in [User -> Plan] /\ First(left[u]) = h /\ Among(u) = {h} \cup Among(u)'
      /\ InOrder(job[u].kind, left'[u]) /\ Rule(job[u].kind, h, Among(u)', First(left'[u]))
      /\ \A w \in User \ {u} : left'[w] = left[w]
  BY <1>1, ProceedsPlan DEF PlanOf, Among
<1>3. PlanOf(u)'
  BY <1>1, <1>2 DEF PlanOf
<1>4. h \notin Outside(job[u].kind) => locked = u
  BY <1>1, <1>2 DEF LockOf
<1>5. First(left'[u]) \notin Outside(job[u].kind) => locked = u
  BY <1>2, <1>4 DEF Rule
<1>6. LockOf(u)'
  BY <1>1, <1>2, <1>5 DEF LockOf, Copied
<1> QED  BY <1>2, <1>3, <1>4, <1>6

\* The rule of a step holds wherever the step is in the list.
LEMMA RuleAt ==
  ASSUME NEW s \in Plan, NEW purpose, InOrder(purpose, s), NEW a \in Listed(s)
  PROVE  \E rest \in SUBSET Listed(s) : \E next : Rule(purpose, a, rest, next)
<1>1. PICK i \in 1 .. Len(s) : a = s[i]
  BY DEF Listed
<1>2. Rule(purpose, a, Later(s, i), NextTo(s, i))
  BY <1>1 DEF InOrder
<1>3. Later(s, i) \subseteq Listed(s)
  BY DEF Later, Listed, Plan
<1> QED  BY <1>2, <1>3

LEMMA StartStep ==
  ASSUME StoreInv, NEW u \in User, OperationStarts(u)
  PROVE  StoreInv'
<1>1. /\ left[u] = << >> /\ told' = told /\ locked' = locked
      /\ UNCHANGED <<ledgerFile, bodyFiles, stageFiles, content>>
  BY DEF OperationStarts, Starts, flags
<1>2. StoreForm /\ left \in [User -> Plan] /\ job \in [User -> JobRecord]
  BY DEF StoreInv, StoreForm
<1>3. PICK purpose \in {"publish", "apply", "speak"}, d \in Held \cup {Nothing}, steps \in {PublishSteps, ApplySteps, SpeakSteps} :
        /\ job' = [job EXCEPT ![u] = [NoJob EXCEPT !.kind = purpose, !.doc = d]]
        /\ left' = [left EXCEPT ![u] = steps]
        /\ \/ purpose = "publish" /\ d \in Held /\ steps = PublishSteps
           \/ purpose = "apply" /\ d \in Held /\ steps = ApplySteps
           \/ purpose = "speak" /\ steps = SpeakSteps
  BY DEF OperationStarts, Starts, Follow, Held
<1>4. /\ steps \in Plan /\ InOrder(purpose, steps) /\ First(steps) = "mutate" /\ "mutate" \in Listed(steps)
      /\ purpose # "speak" => {"lease", "moveLedger"} \subseteq Listed(steps)
      /\ purpose # "speak" /\ "refer" \in Listed(steps) => {"moveBody", "flushBodies"} \subseteq Listed(steps)
      /\ purpose = "speak" =>
           Listed(steps) = {"mutate", "tell", "unlock", "doubt", "flushLedger", "flushBodies", "flushStages", "sure"}
  BY <1>3, PublishPlan, ApplyPlan, SpeakPlan
<1>5. [NoJob EXCEPT !.kind = purpose, !.doc = d] \in JobRecord
  BY DEF NoJob, JobRecord
<1>6. /\ job' \in [User -> JobRecord] /\ left' \in [User -> Plan]
      /\ job'[u].kind = purpose /\ job'[u].doc = d /\ job'[u].file = Nothing
      /\ left'[u] = steps
      /\ \A w \in User \ {u} : job'[w] = job[w] /\ left'[w] = left[w]
  BY <1>2, <1>3, <1>4, <1>5 DEF NoJob
<1>7. /\ Grown /\ StagesLeased' /\ BodiesSurvive' /\ ToldIsKept' /\ \A w \in User \ {u} : Spared(w)
      /\ ledger' = ledger
  BY <1>1, <1>6, FilesStay
<1>8. StoreForm'
  BY <1>1, <1>2, <1>6, FilesStay DEF StoreForm
<1>9. Apart(u)
  BY <1>1, <1>6, <1>7 DEF Apart
<1>10. Among(u)' = Listed(steps) /\ InOrder(job[u].kind, left[u])'
  BY <1>4, <1>6 DEF Among
<1>11. PlanOf(u)'
  BY <1>3, <1>4, <1>6, <1>10 DEF PlanOf
<1>12. LockOf(u)'
  BY <1>4, <1>6, <1>10 DEF LockOf, Outside
<1>13. StageOf(u)' /\ BodyOf(u)'
  BY <1>4, <1>6, <1>10 DEF StageOf, BodyOf, Filling
<1>14. CopyOf(u)' /\ TellsOf(u)'
  BY <1>4, <1>6, <1>10 DEF CopyOf, TellsOf, Past
<1> QED  BY <1>7, <1>8, <1>9, <1>11, <1>12, <1>13, <1>14, Assembled DEF OperationIsSound

LEMMA TellStep ==
  ASSUME StoreInv, NEW u \in User, Tell(u)
  PROVE  StoreInv'
<1> DEFINE news == IF job[u].kind = "speak" THEN {d \in Held : job[u].copy[d] # Nothing} ELSE {job[u].doc}
<1>1. /\ Head(left[u]) = "tell" /\ left[u] # << >> /\ Proceeds(u) /\ locked' = locked /\ job' = job
      /\ told' = told \cup news
      /\ UNCHANGED <<ledgerFile, bodyFiles, stageFiles, content>>
  BY DEF Tell, At, flags
<1>2. StoreForm /\ OperationIsSound(u) /\ ToldIsKept
  BY DEF StoreInv
<1>3. /\ Grown /\ StagesLeased' /\ BodiesSurvive' /\ \A w \in User : Spared(w)
      /\ ledger' = ledger /\ ledgerDisk' = ledgerDisk
  BY <1>1, FilesStay
<1>4. /\ left' \in [User -> Plan] /\ \A w \in User \ {u} : left'[w] = left[w]
      /\ Among(u) = {"tell"} \cup Among(u)' /\ PlanOf(u)' /\ LockOf(u)'
      /\ Rule(job[u].kind, "tell", Among(u)', First(left'[u]))
  BY <1>1, GoesOn
<1>5. Among(u)' \cap {"flushLedger", "moveLedger", "mutate", "read"} = {}
  BY <1>4 DEF Rule
<1>6. news \subseteq Held /\ \A v \in ledgerDisk : \A d \in news : v[d] # Nothing
  <2>1. CASE job[u].kind = "speak"
    BY <1>2, <1>4, <1>5, <2>1 DEF OperationIsSound, CopyOf, Past
  <2>2. CASE job[u].kind # "speak"
    BY <1>2, <1>4, <1>5, <2>2 DEF OperationIsSound, TellsOf, PlanOf
  <2> QED  BY <2>1, <2>2
<1> HIDE DEF news
<1>7. ToldIsKept'
  BY <1>1, <1>2, <1>3, <1>6 DEF ToldIsKept, Referenced
<1>8. StoreForm'
  BY <1>1, <1>2, <1>4, <1>6, FilesStay DEF StoreForm
<1>9. Apart(u)
  BY <1>1, <1>3, <1>4 DEF Apart
<1>10. StageOf(u)' /\ BodyOf(u)'
  BY <1>1, <1>2, <1>3, <1>4, StageStays, BodyStays DEF OperationIsSound, Filling, Leasing
<1>11. CopyOf(u)' /\ TellsOf(u)'
  BY <1>1, <1>2, <1>3, <1>4, CopyStays, TellsStays DEF OperationIsSound, Past
<1> QED  BY <1>3, <1>4, <1>7, <1>8, <1>9, <1>10, <1>11, Assembled DEF OperationIsSound

\* A step on the directory of bodies or on the staging area leaves what the ledger says.
LEMMA LedgerStays ==
  ASSUME StoreInv, NEW u \in User, UNCHANGED <<ledgerFile, told>>
  PROVE  /\ ToldIsKept' /\ ledger' = ledger /\ ledgerDisk' = ledgerDisk /\ told' = told
         /\ \A d \in Held : ledger[d] # Nothing => ledger'[d] # Nothing
         /\ \A v \in ledgerDisk' : v \in ledgerDisk
         /\ ledger' \in ledgerDisk' /\ ledgerDisk' \subseteq [Held -> Name \cup {Nothing}]
BY DEF StoreInv, StoreForm, ToldIsKept, Referenced, ledgerFile

LEMMA FlushStep ==
  ASSUME StoreInv, NEW u \in User, Flush(u)
  PROVE  StoreInv'
<1> DEFINE h == Head(left[u])
<1>1. /\ h \in {"flushLedger", "flushBodies", "flushStages"} /\ left[u] # << >> /\ Proceeds(u)
      /\ h = "flushLedger" => ledgerDisk' = {ledger} /\ bodiesDisk' = bodiesDisk /\ stagingDisk' = stagingDisk
      /\ h = "flushBodies" => bodiesDisk' = {bodies} /\ ledgerDisk' = ledgerDisk /\ stagingDisk' = stagingDisk
      /\ h = "flushStages" => stagingDisk' = {staging} /\ ledgerDisk' = ledgerDisk /\ bodiesDisk' = bodiesDisk
      /\ ledger' = ledger /\ bodies' = bodies /\ staging' = staging /\ content' = content
      /\ lease' = lease /\ lessee' = lessee /\ told' = told /\ job' = job /\ locked' = locked
  BY DEF Flush, At, flags
<1>2. StoreForm /\ OperationIsSound(u) /\ StagesLeased /\ BodiesSurvive /\ ToldIsKept
  BY DEF StoreInv
<1>3. /\ ledgerDisk' \subseteq ledgerDisk /\ ledger \in ledgerDisk'
      /\ bodiesDisk' \subseteq bodiesDisk /\ bodies \in bodiesDisk'
      /\ stagingDisk' \subseteq stagingDisk /\ staging \in stagingDisk'
  BY <1>1, <1>2 DEF StoreForm
<1>4. /\ left' \in [User -> Plan] /\ \A w \in User \ {u} : left'[w] = left[w]
      /\ Among(u) = {h} \cup Among(u)' /\ PlanOf(u)' /\ LockOf(u)' /\ InOrder(job[u].kind, left'[u])
  BY <1>1, GoesOn
<1>5. StoreForm'
  BY <1>1, <1>2, <1>3, <1>4 DEF StoreForm
<1>6. StagesLeased' /\ BodiesSurvive' /\ ToldIsKept'
  BY <1>1, <1>2, <1>3 DEF StagesLeased, BodiesSurvive, ToldIsKept, Referenced
<1>7. Grown
  BY <1>1, <1>3 DEF Grown, Safe
<1>8. \A w \in User : Spared(w)
  BY <1>1, <1>3 DEF Spared, Keeps
<1>9. Apart(u)
  BY <1>1, <1>4, <1>8 DEF Apart
<1>10. StageOf(u)'
  BY <1>1, <1>2, <1>4, <1>7, <1>8, StageStays DEF OperationIsSound, Filling, Leasing
<1>11. BodyOf(u)'
  <2>1. CASE h # "flushBodies"
    BY <1>1, <1>2, <1>4, <1>7, <2>1, BodyStays DEF OperationIsSound
  <2>2. CASE h = "flushBodies"
    <3>1. ASSUME "moveBody" \in Among(u)' PROVE "flushBodies" \in Among(u)'
      <4>1. left'[u] \in Plan /\ "moveBody" \in Listed(left'[u]) /\ Among(u)' = Listed(left'[u])
        BY <1>4, <3>1 DEF Among
      <4>2. PICK rest \in SUBSET Listed(left'[u]) : \E next : Rule(job[u].kind, "moveBody", rest, next)
        BY <1>4, <4>1, RuleAt
      <4> QED  BY <4>1, <4>2 DEF Rule
    <3>2. "moveBody" \notin Among(u)' => "moveBody" \notin Among(u)
      BY <1>4, <2>2
    <3>3. "refer" \in Among(u)' /\ "moveBody" \notin Among(u) =>
            job[u].file \in bodies /\ content[job[u].file] = "synced" /\ job[u].file \in Name
      BY <1>2, <1>4 DEF OperationIsSound, BodyOf, StoreForm
    <3>4. bodiesDisk' = {bodies}
      BY <1>1, <2>2
    <3> QED  BY <1>1, <3>1, <3>2, <3>3, <3>4 DEF BodyOf, Safe
  <2> QED  BY <2>1, <2>2
<1>12. CopyOf(u)' /\ TellsOf(u)'
  <2>1. CASE h # "flushLedger"
    BY <1>1, <1>2, <1>4, <1>7, <2>1, CopyStays, TellsStays DEF OperationIsSound, Past
  <2>2. CASE h = "flushLedger"
    <3>1. ledgerDisk' = {ledger} /\ bodiesDisk' = bodiesDisk /\ Among(u) = {"flushLedger"} \cup Among(u)'
      BY <1>1, <1>4, <2>2
    <3>2. CopyOf(u)'
      BY <1>1, <1>2, <3>1 DEF OperationIsSound, CopyOf, Past, Safe
    <3>3. TellsOf(u)'
      BY <1>1, <1>2, <3>1 DEF OperationIsSound, TellsOf
    <3> QED  BY <3>2, <3>3
  <2> QED  BY <2>1, <2>2
<1> QED  BY <1>4, <1>5, <1>6, <1>7, <1>9, <1>10, <1>11, <1>12, Assembled DEF OperationIsSound

LEMMA Fewer ==
  ASSUME NEW S, IsFiniteSet(S), Cardinality(S) <= MaxReserved, NEW T \in SUBSET S
  PROVE  IsFiniteSet(T) /\ Cardinality(T) <= MaxReserved
<1>1. /\ IsFiniteSet(T) /\ Cardinality(T) <= Cardinality(S)
      /\ Cardinality(T) \in Nat /\ Cardinality(S) \in Nat
  BY FS_Subset, FS_CardinalityType
<1> QED  BY <1>1, DurableAssumption

\* A stage is removed, and the lease that stood for it.
LEMMA RemovalStep ==
  ASSUME StoreInv, NEW f, Becomes(Removal(f)), UNCHANGED <<ledgerFile, bodyFiles, lease, lessee, content, told>>
  PROVE  /\ staging' = [stages |-> staging.stages \ {f}, leases |-> staging.leases \ {f}]
         /\ staging' \in stagingDisk' /\ stagingDisk' \subseteq [stages : SUBSET Name, leases : SUBSET Name]
         /\ Grown /\ StagesLeased' /\ BodiesSurvive' /\ ToldIsKept'
         /\ ledger' = ledger /\ ledgerDisk' = ledgerDisk /\ bodies' = bodies /\ bodiesDisk' = bodiesDisk
         /\ lease' = lease /\ lessee' = lessee /\ content' = content
         /\ \A w \in User : job'[w] = job[w] /\ (Keeps(w) => job[w].file # f) => Spared(w)
<1> DEFINE first == [stages |-> staging.stages \ {f}, leases |-> staging.leases]
           second == [stages |-> staging.stages \ {f}, leases |-> staging.leases \ {f}]
<1>1. StoreForm /\ StagesLeased /\ BodiesSurvive /\ ToldIsKept
  BY DEF StoreInv
<1>2. /\ staging \in stagingDisk /\ stagingDisk \subseteq [stages : SUBSET Name, leases : SUBSET Name]
      /\ staging = [stages |-> staging.stages, leases |-> staging.leases]
      /\ \A g \in staging.stages : g \in staging.leases /\ lease[g] = "synced"
      /\ IsFiniteSet(staging.leases) /\ Cardinality(staging.leases) <= MaxReserved
  BY <1>1 DEF StoreForm, StagesLeased
<1>3. Removal(f) = <<first, second>>
  <2>1. [staging EXCEPT !.stages = @ \ {f}] = first
    BY <1>2
  <2>2. [first EXCEPT !.leases = @ \ {f}] = second
    OBVIOUS
  <2> HIDE DEF first, second
  <2> QED  BY <2>1, <2>2 DEF Removal
<1>4. staging' = second /\ stagingDisk' = stagingDisk \cup {first, second}
  <2> DEFINE versions == <<first, second>>
  <2> HIDE DEF first, second
  <2>1. Len(versions) = 2 /\ versions[1] = first /\ versions[2] = second /\ DOMAIN versions = {1, 2}
    OBVIOUS
  <2>2. {versions[i] : i \in DOMAIN versions} = {first, second}
    BY <2>1
  <2>3. staging' = versions[Len(versions)] /\ stagingDisk' = stagingDisk \cup {versions[i] : i \in DOMAIN versions}
    BY <1>3 DEF Becomes
  <2> QED  BY <2>1, <2>2, <2>3
<1>5. /\ {first, second} \subseteq [stages : SUBSET Name, leases : SUBSET Name]
      /\ \A s \in {first, second} : /\ \A g \in s.stages : g \in s.leases /\ lease[g] = "synced"
                                    /\ s.leases \subseteq staging.leases
  BY <1>2
<1>6. StagesLeased' /\ staging' \in stagingDisk' /\ stagingDisk' \subseteq [stages : SUBSET Name, leases : SUBSET Name]
  <2> HIDE DEF first, second
  <2>1. \A s \in {first, second} : IsFiniteSet(s.leases) /\ Cardinality(s.leases) <= MaxReserved
    BY <1>2, <1>5, Fewer
  <2>2. lease' = lease
    OBVIOUS
  <2>3. StagesLeased'
    BY <1>1, <1>4, <1>5, <2>1, <2>2 DEF StagesLeased
  <2> QED  BY <1>2, <1>4, <1>5, <2>3
<1>7. /\ ledger' = ledger /\ ledgerDisk' = ledgerDisk /\ bodies' = bodies /\ bodiesDisk' = bodiesDisk
      /\ lease' = lease /\ lessee' = lessee /\ content' = content /\ told' = told
  BY DEF ledgerFile, bodyFiles
<1>8. BodiesSurvive' /\ ToldIsKept'
  BY <1>1, <1>7 DEF BodiesSurvive, ToldIsKept, Referenced
<1>9. Grown
  BY <1>7 DEF Grown, Safe
<1>10. \A w \in User : job'[w] = job[w] /\ (Keeps(w) => job[w].file # f) => Spared(w)
  BY <1>4, <1>7 DEF Spared, Keeps
<1> QED  BY <1>4, <1>6, <1>7, <1>8, <1>9, <1>10

LEMMA DiscardStep ==
  ASSUME StoreInv, NEW u \in User, DiscardStage(u)
  PROVE  StoreInv'
<1> DEFINE f == job[u].file
<1>1. /\ Head(left[u]) = "discard" /\ left[u] # << >> /\ Proceeds(u) /\ locked' = locked /\ job' = job
      /\ Becomes(Removal(f)) /\ UNCHANGED <<ledgerFile, bodyFiles, lease, lessee, content, told>>
  BY DEF DiscardStage, At, flags
<1>2. StoreForm /\ OperationIsSound(u) /\ FilesApart
  BY DEF StoreInv
<1>3. /\ left' \in [User -> Plan] /\ \A w \in User \ {u} : left'[w] = left[w]
      /\ Among(u) = {"discard"} \cup Among(u)' /\ PlanOf(u)' /\ LockOf(u)'
      /\ Rule(job[u].kind, "discard", Among(u)', First(left'[u]))
  BY <1>1, GoesOn
<1>4. Among(u)' \cap (Filling \cup Leasing) = {}
  BY <1>3 DEF Rule
<1>5. /\ staging' \in stagingDisk' /\ stagingDisk' \subseteq [stages : SUBSET Name, leases : SUBSET Name]
      /\ Grown /\ StagesLeased' /\ BodiesSurvive' /\ ToldIsKept'
      /\ ledger' = ledger /\ ledgerDisk' = ledgerDisk /\ bodies' = bodies /\ bodiesDisk' = bodiesDisk
      /\ lease' = lease /\ lessee' = lessee /\ content' = content
      /\ \A w \in User : job'[w] = job[w] /\ (Keeps(w) => job[w].file # f) => Spared(w)
  BY <1>1, RemovalStep
<1>6. \A w \in User \ {u} : Keeps(w) => job[w].file # f
  BY <1>2, DurableAssumption DEF Keeps, StoreForm, FilesApart
<1>7. StoreForm'
  BY <1>1, <1>2, <1>3, <1>5 DEF StoreForm
<1>8. Apart(u)
  BY <1>1, <1>3, <1>5, <1>6 DEF Apart
<1>9. StageOf(u)'
  BY <1>4 DEF StageOf, Filling, Leasing
<1>10. BodyOf(u)'
  BY <1>1, <1>2, <1>3, <1>5, BodyStays DEF OperationIsSound
<1>11. CopyOf(u)' /\ TellsOf(u)'
  BY <1>1, <1>2, <1>3, <1>5, CopyStays, TellsStays DEF OperationIsSound, Past
<1> QED  BY <1>3, <1>5, <1>7, <1>8, <1>9, <1>10, <1>11, Assembled DEF OperationIsSound

LEMMA CleanDeadStep ==
  ASSUME StoreInv, NEW u \in User, CleanDead(u)
  PROVE  StoreInv'
<1>1. /\ Head(left[u]) = "sweep" /\ left[u] # << >> /\ locked' = locked /\ job' = job /\ told' = told
      /\ UNCHANGED <<ledgerFile, bodyFiles, lease, lessee, content, told>>
      /\ \/ (Proceeds(u) \/ Throws(u)) /\ UNCHANGED <<staging, stagingDisk>>
         \/ \E f \in staging.leases : /\ lessee[f] = Nothing /\ Becomes(Removal(f))
                                      /\ Follow(u, <<"flushStages">> \o left[u])
  BY DEF CleanDead, At, flags
<1>2. StoreForm /\ OperationIsSound(u) /\ left \in [User -> Plan] /\ left[u] \in Plan
  BY DEF StoreInv, StoreForm
<1>3. CASE (Proceeds(u) \/ Throws(u)) /\ UNCHANGED <<staging, stagingDisk>>
  <2>1. UNCHANGED <<ledgerFile, bodyFiles, stageFiles, content>>
    BY <1>1, <1>3 DEF stageFiles
  <2>2. /\ Grown /\ StagesLeased' /\ BodiesSurvive' /\ ToldIsKept' /\ \A w \in User : Spared(w)
        /\ ledger' = ledger
    BY <1>1, <2>1, FilesStay
  <2>3. /\ left' \in [User -> Plan] /\ \A w \in User \ {u} : left'[w] = left[w]
        /\ OperationIsSound(u)'
    <3>1. CASE Proceeds(u)
      BY <1>1, <2>2, <3>1, GoesOn, PlainStep
    <3>2. CASE Throws(u)
      BY <1>1, <3>2, ThrowsStep
    <3> QED  BY <1>3, <3>1, <3>2
  <2>4. StoreForm'
    BY <1>1, <1>2, <2>1, <2>3, FilesStay DEF StoreForm
  <2>5. Apart(u)
    BY <1>1, <2>2, <2>3 DEF Apart
  <2> QED  BY <2>2, <2>3, <2>4, <2>5, Assembled
<1>4. ASSUME NEW f \in staging.leases, lessee[f] = Nothing, Becomes(Removal(f)),
             Follow(u, <<"flushStages">> \o left[u])
      PROVE  StoreInv'
  <2> DEFINE s == <<"flushStages">> \o left[u]
  <2>1. s \in Plan /\ Listed(s) = {"flushStages"} \cup Listed(left[u]) /\ First(s) = "flushStages"
    BY <1>2, PlainCons DEF Plain
  <2>2. InOrder(job[u].kind, s)
    BY <1>2, PlainCons DEF Plain, OperationIsSound, PlanOf
  <2> HIDE DEF s
  <2>3. left' \in [User -> Plan] /\ left'[u] = s /\ \A w \in User \ {u} : left'[w] = left[w]
    BY <1>2, <1>4, <2>1 DEF Follow, s
  <2>4. /\ staging' \in stagingDisk' /\ stagingDisk' \subseteq [stages : SUBSET Name, leases : SUBSET Name]
        /\ Grown /\ StagesLeased' /\ BodiesSurvive' /\ ToldIsKept'
        /\ ledger' = ledger /\ ledgerDisk' = ledgerDisk /\ bodies' = bodies /\ bodiesDisk' = bodiesDisk
        /\ lease' = lease /\ lessee' = lessee /\ content' = content
        /\ \A w \in User : job'[w] = job[w] /\ (Keeps(w) => job[w].file # f) => Spared(w)
    BY <1>1, <1>4, RemovalStep
  <2>5. \A w \in User : Spared(w)
    BY <1>1, <1>4, <2>4, DurableAssumption DEF Keeps
  <2>6. StoreForm'
    BY <1>1, <1>2, <2>3, <2>4 DEF StoreForm
  <2>7. Apart(u)
    BY <1>1, <2>3, <2>4, <2>5 DEF Apart
  <2>8. Among(u)' = {"flushStages"} \cup Among(u) /\ "sweep" \in Among(u) /\ First(left[u]) = "sweep"
    BY <1>1, <1>2, <2>1, <2>3, PlanTail DEF Among
  <2>9. locked = u
    BY <1>2, <2>8 DEF OperationIsSound, LockOf, Outside
  <2>10. InOrder(job[u].kind, left[u])'
    BY <1>1, <2>2, <2>3
  <2>11. PlanOf(u)'
    BY <1>1, <1>2, <2>8, <2>10 DEF OperationIsSound, PlanOf
  <2>12. LockOf(u)'
    BY <1>1, <2>9 DEF LockOf
  <2>13. StageOf(u)' /\ BodyOf(u)'
    BY <1>1, <1>2, <2>4, <2>5, <2>8, StageStays, BodyStays DEF OperationIsSound, Filling, Leasing
  <2>14. CopyOf(u)' /\ TellsOf(u)'
    BY <1>1, <1>2, <2>4, <2>8, CopyStays, TellsStays DEF OperationIsSound, Past
  <2> QED  BY <2>4, <2>6, <2>7, <2>11, <2>12, <2>13, <2>14, Assembled DEF OperationIsSound
<1> QED  BY <1>1, <1>3, <1>4

\* One change of the staging area.
LEMMA BecomesOne ==
  ASSUME NEW s, Becomes(<<s>>)
  PROVE  staging' = s /\ stagingDisk' = stagingDisk \cup {s}
<1>1. Len(<<s>>) = 1 /\ <<s>>[1] = s /\ DOMAIN <<s>> = {1}
  OBVIOUS
<1>2. {<<s>>[i] : i \in DOMAIN <<s>>} = {s}
  BY <1>1
<1> QED  BY <1>1, <1>2 DEF Becomes

LEMMA CreateLeaseStep ==
  ASSUME StoreInv, NEW u \in User, CreateLease(u)
  PROVE  StoreInv'
<1>1. PICK f \in Unused :
        /\ Head(left[u]) = "lease" /\ left[u] # << >> /\ Proceeds(u) /\ locked' = locked /\ told' = told
        /\ Becomes(<<[staging EXCEPT !.leases = @ \cup {f}]>>)
        /\ Cardinality(staging.leases) < MaxReserved
        /\ lease' = [lease EXCEPT ![f] = "empty"]
        /\ lessee' = [lessee EXCEPT ![f] = u]
        /\ content' = [content EXCEPT ![f] = "none"]
        /\ job' = [job EXCEPT ![u].file = f]
        /\ UNCHANGED <<ledgerFile, bodyFiles, told>>
  BY DEF CreateLease, MayReserve, At, flags
<1>2. StoreForm /\ OperationIsSound(u) /\ StagesLeased /\ BodiesSurvive /\ (\A w \in User : OperationIsSound(w))
  BY DEF StoreInv
<1>3. /\ f \in Name /\ f # Nothing /\ \A b \in bodiesDisk : f \notin b
      /\ f \notin bodies /\ (\A w \in User : job[w].file # f)
      /\ \A s \in stagingDisk : f \notin s.stages \cup s.leases
      /\ f \notin staging.leases
  BY <1>2, DurableAssumption DEF Unused, StoreForm
<1>4. /\ job' \in [User -> JobRecord] /\ job'[u].kind = job[u].kind /\ job'[u].doc = job[u].doc
      /\ job'[u].copy = job[u].copy /\ job'[u].file = f /\ \A w \in User \ {u} : job'[w] = job[w]
  <2>1. job[u] \in JobRecord /\ job \in [User -> JobRecord]
    BY <1>2 DEF StoreForm
  <2>2. [job[u] EXCEPT !.file = f] \in JobRecord
    BY <1>3, <2>1 DEF JobRecord
  <2>3. job' = [job EXCEPT ![u] = [job[u] EXCEPT !.file = f]]
    BY <1>1, <2>1
  <2> QED  BY <2>1, <2>2, <2>3 DEF JobRecord
<1>5. /\ left' \in [User -> Plan] /\ \A w \in User \ {u} : left'[w] = left[w]
      /\ Among(u) = {"lease"} \cup Among(u)' /\ PlanOf(u)' /\ LockOf(u)'
      /\ Rule(job[u].kind, "lease", Among(u)', First(left'[u]))
  BY <1>1, <1>4, GoesOn
<1>6. "lease" \notin Among(u)' /\ {"writeLease", "syncLease", "stage", "write", "sync"} \subseteq Among(u)'
  BY <1>5 DEF Rule, Leasing
<1>7. /\ ledger' = ledger /\ ledgerDisk' = ledgerDisk /\ bodies' = bodies /\ bodiesDisk' = bodiesDisk /\ ToldIsKept'
      /\ lessee'[f] = u /\ lease'[f] = "empty"
      /\ \A g \in Name \ {f} : content'[g] = content[g] /\ lease'[g] = lease[g] /\ lessee'[g] = lessee[g]
      /\ lease' \in [Name -> {"empty", "written", "synced", "torn"}]
      /\ content' \in [Name -> {"none", "written", "synced", "torn"}]
      /\ lessee' \in [Name -> User \cup {Nothing}]
  BY <1>1, <1>2, <1>3, LedgerStays DEF StoreForm, bodyFiles
<1>8. /\ staging'.stages = staging.stages /\ staging'.leases = staging.leases \cup {f}
      /\ staging' \in stagingDisk' /\ stagingDisk' \subseteq [stages : SUBSET Name, leases : SUBSET Name]
      /\ StagesLeased'
  <2> DEFINE s == [staging EXCEPT !.leases = @ \cup {f}]
  <2>1. staging' = s /\ stagingDisk' = stagingDisk \cup {s}
    BY <1>1, BecomesOne
  <2>2. /\ staging \in [stages : SUBSET Name, leases : SUBSET Name] /\ staging \in stagingDisk
        /\ stagingDisk \subseteq [stages : SUBSET Name, leases : SUBSET Name]
    BY <1>2 DEF StoreForm
  <2>3. s \in [stages : SUBSET Name, leases : SUBSET Name] /\ s.stages = staging.stages /\ s.leases = staging.leases \cup {f}
    BY <1>3, <2>2
  <2> HIDE DEF s
  <2>4. IsFiniteSet(s.leases) /\ Cardinality(s.leases) <= MaxReserved
    <3>1. IsFiniteSet(staging.leases)
      BY <1>2, <2>2 DEF StagesLeased
    <3>2. /\ IsFiniteSet(staging.leases \cup {f}) /\ Cardinality(staging.leases) \in Nat
          /\ Cardinality(staging.leases \cup {f}) = Cardinality(staging.leases) + 1
      BY <1>3, <3>1, FS_AddElement, FS_CardinalityType
    <3> QED  BY <1>1, <2>3, <3>2, DurableAssumption
  <2>5. \A g \in staging.stages : g \in staging.leases /\ lease'[g] = "synced"
    BY <1>2, <1>3, <1>7, <2>2 DEF StagesLeased
  <2>6. \A r \in stagingDisk : \A g \in r.stages : g \in r.leases /\ lease'[g] = "synced"
    BY <1>2, <1>3, <1>7, <2>2 DEF StagesLeased
  <2>7. StagesLeased'
    BY <1>2, <2>1, <2>3, <2>4, <2>5, <2>6 DEF StagesLeased
  <2> QED  BY <2>1, <2>2, <2>3, <2>7
<1>9. Grown
  <2>1. \A g \in Name : Safe(g) => Safe(g)'
    BY <1>2, <1>3, <1>7 DEF Safe, StoreForm
  <2> QED  BY <1>2, <1>3, <1>7, <2>1 DEF Grown, StoreForm
<1>10. BodiesSurvive'
  BY <1>2, <1>3, <1>7 DEF BodiesSurvive, Referenced, StoreForm
<1>11. \A w \in User \ {u} : Spared(w)
  BY <1>2, <1>3, <1>4, <1>7, <1>8 DEF Spared, Keeps, StoreForm
<1>12. StoreForm'
  BY <1>1, <1>2, <1>4, <1>5, <1>7, <1>8 DEF StoreForm
<1>13. Apart(u)
  BY <1>1, <1>3, <1>4, <1>5, <1>7, <1>11 DEF Apart
<1>14. Keeps(u)'
  BY <1>3, <1>4, <1>7, <1>8 DEF Keeps
<1>15. StageOf(u)'
  BY <1>4, <1>6, <1>7, <1>14 DEF StageOf
<1>16. BodyOf(u)'
  <2>1. job[u].file = Nothing /\ Nothing \notin Name /\ Nothing \notin bodies
    BY <1>2, <1>5, DurableAssumption DEF OperationIsSound, StageOf, StoreForm
  <2>2. "refer" \in Among(u)' => {"moveBody", "flushBodies"} \subseteq Among(u)'
    BY <1>2, <1>5, <2>1 DEF OperationIsSound, BodyOf, Safe
  <2> QED  BY <2>2 DEF BodyOf
<1>17. CopyOf(u)'
  <2>1. \A d \in Held : job[u].copy[d] \in Name \cup {Nothing}
    BY <1>2 DEF StoreForm, JobRecord
  <2>2. ASSUME NEW d \in Held, Safe(job[u].copy[d]) PROVE Safe(job[u].copy[d])'
    <3>1. PICK g : g = job[u].copy[d]
      OBVIOUS
    <3>2. Safe(g)'
      BY <1>9, <2>1, <2>2, <3>1 DEF Grown, Safe
    <3> QED  BY <1>4, <3>1, <3>2 DEF Safe
  <2> QED  BY <1>2, <1>4, <1>5, <1>7, <2>2 DEF OperationIsSound, CopyOf, Past
<1>18. TellsOf(u)'
  BY <1>2, <1>4, <1>5, <1>9, TellsStays DEF OperationIsSound
<1> QED  BY <1>5, <1>7, <1>8, <1>9, <1>10, <1>12, <1>13, <1>15, <1>16, <1>17, <1>18, Assembled DEF OperationIsSound

\* The lease is written, then flushed, before there is a stage it could stand for.
LEMMA FillLeaseStep ==
  ASSUME StoreInv, NEW u \in User, FillLease(u)
  PROVE  StoreInv'
<1> DEFINE f == job[u].file  h == Head(left[u])
<1>1. /\ h \in {"writeLease", "syncLease"} /\ left[u] # << >> /\ Proceeds(u) /\ locked' = locked /\ told' = told
      /\ job' = job
      /\ h = "writeLease" => lease' = [lease EXCEPT ![f] = "written"]
      /\ h = "syncLease" => lease' = [lease EXCEPT ![f] = "synced"]
      /\ staging' = staging /\ stagingDisk' = stagingDisk /\ lessee' = lessee /\ content' = content
      /\ UNCHANGED <<ledgerFile, bodyFiles, told>>
  BY DEF FillLease, At, flags
<1>2. StoreForm /\ OperationIsSound(u) /\ StagesLeased /\ BodiesSurvive /\ FilesApart
  BY DEF StoreInv
<1>3. /\ left' \in [User -> Plan] /\ \A w \in User \ {u} : left'[w] = left[w]
      /\ Among(u) = {h} \cup Among(u)' /\ PlanOf(u)' /\ LockOf(u)'
      /\ Rule(job[u].kind, h, Among(u)', First(left'[u]))
  BY <1>1, GoesOn
<1>4. /\ "lease" \notin Among(u) /\ {"stage", "write", "sync"} \subseteq Among(u)' /\ "writeLease" \notin Among(u)'
      /\ h = "writeLease" => "syncLease" \in Among(u)'
      /\ h = "syncLease" => "syncLease" \notin Among(u)'
  BY <1>1, <1>3 DEF Rule, Filling, Leasing
<1>5. Keeps(u) /\ f \in Name /\ lease[f] # "synced"
  <2>1. StageOf(u) /\ "write" \in Among(u) /\ h \in Among(u)
    BY <1>2, <1>3, <1>4 DEF OperationIsSound
  <2>2. Keeps(u) /\ lease[f] # "synced"
    BY <1>1, <1>4, <2>1 DEF StageOf, Filling
  <2> QED  BY <1>2, <2>2 DEF Keeps, StoreForm
<1>6. /\ ledger' = ledger /\ ledgerDisk' = ledgerDisk /\ bodies' = bodies /\ bodiesDisk' = bodiesDisk /\ ToldIsKept'
  BY <1>1, LedgerStays DEF bodyFiles
<1>7. /\ lease' \in [Name -> {"empty", "written", "synced", "torn"}]
      /\ \A g \in Name \ {f} : lease'[g] = lease[g]
      /\ h = "writeLease" => lease'[f] = "written"
      /\ h = "syncLease" => lease'[f] = "synced"
  BY <1>1, <1>2, <1>5 DEF StoreForm
<1>8. StagesLeased'
  <2>1. \A s \in stagingDisk : \A g \in s.stages : g \in s.leases /\ lease'[g] = "synced"
    BY <1>2, <1>5, <1>7 DEF StagesLeased, StoreForm
  <2> QED  BY <1>1, <1>2, <2>1 DEF StagesLeased
<1>9. Grown /\ BodiesSurvive'
  BY <1>1, <1>2, <1>6 DEF Grown, Safe, BodiesSurvive, Referenced
<1>10. \A w \in User \ {u} : Spared(w)
  <2>1. \A w \in User \ {u} : Keeps(w) => job[w].file \in Name \ {f}
    BY <1>2, <1>5, DurableAssumption DEF Keeps, StoreForm, FilesApart
  <2> QED  BY <1>1, <1>6, <1>7, <2>1 DEF Spared, Keeps
<1>11. StoreForm'
  BY <1>1, <1>2, <1>3, <1>6, <1>7 DEF StoreForm
<1>12. Apart(u)
  BY <1>1, <1>3, <1>6, <1>10 DEF Apart
<1>13. Keeps(u)'
  BY <1>1, <1>5, <1>6 DEF Keeps
<1>14. StageOf(u)'
  <2>1. "lease" \notin Among(u)' /\ "stage" \in Among(u)' /\ "sync" \in Among(u)'
    BY <1>3, <1>4
  <2>2. IF "syncLease" \in Among(u)' THEN lease'[f] # "synced" ELSE lease'[f] = "synced"
    BY <1>1, <1>4, <1>7
  <2> QED  BY <1>1, <1>4, <1>13, <2>1, <2>2 DEF StageOf
<1>15. BodyOf(u)' /\ CopyOf(u)' /\ TellsOf(u)'
  BY <1>1, <1>2, <1>3, <1>6, <1>9, BodyStays, CopyStays, TellsStays DEF OperationIsSound, Past
<1> QED  BY <1>3, <1>6, <1>8, <1>9, <1>11, <1>12, <1>14, <1>15, Assembled DEF OperationIsSound

LEMMA CreateStageStep ==
  ASSUME StoreInv, NEW u \in User, CreateStage(u)
  PROVE  StoreInv'
<1> DEFINE f == job[u].file
<1>1. /\ Head(left[u]) = "stage" /\ left[u] # << >> /\ Proceeds(u) /\ locked' = locked /\ told' = told /\ job' = job
      /\ Becomes(<<[staging EXCEPT !.stages = @ \cup {f}]>>)
      /\ UNCHANGED <<ledgerFile, bodyFiles, lease, lessee, content, told>>
  BY DEF CreateStage, At, flags
<1>2. StoreForm /\ OperationIsSound(u) /\ StagesLeased /\ BodiesSurvive
  BY DEF StoreInv
<1>3. /\ left' \in [User -> Plan] /\ \A w \in User \ {u} : left'[w] = left[w]
      /\ Among(u) = {"stage"} \cup Among(u)' /\ PlanOf(u)' /\ LockOf(u)'
      /\ Rule(job[u].kind, "stage", Among(u)', First(left'[u]))
  BY <1>1, GoesOn
<1>4. Among(u) \cap Leasing = {"stage"} /\ Among(u)' \cap Leasing = {} /\ {"write", "sync"} \subseteq Among(u)'
  BY <1>3 DEF Rule, Filling, Leasing
<1>5. Keeps(u) /\ lease[f] = "synced"
  BY <1>2, <1>3, <1>4 DEF OperationIsSound, StageOf, Filling, Leasing
<1>6. /\ ledger' = ledger /\ ledgerDisk' = ledgerDisk /\ bodies' = bodies /\ bodiesDisk' = bodiesDisk /\ ToldIsKept'
      /\ content' = content /\ lease' = lease /\ lessee' = lessee
  BY <1>1, LedgerStays DEF bodyFiles
<1>7. /\ staging'.stages = staging.stages \cup {f} /\ staging'.leases = staging.leases
      /\ staging' \in stagingDisk' /\ stagingDisk' \subseteq [stages : SUBSET Name, leases : SUBSET Name]
      /\ StagesLeased'
  <2> DEFINE s == [staging EXCEPT !.stages = @ \cup {f}]
  <2>1. staging' = s /\ stagingDisk' = stagingDisk \cup {s}
    BY <1>1, BecomesOne
  <2>2. /\ staging \in [stages : SUBSET Name, leases : SUBSET Name] /\ staging \in stagingDisk
        /\ stagingDisk \subseteq [stages : SUBSET Name, leases : SUBSET Name]
    BY <1>2 DEF StoreForm
  <2>3. f \in staging.leases
    BY <1>5 DEF Keeps
  <2>4. s \in [stages : SUBSET Name, leases : SUBSET Name] /\ s.stages = staging.stages \cup {f} /\ s.leases = staging.leases
    BY <2>2, <2>3
  <2> HIDE DEF s
  <2>5. IsFiniteSet(s.leases) /\ Cardinality(s.leases) <= MaxReserved /\ \A g \in s.stages : g \in s.leases /\ lease[g] = "synced"
    BY <1>2, <1>5, <2>2, <2>3, <2>4 DEF StagesLeased
  <2>6. StagesLeased'
    BY <1>2, <1>6, <2>1, <2>5 DEF StagesLeased
  <2> QED  BY <2>1, <2>2, <2>4, <2>6
<1>8. Grown /\ BodiesSurvive'
  BY <1>2, <1>6 DEF Grown, Safe, BodiesSurvive, Referenced
<1>9. \A w \in User : Spared(w)
  BY <1>1, <1>6, <1>7 DEF Spared, Keeps
<1>10. StoreForm'
  BY <1>1, <1>2, <1>3, <1>6, <1>7 DEF StoreForm
<1>11. Apart(u)
  BY <1>1, <1>3, <1>6, <1>9 DEF Apart
<1>12. StageOf(u)'
  BY <1>1, <1>4, <1>5, <1>6, <1>7, <1>9 DEF StageOf, Spared, Leasing
<1>13. BodyOf(u)' /\ CopyOf(u)' /\ TellsOf(u)'
  BY <1>1, <1>2, <1>3, <1>6, <1>8, BodyStays, CopyStays, TellsStays DEF OperationIsSound, Past
<1> QED  BY <1>3, <1>6, <1>7, <1>8, <1>10, <1>11, <1>12, <1>13, Assembled DEF OperationIsSound

LEMMA FillStageStep ==
  ASSUME StoreInv, NEW u \in User, FillStage(u)
  PROVE  StoreInv'
<1> DEFINE f == job[u].file  h == Head(left[u])
<1>1. /\ h \in {"write", "sync"} /\ left[u] # << >> /\ Proceeds(u) /\ locked' = locked /\ told' = told /\ job' = job
      /\ h = "write" => content' = [content EXCEPT ![f] = "written"]
      /\ h = "sync" => content' = [content EXCEPT ![f] = "synced"]
      /\ UNCHANGED <<ledgerFile, bodyFiles, stageFiles, told>>
  BY DEF FillStage, At, flags
<1>2. StoreForm /\ OperationIsSound(u) /\ StagesLeased /\ BodiesSurvive /\ FilesApart
  BY DEF StoreInv
<1>3. /\ left' \in [User -> Plan] /\ \A w \in User \ {u} : left'[w] = left[w]
      /\ Among(u) = {h} \cup Among(u)' /\ PlanOf(u)' /\ LockOf(u)'
      /\ Rule(job[u].kind, h, Among(u)', First(left'[u]))
  BY <1>1, GoesOn
<1>4. "lease" \notin Among(u) /\ (h = "write" => "sync" \in Among(u)')
  BY <1>1, <1>3 DEF Rule, Filling
<1>5. Keeps(u) /\ f \in Name
  BY <1>1, <1>2, <1>3, <1>4 DEF OperationIsSound, StageOf, Filling, Keeps, StoreForm
<1>6. /\ ledger' = ledger /\ ledgerDisk' = ledgerDisk /\ bodies' = bodies /\ bodiesDisk' = bodiesDisk /\ ToldIsKept'
      /\ staging' = staging /\ stagingDisk' = stagingDisk /\ StagesLeased'
      /\ lease' = lease /\ lessee' = lessee
      /\ \A g \in Name \ {f} : content'[g] = content[g]
      /\ content' \in [Name -> {"none", "written", "synced", "torn"}]
      /\ h = "sync" => content'[f] = "synced"
  BY <1>1, <1>2, <1>5, LedgerStays DEF bodyFiles, stageFiles, StoreForm, StagesLeased
<1>7. (\A b \in bodiesDisk : f \notin b) /\ f \notin bodies /\ bodies \in bodiesDisk /\ bodiesDisk \subseteq SUBSET Name
  BY <1>2, <1>5 DEF Keeps, StoreForm
<1>8. Grown
  <2>1. \A g \in Name : Safe(g) => Safe(g)'
    BY <1>6, <1>7 DEF Safe
  <2> QED  BY <1>6, <1>7, <2>1 DEF Grown
<1>9. BodiesSurvive'
  BY <1>2, <1>6, <1>7 DEF BodiesSurvive, Referenced
<1>10. \A w \in User \ {u} : Spared(w)
  BY <1>1, <1>2, <1>5, <1>6 DEF Spared, Keeps, StoreForm
<1>11. StoreForm'
  BY <1>1, <1>2, <1>3, <1>6 DEF StoreForm
<1>12. Apart(u)
  BY <1>1, <1>3, <1>6, <1>10 DEF Apart
<1>13. Keeps(u)'
  BY <1>1, <1>5, <1>6 DEF Keeps
<1>14. StageOf(u)'
  <2>1. "lease" \notin Among(u)' /\ ("stage" \notin Among(u)' => "stage" \notin Among(u))
    BY <1>1, <1>3, <1>4
  <2>2. "stage" \notin Among(u)' => f \in staging.stages
    BY <1>1, <1>2, <1>3, <1>4, <2>1 DEF OperationIsSound, StageOf, Filling
  <2>3. /\ "writeLease" \in Among(u)' \/ "syncLease" \in Among(u)' => lease[f] # "synced"
        /\ "writeLease" \notin Among(u)' /\ "syncLease" \notin Among(u)' => lease[f] = "synced"
    <3>1. Among(u) \cap {"writeLease", "syncLease"} = Among(u)' \cap {"writeLease", "syncLease"} /\ h \in Filling /\ h \in Among(u)
      BY <1>1, <1>3 DEF Filling
    <3> QED  BY <1>2, <1>4, <3>1 DEF OperationIsSound, StageOf
  <2> QED  BY <1>1, <1>4, <1>6, <1>13, <2>1, <2>2, <2>3 DEF StageOf
<1>15. BodyOf(u)' /\ CopyOf(u)' /\ TellsOf(u)'
  BY <1>1, <1>2, <1>3, <1>6, <1>8, BodyStays, CopyStays, TellsStays DEF OperationIsSound, Past
<1> QED  BY <1>3, <1>6, <1>8, <1>9, <1>11, <1>12, <1>14, <1>15, Assembled DEF OperationIsSound

LEMMA MoveBodyStep ==
  ASSUME StoreInv, NEW u \in User, MoveBody(u)
  PROVE  StoreInv'
<1> DEFINE f == job[u].file
<1>1. /\ Head(left[u]) = "moveBody" /\ left[u] # << >> /\ Proceeds(u) /\ locked' = locked /\ told' = told /\ job' = job
      /\ Becomes(<<[staging EXCEPT !.stages = @ \ {f}]>>)
      /\ bodies' = bodies \cup {f} /\ bodiesDisk' = bodiesDisk \cup {bodies'}
      /\ UNCHANGED <<ledgerFile, lease, lessee, content, told>>
  BY DEF MoveBody, At
<1>2. StoreForm /\ OperationIsSound(u) /\ StagesLeased /\ BodiesSurvive
  BY DEF StoreInv
<1>3. /\ left' \in [User -> Plan] /\ \A w \in User \ {u} : left'[w] = left[w]
      /\ Among(u) = {"moveBody"} \cup Among(u)' /\ PlanOf(u)' /\ LockOf(u)'
      /\ Rule(job[u].kind, "moveBody", Among(u)', First(left'[u]))
  BY <1>1, GoesOn
<1>4. Among(u)' \cap (Filling \cup Leasing) = {} /\ "flushBodies" \in Among(u)'
  BY <1>3 DEF Rule
<1>5. Keeps(u) /\ f \in Name /\ content[f] = "synced"
  BY <1>2, <1>3, <1>4 DEF OperationIsSound, StageOf, Filling, Leasing, Keeps, StoreForm
<1>6. /\ ledger' = ledger /\ ledgerDisk' = ledgerDisk /\ ToldIsKept' /\ content' = content
      /\ lease' = lease /\ lessee' = lessee
  BY <1>1, LedgerStays
<1>7. /\ staging'.stages = staging.stages \ {f} /\ staging'.leases = staging.leases
      /\ staging' \in stagingDisk' /\ stagingDisk' \subseteq [stages : SUBSET Name, leases : SUBSET Name]
      /\ StagesLeased'
  <2> DEFINE s == [staging EXCEPT !.stages = @ \ {f}]
  <2>1. staging' = s /\ stagingDisk' = stagingDisk \cup {s}
    BY <1>1, BecomesOne
  <2>2. /\ staging \in [stages : SUBSET Name, leases : SUBSET Name] /\ staging \in stagingDisk
        /\ stagingDisk \subseteq [stages : SUBSET Name, leases : SUBSET Name]
    BY <1>2 DEF StoreForm
  <2>3. s \in [stages : SUBSET Name, leases : SUBSET Name] /\ s.stages = staging.stages \ {f} /\ s.leases = staging.leases
    BY <2>2
  <2> HIDE DEF s
  <2>4. IsFiniteSet(s.leases) /\ Cardinality(s.leases) <= MaxReserved /\ \A g \in s.stages : g \in s.leases /\ lease[g] = "synced"
    BY <1>2, <2>2, <2>3 DEF StagesLeased
  <2>5. StagesLeased'
    BY <1>2, <1>6, <2>1, <2>4 DEF StagesLeased
  <2> QED  BY <2>1, <2>2, <2>3, <2>5
<1>8. Grown
  <2>1. \A g \in Name : Safe(g) => Safe(g)'
    BY <1>1, <1>2, <1>6 DEF Safe, StoreForm
  <2> QED  BY <1>1, <1>6, <2>1 DEF Grown
<1>9. BodiesSurvive'
  BY <1>1, <1>2, <1>6 DEF BodiesSurvive, Referenced, StoreForm
<1>10. \A w \in User \ {u} : Spared(w)
  BY <1>1, <1>2, <1>5, <1>6, <1>7 DEF Spared, Keeps, StoreForm
<1>11. StoreForm'
  BY <1>1, <1>2, <1>3, <1>5, <1>6, <1>7 DEF StoreForm
<1>12. Apart(u)
  BY <1>1, <1>3, <1>6, <1>10 DEF Apart
<1>13. StageOf(u)'
  BY <1>4 DEF StageOf, Filling, Leasing
<1>14. BodyOf(u)'
  BY <1>1, <1>4, <1>5, <1>6 DEF BodyOf, Filling
<1>15. CopyOf(u)' /\ TellsOf(u)'
  BY <1>1, <1>2, <1>3, <1>6, <1>8, CopyStays, TellsStays DEF OperationIsSound, Past
<1> QED  BY <1>3, <1>6, <1>7, <1>8, <1>9, <1>11, <1>12, <1>13, <1>14, <1>15, Assembled DEF OperationIsSound

LEMMA MoveLedgerStep ==
  ASSUME StoreInv, NEW u \in User, MoveLedger(u)
  PROVE  StoreInv'
<1>1. /\ Head(left[u]) = "moveLedger" /\ left[u] # << >> /\ Proceeds(u) /\ locked' = locked /\ told' = told /\ job' = job
      /\ ledger' = job[u].copy /\ ledgerDisk' = ledgerDisk \cup {ledger'}
      /\ UNCHANGED <<bodyFiles, stageFiles, content>>
  BY DEF MoveLedger, At
<1>2. StoreForm /\ OperationIsSound(u) /\ StagesLeased /\ BodiesSurvive /\ ToldIsKept
  BY DEF StoreInv
<1>3. /\ left' \in [User -> Plan] /\ \A w \in User \ {u} : left'[w] = left[w]
      /\ Among(u) = {"moveLedger"} \cup Among(u)' /\ PlanOf(u)' /\ LockOf(u)'
      /\ Rule(job[u].kind, "moveLedger", Among(u)', First(left'[u]))
      /\ "moveLedger" \notin Outside(job[u].kind) => locked = u
  BY <1>1, GoesOn
<1>4. /\ Among(u)' \cap {"mutate", "read", "refer", "install", "moveLedger"} = {} /\ "flushLedger" \in Among(u)'
      /\ locked = u
  BY <1>3 DEF Rule, Outside
<1>5. job[u].doc \in Held /\ job[u].kind # "speak"
  BY <1>2, <1>3 DEF OperationIsSound, PlanOf
<1>6. /\ \A d \in Held : job[u].copy[d] # Nothing => Safe(job[u].copy[d])
      /\ \A d \in Held : ledger[d] # Nothing => job[u].copy[d] # Nothing
      /\ job[u].copy[job[u].doc] # Nothing
      /\ job[u].copy \in [Held -> Name \cup {Nothing}]
  BY <1>2, <1>3, <1>4 DEF OperationIsSound, CopyOf, Past, StoreForm, JobRecord
<1>7. /\ bodies' = bodies /\ bodiesDisk' = bodiesDisk /\ staging' = staging /\ stagingDisk' = stagingDisk
      /\ lease' = lease /\ lessee' = lessee /\ content' = content /\ StagesLeased'
  BY <1>1, <1>2 DEF bodyFiles, stageFiles, StagesLeased
<1>8. Grown
  BY <1>1, <1>6, <1>7 DEF Grown, Safe
<1>9. BodiesSurvive'
  BY <1>1, <1>2, <1>6, <1>7 DEF BodiesSurvive, Referenced, Safe
<1>10. ToldIsKept'
  BY <1>1, <1>2, <1>6 DEF ToldIsKept, Referenced, StoreForm
<1>11. \A w \in User : Spared(w)
  BY <1>1, <1>7 DEF Spared, Keeps
<1>12. StoreForm'
  BY <1>1, <1>2, <1>3, <1>6, <1>7 DEF StoreForm
<1>13. Apart(u)
  BY <1>1, <1>3, <1>4, <1>11 DEF Apart
<1>14. StageOf(u)' /\ BodyOf(u)'
  BY <1>1, <1>2, <1>3, <1>8, <1>11, StageStays, BodyStays DEF OperationIsSound, Filling, Leasing
<1>15. CopyOf(u)' /\ TellsOf(u)'
  BY <1>1, <1>4, <1>5, <1>6 DEF CopyOf, TellsOf
<1> QED  BY <1>3, <1>7, <1>8, <1>9, <1>10, <1>12, <1>13, <1>14, <1>15, Assembled DEF OperationIsSound

\* The processes that ended have nothing left to do, and their leases are nobody's.
LEMMA EndedStep ==
  ASSUME StoreInv, NEW ended \in SUBSET User, End(ended)
  PROVE  /\ left' \in [User -> Plan] /\ job' \in [User -> JobRecord]
         /\ lessee' \in [Name -> User \cup {Nothing}] /\ locked' \in User \cup {Nothing}
         /\ \A u \in ended : OperationIsSound(u)' /\ job'[u].file = Nothing
         /\ \A w \in User \ ended : left'[w] = left[w] /\ job'[w] = job[w] /\ (locked = w => locked' = w)
         /\ \A f \in Name : lessee[f] \notin ended => lessee'[f] = lessee[f]
<1>1. StoreForm /\ << >> \in Plan
  BY EmptyPlan DEF StoreInv
<1>2. NoJob \in JobRecord
  BY DEF NoJob, JobRecord
<1>3. ASSUME NEW u \in ended PROVE OperationIsSound(u)' /\ job'[u].file = Nothing
  <2>1. left'[u] = << >>
    BY <1>3 DEF End
  <2>2. Among(u)' = {} /\ First(left[u])' = "end" /\ InOrder(job[u].kind, left[u])'
    BY <2>1, EmptyPlan DEF Among
  <2>3. PlanOf(u)' /\ LockOf(u)'
    BY <2>2 DEF PlanOf, LockOf, Copied, Outside
  <2>4. StageOf(u)' /\ BodyOf(u)' /\ CopyOf(u)' /\ TellsOf(u)'
    BY <2>2 DEF StageOf, BodyOf, CopyOf, TellsOf
  <2>5. job'[u].file = Nothing
    BY <1>3 DEF End, NoJob
  <2> QED  BY <2>3, <2>4, <2>5 DEF OperationIsSound
<1>4. left' \in [User -> Plan] /\ job' \in [User -> JobRecord]
  BY <1>1, <1>2 DEF End, StoreForm
<1>5. lessee' \in [Name -> User \cup {Nothing}] /\ locked' \in User \cup {Nothing}
  BY <1>1 DEF End, StoreForm
<1>6. \A w \in User \ ended : left'[w] = left[w] /\ job'[w] = job[w] /\ (locked = w => locked' = w)
  BY DEF End
<1>7. \A f \in Name : lessee[f] \notin ended => lessee'[f] = lessee[f]
  BY DEF End
<1> QED  BY <1>3, <1>4, <1>5, <1>6, <1>7

LEMMA ProcessEndsStep ==
  ASSUME StoreInv, NEW u \in User, UserKilled(u) \/ UserExits(u)
  PROVE  StoreInv'
<1>1. End({u}) /\ UNCHANGED <<ledgerFile, bodyFiles, staging, stagingDisk, lease, content, told>>
  BY DEF UserKilled, UserExits
<1>2. /\ left' \in [User -> Plan] /\ job' \in [User -> JobRecord]
      /\ lessee' \in [Name -> User \cup {Nothing}] /\ locked' \in User \cup {Nothing}
      /\ OperationIsSound(u)' /\ job'[u].file = Nothing
      /\ \A w \in User \ {u} : left'[w] = left[w] /\ job'[w] = job[w] /\ (locked = w => locked' = w)
      /\ \A f \in Name : lessee[f] # u => lessee'[f] = lessee[f]
  BY <1>1, EndedStep
<1>3. /\ ledger' = ledger /\ ledgerDisk' = ledgerDisk /\ bodies' = bodies /\ bodiesDisk' = bodiesDisk
      /\ staging' = staging /\ stagingDisk' = stagingDisk /\ lease' = lease /\ content' = content /\ told' = told
  BY <1>1 DEF ledgerFile, bodyFiles
<1>4. StoreForm /\ StagesLeased /\ BodiesSurvive /\ ToldIsKept
  BY DEF StoreInv
<1>5. StagesLeased' /\ BodiesSurvive' /\ ToldIsKept'
  BY <1>3, <1>4 DEF StagesLeased, BodiesSurvive, ToldIsKept, Referenced
<1>6. Grown
  BY <1>3 DEF Grown, Safe
<1>7. \A w \in User \ {u} : Spared(w)
  BY <1>2, <1>3, <1>4 DEF Spared, Keeps, StoreForm
<1>8. StoreForm'
  BY <1>2, <1>3, <1>4 DEF StoreForm
<1>9. Apart(u)
  BY <1>2, <1>3, <1>7 DEF Apart
<1> QED  BY <1>2, <1>5, <1>6, <1>8, <1>9, Assembled

LEMMA HostRestartsStep ==
  ASSUME StoreInv, HostRestarts
  PROVE  StoreInv'
<1>1. PICK v \in ledgerDisk, b \in bodiesDisk, s \in stagingDisk :
        /\ ledger' = v /\ ledgerDisk' = {v} /\ bodies' = b /\ bodiesDisk' = {b} /\ staging' = s /\ stagingDisk' = {s}
        /\ content' = [f \in Name |-> IF content[f] = "written" THEN "torn" ELSE content[f]]
        /\ \E torn \in SUBSET {f \in Name : lease[f] = "written"} :
             lease' = [f \in Name |-> IF f \in torn THEN "torn" ELSE lease[f]]
        /\ End(User) /\ told' = told
  BY DEF HostRestarts
<1>2. /\ left' \in [User -> Plan] /\ job' \in [User -> JobRecord]
      /\ lessee' \in [Name -> User \cup {Nothing}] /\ locked' \in User \cup {Nothing}
      /\ \A u \in User : OperationIsSound(u)' /\ job'[u].file = Nothing
  BY <1>1, EndedStep
<1>3. StoreForm /\ StagesLeased /\ BodiesSurvive /\ ToldIsKept
  BY DEF StoreInv
<1>4. /\ content' \in [Name -> {"none", "written", "synced", "torn"}]
      /\ lease' \in [Name -> {"empty", "written", "synced", "torn"}]
      /\ \A f \in Name : lease[f] = "synced" => lease'[f] = "synced"
  BY <1>1, <1>3 DEF StoreForm
<1>5. StoreForm'
  BY <1>1, <1>2, <1>3, <1>4 DEF StoreForm
<1>6. StagesLeased' /\ ToldIsKept' /\ FilesApart'
  <2>1. StagesLeased'
    BY <1>1, <1>3, <1>4 DEF StagesLeased, StoreForm
  <2> QED  BY <1>1, <1>2, <1>3, <2>1 DEF ToldIsKept, Referenced, FilesApart
<1>7. BodiesSurvive'
  <2>1. \A d \in Referenced(v) : v[d] \in b /\ content[v[d]] = "synced"
    BY <1>1, <1>3 DEF BodiesSurvive
  <2>2. b \subseteq Name
    BY <1>3 DEF StoreForm
  <2>3. \A d \in Referenced(v) : v[d] \in b /\ content'[v[d]] = "synced"
    BY <1>1, <2>1, <2>2
  <2> QED  BY <1>1, <2>3 DEF BodiesSurvive, Referenced
<1> QED  BY <1>2, <1>5, <1>6, <1>7 DEF StoreInv

LEMMA StoreInitially == StoreInit => StoreInv
<1> SUFFICES ASSUME StoreInit PROVE StoreInv
  OBVIOUS
<1>1. StoreForm
  <2>1. << >> \in Plan /\ NoJob \in JobRecord
    BY EmptyPlan DEF NoJob, JobRecord
  <2> QED  BY <2>1 DEF StoreInit, StoreForm
<1>2. ASSUME NEW u \in User PROVE OperationIsSound(u)
  <2>1. left[u] = << >>
    BY DEF StoreInit
  <2>2. Among(u) = {} /\ First(left[u]) = "end" /\ InOrder(job[u].kind, left[u])
    BY <2>1, EmptyPlan DEF Among
  <2>3. PlanOf(u) /\ LockOf(u)
    BY <2>2 DEF PlanOf, LockOf, Copied, Outside
  <2>4. StageOf(u) /\ BodyOf(u) /\ CopyOf(u) /\ TellsOf(u)
    BY <2>2 DEF StageOf, BodyOf, CopyOf, TellsOf
  <2> QED  BY <2>3, <2>4 DEF OperationIsSound
<1>3. BodiesSurvive /\ ToldIsKept /\ FilesApart
  BY DEF StoreInit, BodiesSurvive, ToldIsKept, Referenced, FilesApart, NoJob
<1>4. StagesLeased
  <2>1. stagingDisk = {[stages |-> {}, leases |-> {}]}
    BY DEF StoreInit
  <2>2. IsFiniteSet({}) /\ Cardinality({}) = 0
    BY FS_EmptySet
  <2> QED  BY <2>1, <2>2, DurableAssumption DEF StagesLeased
<1> QED  BY <1>1, <1>2, <1>3, <1>4 DEF StoreInv

LEMMA StoreMoves == StoreInv /\ [StoreNext]_storeVars => StoreInv'
<1> SUFFICES ASSUME StoreInv, [StoreNext]_storeVars PROVE StoreInv'
  OBVIOUS
<1>1. CASE UNCHANGED storeVars
  <2>1. /\ ledger' = ledger /\ ledgerDisk' = ledgerDisk /\ bodies' = bodies /\ bodiesDisk' = bodiesDisk
        /\ staging' = staging /\ stagingDisk' = stagingDisk /\ content' = content /\ told' = told
        /\ lease' = lease /\ lessee' = lessee /\ left' = left /\ job' = job /\ locked' = locked
    BY <1>1 DEF storeVars, ledgerFile, bodyFiles, stageFiles, flags
  <2>2. UNCHANGED <<ledgerFile, bodyFiles, stageFiles, content>>
    BY <2>1 DEF ledgerFile, bodyFiles, stageFiles
  <2>3. StoreForm'
    BY <2>1 DEF StoreInv, StoreForm
  <2>4. StagesLeased' /\ BodiesSurvive' /\ ToldIsKept' /\ FilesApart'
    BY <2>1 DEF StoreInv, StagesLeased, BodiesSurvive, ToldIsKept, Referenced, FilesApart
  <2>5. Grown /\ \A w \in User : Spared(w)
    BY <2>1 DEF Grown, Safe, Spared, Keeps
  <2>6. \A w \in User : OperationIsSound(w)'
    BY <2>1, <2>5, OthersStay DEF StoreInv
  <2> QED  BY <2>3, <2>4, <2>6 DEF StoreInv
<1>2. ASSUME NEW u \in User, UserStep(u) PROVE StoreInv'
  BY <1>2, StartStep, MutateStep, ReadLedgerStep, LockOrUnlockStep, SetFlagStep, FlushStep, DiscardStep, CleanDeadStep,
     RefuseReservationStep, CreateLeaseStep, FillLeaseStep, CreateStageStep, FillStageStep, InstallStep, MoveBodyStep, ReferStep,
     MoveLedgerStep, TellStep, StepFailsStep, ProcessEndsStep DEF UserStep
<1> QED  BY <1>1, <1>2, HostRestartsStep DEF StoreNext

LEMMA StoreAlwaysSound == StoreSpec => []StoreInv
BY StoreInitially, StoreMoves, PTL DEF StoreSpec

\* Whatever step fails, whoever is killed and whenever the host restarts: every body the
\* ledger refers to is in its directory, whole, and what a user or a peer was told is
\* recorded (sync-store.ts commit and baseline, sync-staging.ts installBody).
THEOREM StoreSurvivesAlways == StoreSpec => []StoreSurvives
<1>1. StoreInv => StoreSurvives
  BY DEF StoreInv, StoreSurvives
<1> QED  BY <1>1, StoreAlwaysSound, PTL

\* Whatever fails, is killed or restarted: a stage is never left without the whole lease by
\* which it is cleared, never more names are leased than may be reserved, and no process
\* takes the stage of a transfer that still needs it (sync-staging.ts reserve, release and
\* cleanDead, sync-files.ts exclusiveFile).
THEOREM StagesOwnedAlways == StoreSpec => []StagesOwned
<1>1. ASSUME StoreInv PROVE StagesOwned
  <2>1. \A s \in stagingDisk : /\ \A f \in s.stages : f \in s.leases /\ lease[f] = "synced"
                               /\ Cardinality(s.leases) <= MaxReserved
    BY <1>1 DEF StoreInv, StagesLeased
  <2>2. ASSUME NEW u \in User, job[u].kind = "apply", Ahead(u) \cap {"lease", "stage"} = {},
               Ahead(u) \cap Filling # {}
        PROVE  job[u].file \in staging.stages
    <3>1. Ahead(u) = Among(u)
      <4>1. left[u] \in Seq(Order)
        BY <1>1 DEF StoreInv, StoreForm, Plan
      <4>2. DOMAIN left[u] = 1 .. Len(left[u])
        BY <4>1
      <4> QED  BY <4>2 DEF Ahead, Among, Listed
    <3>2. StageOf(u)
      BY <1>1 DEF StoreInv, OperationIsSound
    <3> QED  BY <2>2, <3>1, <3>2 DEF StageOf
  <2> QED  BY <2>1, <2>2 DEF StagesOwned, Filling
<1> QED  BY <1>1, StoreAlwaysSound, PTL

-----------------------------------------------------------------------------
(* One read of a record without a lock.  Each attempt that comes to nothing  *)
(* saw a change of its own; an inode number is only given out again after    *)
(* two, and never while the file is open.                                    *)

File == [version : Nat, inode : Inode \cup {0}]

ReaderForm ==
  /\ kind \in Kind /\ changes \in Nat /\ tries \in Nat /\ tries >= 1 /\ changes + 1 >= tries
  /\ linked \in File /\ found \in File /\ opened \in File /\ doubted \in File
  /\ linked.version <= changes + 1 /\ found.version <= changes + 1 /\ opened.version <= changes + 1
  /\ stage \in {"lookup", "attributes", "open", "opened", "read", "completed", "replacement", "answered"}
  /\ kind = "viewer" => stage \notin {"lookup", "attributes", "completed", "replacement"}
  /\ kind = "ledger" => linked # NoFile
  /\ linked = NoFile => absent
  /\ stage = "replacement" => kind = "ledger"
  /\ stage = "completed" => kind \in {"ledger", "worker"}

\* Another file of the name than before costs a change, and one of the same inode number two.
SinceLookup ==
  kind # "viewer" /\ stage \in {"attributes", "open", "opened", "read", "completed", "replacement"} =>
    /\ found # NoFile
    /\ linked # found => changes >= tries
    /\ linked \notin {found, NoFile} /\ SameInode(linked, found) => changes >= 2

SinceOpen ==
  stage \in {"opened", "read", "completed"} =>
    /\ opened # NoFile
    /\ linked # opened => changes >= tries
    /\ kind # "viewer" /\ opened # found => changes >= tries /\ (SameInode(opened, found) => changes >= 2)

\* What is open keeps its inode number.
InodeIsHeld == opened # NoFile /\ linked \notin {opened, NoFile} => ~SameInode(linked, opened)

DoubtIsReal ==
  stage = "replacement" =>
    /\ changes >= tries
    /\ doubted = found \/ (doubted = opened /\ opened # NoFile)
    /\ doubted # linked \/ ~SameInode(doubted, found)

BytesAreLinked == stage = "completed" /\ linked = opened => atEnd = opened.version

AnswerIsLast == stage # "answered" => answer = "none"

ReaderInv ==
  /\ ReaderForm /\ SinceLookup /\ SinceOpen /\ InodeIsHeld /\ DoubtIsReal /\ BytesAreLinked
  /\ AnswerIsLast /\ AnswerIsOfItsTime

LEMMA NoFileIsAFile == NoFile \in File /\ NoFile.version = 0
BY DEF NoFile, File

LEMMA RecordChanges ==
  ASSUME ReaderInv, Replace \/ RemoveRecord
  PROVE  ReaderInv'
<1>1. ReaderForm /\ SinceLookup /\ SinceOpen /\ InodeIsHeld /\ DoubtIsReal /\ BytesAreLinked /\ AnswerIsLast
  BY DEF ReaderInv
<1>2. /\ kind' = kind /\ stage' = stage /\ found' = found /\ opened' = opened /\ doubted' = doubted
      /\ atEnd' = atEnd /\ tries' = tries /\ answer' = answer /\ stage # "answered" /\ changes' = changes + 1
  BY DEF Replace, RemoveRecord, MayChange
<1>3. /\ linked' \in File /\ linked'.version <= changes' + 1 /\ (kind = "ledger" => linked' # NoFile)
      /\ (linked' = NoFile => absent')
      /\ linked' = NoFile \/ (linked'.version = changes + 2 /\ ~SameInode(linked', linked) /\ ~SameInode(linked', opened))
  <2>1. CASE Replace
    <3>1. PICK i \in Inode \ {linked.inode, opened.inode} : linked' = [version |-> changes + 2, inode |-> i]
      BY <2>1 DEF Replace
    <3>2. linked' \in File /\ linked'.version = changes + 2 /\ linked'.inode = i
      BY <1>1, <3>1 DEF File, ReaderForm
    <3> QED  BY <1>1, <1>2, <3>1, <3>2, NoFileIsAFile DEF SameInode, ReaderForm
  <2>2. CASE RemoveRecord
    BY <1>1, <1>2, <2>2, NoFileIsAFile DEF RemoveRecord, ReaderForm
  <2> QED  BY <2>1, <2>2
<1>4. \A f \in {found, opened} : f # NoFile => linked' # f
  BY <1>1, <1>3 DEF ReaderForm
<1>5. changes' \in Nat /\ changes' >= tries /\ changes' >= 1
  BY <1>1, <1>2 DEF ReaderForm
<1>6. linked # found => changes' >= 2 \/ kind = "viewer" \/ stage \notin {"attributes", "open", "opened", "read", "completed", "replacement"}
  BY <1>1, <1>2 DEF ReaderForm, SinceLookup
<1>7. ReaderForm'
  BY <1>1, <1>2, <1>3 DEF ReaderForm, File
<1>8. SinceLookup'
  BY <1>1, <1>2, <1>3, <1>5, <1>6 DEF SinceLookup, SameInode
<1>9. SinceOpen'
  BY <1>1, <1>2, <1>5 DEF SinceOpen, SameInode, ReaderForm
<1>10. InodeIsHeld'
  BY <1>2, <1>3 DEF InodeIsHeld, SameInode
<1>11. DoubtIsReal'
  BY <1>1, <1>2, <1>4, <1>5 DEF DoubtIsReal, SinceLookup, SameInode, ReaderForm
<1>12. BytesAreLinked'
  BY <1>1, <1>2, <1>4 DEF BytesAreLinked, SinceOpen
<1>13. AnswerIsLast' /\ AnswerIsOfItsTime'
  BY <1>1, <1>2 DEF AnswerIsLast, AnswerIsOfItsTime
<1> QED  BY <1>7, <1>8, <1>9, <1>10, <1>11, <1>12, <1>13 DEF ReaderInv

LEMMA AttemptsIs == \A k \in Kind : Attempts[k] \in Nat
BY ReaderAssumption DEF Attempts

\* Another attempt, or the last one: the change it saw counts for it.
LEMMA AttemptEnds ==
  ASSUME ReaderInv, Again, Elsewhere, changes >= tries, stage # "answered",
         found' \in File, opened' \in File, doubted' \in File,
         found'.version <= changes + 1, opened'.version <= changes + 1, InodeIsHeld'
  PROVE  ReaderInv'
<1>1. ReaderForm /\ InodeIsHeld /\ AnswerIsLast
  BY DEF ReaderInv
<1>2. /\ kind' = kind /\ linked' = linked /\ changes' = changes /\ absent' = absent
  BY DEF Elsewhere
<1>3. CASE tries < Attempts[kind]
  <2>1. stage' = FirstStage /\ tries' = tries + 1 /\ answer' = answer
    BY <1>3 DEF Again
  <2>2. stage' \in {"lookup", "open"} /\ (kind = "viewer" <=> stage' = "open")
    BY <2>1 DEF FirstStage
  <2>3. ReaderForm'
    BY <1>1, <1>2, <2>1, <2>2 DEF ReaderForm
  <2>4. SinceLookup' /\ SinceOpen' /\ DoubtIsReal' /\ BytesAreLinked'
    BY <1>2, <2>2 DEF SinceLookup, SinceOpen, DoubtIsReal, BytesAreLinked
  <2>5. InodeIsHeld'
    OBVIOUS
  <2>6. AnswerIsLast' /\ AnswerIsOfItsTime'
    BY <1>1, <2>1 DEF AnswerIsLast, AnswerIsOfItsTime
  <2> QED  BY <2>3, <2>4, <2>5, <2>6 DEF ReaderInv
<1>4. CASE ~(tries < Attempts[kind])
  <2>1. stage' = "answered" /\ answer' = "busy" /\ tries' = tries
    BY <1>4 DEF Again, Answers
  <2>2. changes >= Attempts[kind]
    BY <1>1, <1>4, AttemptsIs DEF ReaderForm
  <2>3. ReaderForm' /\ SinceLookup' /\ SinceOpen' /\ DoubtIsReal' /\ BytesAreLinked'
    BY <1>1, <1>2, <2>1 DEF ReaderForm, SinceLookup, SinceOpen, DoubtIsReal, BytesAreLinked
  <2>4. InodeIsHeld'
    OBVIOUS
  <2>5. AnswerIsLast' /\ AnswerIsOfItsTime'
    BY <1>2, <2>1, <2>2 DEF AnswerIsLast, AnswerIsOfItsTime
  <2> QED  BY <2>3, <2>4, <2>5 DEF ReaderInv
<1> QED  BY <1>3, <1>4

\* The read ends with an answer of its time.
LEMMA ReadAnswers ==
  ASSUME ReaderInv, NEW value, Answers(value), Elsewhere, found' \in File, opened' \in File, doubted' \in File,
         found'.version <= changes + 1, opened'.version <= changes + 1, InodeIsHeld',
         value = "missing" => absent,
         value = "bytes" /\ kind \in {"ledger", "worker"} => atEnd' = opened'.version,
         value # "busy", value = "error" => changes >= 2
  PROVE  ReaderInv'
<1>1. ReaderForm
  BY DEF ReaderInv
<1>2. /\ kind' = kind /\ linked' = linked /\ changes' = changes /\ absent' = absent
      /\ stage' = "answered" /\ answer' = value /\ tries' = tries
  BY DEF Elsewhere, Answers
<1>3. ReaderForm' /\ SinceLookup' /\ SinceOpen' /\ DoubtIsReal' /\ BytesAreLinked'
  BY <1>1, <1>2 DEF ReaderForm, SinceLookup, SinceOpen, DoubtIsReal, BytesAreLinked
<1>4. AnswerIsLast' /\ AnswerIsOfItsTime'
  BY <1>2 DEF AnswerIsLast, AnswerIsOfItsTime
<1> QED  BY <1>3, <1>4 DEF ReaderInv

LEMMA ReaderLooks ==
  ASSUME ReaderInv, Lookup \/ LookAttributes \/ OpenRecord
  PROVE  ReaderInv'
<1>1. ReaderForm /\ SinceLookup /\ SinceOpen /\ InodeIsHeld /\ DoubtIsReal /\ BytesAreLinked /\ AnswerIsLast
  BY DEF ReaderInv
<1>2. Elsewhere /\ kind' = kind /\ linked' = linked /\ changes' = changes /\ absent' = absent /\ changes \in Nat
  BY <1>1 DEF Lookup, LookAttributes, OpenRecord, Elsewhere, ReaderForm
<1>3. CASE Lookup
  <2>1. /\ found' = linked /\ opened' = NoFile /\ doubted' = NoFile /\ stage = "lookup" /\ kind # "viewer"
        /\ found' \in File /\ opened' \in File /\ doubted' \in File
        /\ found'.version <= changes + 1 /\ opened'.version <= changes + 1
    BY <1>1, <1>2, <1>3, NoFileIsAFile DEF Lookup, ReaderForm
  <2>2. InodeIsHeld'
    BY <2>1 DEF InodeIsHeld
  <2>3. CASE linked # NoFile
    <3>1. stage' = "attributes" /\ tries' = tries /\ answer' = answer
      BY <1>3, <2>3 DEF Lookup, Continue
    <3>2. ReaderForm'
      BY <1>1, <1>2, <2>1, <3>1 DEF ReaderForm
    <3>3. SinceLookup' /\ SinceOpen' /\ DoubtIsReal' /\ BytesAreLinked'
      BY <1>2, <2>1, <2>3, <3>1 DEF SinceLookup, SinceOpen, DoubtIsReal, BytesAreLinked
    <3>4. AnswerIsLast' /\ AnswerIsOfItsTime'
      BY <1>1, <2>1, <3>1 DEF AnswerIsLast, AnswerIsOfItsTime
    <3> QED  BY <2>2, <3>2, <3>3, <3>4 DEF ReaderInv
  <2>4. CASE linked = NoFile
    <3>1. kind # "ledger" /\ absent /\ Answers("missing")
      BY <1>1, <1>3, <2>4 DEF Lookup, ReaderForm
    <3> QED  BY <1>2, <2>1, <2>2, <3>1, ReadAnswers
  <2> QED  BY <2>3, <2>4
<1>4. CASE LookAttributes
  <2>1. /\ stage = "attributes" /\ found' = found /\ opened' = opened /\ found \in File /\ kind # "viewer"
    BY <1>1, <1>4 DEF LookAttributes, ReaderForm
  <2>2. InodeIsHeld'
    BY <1>1, <1>2, <2>1 DEF InodeIsHeld, SameInode
  <2>3. CASE found = linked
    <3>1. stage' = "open" /\ tries' = tries /\ answer' = answer /\ doubted' = doubted
      BY <1>4, <2>3 DEF LookAttributes, Continue, Unlinked
    <3>2. ReaderForm'
      BY <1>1, <1>2, <2>1, <3>1 DEF ReaderForm
    <3>3. SinceLookup' /\ SinceOpen' /\ DoubtIsReal' /\ BytesAreLinked'
      BY <1>1, <1>2, <2>1, <2>3, <3>1 DEF SinceLookup, SinceOpen, DoubtIsReal, BytesAreLinked
    <3>4. AnswerIsLast' /\ AnswerIsOfItsTime'
      BY <1>1, <2>1, <3>1 DEF AnswerIsLast, AnswerIsOfItsTime
    <3> QED  BY <2>2, <3>2, <3>3, <3>4 DEF ReaderInv
  <2>4. CASE found # linked /\ kind = "ledger"
    <3>1. stage' = "replacement" /\ tries' = tries /\ answer' = answer /\ doubted' = found
      BY <1>4, <2>4 DEF LookAttributes, Continue, Seek, Unlinked
    <3>2. changes >= tries
      BY <1>1, <2>1, <2>4 DEF SinceLookup
    <3>3. ReaderForm'
      BY <1>1, <1>2, <2>1, <2>4, <3>1 DEF ReaderForm
    <3>4. SinceLookup' /\ SinceOpen' /\ DoubtIsReal' /\ BytesAreLinked'
      BY <1>1, <1>2, <2>1, <2>4, <3>1, <3>2 DEF SinceLookup, SinceOpen, DoubtIsReal, BytesAreLinked, SameInode
    <3>5. AnswerIsLast' /\ AnswerIsOfItsTime'
      BY <1>1, <2>1, <3>1 DEF AnswerIsLast, AnswerIsOfItsTime
    <3> QED  BY <2>2, <3>3, <3>4, <3>5 DEF ReaderInv
  <2>5. CASE found # linked /\ kind # "ledger"
    <3>1. Again /\ doubted' = doubted
      BY <1>4, <2>5 DEF LookAttributes, Retry, Unlinked
    <3>2. changes >= tries
      BY <1>1, <2>1, <2>5 DEF SinceLookup
    <3>3. doubted' \in File
      BY <1>1, <3>1 DEF ReaderForm
    <3>4. found.version <= changes + 1 /\ opened.version <= changes + 1 /\ opened \in File
      BY <1>1 DEF ReaderForm
    <3> QED  BY <1>2, <2>1, <2>2, <3>1, <3>2, <3>3, <3>4, AttemptEnds
  <2> QED  BY <2>3, <2>4, <2>5
<1>5. CASE OpenRecord
  <2>1. /\ stage = "open" /\ found' = found /\ opened' = linked /\ doubted' = doubted /\ atEnd' = atEnd
        /\ found' \in File /\ opened' \in File /\ doubted' \in File
        /\ found'.version <= changes + 1 /\ opened'.version <= changes + 1
    BY <1>1, <1>2, <1>5 DEF OpenRecord, ReaderForm
  <2>2. InodeIsHeld'
    BY <1>2, <2>1 DEF InodeIsHeld
  <2>3. CASE linked # NoFile
    <3>1. stage' = "opened" /\ tries' = tries /\ answer' = answer
      BY <1>5, <2>3 DEF OpenRecord, Continue
    <3>2. ReaderForm'
      BY <1>1, <1>2, <2>1, <3>1 DEF ReaderForm
    <3>3. SinceLookup' /\ SinceOpen' /\ DoubtIsReal' /\ BytesAreLinked'
      BY <1>1, <1>2, <2>1, <2>3, <3>1 DEF SinceLookup, SinceOpen, DoubtIsReal, BytesAreLinked, SameInode
    <3>4. AnswerIsLast' /\ AnswerIsOfItsTime'
      BY <1>1, <2>1, <3>1 DEF AnswerIsLast, AnswerIsOfItsTime
    <3> QED  BY <2>2, <3>2, <3>3, <3>4 DEF ReaderInv
  <2>4. CASE linked = NoFile /\ kind = "catalog"
    <3>1. Again
      BY <1>5, <2>4 DEF OpenRecord, Retry
    <3>2. changes >= tries
      BY <1>1, <2>1, <2>4 DEF SinceLookup
    <3> QED  BY <1>1, <1>2, <2>1, <2>2, <2>4, <3>1, <3>2, AttemptEnds
  <2>5. CASE linked = NoFile /\ kind # "catalog"
    <3>1. kind # "ledger" /\ absent /\ Answers("missing")
      BY <1>1, <1>5, <2>5 DEF OpenRecord, ReaderForm
    <3> QED  BY <1>2, <2>1, <2>2, <3>1, ReadAnswers
  <2> QED  BY <2>3, <2>4, <2>5
<1> QED  BY <1>3, <1>4, <1>5

\* The search for a replacement begins with a file that is not the one looked for any more.
LEMMA ReaderSeeks ==
  ASSUME ReaderInv, Seek(opened), Elsewhere, UNCHANGED <<found, opened, atEnd>>, kind = "ledger",
         stage \in {"opened", "completed"}, opened # linked \/ ~SameInode(opened, found)
  PROVE  ReaderInv'
<1>1. ReaderForm /\ SinceLookup /\ SinceOpen /\ InodeIsHeld /\ AnswerIsLast
  BY DEF ReaderInv
<1>2. /\ kind' = kind /\ linked' = linked /\ changes' = changes /\ absent' = absent /\ found' = found /\ opened' = opened
      /\ doubted' = opened /\ stage' = "replacement" /\ tries' = tries /\ answer' = answer
  BY DEF Elsewhere, Seek, Continue
<1>3. opened # NoFile /\ changes >= tries
  BY <1>1 DEF SinceOpen, SameInode
<1>4. ReaderForm'
  BY <1>1, <1>2 DEF ReaderForm
<1>5. SinceLookup' /\ SinceOpen' /\ BytesAreLinked'
  BY <1>1, <1>2 DEF SinceLookup, SinceOpen, BytesAreLinked, SameInode
<1>6. DoubtIsReal' /\ InodeIsHeld'
  BY <1>1, <1>2, <1>3 DEF DoubtIsReal, InodeIsHeld, SameInode
<1>7. AnswerIsLast' /\ AnswerIsOfItsTime'
  BY <1>1, <1>2 DEF AnswerIsLast, AnswerIsOfItsTime
<1> QED  BY <1>4, <1>5, <1>6, <1>7 DEF ReaderInv

LEMMA ReaderReads ==
  ASSUME ReaderInv, LookOpened \/ ReadRecord \/ LookCompleted \/ FindReplacement
  PROVE  ReaderInv'
<1>1. ReaderForm /\ SinceLookup /\ SinceOpen /\ InodeIsHeld /\ DoubtIsReal /\ BytesAreLinked /\ AnswerIsLast
  BY DEF ReaderInv
<1>2. /\ Elsewhere /\ kind' = kind /\ linked' = linked /\ changes' = changes /\ absent' = absent
      /\ found' = found /\ opened' = opened /\ changes \in Nat /\ tries \in Nat /\ tries >= 1
      /\ stage \in {"opened", "read", "completed", "replacement"}
  BY <1>1 DEF LookOpened, ReadRecord, LookCompleted, FindReplacement, Elsewhere, ReaderForm
<1>3. /\ found' \in File /\ opened' \in File /\ found'.version <= changes + 1 /\ opened'.version <= changes + 1
      /\ doubted \in File /\ opened \in File
  BY <1>1, <1>2 DEF ReaderForm
<1>4. InodeIsHeld'
  BY <1>1, <1>2 DEF InodeIsHeld, SameInode
<1>5. CASE Again /\ changes >= tries /\ doubted' \in File
  BY <1>2, <1>3, <1>4, <1>5, AttemptEnds
<1>6. CASE Answers("error") /\ changes >= 2 /\ doubted' \in File
  BY <1>2, <1>3, <1>4, <1>6, ReadAnswers
<1>7. CASE LookOpened
  <2>1. stage = "opened" /\ opened # NoFile
    BY <1>1, <1>7 DEF LookOpened, SinceOpen
  <2>2. CASE Continue("read") /\ doubted' = doubted
    <3>1. stage' = "read" /\ tries' = tries /\ answer' = answer
      BY <2>2 DEF Continue
    <3>2. ReaderForm'
      BY <1>1, <1>2, <2>2, <3>1 DEF ReaderForm
    <3>3. SinceLookup' /\ SinceOpen' /\ DoubtIsReal' /\ BytesAreLinked'
      BY <1>1, <1>2, <2>1, <3>1 DEF SinceLookup, SinceOpen, DoubtIsReal, BytesAreLinked, SameInode
    <3>4. AnswerIsLast' /\ AnswerIsOfItsTime'
      BY <1>1, <2>1, <3>1 DEF AnswerIsLast, AnswerIsOfItsTime
    <3> QED  BY <1>4, <3>2, <3>3, <3>4 DEF ReaderInv
  <2>3. CASE Again /\ doubted' = doubted /\ (opened # linked \/ (kind # "viewer" /\ ~SameInode(found, opened)))
    <3>1. changes >= tries
      BY <1>1, <2>1, <2>3 DEF SinceOpen, SameInode
    <3> QED  BY <1>3, <1>5, <2>3, <3>1
  <2>4. CASE Seek(opened) /\ kind = "ledger" /\ (opened # linked \/ ~SameInode(opened, found))
    BY <1>2, <1>7, <2>1, <2>4, ReaderSeeks DEF LookOpened
  <2>5. CASE Answers("error") /\ doubted' = doubted /\ kind # "viewer" /\ found # opened /\ SameInode(found, opened)
    <3>1. changes >= 2
      BY <1>1, <2>1, <2>5 DEF SinceOpen, SameInode
    <3> QED  BY <1>3, <1>6, <2>5, <3>1
  <2>6. CASE kind = "viewer"
    BY <1>7, <2>2, <2>3, <2>6 DEF LookOpened, Retry, Unlinked
  <2>7. CASE kind = "catalog"
    BY <1>7, <2>2, <2>3, <2>7 DEF LookOpened, Retry, Unlinked
  <2>8. CASE kind \in {"ledger", "worker"} /\ ~SameInode(found, opened)
    <3>1. ~SameInode(opened, found)
      BY <2>8 DEF SameInode
    <3> QED  BY <1>7, <2>3, <2>4, <2>8, <3>1 DEF LookOpened, Retry
  <2>9. CASE kind \in {"ledger", "worker"} /\ SameInode(found, opened)
    <3>1. PICK same \in SameMetadata(found, opened) :
             IF ~same THEN Answers("error") /\ UNCHANGED doubted
             ELSE IF ~Unlinked(opened) THEN Continue("read") /\ UNCHANGED doubted
             ELSE IF kind = "ledger" THEN Seek(opened)
             ELSE Retry /\ UNCHANGED doubted
      BY <1>7, <2>9 DEF LookOpened
    <3>2. ~same => found # opened
      BY DEF SameMetadata
    <3> QED  BY <2>2, <2>3, <2>4, <2>5, <2>9, <3>1, <3>2 DEF Retry, Unlinked
  <2> QED  BY <1>7, <2>6, <2>7, <2>8, <2>9 DEF LookOpened
<1>8. CASE ReadRecord
  <2>1. stage = "read" /\ doubted' = doubted /\ atEnd' = linked.version
    BY <1>8 DEF ReadRecord
  <2>2. CASE kind \in {"catalog", "viewer"}
    <3>1. Answers("bytes")
      BY <1>8, <2>2 DEF ReadRecord
    <3> QED  BY <1>2, <1>3, <1>4, <2>1, <2>2, <3>1, ReadAnswers
  <2>3. CASE kind \notin {"catalog", "viewer"}
    <3>1. stage' = "completed" /\ tries' = tries /\ answer' = answer
      BY <1>8, <2>3 DEF ReadRecord, Continue
    <3>2. kind \in {"ledger", "worker"}
      BY <1>1, <2>3, ReaderAssumption DEF ReaderForm
    <3>3. ReaderForm'
      BY <1>1, <1>2, <2>1, <3>1, <3>2 DEF ReaderForm
    <3>4. SinceLookup' /\ SinceOpen' /\ DoubtIsReal' /\ BytesAreLinked'
      BY <1>1, <1>2, <2>1, <3>1 DEF SinceLookup, SinceOpen, DoubtIsReal, BytesAreLinked, SameInode
    <3>5. AnswerIsLast' /\ AnswerIsOfItsTime'
      BY <1>1, <2>1, <3>1 DEF AnswerIsLast, AnswerIsOfItsTime
    <3> QED  BY <1>4, <3>3, <3>4, <3>5 DEF ReaderInv
  <2> QED  BY <2>2, <2>3
<1>9. CASE LookCompleted
  <2>1. stage = "completed" /\ atEnd' = atEnd
    BY <1>9 DEF LookCompleted
  <2>2. CASE opened = linked
    <3>1. Answers("bytes") /\ doubted' = doubted
      BY <1>9, <2>2 DEF LookCompleted, LastLook, Unlinked
    <3>2. atEnd' = opened'.version
      BY <1>1, <1>2, <2>1, <2>2 DEF BytesAreLinked
    <3> QED  BY <1>2, <1>3, <1>4, <3>1, <3>2, ReadAnswers
  <2>3. CASE opened # linked /\ kind = "ledger"
    <3>1. Seek(opened) /\ UNCHANGED <<found, opened, atEnd>>
      BY <1>9, <2>3 DEF LookCompleted, LastLook, Unlinked
    <3> QED  BY <1>2, <2>1, <2>3, <3>1, ReaderSeeks
  <2>4. CASE opened # linked /\ kind # "ledger"
    <3>1. Again /\ doubted' = doubted
      BY <1>9, <2>4 DEF LookCompleted, LastLook, Unlinked, Retry
    <3>2. changes >= tries
      BY <1>1, <2>1, <2>4 DEF SinceOpen
    <3> QED  BY <1>3, <1>5, <3>1, <3>2
  <2> QED  BY <2>2, <2>3, <2>4
<1>10. CASE FindReplacement
  <2>1. /\ stage = "replacement" /\ doubted' = doubted /\ kind = "ledger" /\ linked # NoFile /\ changes >= tries
        /\ found # NoFile
    BY <1>1, <1>10 DEF FindReplacement, ReaderForm, DoubtIsReal, SinceLookup
  <2>2. PICK same \in SameMetadata(doubted, linked) :
            IF ~SameInode(doubted, linked) \/ (~SameInode(doubted, found) /\ same) THEN Retry
            ELSE Answers("error")
    BY <1>10, <2>1 DEF FindReplacement
  <2>3. CASE Retry
    BY <1>3, <1>5, <2>1, <2>3 DEF Retry
  <2>4. CASE Answers("error") /\ SameInode(doubted, linked) /\ (SameInode(doubted, found) \/ ~same)
    <3>1. doubted # linked
      BY <1>1, <2>1, <2>2, <2>4 DEF DoubtIsReal, SameMetadata
    <3>2. doubted = found
      <4>1. doubted = opened /\ opened # NoFile => ~SameInode(linked, opened)
        BY <1>1, <2>1, <3>1 DEF InodeIsHeld
      <4> QED  BY <1>1, <2>1, <2>4, <4>1 DEF DoubtIsReal, SameInode
    <3>3. changes >= 2
      BY <1>1, <2>1, <2>4, <3>1, <3>2 DEF SinceLookup, SameInode
    <3> QED  BY <1>3, <1>6, <2>1, <2>4, <3>3
  <2> QED  BY <2>2, <2>3, <2>4
<1> QED  BY <1>7, <1>8, <1>9, <1>10

LEMMA ReaderSound == ReaderSpec => []ReaderInv
<1>1. ReaderInit => ReaderInv
  <2> SUFFICES ASSUME ReaderInit PROVE ReaderInv
    OBVIOUS
  <2>1. linked \in File /\ linked.version <= 1
    BY NoFileIsAFile DEF ReaderInit, File
  <2>2. ReaderForm
    <3>1. linked = NoFile => absent
      BY Zenon DEF ReaderInit
    <3>2. /\ kind \in Kind /\ changes = 0 /\ tries = 1 /\ found = NoFile /\ opened = NoFile /\ doubted = NoFile
          /\ (kind = "ledger" => linked # NoFile) /\ stage = FirstStage
      BY DEF ReaderInit
    <3> QED  BY <2>1, <3>1, <3>2, NoFileIsAFile DEF ReaderForm, FirstStage
  <2>3. SinceLookup /\ SinceOpen /\ InodeIsHeld /\ DoubtIsReal /\ BytesAreLinked
    BY DEF ReaderInit, FirstStage, SinceLookup, SinceOpen, InodeIsHeld, DoubtIsReal, BytesAreLinked
  <2>4. AnswerIsLast /\ AnswerIsOfItsTime
    BY DEF ReaderInit, AnswerIsLast, AnswerIsOfItsTime
  <2> QED  BY <2>2, <2>3, <2>4 DEF ReaderInv
<1>2. ASSUME ReaderInv, [ReaderNext]_readerVars PROVE ReaderInv'
  <2>1. CASE UNCHANGED readerVars
    BY <1>2, <2>1 DEF readerVars, ReaderInv, ReaderForm, SinceLookup, SinceOpen, InodeIsHeld, DoubtIsReal, BytesAreLinked,
                      AnswerIsLast, AnswerIsOfItsTime, SameInode
  <2> QED  BY <1>2, <2>1, RecordChanges, ReaderLooks, ReaderReads DEF ReaderNext, ReadStep
<1> QED  BY <1>1, <1>2, PTL DEF ReaderSpec

\* A read without a lock answers what the record could have said meanwhile, for any
\* inodes and any number of changes (sync-ledger-reader.ts, sync-worker-record-reader.ts,
\* inbox-catalog.ts, viewer-records.ts).
THEOREM AnswerIsOfItsTimeAlways == ReaderSpec => []AnswerIsOfItsTime
<1>1. ReaderInv => AnswerIsOfItsTime
  BY DEF ReaderInv
<1> QED  BY <1>1, ReaderSound, PTL
=============================================================================
