------------------------ MODULE RemoteMutationsProofs ------------------------
(***************************************************************************)
(* Two remote commands never change the site at the same time, for any     *)
(* number of commands, crashes, recoveries and failures; and wherever they *)
(* are killed, the records of the home tell what the site serves.          *)
(***************************************************************************)
EXTENDS RemoteMutations, SequenceTheorems, TLAPS

LockRecord == [by : Cmd \cup {NoCmd}, written : BOOLEAN]

Outside    == {"idle", "guarding", "looked", "removing", "removed", "unguarding"}
UnderGuard == {"guarding", "looked", "removing", "removed", "recovered", "unguarding"}

\* What the argument needs to know of a command is that it has a place.
HasForm == cmd = [c \in Cmd |-> [at |-> cmd[c].at, op |-> cmd[c].op]]

FilesHaveForm == mutationLock \in LockRecord /\ guard \in LockRecord

\* A living command past the lock owns its file.
LockIsOwn == \A c \in Cmd : Holding(c) => mutationLock.by = c

\* The guard is that of the command that recovers, dead or alive.
GuardIsOwn == \A c \in Cmd : cmd[c].at \in UnderGuard => guard.by = c

\* What a recovery is about to remove belongs to the dead.
RemovesAbandoned == \A c \in Cmd : cmd[c].at = "removing" => Abandoned

AloneInv == HasForm /\ FilesHaveForm /\ LockIsOwn /\ GuardIsOwn /\ RemovesAbandoned

\* Actions of a command that has the lock.
Inner(c) ==
  \/ Begin(c) \/ PrepareInit(c) \/ CreateProject(c) \/ ReconcileInit(c)
  \/ Export(c) \/ RecordIntent(c) \/ ReconcileSnapshot(c) \/ Deploy(c)
  \/ Checkpoint(c) \/ ReconcileFinished(c) \/ WriteState(c) \/ RemoveOperation(c) \/ RemoveWork(c)

-----------------------------------------------------------------------------
LEMMA AloneInit == RemoteInit => AloneInv
BY RemoteAssumption DEF RemoteInit, AloneInv, HasForm, FilesHaveForm, LockIsOwn, GuardIsOwn, RemovesAbandoned,
  AtRest, LockFree, LockRecord, Holding, UnderGuard

\* A command moves alone, and keeps its form.
Moved(c, from, to) ==
  /\ c \notin crashed /\ cmd[c].at = from /\ cmd'[c].at = to
  /\ \A d \in Cmd : d # c => cmd'[d] = cmd[d]
  /\ HasForm'

LEMMA StepMoves ==
  ASSUME HasForm, NEW c \in Cmd, NEW from, NEW to, Step(c, from, to)
  PROVE  Moved(c, from, to)
<1>1. cmd' = [d \in Cmd |-> IF d = c THEN [at |-> to, op |-> cmd[c].op]
                                     ELSE [at |-> cmd[d].at, op |-> cmd[d].op]]
  BY DEF Step, HasForm
<1> QED  BY <1>1 DEF Step, HasForm, Moved

LEMMA StepWithMoves ==
  ASSUME HasForm, NEW c \in Cmd, NEW from, NEW to, NEW op, StepWith(c, from, to, op)
  PROVE  Moved(c, from, to)
<1>1. cmd' = [d \in Cmd |-> IF d = c THEN [at |-> to, op |-> op]
                                     ELSE [at |-> cmd[d].at, op |-> cmd[d].op]]
  BY DEF StepWith, HasForm
<1> QED  BY <1>1 DEF StepWith, HasForm, Moved

\* A command that has the lock goes on inside or ends, and leaves the files of
\* the lock alone.
LEMMA InnerMoves ==
  ASSUME HasForm, NEW c \in Cmd, Inner(c)
  PROVE  /\ \E from, to : /\ Moved(c, from, to) /\ from \notin Outside \cup UnderGuard
                         /\ to \notin Outside \cup UnderGuard
         /\ UNCHANGED <<crashed, mutationLock, guard>>
<1> USE DEF Outside, UnderGuard, locks
<1>1. CASE Begin(c)
  <2>1. \/ Moved(c, "locked", "ending") \/ Moved(c, "locked", "reconcile")
        \/ \E verb \in Verbs \ {"reconcile"} : Moved(c, "locked", verb)
    <3>1. CASE Step(c, "locked", "ending")
      BY <3>1, StepMoves
    <3>2. CASE StepWith(c, "locked", "reconcile", operation)
      BY <3>2, StepWithMoves
    <3>3. ASSUME NEW verb \in Verbs \ {"reconcile"},
                 StepWith(c, "locked", verb, [NoOperation EXCEPT !.kind = verb])
          PROVE Moved(c, "locked", verb)
      BY <3>3, StepWithMoves
    <3> QED  BY <1>1, <3>1, <3>2, <3>3 DEF Begin
  <2>2. UNCHANGED <<crashed, mutationLock, guard>>
    BY <1>1 DEF Begin
  <2>3. CASE Moved(c, "locked", "ending") \/ Moved(c, "locked", "reconcile")
    BY <2>2, <2>3
  <2>4. ASSUME NEW verb \in Verbs \ {"reconcile"}, Moved(c, "locked", verb)
        PROVE \E to : Moved(c, "locked", to) /\ to \notin Outside \cup UnderGuard
    <3>1. verb \in {"init", "publish", "revoke"}
      BY DEF Verbs
    <3>2. verb \notin Outside \cup UnderGuard
      BY <3>1
    <3> QED  BY <2>4, <3>2, Zenon
  <2>5. "locked" \notin Outside \cup UnderGuard
    OBVIOUS
  <2> QED  BY <2>1, <2>2, <2>3, <2>4, <2>5
<1>2. CASE PrepareInit(c)
  BY <1>2, StepMoves, StepWithMoves DEF PrepareInit
<1>3. CASE CreateProject(c)
  BY <1>3, StepMoves DEF CreateProject
<1>4. CASE ReconcileInit(c)
  <2>1. /\ UNCHANGED <<crashed, mutationLock, guard>>
        /\ \/ Step(c, "reconcile", "creating") \/ Step(c, "reconcile", "ending")
           \/ \E op : StepWith(c, "reconcile", "ensured", op)
    BY <1>4 DEF ReconcileInit
  <2>2. \E to \in {"creating", "ending", "ensured"} : Moved(c, "reconcile", to)
    BY <2>1, StepMoves, StepWithMoves
  <2>3. "reconcile" \notin Outside \cup UnderGuard
        /\ \A to \in {"creating", "ending", "ensured"} : to \notin Outside \cup UnderGuard
    OBVIOUS
  <2> QED  BY <2>1, <2>2, <2>3
<1>5. CASE Export(c)
  <2>1. /\ cmd[c].at \in {"publish", "revoke"} /\ UNCHANGED <<crashed, mutationLock, guard>>
        /\ \/ Step(c, cmd[c].at, "ending")
           \/ \E op : StepWith(c, cmd[c].at, "exported", op)
    BY <1>5 DEF Export
  <2>2. Moved(c, cmd[c].at, "ending") \/ Moved(c, cmd[c].at, "exported")
    BY <2>1, StepMoves, StepWithMoves
  <2>3. cmd[c].at \notin Outside \cup UnderGuard
    BY <2>1
  <2>4. "ending" \notin Outside \cup UnderGuard /\ "exported" \notin Outside \cup UnderGuard
    OBVIOUS
  <2> QED  BY <2>1, <2>2, <2>3, <2>4, Zenon
<1>6. CASE RecordIntent(c)
  BY <1>6, StepMoves DEF RecordIntent
<1>7. CASE ReconcileSnapshot(c)
  BY <1>7, StepMoves DEF ReconcileSnapshot
<1>8. CASE Deploy(c)
  BY <1>8, StepMoves DEF Deploy
<1>9. CASE Checkpoint(c)
  BY <1>9, StepWithMoves DEF Checkpoint
<1>10. CASE ReconcileFinished(c)
  BY <1>10, StepMoves DEF ReconcileFinished
<1>11. CASE WriteState(c)
  BY <1>11, StepMoves DEF WriteState
<1>12. CASE RemoveOperation(c) \/ RemoveWork(c)
  BY <1>12, StepMoves DEF RemoveOperation, RemoveWork
<1> QED
  BY <1>1, <1>2, <1>3, <1>4, <1>5, <1>6, <1>7, <1>8, <1>9, <1>10, <1>11, <1>12 DEF Inner

-----------------------------------------------------------------------------
\* The files that are made are records.
LEMMA LockRecords ==
  ASSUME FilesHaveForm, NEW c \in Cmd,
         \/ mutationLock' = mutationLock \/ mutationLock' = LockFree
         \/ mutationLock' = [by |-> c, written |-> FALSE]
         \/ mutationLock' = [mutationLock EXCEPT !.written = TRUE],
         guard' = guard \/ guard' = LockFree
  PROVE  FilesHaveForm'
<1>1. mutationLock \in LockRecord
  BY DEF FilesHaveForm
<1> USE <1>1 DEF LockRecord
<1>2. ASSUME mutationLock' = mutationLock PROVE mutationLock' \in LockRecord
  BY <1>2
<1>3. ASSUME mutationLock' = LockFree PROVE mutationLock' \in LockRecord
  BY <1>3 DEF LockFree
<1>4. ASSUME mutationLock' = [by |-> c, written |-> FALSE] PROVE mutationLock' \in LockRecord
  BY <1>4
<1>5. ASSUME mutationLock' = [mutationLock EXCEPT !.written = TRUE] PROVE mutationLock' \in LockRecord
  BY <1>5
<1>6. guard' \in LockRecord
  <2>1. guard \in LockRecord /\ LockFree \in LockRecord
    BY DEF FilesHaveForm, LockFree
  <2> HIDE DEF LockRecord
  <2> QED  BY <2>1
<1> HIDE DEF LockRecord
<1> QED  BY <1>2, <1>3, <1>4, <1>5, <1>6 DEF FilesHaveForm

LEMMA FormStep == AloneInv /\ [RemoteNext]_remoteVars => HasForm' /\ FilesHaveForm'
<1> SUFFICES ASSUME AloneInv, [RemoteNext]_remoteVars PROVE HasForm' /\ FilesHaveForm'
  OBVIOUS
<1>0. HasForm /\ FilesHaveForm
  BY DEF AloneInv
<1> USE DEF FilesHaveForm, LockRecord, LockFree, locks
<1>1. ASSUME NEW c \in Cmd, CreateLock(c) PROVE HasForm' /\ FilesHaveForm'
  BY <1>0, <1>1, StepMoves DEF CreateLock, Moved
<1>2. ASSUME NEW c \in Cmd, WriteLock(c) PROVE HasForm' /\ FilesHaveForm'
  <2>1. HasForm'
    BY <1>0, <1>2, StepMoves DEF WriteLock, Moved
  <2>2. guard' = guard /\ (mutationLock' = LockFree \/ mutationLock' = [mutationLock EXCEPT !.written = TRUE])
    BY <1>2 DEF WriteLock
  <2> HIDE DEF FilesHaveForm, LockRecord, LockFree
  <2>3. FilesHaveForm'
    BY <1>0, <2>2, LockRecords
  <2> QED  BY <2>1, <2>3
<1>3. ASSUME NEW c \in Cmd, GuardRecovery(c) PROVE HasForm' /\ FilesHaveForm'
  BY <1>0, <1>3, StepMoves DEF GuardRecovery, Moved
<1>4. ASSUME NEW c \in Cmd, LookAtLock(c) PROVE HasForm' /\ FilesHaveForm'
  BY <1>0, <1>4, StepMoves DEF LookAtLock, Moved
<1>5. ASSUME NEW c \in Cmd, LookAgain(c) PROVE HasForm' /\ FilesHaveForm'
  BY <1>0, <1>5, StepMoves DEF LookAgain, Moved
<1>6. ASSUME NEW c \in Cmd, RemoveLock(c) PROVE HasForm' /\ FilesHaveForm'
  BY <1>0, <1>6, StepMoves DEF RemoveLock, Moved
<1>7. ASSUME NEW c \in Cmd, TakeRemoved(c) PROVE HasForm' /\ FilesHaveForm'
  <2>1. HasForm'
    BY <1>0, <1>7, StepMoves DEF TakeRemoved, Moved
  <2>2. guard' = guard /\ (mutationLock' = mutationLock \/ mutationLock' = [by |-> c, written |-> FALSE])
    BY <1>7 DEF TakeRemoved
  <2> HIDE DEF FilesHaveForm, LockRecord, LockFree
  <2>3. FilesHaveForm'
    BY <1>0, <2>2, LockRecords
  <2> QED  BY <2>1, <2>3
<1>8. ASSUME NEW c \in Cmd, Unguard(c) PROVE HasForm' /\ FilesHaveForm'
  <2>1. HasForm'
    BY <1>0, <1>8, StepMoves DEF Unguard, Moved
  <2>2. /\ guard' = LockFree
        /\ \/ mutationLock' = [mutationLock EXCEPT !.written = TRUE]
           \/ mutationLock' = LockFree \/ mutationLock' = mutationLock
    BY <1>8 DEF Unguard
  <2> HIDE DEF FilesHaveForm, LockRecord, LockFree
  <2>3. FilesHaveForm'
    BY <1>0, <2>2, LockRecords
  <2> QED  BY <2>1, <2>3
<1>9. ASSUME NEW c \in Cmd, Release(c) PROVE HasForm' /\ FilesHaveForm'
  BY <1>0, <1>9, StepWithMoves DEF Release, Moved
<1>10. ASSUME NEW c \in Cmd, Inner(c) PROVE HasForm' /\ FilesHaveForm'
  BY <1>0, <1>10, InnerMoves DEF Moved
<1>11. CASE \/ OthersCreate \/ (\E c \in Cmd : Crash(c)) \/ UNCHANGED remoteVars
  BY <1>0, <1>11 DEF OthersCreate, Crash, remoteVars, HasForm
<1> QED
  BY <1>1, <1>2, <1>3, <1>4, <1>5, <1>6, <1>7, <1>8, <1>9, <1>10, <1>11
  DEF RemoteNext, RemoteStep, Inner

\* Whoever removes the file owns it or removes that of the dead.
LEMMA LockIsOwnStep == AloneInv /\ [RemoteNext]_remoteVars => LockIsOwn'
<1> SUFFICES ASSUME AloneInv, [RemoteNext]_remoteVars PROVE LockIsOwn'
  OBVIOUS
<1>0. HasForm /\ FilesHaveForm /\ LockIsOwn /\ RemovesAbandoned
  BY DEF AloneInv
<1>n. \A c \in Cmd : Holding(c) => mutationLock # LockFree
  BY <1>0, RemoteAssumption DEF LockIsOwn, LockFree
<1> USE DEF LockIsOwn, Holding, Moved
<1>1. ASSUME NEW c \in Cmd, CreateLock(c) PROVE LockIsOwn'
  BY <1>0, <1>n, <1>1, StepMoves DEF CreateLock
<1>2. ASSUME NEW c \in Cmd, WriteLock(c) PROVE LockIsOwn'
  <2>1. c \notin crashed /\ cmd[c].at = "created" /\ crashed' = crashed
    BY <1>0, <1>2, StepMoves DEF WriteLock
  <2>2. \A d \in Cmd : d # c => cmd'[d].at = cmd[d].at /\ ~Holding(d)
    BY <1>0, <1>2, <2>1, StepMoves DEF WriteLock
  <2>3. mutationLock'.by = c \/ cmd'[c].at = "idle"
    BY <1>0, <1>2, <2>1, StepMoves DEF WriteLock, FilesHaveForm, LockRecord
  <2> QED  BY <2>1, <2>2, <2>3
<1>3. ASSUME NEW c \in Cmd, GuardRecovery(c) \/ LookAtLock(c) \/ LookAgain(c) PROVE LockIsOwn'
  <2>1. UNCHANGED <<crashed, mutationLock>>
    BY <1>3 DEF GuardRecovery, LookAtLock, LookAgain, locks
  <2>2. ~Holding(c)' /\ \A d \in Cmd : d # c => cmd'[d].at = cmd[d].at
    BY <1>0, <1>3, StepMoves DEF GuardRecovery, LookAtLock, LookAgain
  <2> QED  BY <1>0, <2>1, <2>2
<1>4. ASSUME NEW c \in Cmd, RemoveLock(c) PROVE LockIsOwn'
  <2>1. cmd[c].at = "removing" /\ cmd'[c].at = "removed" /\ crashed' = crashed
        /\ \A d \in Cmd : d # c => cmd'[d].at = cmd[d].at
    BY <1>0, <1>4, StepMoves DEF RemoveLock
  <2>2. \A d \in Cmd : ~Holding(d)
    BY <1>0, <2>1 DEF RemovesAbandoned, Abandoned
  <2> QED  BY <2>1, <2>2
<1>5. ASSUME NEW c \in Cmd, TakeRemoved(c) PROVE LockIsOwn'
  BY <1>0, <1>n, <1>5, StepMoves DEF TakeRemoved
<1>6. ASSUME NEW c \in Cmd, Unguard(c) PROVE LockIsOwn'
  <2>1. crashed' = crashed /\ \A d \in Cmd : d # c => cmd'[d].at = cmd[d].at
    BY <1>0, <1>6, StepMoves DEF Unguard
  <2>2. CASE Moved(c, "recovered", "locked") /\ mutationLock' = [mutationLock EXCEPT !.written = TRUE]
    <3>1. mutationLock'.by = mutationLock.by
      BY <1>0, <2>2 DEF FilesHaveForm, LockRecord
    <3> QED  BY <1>0, <2>1, <2>2, <3>1
  <2>3. CASE Moved(c, "recovered", "idle")
    BY <1>0, <2>1, <2>3
  <2>4. CASE Moved(c, "unguarding", "idle") /\ mutationLock' = mutationLock
    BY <1>0, <2>1, <2>4
  <2> QED  BY <1>0, <1>6, <2>2, <2>3, <2>4, StepMoves DEF Unguard
<1>7. ASSUME NEW c \in Cmd, Release(c) PROVE LockIsOwn'
  <2>1. Moved(c, "ending", "idle") /\ crashed' = crashed
    BY <1>0, <1>7, StepWithMoves DEF Release
  <2>2. \A d \in Cmd : d # c => ~Holding(d)
    BY <1>0, <2>1
  <2> QED  BY <2>1, <2>2
<1>8. ASSUME NEW c \in Cmd, Inner(c) PROVE LockIsOwn'
  <2>1. PICK from, to : Moved(c, from, to) /\ from \notin Outside \cup UnderGuard
    BY <1>0, <1>8, InnerMoves
  <2>2. UNCHANGED <<crashed, mutationLock>>
    BY <1>0, <1>8, InnerMoves
  <2>3. Holding(c)
    BY <2>1 DEF Outside
  <2> QED  BY <1>0, <2>1, <2>2, <2>3
<1>9. ASSUME NEW c \in Cmd, Crash(c) PROVE LockIsOwn'
  BY <1>0, <1>9 DEF Crash, locks
<1>10. CASE OthersCreate \/ UNCHANGED remoteVars
  BY <1>0, <1>10 DEF OthersCreate, remoteVars, locks
<1> QED
  BY <1>1, <1>2, <1>3, <1>4, <1>5, <1>6, <1>7, <1>8, <1>9, <1>10
  DEF RemoteNext, RemoteStep, Inner

\* The guard is created where there is none and removed by its owner.
LEMMA GuardIsOwnStep == AloneInv /\ [RemoteNext]_remoteVars => GuardIsOwn'
<1> SUFFICES ASSUME AloneInv, [RemoteNext]_remoteVars PROVE GuardIsOwn'
  OBVIOUS
<1>0. HasForm /\ FilesHaveForm /\ GuardIsOwn
  BY DEF AloneInv
<1> USE DEF GuardIsOwn
\* A step that leaves the guard's owner, and moves nobody under a guard who was not.
<1>1. ASSUME NEW c \in Cmd, NEW from, NEW to, Moved(c, from, to), guard'.by = guard.by,
             to \in UnderGuard => from \in UnderGuard
      PROVE GuardIsOwn'
  BY <1>0, <1>1 DEF Moved
<1>2. ASSUME NEW c \in Cmd, CreateLock(c) \/ WriteLock(c) PROVE GuardIsOwn'
  <2>1. guard' = guard
    BY <1>2 DEF CreateLock, WriteLock
  <2>2. Moved(c, "idle", "created") \/ Moved(c, "created", "locked") \/ Moved(c, "created", "idle")
    BY <1>0, <1>2, StepMoves DEF CreateLock, WriteLock
  <2> QED  BY <1>1, <2>1, <2>2 DEF UnderGuard
<1>3. ASSUME NEW c \in Cmd, GuardRecovery(c) PROVE GuardIsOwn'
  <2>1. guard = LockFree /\ guard'.by = c /\ Moved(c, "idle", "guarding")
    BY <1>0, <1>3, StepMoves DEF GuardRecovery
  <2>2. \A d \in Cmd : cmd[d].at \notin UnderGuard
    BY <1>0, <2>1, RemoteAssumption DEF LockFree
  <2> QED  BY <2>1, <2>2 DEF Moved
<1>4. ASSUME NEW c \in Cmd, LookAtLock(c) PROVE GuardIsOwn'
  <2>1. guard'.by = guard.by
    BY <1>0, <1>4 DEF LookAtLock, FilesHaveForm, LockRecord
  <2>2. Moved(c, "guarding", "looked") \/ Moved(c, "guarding", "unguarding")
    BY <1>0, <1>4, StepMoves DEF LookAtLock
  <2> QED  BY <1>1, <2>1, <2>2 DEF UnderGuard
<1>5. ASSUME NEW c \in Cmd, LookAgain(c) \/ RemoveLock(c) \/ TakeRemoved(c) PROVE GuardIsOwn'
  <2>1. guard' = guard
    BY <1>5 DEF LookAgain, RemoveLock, TakeRemoved, locks
  <2>2. \/ Moved(c, "looked", "removing") \/ Moved(c, "looked", "unguarding")
        \/ Moved(c, "removing", "removed")
        \/ Moved(c, "removed", "recovered") \/ Moved(c, "removed", "unguarding")
    BY <1>0, <1>5, StepMoves DEF LookAgain, RemoveLock, TakeRemoved
  <2> QED  BY <1>1, <2>1, <2>2 DEF UnderGuard
<1>6. ASSUME NEW c \in Cmd, Unguard(c) PROVE GuardIsOwn'
  <2>1. guard.by = c
    BY <1>6 DEF Unguard
  <2>2. \/ Moved(c, "recovered", "locked") \/ Moved(c, "recovered", "idle")
        \/ Moved(c, "unguarding", "idle")
    BY <1>0, <1>6, StepMoves DEF Unguard
  <2>3. \A d \in Cmd : d # c => cmd'[d].at \notin UnderGuard
    BY <1>0, <2>1, <2>2 DEF Moved
  <2>4. cmd'[c].at \notin UnderGuard
    BY <2>2 DEF Moved, UnderGuard
  <2> QED  BY <2>3, <2>4
<1>7. ASSUME NEW c \in Cmd, Release(c) PROVE GuardIsOwn'
  <2>1. guard' = guard /\ Moved(c, "ending", "idle")
    BY <1>0, <1>7, StepWithMoves DEF Release
  <2> QED  BY <1>1, <2>1 DEF UnderGuard
<1>8. ASSUME NEW c \in Cmd, Inner(c) PROVE GuardIsOwn'
  <2>1. PICK from, to : Moved(c, from, to) /\ to \notin Outside \cup UnderGuard
    BY <1>0, <1>8, InnerMoves
  <2>2. guard' = guard
    BY <1>0, <1>8, InnerMoves
  <2> QED  BY <1>1, <2>1, <2>2
<1>9. CASE \/ OthersCreate \/ (\E c \in Cmd : Crash(c)) \/ UNCHANGED remoteVars
  BY <1>0, <1>9 DEF OthersCreate, Crash, remoteVars, locks
<1> QED
  BY <1>2, <1>3, <1>4, <1>5, <1>6, <1>7, <1>8, <1>9 DEF RemoteNext, RemoteStep, Inner

\* Between its second look and its removal a recovery has the lock of the dead
\* to itself.
LEMMA RemovesAbandonedStep == AloneInv /\ [RemoteNext]_remoteVars => RemovesAbandoned'
<1> SUFFICES ASSUME AloneInv, [RemoteNext]_remoteVars, NEW d \in Cmd, cmd'[d].at = "removing"
             PROVE Abandoned'
  BY DEF RemovesAbandoned
<1>0. HasForm /\ FilesHaveForm /\ LockIsOwn /\ GuardIsOwn /\ RemovesAbandoned
  BY DEF AloneInv
\* What was abandoned and is left alone still is.
<1>1. ASSUME NEW c \in Cmd, NEW from, NEW to, Moved(c, from, to), to # "removing",
             mutationLock' = mutationLock, crashed' = crashed
      PROVE Abandoned'
  BY <1>0, <1>1 DEF Moved, RemovesAbandoned, Abandoned
\* Nobody alive holds a lock that is about to be removed, and it is there.
<1>2. ASSUME NEW c \in Cmd, NEW from, NEW to, Moved(c, from, to), to # "removing",
             Holding(c) \/ mutationLock = LockFree
      PROVE FALSE
  <2>1. cmd[d].at = "removing"
    BY <1>2 DEF Moved
  <2> QED  BY <1>0, <1>2, <2>1 DEF RemovesAbandoned, Abandoned, LockIsOwn, Holding, LockFree
<1>3. ASSUME NEW c \in Cmd, CreateLock(c) PROVE Abandoned'
  BY <1>0, <1>2, <1>3, StepMoves DEF CreateLock
<1>4. ASSUME NEW c \in Cmd, WriteLock(c) PROVE Abandoned'
  <2>1. Moved(c, "created", "locked") \/ Moved(c, "created", "idle")
    BY <1>0, <1>4, StepMoves DEF WriteLock
  <2>2. Holding(c)
    BY <2>1 DEF Moved, Holding
  <2> QED  BY <1>2, <2>1, <2>2
<1>5. ASSUME NEW c \in Cmd, GuardRecovery(c) \/ LookAtLock(c) PROVE Abandoned'
  BY <1>0, <1>1, <1>5, StepMoves DEF GuardRecovery, LookAtLock
<1>6. ASSUME NEW c \in Cmd, LookAgain(c) PROVE Abandoned'
  <2>1. CASE Abandoned
    BY <1>6, <2>1 DEF LookAgain, locks, Abandoned
  <2>2. CASE ~Abandoned
    BY <1>0, <1>1, <1>6, <2>2, StepMoves DEF LookAgain, locks
  <2> QED  BY <2>1, <2>2
<1>7. ASSUME NEW c \in Cmd, RemoveLock(c) PROVE Abandoned'
  <2>1. Moved(c, "removing", "removed")
    BY <1>0, <1>7, StepMoves DEF RemoveLock
  <2>2. d # c /\ cmd[d].at = "removing" /\ cmd[c].at = "removing"
    BY <2>1 DEF Moved
  <2>3. guard.by = d /\ guard.by = c
    BY <1>0, <2>2 DEF GuardIsOwn, UnderGuard
  <2> QED  BY <2>2, <2>3
<1>8. ASSUME NEW c \in Cmd, TakeRemoved(c) PROVE Abandoned'
  <2>1. CASE mutationLock = LockFree
    BY <1>0, <1>2, <1>8, <2>1, StepMoves DEF TakeRemoved
  <2>2. CASE mutationLock # LockFree
    BY <1>0, <1>1, <1>8, <2>2, StepMoves DEF TakeRemoved
  <2> QED  BY <2>1, <2>2
<1>9. ASSUME NEW c \in Cmd, Unguard(c) PROVE Abandoned'
  <2>1. CASE Moved(c, "recovered", "locked") \/ Moved(c, "recovered", "idle")
    <3>1. Holding(c)
      BY <2>1 DEF Moved, Holding
    <3> QED  BY <1>2, <2>1, <3>1
  <2>2. CASE Moved(c, "unguarding", "idle") /\ mutationLock' = mutationLock /\ crashed' = crashed
    BY <1>1, <2>2
  <2> QED  BY <1>0, <1>9, <2>1, <2>2, StepMoves DEF Unguard
<1>10. ASSUME NEW c \in Cmd, Release(c) PROVE Abandoned'
  <2>1. Moved(c, "ending", "idle")
    BY <1>0, <1>10, StepWithMoves DEF Release
  <2>2. Holding(c)
    BY <2>1 DEF Moved, Holding
  <2> QED  BY <1>2, <2>1, <2>2
<1>11. ASSUME NEW c \in Cmd, Inner(c) PROVE Abandoned'
  <2>1. PICK from, to : Moved(c, from, to) /\ to \notin Outside \cup UnderGuard
    BY <1>0, <1>11, InnerMoves
  <2>2. to # "removing"
    BY <2>1 DEF Outside
  <2>3. UNCHANGED <<crashed, mutationLock>>
    BY <1>0, <1>11, InnerMoves
  <2> QED  BY <1>1, <2>1, <2>2, <2>3
<1>12. CASE \/ OthersCreate \/ (\E c \in Cmd : Crash(c)) \/ UNCHANGED remoteVars
  BY <1>0, <1>12 DEF OthersCreate, Crash, remoteVars, locks, RemovesAbandoned, Abandoned
<1> QED
  BY <1>3, <1>4, <1>5, <1>6, <1>7, <1>8, <1>9, <1>10, <1>11, <1>12
  DEF RemoteNext, RemoteStep, Inner

\* One command at a time is past the mutation lock (`acquireRemoteLock`,
\* `recoverRemoteLock`).
THEOREM MutationAloneAlways == RemoteSpec => []MutationAlone
<1>1. AloneInv /\ [RemoteNext]_remoteVars => AloneInv'
  BY FormStep, LockIsOwnStep, GuardIsOwnStep, RemovesAbandonedStep DEF AloneInv
<1>2. AloneInv => MutationAlone
  BY DEF AloneInv, LockIsOwn, MutationAlone
<1> QED  BY <1>1, <1>2, AloneInit, PTL DEF RemoteSpec

-----------------------------------------------------------------------------
(* What the records tell of the site.  A command that was killed leaves the  *)
(* records where they are; the next one that changes them has read them.     *)

Cap == OpId \cup {First, NoOp}

Operation ==
  [id : OpId \cup {NoOp}, kind : {"init", "publish", "revoke"},
   phase : {"prepared", "remote-succeeded"}, cap : Cap, prev : Cap, adopt : BOOLEAN]

RecordsHaveForm ==
  /\ operation \in Operation /\ remoteState \in [cap : Cap, last : OpId \cup {NoOp}]
  /\ deployed \in Seq([id : OpId, cap : Cap]) /\ drawn \subseteq OpId

\* An id or a capability that is used anywhere was drawn before.
DrawnBefore ==
  /\ {remoteState.cap, operation.cap} \cup retired \subseteq drawn \cup {First, NoOp}
  /\ {remoteState.last, operation.id} \subseteq drawn \cup {NoOp}
  /\ \A i \in DOMAIN deployed : deployed[i].id \in drawn

DeploymentOf(op) == [id |-> op.id, cap |-> op.cap]

\* Production is what one of the two records says, and its link is not revoked.
Chronicle ==
  /\ \A i, j \in DOMAIN deployed : deployed[i].id = deployed[j].id => i = j
  /\ deployed # <<>> =>
       \/ Production = [id |-> remoteState.last, cap |-> remoteState.cap]
       \/ operation.kind # "init" /\ Production = DeploymentOf(operation)
  /\ remoteState.last # NoOp =>
       \E i \in DOMAIN deployed : deployed[i] = [id |-> remoteState.last, cap |-> remoteState.cap]
  /\ ~Configured => deployed = <<>>
  /\ remoteState.cap \notin retired

\* An intent that is recorded or about to be: its deployment is still to come and
\* its snapshot there, or it is what production serves.
Intended(op) ==
  /\ op.id \in drawn /\ op.cap \notin retired
  /\ op.kind = "init" => deployed = <<>>
  /\ op.kind # "init" =>
       /\ Configured
       /\ \A i \in DOMAIN deployed : deployed[i].id = op.id => i = Len(deployed)
       /\ op.kind = "revoke" => op.cap # op.prev
       /\ op.phase = "prepared" => Matches(op) /\ op.id # remoteState.last /\ op.id \in work
       /\ op.phase = "remote-succeeded" => deployed # <<>> /\ Production = DeploymentOf(op)

Recorded == RecordsHaveForm /\ DrawnBefore /\ Chronicle /\ (Pending => Intended(operation))

\* What a command in place `at` with the operation `op` in memory relies on.
Relies(at, op) ==
  /\ at \in {"init", "publish", "revoke"} =>
       ~Pending /\ op.kind = at /\ (at = "init" <=> ~Configured)
  /\ at \in {"reconcile", "creating", "ensured", "deploying", "landed", "finalizing", "written"} =>
       Pending /\ op = operation
  /\ at \in {"creating", "ensured"} => op.kind = "init"
  /\ at = "exported" =>
       /\ ~Pending /\ op \in Operation /\ op.kind # "init" /\ op.phase = "prepared"
       /\ Intended(op) /\ ~Found(op) /\ op.cap \in drawn \cup {First, NoOp}
  /\ at \in {"deploying", "landed"} => op.kind # "init" /\ op.phase = "prepared"
  /\ at = "deploying" => ~Found(op)
  /\ at = "landed" => Found(op)
  /\ at \in {"finalizing", "written"} => op.phase = "remote-succeeded"
  /\ at = "written" => remoteState = StateFor(op)
  /\ at = "unlisted" => ~Pending

HolderKnows == \A c \in Cmd : Holding(c) => Relies(cmd[c].at, cmd[c].op)

SiteInv == AloneInv /\ Recorded /\ HolderKnows

\* Production is the last of what was deployed.
LEMMA ProductionIsLast ==
  ASSUME RecordsHaveForm
  PROVE  deployed # <<>> =>
           /\ Len(deployed) \in DOMAIN deployed /\ Production = deployed[Len(deployed)]
           /\ Production.id \in OpId
<1>1. deployed # <<>> => Len(deployed) \in Nat \ {0}
  BY EmptySeq DEF RecordsHaveForm
<1>2. DOMAIN deployed = 1 .. Len(deployed) /\ \A i \in DOMAIN deployed : deployed[i] \in [id : OpId, cap : Cap]
  BY LenProperties, ElementOfSeq DEF RecordsHaveForm
<1> QED  BY <1>1, <1>2 DEF Production, Last

\* The records say enough.
LEMMA RecordsTell == Recorded => SiteFollowsRecords
<1> SUFFICES ASSUME Recorded PROVE SiteFollowsRecords
  OBVIOUS
<1>1. Pending \/ operation = NoOperation
  BY DEF Pending
<1>2. deployed # <<>> => Len(deployed) \in DOMAIN deployed /\ Production = deployed[Len(deployed)]
                         /\ Production.id \in OpId
  BY ProductionIsLast DEF Recorded
<1>3. SiteIsKnown
  <2>1. deployed # <<>> => Production.id \in {remoteState.last, operation.id}
    BY <1>2 DEF Recorded, Chronicle, DeploymentOf
  <2>2. \A i, j \in DOMAIN deployed : deployed[i].id = deployed[j].id => i = j
    BY DEF Recorded, Chronicle
  <2>3. ~Pending /\ deployed # <<>> => Production.cap = remoteState.cap
    BY <1>1, <1>2 DEF Recorded, Chronicle, DeploymentOf, NoOperation
  <2> QED  BY <2>1, <2>2, <2>3 DEF SiteIsKnown
<1>4. RevokedStaysRevoked
  <2>1. CASE operation = NoOperation
    BY <1>2, <2>1 DEF Recorded, Chronicle, DeploymentOf, NoOperation, RevokedStaysRevoked
  <2>2. CASE Pending
    BY <1>2, <2>2 DEF Recorded, Chronicle, Intended, DeploymentOf, RevokedStaysRevoked
  <2> QED  BY <1>1, <2>1, <2>2
<1>5. PreparedCanFinish
  BY DEF Recorded, Intended, PreparedCanFinish
<1> QED  BY <1>3, <1>4, <1>5 DEF SiteFollowsRecords

LEMMA RecordedInit == RemoteInit => Recorded /\ HolderKnows
<1> SUFFICES ASSUME RemoteInit PROVE Recorded /\ HolderKnows
  OBVIOUS
<1>1. operation = NoOperation /\ deployed = <<>> /\ drawn = {} /\ retired = {} /\ ~Pending
  BY DEF RemoteInit, Pending
<1>2. remoteState = Unconfigured \/ remoteState = [cap |-> First, last |-> NoOp]
  BY DEF RemoteInit
<1>3. NoOperation \in Operation
  BY DEF NoOperation, Operation, Cap
<1>4. remoteState \in [cap : Cap, last : OpId \cup {NoOp}]
  BY <1>2 DEF Cap, Unconfigured
<1>5. deployed \in Seq([id : OpId, cap : Cap])
  BY <1>1
<1>6. RecordsHaveForm
  BY <1>1, <1>3, <1>4, <1>5 DEF RecordsHaveForm
<1>7. DrawnBefore
  BY <1>1, <1>2 DEF DrawnBefore, NoOperation, Unconfigured
<1>8. Chronicle
  <2>1. remoteState.last = NoOp
    BY <1>2 DEF Unconfigured
  <2> QED  BY <1>1, <2>1 DEF Chronicle
<1>9. HolderKnows
  BY DEF RemoteInit, HolderKnows, Holding, AtRest
<1> QED  BY <1>1, <1>6, <1>7, <1>8, <1>9 DEF Recorded

-----------------------------------------------------------------------------
(* Steps.  One command at a time is past the lock, so what it relies on is   *)
(* changed by nobody else.                                                   *)

\* A living command past the lock moves to another place, with op in memory.
Proceeds(c, from, to, op) ==
  /\ Moved(c, from, to) /\ cmd'[c].op = op /\ UNCHANGED crashed
  /\ \A d \in Cmd : Holding(d)' => d = c

LEMMA HolderProceeds ==
  ASSUME AloneInv, NEW c \in Cmd, NEW from, NEW to, from \notin Outside, UNCHANGED crashed
  PROVE  /\ Step(c, from, to) => Proceeds(c, from, to, cmd[c].op)
         /\ \A op : StepWith(c, from, to, op) => Proceeds(c, from, to, op)
<1>0. HasForm /\ LockIsOwn
  BY DEF AloneInv
<1>1. ASSUME Moved(c, from, to) PROVE \A d \in Cmd : Holding(d)' => d = c
  <2>1. Holding(c) /\ mutationLock.by = c
    BY <1>0, <1>1 DEF Moved, Holding, Outside, LockIsOwn
  <2>2. ASSUME NEW d \in Cmd, Holding(d)', d # c PROVE FALSE
    <3>1. Holding(d)
      BY <1>1, <2>2 DEF Moved, Holding
    <3> QED  BY <1>0, <2>1, <2>2, <3>1 DEF LockIsOwn
  <2> QED  BY <2>2
<1>2. ASSUME Step(c, from, to) PROVE Proceeds(c, from, to, cmd[c].op)
  <2>1. Moved(c, from, to)
    BY <1>0, <1>2, StepMoves
  <2>2. cmd'[c].op = cmd[c].op
    BY <1>0, <1>2 DEF Step, HasForm
  <2> QED  BY <1>1, <2>1, <2>2 DEF Proceeds
<1>3. ASSUME NEW op, StepWith(c, from, to, op) PROVE Proceeds(c, from, to, op)
  <2>1. Moved(c, from, to)
    BY <1>0, <1>3, StepWithMoves
  <2>2. cmd'[c].op = op
    BY <1>0, <1>3 DEF StepWith, HasForm
  <2> QED  BY <1>1, <2>1, <2>2 DEF Proceeds
<1> QED  BY <1>2, <1>3

\* So it is enough to know what the next place relies on.
LEMMA ProceedsKnowing ==
  ASSUME NEW c \in Cmd, NEW from, NEW to, NEW op, Proceeds(c, from, to, op), Relies(to, op)'
  PROVE  HolderKnows'
BY DEF Proceeds, Moved, HolderKnows

LEMMA HolderRelies ==
  ASSUME SiteInv, NEW c \in Cmd, NEW from, NEW to, NEW op, Proceeds(c, from, to, op),
         from \notin Outside
  PROVE  Relies(from, cmd[c].op)
BY DEF SiteInv, HolderKnows, Proceeds, Moved, Holding, Outside

\* The site, the records and the ids drawn stay as they are.
Quiet == UNCHANGED <<remoteState, operation, work, deployed, drawn, retired>>

LEMMA QuietRecorded == Recorded /\ Quiet => Recorded'
BY DEF Quiet, Recorded, RecordsHaveForm, DrawnBefore, Chronicle, Intended, Matches, Configured,
  Pending, Production, DeploymentOf

LEMMA QuietRelies ==
  ASSUME Quiet, NEW at, NEW op, Relies(at, op) PROVE Relies(at, op)'
BY DEF Quiet, Relies, Intended, Matches, Configured, Pending, Production, DeploymentOf, Found, StateFor

\* Steps before the lock is had or after it is given back, deaths, and others.
LEMMA AsideStep ==
  ASSUME SiteInv, Quiet,
         \/ UNCHANGED cmd /\ crashed \subseteq crashed'
         \/ \E c \in Cmd : \E from, to :
              /\ Moved(c, from, to) /\ UNCHANGED crashed
              /\ to \in Outside \cup {"created", "locked", "recovered", "ending"}
  PROVE  Recorded' /\ HolderKnows'
<1>1. Recorded'
  BY QuietRecorded DEF SiteInv
<1>2. ASSUME NEW d \in Cmd, Holding(d), UNCHANGED cmd[d] PROVE Relies(cmd[d].at, cmd[d].op)'
  <2>1. Relies(cmd[d].at, cmd[d].op)
    BY <1>2 DEF SiteInv, HolderKnows
  <2>2. ASSUME NEW at, NEW op, Relies(at, op), cmd'[d].at = at, cmd'[d].op = op
        PROVE Relies(cmd[d].at, cmd[d].op)'
    BY <2>2, QuietRelies
  <2> QED  BY <1>2, <2>1, <2>2
<1>3. CASE UNCHANGED cmd /\ crashed \subseteq crashed'
  BY <1>1, <1>2, <1>3 DEF HolderKnows, Holding
<1>4. ASSUME NEW c \in Cmd, NEW from, NEW to, Moved(c, from, to), UNCHANGED crashed,
             to \in Outside \cup {"created", "locked", "recovered", "ending"}
      PROVE HolderKnows'
  <2>1. Holding(c)' => Relies(cmd[c].at, cmd[c].op)'
    BY <1>4 DEF Moved, Holding, Outside, Relies
  <2>2. ASSUME NEW d \in Cmd, d # c, Holding(d)' PROVE Relies(cmd[d].at, cmd[d].op)'
    <3>1. Holding(d)
      BY <1>4, <2>2 DEF Holding, Moved
    <3> QED  BY <1>2, <1>4, <2>2, <3>1 DEF Moved
  <2> QED  BY <2>1, <2>2 DEF HolderKnows
<1> QED  BY <1>1, <1>3, <1>4

-----------------------------------------------------------------------------
\* Reading operation.json, and the removal of the snapshots nobody will ask for.
LEMMA BeginRecorded ==
  ASSUME SiteInv, NEW c \in Cmd, Begin(c) PROVE Recorded' /\ HolderKnows'
<1>1. UNCHANGED <<crashed, remoteState, operation, deployed, drawn, retired>>
      /\ work' = work \ OrphanWork
  BY DEF Begin, site
<1>2. Recorded'
  <2>1. RecordsHaveForm' /\ DrawnBefore' /\ Chronicle'
    BY <1>1 DEF SiteInv, Recorded, RecordsHaveForm, DrawnBefore, Chronicle, Configured, Production, DeploymentOf
  <2>2. operation.id \in work => operation.id \in work'
    BY <1>1 DEF OrphanWork
  <2>3. Pending' => Intended(operation)'
    BY <1>1, <2>2 DEF SiteInv, Recorded, Intended, Matches, Configured, Pending, Production, DeploymentOf
  <2> QED  BY <2>1, <2>3 DEF Recorded
<1>3. HolderKnows'
  <2>1. CASE Step(c, "locked", "ending")
    <3>1. Proceeds(c, "locked", "ending", cmd[c].op)
      BY <1>1, <2>1, HolderProceeds DEF SiteInv, Outside
    <3> QED  BY <3>1, ProceedsKnowing DEF Relies
  <2>2. CASE Pending /\ StepWith(c, "locked", "reconcile", operation)
    <3>1. Proceeds(c, "locked", "reconcile", operation)
      BY <1>1, <2>2, HolderProceeds DEF SiteInv, Outside
    <3>2. Relies("reconcile", operation)'
      BY <1>1, <2>2 DEF Relies, Pending
    <3>3. operation' = operation
      BY <1>1
    <3> QED  BY <3>1, <3>2, <3>3, ProceedsKnowing
  <2>3. ASSUME NEW verb \in Verbs \ {"reconcile"}, ~Pending, (verb = "init") <=> ~Configured,
               StepWith(c, "locked", verb, [NoOperation EXCEPT !.kind = verb])
        PROVE HolderKnows'
    <3> DEFINE op == [NoOperation EXCEPT !.kind = verb]
    <3>1. Proceeds(c, "locked", verb, op)
      BY <1>1, <2>3, HolderProceeds DEF SiteInv, Outside
    <3>2. op.kind = verb /\ verb \in {"init", "publish", "revoke"}
      BY DEF NoOperation, Verbs
    <3> HIDE DEF op
    <3>3. Relies(verb, op)'
      BY <1>1, <2>3, <3>2 DEF Relies, Pending, Configured
    <3> QED  BY <3>1, <3>3, ProceedsKnowing
  <2> QED  BY <2>1, <2>2, <2>3 DEF Begin
<1> QED  BY <1>2, <1>3

\* A step that changes nothing but where the command is.
LEMMA LooksRecorded ==
  ASSUME SiteInv, NEW c \in Cmd, NEW from, NEW to, from \notin Outside, Step(c, from, to),
         UNCHANGED crashed, Quiet, Relies(from, cmd[c].op) => Relies(to, cmd[c].op)
  PROVE  Recorded' /\ HolderKnows'
<1>1. Proceeds(c, from, to, cmd[c].op)
  BY HolderProceeds DEF SiteInv
<1>2. Relies(from, cmd[c].op)
  BY <1>1, HolderRelies
<1>3. Relies(to, cmd[c].op)
  BY <1>2
<1>4. ASSUME NEW op, Relies(to, op), Proceeds(c, from, to, op) PROVE HolderKnows'
  BY <1>4, QuietRelies, ProceedsKnowing
<1> QED  BY <1>1, <1>3, <1>4, QuietRecorded DEF SiteInv

\* init: the intent is recorded, and a project found or created.
LEMMA PrepareInitRecorded ==
  ASSUME SiteInv, NEW c \in Cmd, PrepareInit(c) PROVE Recorded' /\ HolderKnows'
<1>1. CASE Step(c, "init", "ending") /\ UNCHANGED <<crashed, locks, remoteFiles, site, drawn, retired, outages>>
  BY <1>1, LooksRecorded DEF Outside, Relies, Quiet, remoteFiles, site
<1>2. CASE ~(Step(c, "init", "ending") /\ UNCHANGED <<crashed, locks, remoteFiles, site, drawn, retired, outages>>)
  <2> DEFINE new == [id |-> NewId, kind |-> "init", phase |-> "prepared", cap |-> NewId, prev |-> NoOp,
                     adopt |-> project # "absent"]
             to == IF project = "absent" THEN "creating" ELSE "ensured"
  <2>1. /\ drawn # OpId /\ StepWith(c, "init", to, new) /\ operation' = new
        /\ drawn' = drawn \cup {new.id} /\ UNCHANGED <<crashed, remoteState, work, deployed, retired>>
    BY <1>2 DEF PrepareInit
  <2>2. NewId \in OpId \ drawn
    BY <2>1 DEF NewId, SiteInv, Recorded, RecordsHaveForm
  <2>3. Proceeds(c, "init", to, new)
    BY <2>1, HolderProceeds DEF SiteInv, Outside
  <2>4. Relies("init", cmd[c].op)
    BY <2>3, HolderRelies DEF Outside
  <2>5. ~Pending /\ ~Configured /\ deployed = <<>>
    BY <2>4 DEF Relies, SiteInv, Recorded, Chronicle
  <2>6. new \in Operation /\ new.id = NewId /\ new.cap = NewId /\ new.kind = "init" /\ new.phase = "prepared"
    BY <2>2 DEF Operation, Cap
  <2>7. new # NoOperation
    BY <2>2, <2>6, RemoteAssumption DEF NoOperation
  <2>n. PICK n : n = new
    OBVIOUS
  <2>t. PICK place : place = to
    OBVIOUS
  <2> HIDE DEF new, to
  <2>8. RecordsHaveForm'
    BY <2>1, <2>2, <2>6 DEF SiteInv, Recorded, RecordsHaveForm
  <2>9. DrawnBefore'
    BY <2>1, <2>5, <2>6 DEF SiteInv, Recorded, DrawnBefore
  <2>10. Chronicle'
    BY <2>1, <2>5 DEF SiteInv, Recorded, Chronicle, Configured
  <2>11. NewId \notin retired
    BY <2>2, RemoteAssumption DEF SiteInv, Recorded, DrawnBefore
  <2>12. Intended(n)'
    BY <2>n, <2>1, <2>5, <2>6, <2>11 DEF Intended
  <2>13. Relies(place, n)'
    <3>1. place \in {"creating", "ensured"}
      BY <2>t DEF to
    <3> QED  BY <2>n, <2>1, <2>6, <2>7, <3>1 DEF Relies, Pending
  <2>14. HolderKnows'
    BY <2>n, <2>t, <2>3, <2>13, ProceedsKnowing
  <2> QED  BY <2>n, <2>1, <2>8, <2>9, <2>10, <2>12, <2>14 DEF Recorded
<1> QED  BY <1>1, <1>2

LEMMA CreateProjectRecorded ==
  ASSUME SiteInv, NEW c \in Cmd, CreateProject(c) PROVE Recorded' /\ HolderKnows'
<1>1. UNCHANGED crashed /\ Quiet
  BY DEF CreateProject, Quiet, remoteFiles
<1>2. Step(c, "creating", "ensured") \/ Step(c, "creating", "ending")
  BY DEF CreateProject
<1>3. Relies("creating", cmd[c].op) => Relies("ensured", cmd[c].op) /\ Relies("ending", cmd[c].op)
  BY DEF Relies
<1> QED  BY <1>1, <1>2, <1>3, LooksRecorded DEF Outside

LEMMA ReconcileInitRecorded ==
  ASSUME SiteInv, NEW c \in Cmd, ReconcileInit(c) PROVE Recorded' /\ HolderKnows'
<1> DEFINE op == cmd[c].op
           adopted == [op EXCEPT !.adopt = TRUE]
<1>1. op.kind = "init" /\ UNCHANGED <<crashed, remoteState, work, deployed, drawn, retired>>
  BY DEF ReconcileInit
<1>2. CASE UNCHANGED operation /\ (Step(c, "reconcile", "creating") \/ Step(c, "reconcile", "ending"))
  <2>1. Quiet
    BY <1>1, <1>2 DEF Quiet
  <2>2. Relies("reconcile", op) => Relies("creating", op) /\ Relies("ending", op)
    BY <1>1 DEF Relies
  <2> QED  BY <1>1, <1>2, <2>1, <2>2, LooksRecorded DEF Outside
<1>3. CASE StepWith(c, "reconcile", "ensured", adopted) /\ operation' = adopted
  <2>1. Proceeds(c, "reconcile", "ensured", adopted)
    BY <1>1, <1>3, HolderProceeds DEF SiteInv, Outside
  <2>2. Pending /\ op = operation
    BY <2>1, HolderRelies DEF Outside, Relies
  <2>3. operation \in Operation
    BY DEF SiteInv, Recorded, RecordsHaveForm
  <2>4. /\ adopted \in Operation
        /\ adopted.id = operation.id /\ adopted.kind = "init" /\ adopted.cap = operation.cap
    BY <1>1, <2>2, <2>3 DEF Operation
  <2>5. Intended(operation)
    BY <2>2 DEF SiteInv, Recorded
  <2>6. adopted # NoOperation
    <3>1. operation.id \in OpId
      BY <2>5 DEF Intended, SiteInv, Recorded, RecordsHaveForm
    <3> QED  BY <2>4, <3>1, RemoteAssumption DEF NoOperation
  <2>7. operation.kind = "init"
    BY <1>1, <2>2
  <2>n. PICK n : n = adopted
    OBVIOUS
  <2> HIDE DEF adopted, op
  <2>8. RecordsHaveForm' /\ DrawnBefore'
    BY <1>1, <1>3, <2>4 DEF SiteInv, Recorded, RecordsHaveForm, DrawnBefore
  <2>9. Chronicle'
    BY <1>1, <1>3, <2>5, <2>7 DEF SiteInv, Recorded, Chronicle, Configured, Intended
  <2>10. Intended(n)'
    BY <2>n, <1>1, <2>4, <2>5, <2>7 DEF Intended
  <2>11. Relies("ensured", n)'
    BY <2>n, <1>3, <2>4, <2>6 DEF Relies, Pending
  <2>12. HolderKnows'
    BY <2>n, <2>1, <2>11, ProceedsKnowing
  <2> QED  BY <2>n, <1>3, <2>8, <2>9, <2>10, <2>12 DEF Recorded
<1> QED  BY <1>2, <1>3 DEF ReconcileInit

\* A snapshot is made, under an id and perhaps a link that nobody has seen.
LEMMA ExportRecorded ==
  ASSUME SiteInv, NEW c \in Cmd, Export(c) PROVE Recorded' /\ HolderKnows'
<1> DEFINE at == cmd[c].at
           kind == cmd[c].op.kind
<1>1. at \in {"publish", "revoke"} /\ at \notin Outside
  BY DEF Export, Outside
<1>2. CASE Step(c, at, "ending") /\ UNCHANGED <<crashed, locks, remoteFiles, site, drawn, retired>>
  <2>1. Relies(at, cmd[c].op) => Relies("ending", cmd[c].op)
    BY DEF Relies
  <2> QED  BY <1>1, <1>2, <2>1, LooksRecorded DEF Quiet, remoteFiles, site
<1>3. CASE ~(Step(c, at, "ending") /\ UNCHANGED <<crashed, locks, remoteFiles, site, drawn, retired>>)
  <2> DEFINE new == [id |-> NewId, kind |-> kind, phase |-> "prepared",
                     cap |-> IF kind = "revoke" THEN NewId ELSE remoteState.cap,
                     prev |-> IF kind = "revoke" THEN remoteState.cap ELSE NoOp, adopt |-> FALSE]
  <2>1. /\ drawn # OpId /\ StepWith(c, at, "exported", new)
        /\ work' = work \cup {new.id} /\ drawn' = drawn \cup {new.id}
        /\ UNCHANGED <<crashed, remoteState, operation, deployed, retired>>
    BY <1>3 DEF Export, site
  <2>2. NewId \in OpId \ drawn
    BY <2>1 DEF NewId, SiteInv, Recorded, RecordsHaveForm
  <2>3. Proceeds(c, at, "exported", new)
    BY <1>1, <2>1, HolderProceeds DEF SiteInv
  <2>4. Relies(at, cmd[c].op)
    BY <1>1, <2>3, HolderRelies
  <2>5. ~Pending /\ Configured /\ kind = at
    BY <1>1, <2>4 DEF Relies
  <2>6. /\ new \in Operation /\ new.id = NewId /\ new.kind = kind /\ new.phase = "prepared"
        /\ kind = "revoke" => new.cap = NewId /\ new.prev = remoteState.cap
        /\ kind = "publish" => new.cap = remoteState.cap
    BY <1>1, <2>2, <2>5 DEF Operation, Cap, SiteInv, Recorded, RecordsHaveForm
  <2>7. NewId \notin retired /\ NewId # remoteState.cap /\ NewId # remoteState.last
    BY <2>2, RemoteAssumption DEF SiteInv, Recorded, DrawnBefore
  <2>8. \A i \in DOMAIN deployed : deployed[i].id # NewId
    BY <2>2 DEF SiteInv, Recorded, DrawnBefore
  <2>n. PICK n : n = new
    OBVIOUS
  <2> HIDE DEF new, at, kind
  <2>9. Recorded'
    <3>1. RecordsHaveForm' /\ DrawnBefore' /\ Chronicle'
      BY <2>1, <2>2, <2>6 DEF SiteInv, Recorded, RecordsHaveForm, DrawnBefore, Chronicle, Configured,
        Production, DeploymentOf
    <3>2. Pending' => Intended(operation)'
      BY <2>1, <2>5 DEF Pending
    <3> QED  BY <3>1, <3>2 DEF Recorded
  <2>10. remoteState.cap \notin retired
    BY DEF SiteInv, Recorded, Chronicle
  <2>11. kind = "revoke" \/ kind = "publish"
    BY <1>1, <2>5
  <2>12. n.id = NewId /\ n.cap \notin retired /\ n.kind # "init" /\ n.phase = "prepared"
    BY <2>n, <2>6, <2>7, <2>10, <2>11
  <2>13. Matches(n)' /\ (n.kind = "revoke" => n.cap # n.prev)
    BY <2>n, <2>1, <2>6, <2>7, <2>11 DEF Matches
  <2>14. Intended(n)'
    BY <2>n, <2>1, <2>5, <2>6, <2>7, <2>8, <2>12, <2>13 DEF Intended, Configured
  <2>15. n.cap \in (drawn \cup {First, NoOp})'
    BY <2>n, <2>1, <2>6, <2>11 DEF SiteInv, Recorded, DrawnBefore
  <2>16. Relies("exported", n)'
    BY <2>n, <2>1, <2>5, <2>6, <2>8, <2>12, <2>14, <2>15 DEF Relies, Pending, Found
  <2> QED  BY <2>n, <2>3, <2>9, <2>16, ProceedsKnowing
<1> QED  BY <1>2, <1>3

\* The intent is recorded before anything is deployed.
LEMMA RecordIntentRecorded ==
  ASSUME SiteInv, NEW c \in Cmd, RecordIntent(c) PROVE Recorded' /\ HolderKnows'
<1> DEFINE op == cmd[c].op
<1>1. Step(c, "exported", "deploying") /\ operation' = op
      /\ UNCHANGED <<crashed, remoteState, work, deployed, drawn, retired>>
  BY DEF RecordIntent, site
<1>2. Proceeds(c, "exported", "deploying", op)
  BY <1>1, HolderProceeds DEF SiteInv, Outside
<1>3. Relies("exported", op)
  BY <1>2, HolderRelies DEF Outside
<1>n. PICK n : n = op
  OBVIOUS
<1>4. /\ ~Pending /\ n \in Operation /\ n.kind # "init" /\ n.phase = "prepared"
      /\ Intended(n) /\ ~Found(n) /\ n.cap \in drawn \cup {First, NoOp}
  BY <1>n, <1>3 DEF Relies
<1> HIDE DEF op
<1>5. n # NoOperation
  BY <1>4 DEF NoOperation
<1>6. RecordsHaveForm' /\ DrawnBefore'
  BY <1>n, <1>1, <1>4 DEF SiteInv, Recorded, RecordsHaveForm, DrawnBefore, Intended
<1>7. Chronicle'
  <2>1. operation = NoOperation
    BY <1>4 DEF Pending
  <2> QED  BY <1>1, <2>1 DEF SiteInv, Recorded, Chronicle, NoOperation, Configured, Production
<1>8. Intended(n)'
  BY <1>1, <1>4 DEF Intended, Configured, Matches, Production
<1>9. Relies("deploying", n)'
  BY <1>n, <1>1, <1>4, <1>5 DEF Relies, Pending, Found
<1> QED  BY <1>n, <1>1, <1>2, <1>6, <1>7, <1>8, <1>9, ProceedsKnowing DEF Recorded

LEMMA ReconcileSnapshotRecorded ==
  ASSUME SiteInv, NEW c \in Cmd, ReconcileSnapshot(c) PROVE Recorded' /\ HolderKnows'
<1> DEFINE op == cmd[c].op
<1>1. UNCHANGED crashed /\ Quiet /\ op.kind # "init" /\ op.phase = "prepared"
  BY DEF ReconcileSnapshot, Quiet, remoteFiles, site
<1>2. \/ Found(op) /\ Step(c, "reconcile", "landed")
      \/ ~Found(op) /\ Step(c, "reconcile", "deploying")
      \/ Step(c, "reconcile", "ending")
  BY DEF ReconcileSnapshot
<1>3. Relies("reconcile", op) =>
        /\ Relies("ending", op)
        /\ Found(op) => Relies("landed", op)
        /\ ~Found(op) => Relies("deploying", op)
  BY <1>1 DEF Relies
<1> QED  BY <1>1, <1>2, <1>3, LooksRecorded DEF Outside

\* What lands is the recorded operation, for the first time.
LEMMA DeployRecorded ==
  ASSUME SiteInv, NEW c \in Cmd, Deploy(c) PROVE Recorded' /\ HolderKnows'
<1> DEFINE op == cmd[c].op
           landed == Append(deployed, DeploymentOf(op))
<1>1. UNCHANGED <<crashed, remoteState, operation, work, drawn, retired>>
  BY DEF Deploy, remoteFiles
<1>2. CASE UNCHANGED deployed /\ Step(c, "deploying", "ending")
  <2>1. Relies("deploying", op) => Relies("ending", op)
    BY DEF Relies
  <2> QED  BY <1>1, <1>2, <2>1, LooksRecorded DEF Outside, Quiet
<1>3. ASSUME NEW to \in {"landed", "ending"}, Step(c, "deploying", to), deployed' = landed
      PROVE Recorded' /\ HolderKnows'
  <2>1. Proceeds(c, "deploying", to, op)
    BY <1>1, <1>3, HolderProceeds DEF SiteInv, Outside
  <2>2. Relies("deploying", op)
    BY <2>1, HolderRelies DEF Outside
  <2>n. PICK n : n = op
    OBVIOUS
  <2>3. /\ Pending /\ operation = n /\ n.kind # "init" /\ n.phase = "prepared" /\ ~Found(n)
        /\ Intended(n)
    BY <2>n, <2>2 DEF Relies, SiteInv, Recorded
  <2>4. DeploymentOf(n) \in [id : OpId, cap : Cap] /\ DeploymentOf(n).id = n.id /\ n.id \in drawn
    BY <2>3 DEF SiteInv, Recorded, RecordsHaveForm, DeploymentOf, Intended, Operation
  <2>5. deployed \in Seq([id : OpId, cap : Cap])
    BY DEF SiteInv, Recorded, RecordsHaveForm
  <2>6. deployed' = Append(deployed, DeploymentOf(n))
    BY <2>n, <1>3
  <2> HIDE DEF op, landed
  <2>7. /\ deployed' \in Seq([id : OpId, cap : Cap]) /\ deployed' # <<>>
        /\ Len(deployed') = Len(deployed) + 1 /\ Len(deployed) \in Nat
        /\ DOMAIN deployed = 1 .. Len(deployed) /\ DOMAIN deployed' = 1 .. Len(deployed')
    BY <2>4, <2>5, <2>6, AppendProperties, LenProperties
  <2>8. /\ \A i \in DOMAIN deployed : deployed'[i] = deployed[i]
        /\ deployed'[Len(deployed')] = DeploymentOf(n)
    BY <2>4, <2>5, <2>6, <2>7, AppendProperties
  <2>9. Production' = DeploymentOf(n)
    BY <2>8 DEF Production, Last
  <2>10. \A i \in DOMAIN deployed' : i \in DOMAIN deployed \/ i = Len(deployed')
    BY <2>7
  <2>11. \A i \in DOMAIN deployed : deployed[i].id # n.id
    BY <2>3 DEF Found
  <2>12. \A i \in DOMAIN deployed' : deployed'[i].id = n.id => i = Len(deployed')
    BY <2>8, <2>10, <2>11
  <2>13. RecordsHaveForm'
    BY <1>1, <2>7 DEF SiteInv, Recorded, RecordsHaveForm
  <2>14. DrawnBefore'
    BY <1>1, <2>4, <2>8, <2>10 DEF SiteInv, Recorded, DrawnBefore
  <2>15. Chronicle'
    <3>1. \A i, j \in DOMAIN deployed' : deployed'[i].id = deployed'[j].id => i = j
      BY <2>4, <2>8, <2>10, <2>11 DEF SiteInv, Recorded, Chronicle
    <3>2. operation'.kind # "init" /\ Production' = DeploymentOf(operation)'
      BY <1>1, <2>3, <2>9 DEF DeploymentOf
    <3>3. Configured' /\ remoteState'.cap \notin retired'
      BY <1>1, <2>3 DEF Intended, Configured, SiteInv, Recorded, Chronicle
    <3>4. remoteState'.last # NoOp =>
            \E i \in DOMAIN deployed' :
              deployed'[i] = [id |-> remoteState'.last, cap |-> remoteState'.cap]
      BY <1>1, <2>7, <2>8 DEF SiteInv, Recorded, Chronicle
    <3> QED  BY <3>1, <3>2, <3>3, <3>4 DEF Chronicle
  <2>16. Intended(n)'
    BY <1>1, <2>3, <2>12 DEF Intended, Configured, Matches
  <2>17. Found(n)'
    <3>1. Len(deployed') \in DOMAIN deployed'
      BY <2>7
    <3> QED  BY <2>4, <2>8, <3>1 DEF Found
  <2>18. Relies(to, n)'
    BY <1>1, <1>3, <2>3, <2>17 DEF Relies, Pending
  <2> QED  BY <2>n, <1>1, <2>1, <2>3, <2>13, <2>14, <2>15, <2>16, <2>18, ProceedsKnowing DEF Recorded
<1> QED  BY <1>2, <1>3 DEF Deploy, DeploymentOf

\* The outcome is recorded: what has landed is what production serves.
LEMMA CheckpointRecorded ==
  ASSUME SiteInv, NEW c \in Cmd, Checkpoint(c) PROVE Recorded' /\ HolderKnows'
<1> DEFINE at == cmd[c].at
           op == cmd[c].op
           done == [op EXCEPT !.phase = "remote-succeeded"]
<1>1. /\ at \in {"ensured", "landed"} /\ at \notin Outside
      /\ StepWith(c, at, "finalizing", done) /\ operation' = done
      /\ UNCHANGED <<crashed, remoteState, work, deployed, drawn, retired>>
  BY DEF Checkpoint, Outside, site
<1>2. Proceeds(c, at, "finalizing", done)
  BY <1>1, HolderProceeds DEF SiteInv
<1>3. Relies(at, op)
  BY <1>1, <1>2, HolderRelies
<1>4. Pending /\ op = operation /\ operation \in Operation /\ Intended(operation)
  BY <1>1, <1>3 DEF Relies, SiteInv, Recorded, RecordsHaveForm
<1>5. /\ done \in Operation /\ done.id = operation.id /\ done.kind = operation.kind
      /\ done.cap = operation.cap /\ done.prev = operation.prev /\ done.phase = "remote-succeeded"
  BY <1>4 DEF Operation
<1>6. operation.kind # "init" =>
        deployed # <<>> /\ Production = DeploymentOf(operation)
  <2>1. ASSUME operation.kind # "init" PROVE deployed # <<>> /\ Production = DeploymentOf(operation)
    <3>1. Found(operation) /\ operation.phase = "prepared"
      BY <1>1, <1>3, <1>4, <2>1 DEF Relies
    <3>2. PICK i \in DOMAIN deployed : deployed[i].id = operation.id
      BY <3>1 DEF Found
    <3>3. i = Len(deployed) /\ operation.id # remoteState.last
      BY <1>4, <2>1, <3>1, <3>2 DEF Intended
    <3>4. deployed # <<>>
      BY <3>2
    <3>5. Production.id = operation.id
      BY <3>2, <3>3 DEF Production, Last
    <3> QED  BY <3>3, <3>4, <3>5 DEF SiteInv, Recorded, Chronicle
  <2> QED  BY <2>1
<1>n. PICK n : n = done
  OBVIOUS
<1>7. n # NoOperation
  <2>1. n.phase # NoOperation.phase
    BY <1>n, <1>5 DEF NoOperation
  <2> QED  BY <2>1
<1> HIDE DEF op, at, done
<1>8. RecordsHaveForm' /\ DrawnBefore'
  BY <1>1, <1>5 DEF SiteInv, Recorded, RecordsHaveForm, DrawnBefore
<1>9. Chronicle'
  BY <1>1, <1>5 DEF SiteInv, Recorded, Chronicle, Configured, Production, DeploymentOf
<1>10. Intended(n)'
  BY <1>n, <1>1, <1>4, <1>5, <1>6 DEF Intended, Configured, Production, DeploymentOf
<1>11. Relies("finalizing", n)'
  BY <1>n, <1>1, <1>5, <1>7 DEF Relies, Pending
<1> QED  BY <1>n, <1>1, <1>2, <1>8, <1>9, <1>10, <1>11, ProceedsKnowing DEF Recorded

LEMMA ReconcileFinishedRecorded ==
  ASSUME SiteInv, NEW c \in Cmd, ReconcileFinished(c) PROVE Recorded' /\ HolderKnows'
<1>1. UNCHANGED crashed /\ Quiet /\ Step(c, "reconcile", "finalizing")
      /\ cmd[c].op.phase = "remote-succeeded"
  BY DEF ReconcileFinished, Quiet, remoteFiles, site
<1>2. Relies("reconcile", cmd[c].op) => Relies("finalizing", cmd[c].op)
  BY <1>1 DEF Relies
<1> QED  BY <1>1, <1>2, LooksRecorded DEF Outside

\* The state takes over what production serves; a revoked link is one it left.
LEMMA WriteStateRecorded ==
  ASSUME SiteInv, NEW c \in Cmd, WriteState(c) PROVE Recorded' /\ HolderKnows'
<1> DEFINE op == cmd[c].op
<1>1. UNCHANGED <<crashed, operation, work, deployed, drawn>>
  BY DEF WriteState, remoteFiles, site
<1>2. PICK to \in {"written", "ending"} : Step(c, "finalizing", to)
  BY DEF WriteState
<1>3. Proceeds(c, "finalizing", to, op)
  BY <1>1, <1>2, HolderProceeds DEF SiteInv, Outside
<1>4. Relies("finalizing", op)
  BY <1>3, HolderRelies DEF Outside
<1>5. /\ Pending /\ op = operation /\ Intended(operation) /\ operation \in Operation
      /\ operation.phase = "remote-succeeded"
  BY <1>4 DEF Relies, SiteInv, Recorded, RecordsHaveForm
<1>6. CASE Quiet /\ to = "ending"
  <2>1. Relies("finalizing", op) => Relies("ending", op)
    BY DEF Relies
  <2> QED  BY <1>1, <1>2, <1>6, <2>1, LooksRecorded DEF Outside
<1>n. PICK n : n = op
  OBVIOUS
<1> HIDE DEF op
<1>7. operation.id \in OpId /\ operation.id # NoOp
  BY <1>5, RemoteAssumption DEF Intended, SiteInv, Recorded, RecordsHaveForm
<1>8. CASE Quiet /\ to = "written" /\ remoteState.last = operation.id
  <2>1. PICK i \in DOMAIN deployed : deployed[i] = [id |-> operation.id, cap |-> remoteState.cap]
    BY <1>7, <1>8 DEF SiteInv, Recorded, Chronicle
  <2>2. operation.kind # "init"
    BY <1>5, <2>1 DEF Intended
  <2>3. i = Len(deployed) /\ Production = DeploymentOf(operation)
    BY <1>5, <2>1, <2>2 DEF Intended
  <2>4. remoteState.cap = operation.cap
    BY <2>1, <2>3 DEF Production, Last, DeploymentOf
  <2>5. remoteState = StateFor(operation)
    BY <1>8, <2>2, <2>4 DEF StateFor, SiteInv, Recorded, RecordsHaveForm
  <2>6. Relies("written", op)
    BY <1>5, <2>5 DEF Relies
  <2> QED  BY <1>1, <1>2, <1>8, <2>6, LooksRecorded DEF Outside, op
<1>9. CASE /\ Matches(operation) /\ to = "written" /\ remoteState' = StateFor(operation)
           /\ retired' = IF operation.kind = "revoke" THEN retired \cup {operation.prev} ELSE retired
           /\ operation.prev \in Cap
  <2>1. remoteState' = [cap |-> operation.cap,
                        last |-> IF operation.kind = "init" THEN NoOp ELSE operation.id]
    BY <1>9 DEF StateFor
  <2>2. operation.kind = "revoke" => operation.prev = remoteState.cap
    BY <1>9 DEF Matches
  <2>3. RecordsHaveForm'
    BY <1>1, <1>5, <2>1 DEF SiteInv, Recorded, RecordsHaveForm, Operation
  <2>4. DrawnBefore'
    BY <1>1, <1>5, <1>9, <2>1, <2>2 DEF SiteInv, Recorded, DrawnBefore
  <2>5. operation.cap \notin retired'
    BY <1>5, <1>9, <2>2 DEF Intended
  <2>6. Chronicle'
    <3>1. deployed # <<>> => /\ operation.kind # "init" /\ Production = DeploymentOf(operation)
                             /\ Len(deployed) \in DOMAIN deployed
                             /\ Production = deployed[Len(deployed)]
      BY <1>5, ProductionIsLast DEF Intended, SiteInv, Recorded
    <3>2. operation.kind # "init" => deployed # <<>>
      BY <1>5 DEF Intended
    <3>3. \A i, j \in DOMAIN deployed : deployed[i].id = deployed[j].id => i = j
      BY DEF SiteInv, Recorded, Chronicle
    <3>4. (deployed # <<>> =>
            Production = [id |-> remoteState.last, cap |-> remoteState.cap])'
      BY <1>1, <2>1, <3>1 DEF Production, DeploymentOf
    <3>5. (remoteState.last # NoOp =>
            \E i \in DOMAIN deployed :
              deployed[i] = [id |-> remoteState.last, cap |-> remoteState.cap])'
      BY <1>1, <2>1, <3>1, <3>2 DEF DeploymentOf
    <3>6. ~Configured' => deployed = <<>>
      <4>1. operation.kind # "init" => Configured'
        BY <1>7, <2>1 DEF Configured, Unconfigured
      <4> QED  BY <3>1, <4>1
    <3> QED  BY <1>1, <2>1, <2>5, <3>3, <3>4, <3>5, <3>6 DEF Chronicle
  <2>7. Intended(operation)'
    <3>1. operation.kind # "init" => Configured'
      BY <1>7, <2>1 DEF Configured, Unconfigured
    <3> QED  BY <1>1, <1>5, <2>5, <3>1 DEF Intended, Production, DeploymentOf
  <2>8. Relies("written", n)'
    BY <1>n, <1>1, <1>5, <1>9 DEF Relies, Pending, StateFor
  <2> QED  BY <1>n, <1>3, <1>9, <2>3, <2>4, <2>6, <2>7, <2>8, ProceedsKnowing DEF Recorded
<1>10. operation.prev \in Cap
  BY <1>5 DEF Operation
<1> QED
  <2>1. /\ Step(c, "finalizing", "written") => to = "written"
        /\ Step(c, "finalizing", "ending") => to = "ending"
    BY <1>3 DEF Step, Proceeds, Moved, SiteInv, AloneInv, HasForm
  <2> QED  BY <1>5, <1>6, <1>8, <1>9, <1>10, <2>1 DEF WriteState, Quiet, remoteFiles, site, op

\* With the state written the operation has nothing more to tell.
LEMMA RemoveOperationRecorded ==
  ASSUME SiteInv, NEW c \in Cmd, RemoveOperation(c) PROVE Recorded' /\ HolderKnows'
<1> DEFINE op == cmd[c].op
<1>1. /\ Step(c, "written", "unlisted") /\ operation' = NoOperation
      /\ UNCHANGED <<crashed, remoteState, work, deployed, drawn, retired>>
  BY DEF RemoveOperation, site
<1>2. Proceeds(c, "written", "unlisted", op)
  BY <1>1, HolderProceeds DEF SiteInv, Outside
<1>3. Relies("written", op)
  BY <1>2, HolderRelies DEF Outside
<1>4. /\ Pending /\ op = operation /\ Intended(operation) /\ operation.phase = "remote-succeeded"
      /\ remoteState = StateFor(operation)
  BY <1>3 DEF Relies, SiteInv, Recorded
<1>5. NoOperation \in Operation
  BY DEF NoOperation, Operation, Cap
<1>6. RecordsHaveForm' /\ DrawnBefore'
  BY <1>1, <1>5 DEF SiteInv, Recorded, RecordsHaveForm, DrawnBefore, NoOperation
<1>7. deployed # <<>> => Production = [id |-> remoteState.last, cap |-> remoteState.cap]
  BY <1>4 DEF Intended, StateFor, DeploymentOf
<1>8. Chronicle'
  BY <1>1, <1>7 DEF SiteInv, Recorded, Chronicle, Configured, Production
<1>9. ~Pending'
  BY <1>1 DEF Pending
<1>n. PICK n : n = op
  OBVIOUS
<1> HIDE DEF op
<1>10. Relies("unlisted", n)'
  BY <1>9 DEF Relies
<1> QED  BY <1>n, <1>2, <1>6, <1>8, <1>9, <1>10, ProceedsKnowing DEF Recorded

LEMMA RemoveWorkRecorded ==
  ASSUME SiteInv, NEW c \in Cmd, RemoveWork(c) PROVE Recorded' /\ HolderKnows'
<1> DEFINE op == cmd[c].op
<1>1. /\ Step(c, "unlisted", "ending") /\ work' = work \ {op.id}
      /\ UNCHANGED <<crashed, remoteState, operation, deployed, drawn, retired>>
  BY DEF RemoveWork, site
<1>2. Proceeds(c, "unlisted", "ending", op)
  BY <1>1, HolderProceeds DEF SiteInv, Outside
<1>3. ~Pending
  BY <1>2, HolderRelies DEF Outside, Relies
<1>4. Recorded'
  BY <1>1, <1>3 DEF SiteInv, Recorded, RecordsHaveForm, DrawnBefore, Chronicle, Configured, Production,
    DeploymentOf, Pending
<1>n. PICK n : n = op
  OBVIOUS
<1> HIDE DEF op
<1>5. Relies("ending", n)'
  BY DEF Relies
<1> QED  BY <1>n, <1>2, <1>4, <1>5, ProceedsKnowing

LEMMA InnerRecorded ==
  ASSUME SiteInv, NEW c \in Cmd, Inner(c) PROVE Recorded' /\ HolderKnows'
BY BeginRecorded, PrepareInitRecorded, CreateProjectRecorded, ReconcileInitRecorded, ExportRecorded,
  RecordIntentRecorded, ReconcileSnapshotRecorded, DeployRecorded, CheckpointRecorded,
  ReconcileFinishedRecorded, WriteStateRecorded, RemoveOperationRecorded, RemoveWorkRecorded DEF Inner

LEMMA AsideRecorded ==
  ASSUME SiteInv,
         \/ UNCHANGED remoteVars \/ OthersCreate
         \/ \E c \in Cmd :
              \/ CreateLock(c) \/ WriteLock(c) \/ GuardRecovery(c) \/ LookAtLock(c) \/ LookAgain(c)
              \/ RemoveLock(c) \/ TakeRemoved(c) \/ Unguard(c) \/ Release(c) \/ Crash(c)
  PROVE  Recorded' /\ HolderKnows'
<1>0. HasForm
  BY DEF SiteInv, AloneInv
<1> USE DEF Quiet, remoteFiles, site
<1>1. CASE UNCHANGED remoteVars \/ OthersCreate \/ \E c \in Cmd : Crash(c)
  BY <1>1, AsideStep DEF OthersCreate, Crash, remoteVars
<1>2. ASSUME NEW c \in Cmd, NEW from, NEW to, to \in Outside \cup {"created", "locked", "recovered", "ending"},
             Step(c, from, to) \/ \E op : StepWith(c, from, to, op), UNCHANGED crashed, Quiet
      PROVE  Recorded' /\ HolderKnows'
  <2>1. Moved(c, from, to)
    BY <1>0, <1>2, StepMoves, StepWithMoves
  <2> QED  BY <1>2, <2>1, AsideStep
<1>3. ASSUME NEW c \in Cmd,
             \/ CreateLock(c) \/ WriteLock(c) \/ GuardRecovery(c) \/ LookAtLock(c) \/ LookAgain(c)
             \/ RemoveLock(c) \/ TakeRemoved(c) \/ Unguard(c) \/ Release(c)
      PROVE  Recorded' /\ HolderKnows'
  <2>1. UNCHANGED crashed /\ Quiet
    BY <1>3 DEF CreateLock, WriteLock, GuardRecovery, LookAtLock, LookAgain, RemoveLock, TakeRemoved, Unguard, Release
  <2>2. \E from : \E to \in Outside \cup {"created", "locked", "recovered", "ending"} :
          Step(c, from, to) \/ \E op : StepWith(c, from, to, op)
    BY <1>3 DEF CreateLock, WriteLock, GuardRecovery, LookAtLock, LookAgain, RemoveLock, TakeRemoved, Unguard, Release,
      Outside
  <2> QED  BY <1>2, <2>1, <2>2
<1> QED  BY <1>1, <1>3

\* Wherever a command was killed, the records of the home tell what the site
\* serves, that no revoked link is, and that what is pending can be finished
\* (`finalizeOperation`, `reconcile`).
THEOREM SiteFollowsRecordsAlways == RemoteSpec => []SiteFollowsRecords
<1>1. RemoteInit => SiteInv
  BY AloneInit, RecordedInit DEF SiteInv
<1>2. SiteInv /\ [RemoteNext]_remoteVars => SiteInv'
  <2> SUFFICES ASSUME SiteInv, [RemoteNext]_remoteVars PROVE SiteInv'
    OBVIOUS
  <2>1. AloneInv'
    BY FormStep, LockIsOwnStep, GuardIsOwnStep, RemovesAbandonedStep DEF AloneInv, SiteInv
  <2>2. Recorded' /\ HolderKnows'
    BY InnerRecorded, AsideRecorded DEF RemoteNext, RemoteStep, Inner
  <2> QED  BY <2>1, <2>2 DEF SiteInv
<1>3. SiteInv => SiteFollowsRecords
  BY RecordsTell DEF SiteInv
<1> QED  BY <1>1, <1>2, <1>3, PTL DEF RemoteSpec
=============================================================================
