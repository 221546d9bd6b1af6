---------------------------- MODULE ProcessProofs ----------------------------
(***************************************************************************)
(* What processes that share a home by its files alone can rely on, for    *)
(* any number of commands, deaths and restarts: one command at a time      *)
(* holds viewer-start.lock; the worker is quiet when it says so; the       *)
(* viewer and its route are those of their record; the catalog of inboxes  *)
(* can be read and says what is there; what the boot service tells of an   *)
(* installation, a removal or a rollback is what the machine does.         *)
(***************************************************************************)
EXTENDS StartLock, SyncWorker, ViewerLifecycle, InboxCatalog, BootService, SequenceTheorems, TLAPS

(* The lock of viewer starts. *)

Places == {"outside", "writing", "reading", "inside", "leaving", "left", "refused", "guarding",
           "writing guard", "reading guard", "guarded", "removing", "unguarding"}

LockFile == [by : Starter \cup {Nameless}, written : BOOLEAN]

StartTypes ==
  /\ begun \in [Starter -> Places] /\ theirs \in [Starter -> Starter \cup {Nameless}]
  /\ startFile \in LockFile /\ guardFile \in LockFile /\ killed \subseteq Starter

\* The file is that of a living process which has created it and not removed it.
StartIsOwn ==
  \A p \in Starter \ killed :
    /\ begun[p] = "writing" => startFile = Made(p)
    /\ begun[p] \in {"inside", "leaving"} => startFile = Whole(p)

\* The guard is that of the process that recovers, dead or alive: nobody else
\* removes it.
GuardIsOwn ==
  \A p \in Starter :
    /\ begun[p] = "writing guard" => guardFile = Made(p)
    /\ begun[p] \in {"guarded", "removing", "unguarding"} => guardFile = Whole(p)

\* What is about to be removed belongs to the dead.
RemovesTheDead == \A p \in Starter : begun[p] = "removing" => OwnerGone(startFile)

StartInv == StartTypes /\ StartIsOwn /\ GuardIsOwn /\ RemovesTheDead

-----------------------------------------------------------------------------
LEMMA StartInvInit == StartInit => StartInv
BY StartLockAssumption DEF StartInit, StartInv, StartTypes, StartIsOwn, GuardIsOwn,
  RemovesTheDead, Places, LockFile, NoLockFile

\* Files of different makers, and a file before and after it is written, differ.
LEMMA FilesDiffer ==
  ASSUME NEW p \in Starter, NEW q \in Starter
  PROVE  /\ Made(p) \in LockFile /\ Whole(p) \in LockFile /\ NoLockFile \in LockFile
         /\ Made(p) # NoLockFile /\ Whole(p) # NoLockFile /\ Made(p) # Whole(q)
         /\ (Made(p) = Made(q) => p = q) /\ (Whole(p) = Whole(q) => p = q)
         /\ Made(p).by = p /\ Whole(p).by = p /\ ~Made(p).written
BY StartLockAssumption DEF Made, Whole, NoLockFile, LockFile

LEMMA StartTypesStep == StartTypes /\ [StartNext]_startVars => StartTypes'
<1> SUFFICES ASSUME StartTypes, [StartNext]_startVars PROVE StartTypes'
  OBVIOUS
<1> USE DEF StartTypes, Moves
<1>1. begun' \in [Starter -> Places]
  <2>1. ASSUME NEW p \in Starter,
               CreateStart(p) \/ WriteStart(p) \/ ReadStart(p) \/ GivesUp(p)
        PROVE begun' \in [Starter -> Places]
    BY <2>1 DEF CreateStart, WriteStart, ReadStart, GivesUp, Places
  <2>2. ASSUME NEW p \in Starter, CreateGuard(p) \/ WriteGuard(p) \/ ReadGuard(p)
        PROVE begun' \in [Starter -> Places]
    BY <2>2 DEF CreateGuard, WriteGuard, ReadGuard, Places
  <2>3. ASSUME NEW p \in Starter, ReadAgain(p) \/ RemoveDead(p) \/ ReleaseGuard(p)
        PROVE begun' \in [Starter -> Places]
    BY <2>3 DEF ReadAgain, RemoveDead, ReleaseGuard, Places
  <2>4. ASSUME NEW p \in Starter, BeginRelease(p) \/ RemoveOwn(p) \/ KillStarter(p)
        PROVE begun' \in [Starter -> Places]
    BY <2>4 DEF BeginRelease, RemoveOwn, KillStarter, Places
  <2> QED  BY <2>1, <2>2, <2>3, <2>4 DEF StartNext, StartStep, startVars
<1>2. theirs' \in [Starter -> Starter \cup {Nameless}]
  <2>1. ASSUME NEW p \in Starter, ReadStart(p)
        PROVE theirs' \in [Starter -> Starter \cup {Nameless}]
    BY <2>1 DEF ReadStart, LockFile
  <2>2. ASSUME NEW p \in Starter, ReleaseGuard(p)
        PROVE theirs' \in [Starter -> Starter \cup {Nameless}]
    BY <2>2 DEF ReleaseGuard
  <2> QED  BY <2>1, <2>2 DEF StartNext, StartStep, startVars, CreateStart, WriteStart, GivesUp,
             CreateGuard, WriteGuard, ReadGuard, ReadAgain, RemoveDead, BeginRelease, RemoveOwn,
             KillStarter
<1>3. startFile' \in LockFile
  <2>1. ASSUME NEW p \in Starter, CreateStart(p) \/ WriteStart(p) \/ RemoveDead(p) \/ RemoveOwn(p)
        PROVE startFile' \in LockFile
    BY <2>1, FilesDiffer DEF CreateStart, WriteStart, RemoveDead, RemoveOwn
  <2> QED  BY <2>1 DEF StartNext, StartStep, startVars, ReadStart, GivesUp, CreateGuard,
             WriteGuard, ReadGuard, ReadAgain, ReleaseGuard, BeginRelease, KillStarter
<1>4. guardFile' \in LockFile
  <2>1. ASSUME NEW p \in Starter, CreateGuard(p) \/ WriteGuard(p) \/ ReleaseGuard(p)
        PROVE guardFile' \in LockFile
    BY <2>1, FilesDiffer DEF CreateGuard, WriteGuard, ReleaseGuard
  <2> QED  BY <2>1 DEF StartNext, StartStep, startVars, CreateStart, WriteStart, ReadStart,
             GivesUp, ReadGuard, ReadAgain, RemoveDead, BeginRelease, RemoveOwn, KillStarter
<1>5. killed' \subseteq Starter
  BY DEF StartNext, StartStep, startVars, CreateStart, WriteStart, ReadStart, GivesUp,
    CreateGuard, WriteGuard, ReadGuard, ReadAgain, RemoveDead, ReleaseGuard, BeginRelease,
    RemoveOwn, KillStarter
<1> QED  BY <1>1, <1>2, <1>3, <1>4, <1>5

\* Whoever removes the start file owns it or removes the file of the dead.
LEMMA StartIsOwnStep == StartInv /\ [StartNext]_startVars => StartIsOwn'
<1> SUFFICES ASSUME StartInv, [StartNext]_startVars PROVE StartIsOwn'
  OBVIOUS
<1> USE FilesDiffer DEF StartInv, StartTypes, StartIsOwn, Moves
<1>1. ASSUME NEW p \in Starter, CreateStart(p) PROVE StartIsOwn'
  BY <1>1 DEF CreateStart
<1>2. ASSUME NEW p \in Starter, WriteStart(p) PROVE StartIsOwn'
  BY <1>2 DEF WriteStart
<1>3. ASSUME NEW p \in Starter, ReadStart(p) \/ GivesUp(p) PROVE StartIsOwn'
  BY <1>3 DEF ReadStart, GivesUp
<1>4. ASSUME NEW p \in Starter,
             CreateGuard(p) \/ WriteGuard(p) \/ ReadGuard(p) \/ ReadAgain(p) \/ ReleaseGuard(p)
      PROVE StartIsOwn'
  <2>1. startFile' = startFile /\ killed' = killed
    BY <1>4 DEF CreateGuard, WriteGuard, ReadGuard, ReadAgain, ReleaseGuard
  <2>2. begun'[p] \notin {"writing", "inside", "leaving"}
    BY <1>4 DEF CreateGuard, WriteGuard, ReadGuard, ReadAgain, ReleaseGuard
  <2>3. \A q \in Starter : q # p => begun'[q] = begun[q]
    BY <1>4 DEF CreateGuard, WriteGuard, ReadGuard, ReadAgain, ReleaseGuard
  <2> QED  BY <2>1, <2>2, <2>3
<1>5. ASSUME NEW p \in Starter, RemoveDead(p) PROVE StartIsOwn'
  BY <1>5 DEF RemoveDead, RemovesTheDead, OwnerGone
<1>6. ASSUME NEW p \in Starter, BeginRelease(p) PROVE StartIsOwn'
  BY <1>6 DEF BeginRelease
<1>7. ASSUME NEW p \in Starter, RemoveOwn(p) PROVE StartIsOwn'
  BY <1>7 DEF RemoveOwn
<1>8. ASSUME NEW p \in Starter, KillStarter(p) PROVE StartIsOwn'
  BY <1>8 DEF KillStarter
<1>9. CASE UNCHANGED startVars
  BY <1>9 DEF startVars
<1> QED  BY <1>1, <1>2, <1>3, <1>4, <1>5, <1>6, <1>7, <1>8, <1>9 DEF StartNext, StartStep

Guarding == {"writing guard", "guarded", "removing", "unguarding"}

\* The guard is held by one process at most.
LEMMA OneGuard ==
  ASSUME GuardIsOwn, NEW p \in Starter, NEW q \in Starter,
         begun[p] \in Guarding, begun[q] \in Guarding
  PROVE  p = q /\ guardFile # NoLockFile
<1>1. guardFile = Made(p) \/ guardFile = Whole(p)
  BY DEF GuardIsOwn, Guarding
<1>2. guardFile = Made(q) \/ guardFile = Whole(q)
  BY DEF GuardIsOwn, Guarding
<1>3. Made(p) # Whole(q) /\ Made(q) # Whole(p) /\ (Made(p) = Made(q) => p = q)
      /\ (Whole(p) = Whole(q) => p = q) /\ Made(p) # NoLockFile /\ Whole(p) # NoLockFile
  BY FilesDiffer
<1> QED  BY <1>1, <1>2, <1>3, Zenon

\* A step that leaves the guard alone moves nobody into the places that hold one,
\* unless between those where it is written.
LEMMA GuardLeftAlone ==
  ASSUME GuardIsOwn, guardFile' = guardFile, NEW p \in Starter,
         \A q \in Starter : q # p => begun'[q] = begun[q],
         \/ begun'[p] \notin Guarding
         \/ begun[p] \in {"guarded", "removing"} /\ begun'[p] \in {"removing", "unguarding"}
  PROVE  GuardIsOwn'
<1> SUFFICES ASSUME NEW q \in Starter, begun'[q] \in Guarding
             PROVE /\ begun'[q] = "writing guard" => guardFile = Made(q)
                   /\ begun'[q] # "writing guard" => guardFile = Whole(q)
  BY DEF GuardIsOwn, Guarding
<1>1. CASE q = p
  BY <1>1 DEF GuardIsOwn, Guarding
<1>2. CASE q # p
  BY <1>2 DEF GuardIsOwn, Guarding
<1> QED  BY <1>1, <1>2

\* A guard is created where there is none and removed by its owner.
LEMMA GuardIsOwnStep == StartInv /\ [StartNext]_startVars => GuardIsOwn'
<1> SUFFICES ASSUME StartInv, [StartNext]_startVars PROVE GuardIsOwn'
  OBVIOUS
<1>0. begun \in [Starter -> Places] /\ GuardIsOwn
  BY DEF StartInv, StartTypes
<1>1. ASSUME NEW p \in Starter,
             CreateStart(p) \/ WriteStart(p) \/ ReadStart(p) \/ GivesUp(p)
      PROVE GuardIsOwn'
  <2>1. guardFile' = guardFile /\ begun'[p] \notin Guarding
    BY <1>0, <1>1 DEF CreateStart, WriteStart, ReadStart, GivesUp, Moves, Guarding
  <2>2. \A q \in Starter : q # p => begun'[q] = begun[q]
    BY <1>0, <1>1 DEF CreateStart, WriteStart, ReadStart, GivesUp, Moves
  <2> QED  BY <1>0, <2>1, <2>2, GuardLeftAlone
<1>2. ASSUME NEW p \in Starter, CreateGuard(p) PROVE GuardIsOwn'
  <2>1. \A q \in Starter : q # p => begun'[q] = begun[q]
    BY <1>0, <1>2 DEF CreateGuard, Moves
  <2>2. CASE guardFile = NoLockFile
    <3>1. begun'[p] = "writing guard" /\ guardFile' = Made(p)
      BY <1>0, <1>2, <2>2 DEF CreateGuard, Moves
    <3>2. \A q \in Starter : begun[q] \notin Guarding
      BY <1>0, <2>2, OneGuard
    <3> QED  BY <2>1, <3>1, <3>2 DEF GuardIsOwn, Guarding
  <2>3. CASE guardFile # NoLockFile
    <3>1. begun'[p] \notin Guarding /\ guardFile' = guardFile
      BY <1>0, <1>2, <2>3 DEF CreateGuard, Moves, Guarding
    <3> QED  BY <1>0, <2>1, <3>1, GuardLeftAlone
  <2> QED  BY <2>2, <2>3
<1>3. ASSUME NEW p \in Starter, WriteGuard(p) \/ ReleaseGuard(p) PROVE GuardIsOwn'
  <2>1. begun[p] \in Guarding /\ \A q \in Starter : q # p => begun'[q] = begun[q]
    BY <1>0, <1>3 DEF WriteGuard, ReleaseGuard, Moves, Guarding
  <2>2. \/ begun'[p] = "guarded" /\ guardFile' = Whole(p)
        \/ begun'[p] \notin Guarding
    BY <1>0, <1>3 DEF WriteGuard, ReleaseGuard, Moves, Guarding
  <2>3. \A q \in Starter : q # p => begun[q] \notin Guarding
    BY <1>0, <2>1, OneGuard
  <2> QED  BY <2>1, <2>2, <2>3 DEF GuardIsOwn, Guarding
<1>4. ASSUME NEW p \in Starter,
             ReadGuard(p) \/ ReadAgain(p) \/ RemoveDead(p) \/ BeginRelease(p) \/ RemoveOwn(p)
      PROVE GuardIsOwn'
  <2>1. guardFile' = guardFile
    BY <1>4 DEF ReadGuard, ReadAgain, RemoveDead, BeginRelease, RemoveOwn
  <2>2. \A q \in Starter : q # p => begun'[q] = begun[q]
    BY <1>0, <1>4 DEF ReadGuard, ReadAgain, RemoveDead, BeginRelease, RemoveOwn, Moves
  <2>3. \/ begun'[p] \notin Guarding
        \/ begun[p] \in {"guarded", "removing"} /\ begun'[p] \in {"removing", "unguarding"}
    BY <1>0, <1>4 DEF ReadGuard, ReadAgain, RemoveDead, BeginRelease, RemoveOwn, Moves, Guarding
  <2> QED  BY <1>0, <2>1, <2>2, <2>3, GuardLeftAlone
<1>5. ASSUME NEW p \in Starter, KillStarter(p) PROVE GuardIsOwn'
  BY <1>0, <1>5 DEF KillStarter, GuardIsOwn
<1>6. CASE UNCHANGED startVars
  BY <1>0, <1>6 DEF startVars, GuardIsOwn
<1> QED
  BY <1>1, <1>2, <1>3, <1>4, <1>5, <1>6 DEF StartNext, StartStep

\* Between the second look at the owner and the removal nobody replaces the
\* file: its owner is dead, and other recoverers wait for the guard.
LEMMA RemovesTheDeadStep == StartInv /\ [StartNext]_startVars => RemovesTheDead'
<1> SUFFICES ASSUME StartInv, [StartNext]_startVars PROVE RemovesTheDead'
  OBVIOUS
<1> USE FilesDiffer DEF StartInv, StartTypes, RemovesTheDead, OwnerGone, Moves
<1>1. ASSUME NEW p \in Starter, CreateStart(p) PROVE RemovesTheDead'
  BY <1>1, StartLockAssumption DEF CreateStart, NoLockFile
<1>2. ASSUME NEW p \in Starter, WriteStart(p) PROVE RemovesTheDead'
  BY <1>2 DEF WriteStart, StartIsOwn
<1>3. ASSUME NEW p \in Starter, ReadStart(p) \/ GivesUp(p) PROVE RemovesTheDead'
  BY <1>3 DEF ReadStart, GivesUp
<1>4. ASSUME NEW p \in Starter,
             CreateGuard(p) \/ WriteGuard(p) \/ ReadGuard(p) \/ ReleaseGuard(p)
      PROVE RemovesTheDead'
  BY <1>4 DEF CreateGuard, WriteGuard, ReadGuard, ReleaseGuard
<1>5. ASSUME NEW p \in Starter, ReadAgain(p) PROVE RemovesTheDead'
  BY <1>5 DEF ReadAgain, StillTheirs
<1>6. ASSUME NEW p \in Starter, RemoveDead(p) PROVE RemovesTheDead'
  <2>1. begun[p] = "removing"
    BY <1>6 DEF RemoveDead
  <2>2. \A q \in Starter : begun[q] = "removing" => q = p
    BY <2>1, OneGuard DEF Guarding
  <2> QED  BY <1>6, <2>2 DEF RemoveDead
<1>7. ASSUME NEW p \in Starter, BeginRelease(p) PROVE RemovesTheDead'
  BY <1>7 DEF BeginRelease
<1>8. ASSUME NEW p \in Starter, RemoveOwn(p) PROVE RemovesTheDead'
  BY <1>8 DEF RemoveOwn, StartIsOwn
<1>9. ASSUME NEW p \in Starter, KillStarter(p) PROVE RemovesTheDead'
  BY <1>9 DEF KillStarter
<1>10. CASE UNCHANGED startVars
  BY <1>10 DEF startVars
<1> QED
  BY <1>1, <1>2, <1>3, <1>4, <1>5, <1>6, <1>7, <1>8, <1>9, <1>10 DEF StartNext, StartStep

\* The command that is inside is alone and the file is its own
\* (`acquireViewerStartLock`, `recoverAbandonedLock`).
THEOREM OneStarterAlways == StartSpec => []OneStarter
<1>1. StartInv /\ [StartNext]_startVars => StartInv'
  BY StartTypesStep, StartIsOwnStep, GuardIsOwnStep, RemovesTheDeadStep DEF StartInv
<1>2. StartInv => OneStarter
  BY FilesDiffer DEF StartInv, StartTypes, StartIsOwn, OneStarter
<1> QED  BY <1>1, <1>2, StartInvInit, PTL DEF StartSpec

-----------------------------------------------------------------------------
(* The worker's drain.  There is an attempt exactly while a pass reconciles; *)
(* an abort that came before it is seen when it is launched, and one that    *)
(* comes later finds it; what a command has fenced in the ledger is refused  *)
(* from then on, so that a fence that has once found nothing stays so.       *)

WorkerForm ==
  /\ ledger \in [enabled : BOOLEAN, paused : BOOLEAN, stale : BOOLEAN, revoked : SUBSET Route, due : SUBSET Route]
  /\ ticket = [t \in Ticket |-> ticket[t]]
  /\ fence \in [Fence -> {"idle", "committed", "waiting", "settling", "quiet", "failed"}]
  /\ attempt \in {"none", "opening", "open"}
  /\ attempt # "none" <=> drain = "reconciling"

\* An attempt nobody stopped is one nobody asked to stop.
AttemptIsWanted ==
  /\ inFlight => attempt = "open"
  /\ attempt # "none" /\ ~stopped => Open /\ job \notin aborted

\* What the command of a fence has committed, and what it has seen of the worker.
FenceHolds ==
  /\ \A r \in Route : fence[r] # "idle" => r \in ledger.revoked
  /\ \A r \in Route : fence[r] = "quiet" => ~(attempt = "open" /\ route = r)
  /\ fence[AllRoutes] # "idle" => ledger.paused
  /\ fence[AllRoutes] \in {"settling", "quiet"} => ~inFlight

WorkerInv == WorkerForm /\ AttemptIsWanted /\ FenceHolds /\ ReleasedIsIdle

LEMMA FencesAre == AllRoutes \in Fence /\ Route \subseteq Fence /\ AllRoutes \notin Route
BY SyncWorkerAssumption DEF Fence

\* Steps of the drain before there is an attempt, and after it.
LEMMA DrainMoves ==
  ASSUME WorkerInv,
         \/ BeginDrain \/ Retire \/ Refuse \/ StartPass \/ (\E r \in Route : LookAt(r)) \/ CredentialMissing
         \/ FinishPass \/ RecordFailure \/ DrainFails \/ FatalStop
  PROVE  WorkerInv'
<1>1. WorkerForm /\ AttemptIsWanted /\ FenceHolds /\ ReleasedIsIdle
  BY DEF WorkerInv
<1>2. drain \in {"idle", "deciding", "pass", "credentials", "failing"}
  BY DEF BeginDrain, Retire, Refuse, StartPass, LookAt, CredentialMissing, FinishPass, RecordFailure, DrainFails, FatalStop
<1>3. attempt = "none" /\ ~inFlight /\ attempt' = attempt /\ inFlight' = inFlight /\ fence' = fence
      /\ drain' # "reconciling" /\ record' = record /\ lifetime' = lifetime
  BY <1>1, <1>2 DEF WorkerForm, AttemptIsWanted, BeginDrain, Retire, Refuse, StartPass, LookAt, CredentialMissing,
     FinishPass, RecordFailure, DrainFails, FatalStop, current, owned
<1>4. ledger' = ledger \/ ledger' = Recorded(route)
  BY DEF BeginDrain, Retire, Refuse, StartPass, LookAt, CredentialMissing, FinishPass, RecordFailure, DrainFails, FatalStop
<1>5. /\ ledger' \in [enabled : BOOLEAN, paused : BOOLEAN, stale : BOOLEAN, revoked : SUBSET Route, due : SUBSET Route]
      /\ ledger'.revoked = ledger.revoked /\ (ledger'.paused <=> ledger.paused)
  BY <1>1, <1>4 DEF WorkerForm, Recorded
<1>6. ticket' = [t \in Ticket |-> ticket'[t]]
  BY <1>1 DEF WorkerForm, BeginDrain, Retire, Refuse, StartPass, LookAt, CredentialMissing,
     FinishPass, RecordFailure, DrainFails, FatalStop, Closing, Settle
<1>7. WorkerForm'
  BY <1>1, <1>3, <1>5, <1>6 DEF WorkerForm
<1>8. AttemptIsWanted' /\ FenceHolds'
  BY <1>1, <1>3, <1>5 DEF AttemptIsWanted, FenceHolds
<1>9. ReleasedIsIdle'
  <2>1. (record /\ lifetime) \/ (drain = "idle" /\ ~Open)
    BY <1>1 DEF ReleasedIsIdle
  <2>2. ~Open => (drain # "idle" \/ drain' = drain)
    BY DEF BeginDrain, Retire, Refuse, StartPass, LookAt, CredentialMissing, FinishPass, RecordFailure, DrainFails, FatalStop
  <2>3. closing' = closing \/ (closing' = (IF Open THEN "closing" ELSE closing))
    BY DEF BeginDrain, Retire, Refuse, StartPass, LookAt, CredentialMissing, FinishPass, RecordFailure, DrainFails, FatalStop,
       Closing, owned
  <2> QED  BY <1>3, <2>1, <2>2, <2>3 DEF ReleasedIsIdle, Open
<1> QED  BY <1>7, <1>8, <1>9 DEF WorkerInv

\* The attempt.
LEMMA AttemptMoves ==
  ASSUME WorkerInv, Launch \/ OpenAttempt \/ StartRequest \/ Fenced \/ FinishRequest \/ Expire
  PROVE  WorkerInv'
<1>1. WorkerForm /\ AttemptIsWanted /\ FenceHolds /\ ReleasedIsIdle
  BY DEF WorkerInv
<1>2. /\ ledger' = ledger /\ ticket' = ticket /\ aborted' = aborted /\ job' = job /\ route' = route /\ fence' = fence
      /\ closing' = closing /\ record' = record /\ lifetime' = lifetime
  BY DEF Launch, OpenAttempt, StartRequest, Fenced, FinishRequest, Expire, worker, owned
<1>3. CASE Launch
  <2>1. attempt = "none" /\ ~inFlight /\ drain = "credentials" /\ drain' = "reconciling" /\ attempt' = "opening"
        /\ stopped' = AlreadyStopped /\ inFlight' = inFlight
    BY <1>1, <1>3 DEF Launch, WorkerForm, AttemptIsWanted
  <2>2. ~stopped' => Open /\ job \notin aborted
    BY <2>1 DEF AlreadyStopped
  <2> QED  BY <1>1, <1>2, <2>1, <2>2 DEF WorkerInv, WorkerForm, AttemptIsWanted, FenceHolds, ReleasedIsIdle, Open
<1>4. CASE OpenAttempt
  <2>1. attempt = "opening" /\ ~stopped /\ route \notin ledger.revoked /\ attempt' = "open" /\ drain' = drain
        /\ stopped' = stopped /\ inFlight' = inFlight
    BY <1>4 DEF OpenAttempt, MayStart, worker
  <2> QED  BY <1>1, <1>2, <2>1 DEF WorkerInv, WorkerForm, AttemptIsWanted, FenceHolds, ReleasedIsIdle, Open
<1>5. CASE StartRequest
  <2>1. attempt = "open" /\ ~stopped /\ ~ledger.paused /\ attempt' = attempt /\ drain' = drain /\ stopped' = stopped
    BY <1>5 DEF StartRequest, MayStart, worker
  <2> QED  BY <1>1, <1>2, <2>1 DEF WorkerInv, WorkerForm, AttemptIsWanted, FenceHolds, ReleasedIsIdle, Open
<1>6. CASE Fenced \/ FinishRequest \/ Expire
  <2>1. attempt' = attempt /\ drain' = drain /\ (stopped' \/ (stopped' <=> stopped)) /\ (inFlight' => inFlight)
    BY <1>6 DEF Fenced, FinishRequest, Expire, worker
  <2> QED  BY <1>1, <1>2, <2>1 DEF WorkerInv, WorkerForm, AttemptIsWanted, FenceHolds, ReleasedIsIdle, Open
<1> QED  BY <1>3, <1>4, <1>5, <1>6

LEMMA AttemptEnds ==
  ASSUME WorkerInv, FinishAttempt
  PROVE  WorkerInv'
<1>1. WorkerForm /\ AttemptIsWanted /\ FenceHolds /\ ReleasedIsIdle
  BY DEF WorkerInv
<1>2. /\ ticket' = ticket /\ closing' = closing /\ record' = record /\ lifetime' = lifetime
      /\ attempt # "none" /\ attempt' = "none" /\ ~inFlight /\ inFlight' = inFlight /\ drain' = "pass"
      /\ fence' = [f \in Fence |-> IF fence[f] = "waiting" THEN "settling" ELSE fence[f]]
  BY DEF FinishAttempt, owned
<1>3. ledger' = ledger \/ ledger' = Recorded(route)
  BY DEF FinishAttempt
<1>4. /\ ledger' \in [enabled : BOOLEAN, paused : BOOLEAN, stale : BOOLEAN, revoked : SUBSET Route, due : SUBSET Route]
      /\ ledger'.revoked = ledger.revoked /\ (ledger'.paused <=> ledger.paused)
  BY <1>1, <1>3 DEF WorkerForm, Recorded
<1>5. /\ fence' \in [Fence -> {"idle", "committed", "waiting", "settling", "quiet", "failed"}]
      /\ \A f \in Fence : (fence'[f] = "idle" <=> fence[f] = "idle") /\ (fence'[f] = "quiet" <=> fence[f] = "quiet")
  BY <1>1, <1>2 DEF WorkerForm
<1>6. WorkerForm'
  BY <1>1, <1>2, <1>4, <1>5 DEF WorkerForm
<1>7. AttemptIsWanted' /\ ReleasedIsIdle'
  BY <1>1, <1>2 DEF AttemptIsWanted, ReleasedIsIdle, WorkerForm
<1>8. FenceHolds'
  BY <1>1, <1>2, <1>4, <1>5, FencesAre DEF FenceHolds
<1> QED  BY <1>6, <1>7, <1>8 DEF WorkerInv

\* The control operations, the close and the tick.
LEMMA ControlMoves ==
  ASSUME WorkerInv,
         \/ Tick \/ RequestWake \/ RequestClose \/ CloseListeners \/ RemoveRecord \/ ReleaseLifetime
         \/ \E t \in Ticket : RequestRun(t) \/ Cancel(t)
  PROVE  WorkerInv'
<1>1. WorkerForm /\ AttemptIsWanted /\ FenceHolds /\ ReleasedIsIdle
  BY DEF WorkerInv
<1>2. /\ ledger' = ledger /\ fence' = fence /\ attempt' = attempt /\ drain' = drain /\ inFlight' = inFlight
      /\ route' = route /\ job' = job
  BY DEF Tick, RequestWake, RequestClose, CloseListeners, RemoveRecord, ReleaseLifetime, RequestRun, Cancel, worker, current
<1>3. ticket' = [t \in Ticket |-> ticket'[t]]
  BY <1>1 DEF WorkerForm, Tick, RequestWake, RequestClose, CloseListeners, RemoveRecord, ReleaseLifetime, RequestRun, Cancel,
     worker, Closing
<1>4. WorkerForm' /\ FenceHolds'
  BY <1>1, <1>2, <1>3 DEF WorkerForm, FenceHolds
<1>5. AttemptIsWanted'
  <2>1. CASE Tick \/ RequestWake \/ CloseListeners \/ RemoveRecord \/ ReleaseLifetime \/ \E t \in Ticket : RequestRun(t)
    <3>1. stopped' = stopped /\ aborted' = aborted /\ (Open => closing' = closing)
      BY <2>1 DEF Tick, RequestWake, CloseListeners, RemoveRecord, ReleaseLifetime, RequestRun, worker, current, owned, Open
    <3> QED  BY <1>1, <1>2, <3>1 DEF AttemptIsWanted, Open
  <2>2. CASE RequestClose
    <3>1. attempt # "none" => stopped'
      BY <2>2 DEF RequestClose, Closing
    <3> QED  BY <1>1, <1>2, <3>1 DEF AttemptIsWanted
  <2>3. ASSUME NEW t \in Ticket, Cancel(t) PROVE AttemptIsWanted'
    <3>1. /\ closing' = closing /\ aborted' = aborted \cup {t}
          /\ (stopped => stopped') /\ (job = t /\ attempt # "none" => stopped')
      BY <2>3 DEF Cancel, owned
    <3> QED  BY <1>1, <1>2, <3>1 DEF AttemptIsWanted, Open
  <2> QED  BY <2>1, <2>2, <2>3
<1>6. ReleasedIsIdle'
  <2>1. CASE Tick \/ RequestWake \/ RequestClose \/ CloseListeners \/ \E t \in Ticket : RequestRun(t) \/ Cancel(t)
    <3>1. record' = record /\ lifetime' = lifetime /\ (~Open => closing' # "no")
      BY <2>1 DEF Tick, RequestWake, RequestClose, CloseListeners, RequestRun, Cancel, Closing, owned, Open
    <3> QED  BY <1>1, <1>2, <3>1 DEF ReleasedIsIdle, Open
  <2>2. CASE RemoveRecord \/ ReleaseLifetime
    <3>1. drain = "idle" /\ closing' # "no"
      BY <2>2 DEF RemoveRecord, ReleaseLifetime, Drained
    <3>2. attempt = "none" /\ ~inFlight
      BY <1>1, <3>1 DEF WorkerForm, AttemptIsWanted
    <3> QED  BY <1>2, <3>1, <3>2 DEF ReleasedIsIdle, Open
  <2> QED  BY <2>1, <2>2
<1> QED  BY <1>4, <1>5, <1>6 DEF WorkerInv

\* The commands of other processes.
LEMMA CommandCommits ==
  ASSUME WorkerInv,
         \/ Reconfigure \/ Disable \/ Pause \/ Resume
         \/ \E r \in Route : RetryDue(r) \/ RemoveMapping(r)
  PROVE  WorkerInv'
<1>1. WorkerForm /\ AttemptIsWanted /\ FenceHolds /\ ReleasedIsIdle
  BY DEF WorkerInv
<1>2. /\ ticket' = ticket /\ attempt' = attempt /\ drain' = drain /\ inFlight' = inFlight /\ stopped' = stopped
      /\ route' = route /\ job' = job /\ aborted' = aborted /\ closing' = closing /\ record' = record /\ lifetime' = lifetime
  BY DEF Reconfigure, Disable, Pause, Resume, RetryDue, RemoveMapping, Commit, worker, current, owned
<1>3. AttemptIsWanted' /\ ReleasedIsIdle'
  BY <1>1, <1>2 DEF AttemptIsWanted, ReleasedIsIdle, Open
<1> DEFINE Ledger == [enabled : BOOLEAN, paused : BOOLEAN, stale : BOOLEAN, revoked : SUBSET Route, due : SUBSET Route]
<1>4. CASE Reconfigure \/ Disable \/ \E r \in Route : RetryDue(r)
  <2>1. ledger' \in Ledger /\ ledger'.revoked = ledger.revoked /\ (ledger'.paused <=> ledger.paused) /\ fence' = fence
    <3>1. \/ ledger' = [ledger EXCEPT !.stale = TRUE]
          \/ ledger' = [ledger EXCEPT !.enabled = FALSE]
          \/ \E r \in Route : ledger' = [ledger EXCEPT !.due = @ \cup {r}]
      BY <1>4 DEF Reconfigure, Disable, RetryDue, Commit
    <3>2. fence' = fence
      BY <1>4 DEF Reconfigure, Disable, RetryDue, Commit
    <3>3. ledger \in Ledger
      BY <1>1 DEF WorkerForm
    <3>4. \A r \in Route : ledger.due \cup {r} \in SUBSET Route
      BY <3>3
    <3>5. ledger' \in Ledger
      BY <3>1, <3>3, <3>4
    <3>6. ledger'.revoked = ledger.revoked /\ ledger'.paused = ledger.paused
      BY <3>1, <3>3
    <3> QED  BY <3>2, <3>5, <3>6
  <2>2. WorkerForm' /\ FenceHolds'
    BY <1>1, <1>2, <2>1 DEF WorkerForm, FenceHolds
  <2> QED  BY <1>3, <2>2 DEF WorkerInv
<1>5. CASE Pause \/ Resume
  <2>1. PICK b \in BOOLEAN, f \in {"committed", "idle"} :
          ledger' = [ledger EXCEPT !.paused = b] /\ fence' = [fence EXCEPT ![AllRoutes] = f] /\ (f = "committed" => b)
    BY <1>5 DEF Pause, Resume, Commit
  <2>2. ledger' \in Ledger /\ ledger'.revoked = ledger.revoked /\ (ledger'.paused <=> b)
    BY <1>1, <2>1 DEF WorkerForm
  <2>3. /\ fence' \in [Fence -> {"idle", "committed", "waiting", "settling", "quiet", "failed"}]
        /\ fence'[AllRoutes] = f /\ \A r \in Route : fence'[r] = fence[r]
    BY <1>1, <2>1, FencesAre DEF WorkerForm
  <2>4. WorkerForm' /\ FenceHolds'
    BY <1>1, <1>2, <2>1, <2>2, <2>3 DEF WorkerForm, FenceHolds
  <2> QED  BY <1>3, <2>4 DEF WorkerInv
<1>6. ASSUME NEW r \in Route, RemoveMapping(r) PROVE WorkerInv'
  <2>1. /\ ledger' = [ledger EXCEPT !.revoked = @ \cup {r}, !.due = @ \ {r}]
        /\ fence' = [fence EXCEPT ![r] = "committed"]
    BY <1>6 DEF RemoveMapping, Commit
  <2>2. ledger' \in Ledger /\ ledger'.revoked = ledger.revoked \cup {r} /\ (ledger'.paused <=> ledger.paused)
    BY <1>1, <2>1 DEF WorkerForm
  <2>3. /\ fence' \in [Fence -> {"idle", "committed", "waiting", "settling", "quiet", "failed"}]
        /\ fence'[r] = "committed" /\ \A f \in Fence : f # r => fence'[f] = fence[f]
    BY <1>1, <2>1, FencesAre DEF WorkerForm
  <2>4. WorkerForm' /\ FenceHolds'
    BY <1>1, <1>2, <2>2, <2>3, FencesAre DEF WorkerForm, FenceHolds
  <2> QED  BY <1>3, <2>4 DEF WorkerInv
<1> QED  BY <1>4, <1>5, <1>6

LEMMA FenceMoves ==
  ASSUME WorkerInv, NEW f \in Fence, Quiesce(f) \/ QuiesceNoWorker(f) \/ QuiesceStore(f) \/ QuiesceTimesOut(f)
  PROVE  WorkerInv'
<1>1. WorkerForm /\ AttemptIsWanted /\ FenceHolds /\ ReleasedIsIdle
  BY DEF WorkerInv
<1>2. /\ ledger' = ledger /\ ticket' = ticket /\ attempt' = attempt /\ drain' = drain /\ inFlight' = inFlight
      /\ route' = route /\ job' = job /\ aborted' = aborted /\ closing' = closing /\ record' = record /\ lifetime' = lifetime
  BY DEF Quiesce, QuiesceNoWorker, QuiesceStore, QuiesceTimesOut, worker, current, owned
<1>9. stopped => stopped'
  <2>1. \/ \E b \in BOOLEAN : stopped' = (stopped \/ b)
        \/ stopped' = stopped
    BY DEF Quiesce, QuiesceNoWorker, QuiesceStore, QuiesceTimesOut, current
  <2> QED  BY <2>1
<1>3. PICK to \in {"waiting", "settling", "quiet", "failed"} :
        /\ fence' = [fence EXCEPT ![f] = to] /\ fence[f] # "idle"
        /\ to = "settling" => ~(attempt # "none" /\ Covers(f, route))
        /\ to = "quiet" => \/ ~record \/ (fence[f] = "settling" /\ ~(f # AllRoutes /\ attempt # "none" /\ route = f))
  BY DEF Quiesce, QuiesceNoWorker, QuiesceStore, QuiesceTimesOut, Fences
<1>4. /\ fence' \in [Fence -> {"idle", "committed", "waiting", "settling", "quiet", "failed"}]
      /\ fence'[f] = to /\ \A g \in Fence : g # f => fence'[g] = fence[g]
  BY <1>1, <1>3, FencesAre DEF WorkerForm
<1>5. WorkerForm' /\ AttemptIsWanted' /\ ReleasedIsIdle'
  BY <1>1, <1>2, <1>4, <1>9 DEF WorkerForm, AttemptIsWanted, ReleasedIsIdle, Open
<1>6. FenceHolds'
  <2>1. f = AllRoutes /\ to = "settling" => ~inFlight
    BY <1>1, <1>3 DEF Covers, AttemptIsWanted
  <2>2. f = AllRoutes /\ to = "quiet" => ~inFlight
    BY <1>1, <1>3 DEF FenceHolds, ReleasedIsIdle
  <2>3. f # AllRoutes /\ to = "quiet" => ~(attempt = "open" /\ route = f)
    BY <1>1, <1>3 DEF ReleasedIsIdle
  <2> QED  BY <1>1, <1>2, <1>3, <1>4, <2>1, <2>2, <2>3, FencesAre DEF FenceHolds
<1> QED  BY <1>5, <1>6 DEF WorkerInv

LEMMA WorkerSound == Spec => []WorkerInv
<1>1. Init => WorkerInv
  <2> SUFFICES ASSUME Init PROVE WorkerInv
    OBVIOUS
  <2>1. WorkerForm
    BY DEF Init, WorkerForm
  <2>2. AttemptIsWanted /\ ReleasedIsIdle
    BY DEF Init, AttemptIsWanted, ReleasedIsIdle
  <2>3. FenceHolds
    BY FencesAre DEF Init, FenceHolds
  <2> QED  BY <2>1, <2>2, <2>3 DEF WorkerInv
<1>2. ASSUME WorkerInv, [Next]_vars PROVE WorkerInv'
  <2>1. CASE UNCHANGED vars
    BY <1>2, <2>1 DEF vars, worker, current, owned, WorkerInv, WorkerForm, AttemptIsWanted, FenceHolds, ReleasedIsIdle, Open
  <2> QED  BY <1>2, <2>1, DrainMoves, AttemptMoves, AttemptEnds, ControlMoves, CommandCommits, FenceMoves DEF Next, WorkerStep
<1> QED  BY <1>1, <1>2, PTL DEF Spec

\* Who was told that a route or all of them are quiet, and who finds the lifetime lock
\* free, finds it so, whatever the drain was doing (sync-worker.ts, sync-attempt-lifetime.ts).
THEOREM QuietAsReportedAlways == Spec => []QuietAsReported
<1>1. WorkerInv => QuietAsReported
  BY DEF WorkerInv, FenceHolds, QuietAsReported, FencedIsQuiet
<1> QED  BY <1>1, WorkerSound, PTL

\* No request leaves after its ticket was cancelled or the worker began to stop
\* (sync-worker.ts).
THEOREM NoRequestAfterCancelAlways == Spec => NoRequestAfterCancel
<1>1. ASSUME WorkerInv, [Next]_vars PROVE [~inFlight /\ inFlight' => Open /\ job \notin aborted]_vars
  <2>1. SUFFICES ASSUME Next, ~inFlight, inFlight' PROVE Open /\ job \notin aborted
    BY <1>1
  <2>2. StartRequest
    BY <2>1 DEF Next, WorkerStep, BeginDrain, Retire, Refuse, StartPass, LookAt, CredentialMissing, FinishPass, RecordFailure,
       DrainFails, FatalStop, Launch, OpenAttempt, Fenced, FinishRequest, FinishAttempt, Expire, Tick, RequestWake,
       RequestClose, CloseListeners, RemoveRecord, ReleaseLifetime, RequestRun, Cancel, Reconfigure, Disable, Pause, Resume,
       RetryDue, RemoveMapping, Commit, Quiesce, QuiesceNoWorker, QuiesceStore, QuiesceTimesOut, worker, current
  <2> QED  BY <1>1, <2>2 DEF StartRequest, WorkerInv, AttemptIsWanted
<1> QED  BY <1>1, WorkerSound, PTL DEF Spec, NoRequestAfterCancel

-----------------------------------------------------------------------------
(* The viewer.  A viewer on its way to publishing its record is held by the  *)
(* start lock, its own or that of the command that waits for it, so nobody   *)
(* else publishes, replaces or stops meanwhile.  Whoever touches the route   *)
(* holds the lock of the node, and a command that outlives its process       *)
(* leaves that lock behind.                                                  *)

Beginning == {"locked", "clearing", "preparing", "binding", "exposing", "serving", "verifying", "publishing"}
Launching == {"waiting", "terminating"}
Launched == {"idle", "locked", "replacing", "spawning"}
Holding  == Beginning \cup Launching
              \cup {"replacing", "spawning", "undoing", "tidying", "watching", "cleaning"}

RoleOf ==
  [p \in Actor |->
     IF p \in Viewer  THEN Beginning \cup {"idle", "serves", "closing", "unexposing", "reporting", "unlisting", "gone"}
     ELSE IF p \in Ensurer THEN Launched \cup Launching \cup {"undoing", "tidying", "done", "failed"}
     ELSE IF p \in Closer  THEN {"idle", "locked", "watching", "cleaning", "tidying", "failed", "stopped"}
     ELSE {"idle", "locked", "forking", "done", "failed"}]

ViewerForm ==
  /\ at = [p \in Actor |-> at[p]] /\ \A p \in Actor : at[p] \in RoleOf[p]
  /\ up \subseteq Actor /\ listening \subseteq up \cap Viewer
  /\ journal \in Viewer \cup {NoOne} /\ viewerJson \in Viewer \cup {NoOne} /\ trouble \in Nat

\* The lock of the node is that of the command at the route, also of one that has
\* outlived its process.
RouteIsLocked ==
  /\ \A v \in Viewer \cap up : at[v] \in {"serving", "verifying"} => nodeLock = v
  /\ \A v \in Viewer \cap up : at[v] = "serving" => serve # Foreign /\ (journal = v \/ v \in swept)
  /\ late # NoOne => /\ late \in Viewer \ up /\ at[late] = "serving" /\ nodeLock = late
                     /\ serve # Foreign /\ (journal = late \/ late \in swept)

\* A living command between taking the start lock and giving it back has it.
StartIsHeld == \A p \in up \ Spawned : at[p] \in Holding => startLock = p

\* A spawned viewer has its launcher beside it until it has published its record.
SpawnedIsWatched ==
  /\ \A s \in Ensurer : at[s] \in Launched => ViewerOf[s] \notin up /\ at[ViewerOf[s]] = "idle"
  /\ \A s \in Ensurer : at[s] \in {"undoing", "tidying"} => ViewerOf[s] \notin up
  /\ strays = {} => \A s \in Ensurer :
       ViewerOf[s] \in up /\ at[ViewerOf[s]] \in Beginning \cup {"idle"} => s \in up /\ at[s] \in Launching

\* The start lock stands behind the viewer, its own or its launcher's.
Held(v) ==
  \/ v \in Foreground /\ startLock = v
  \/ \E s \in Ensurer : v = ViewerOf[s] /\ s \in up /\ at[s] \in Launching

\* Who listens is on record or under the start lock, and who is under the start
\* lock is alone.
ListenerIsKnown ==
  strays = {} =>
    /\ \A v \in listening : viewerJson = v \/ Held(v)
    /\ \A v \in listening : at[v] = "serves" => viewerJson = v
    /\ \A v \in Viewer \cap up : at[v] \in Beginning \ {"locked"} => viewerJson \notin up
    /\ \A s \in Ensurer \cap up : at[s] \in {"replacing", "spawning"} => viewerJson \notin up

\* From the moment a stop clears what is left, nothing listens.
StopIsQuiet ==
  strays = {} => \A q \in Closer \cap up : startLock = q =>
    /\ at[q] \in {"cleaning", "tidying", "stopped"} => listening = {}
    /\ at[q] \in {"tidying", "stopped"} => serve \notin Viewer \ swept /\ (late # NoOne => late \in swept)

ViewerInv ==
  /\ ViewerForm /\ RouteIsLocked /\ RouteIsJournalled
  /\ StartIsHeld /\ SpawnedIsWatched /\ ListenerIsKnown /\ StopIsQuiet

LEMMA RolesDiffer ==
  /\ \A s \in Ensurer : ViewerOf[s] \in Spawned
  /\ \A s, z \in Ensurer : ViewerOf[s] = ViewerOf[z] => s = z
  /\ Viewer = Foreground \cup Spawned /\ Foreground \cap Spawned = {}
  /\ Actor = Viewer \cup Ensurer \cup Closer \cup Curator
  /\ Viewer \cap Ensurer = {} /\ Viewer \cap Closer = {} /\ Viewer \cap Curator = {}
  /\ Ensurer \cap Closer = {} /\ Ensurer \cap Curator = {} /\ Closer \cap Curator = {}
  /\ NoOne \notin Actor /\ Foreign \notin Actor /\ Foreign # NoOne
BY ViewerLifecycleAssumption DEF Spawned, Viewer, Actor

LEMMA LauncherIs == ASSUME NEW s \in Ensurer PROVE Launcher(ViewerOf[s]) = s
BY RolesDiffer DEF Launcher

\* Who is where.
LEMMA PlaceTells ==
  ASSUME ViewerForm, NEW p \in Actor
  PROVE  /\ at[p] \in (Beginning \ {"locked"}) \cup {"serves", "closing", "unexposing", "reporting", "unlisting", "gone"} => p \in Viewer
         /\ at[p] \in {"replacing", "spawning", "undoing"} \cup Launching => p \in Ensurer
         /\ at[p] \in {"watching", "cleaning", "stopped"} => p \in Closer
         /\ at[p] = "tidying" => p \in Ensurer \cup Closer
         /\ at[p] = "forking" => p \in Curator
BY RolesDiffer DEF ViewerForm, RoleOf, Beginning, Launching, Launched

\* Where a step may lead.
LEMMA StepMoves ==
  ASSUME ViewerForm, NEW p \in Actor, ViewerStep(p)
  PROVE  p \in up /\ (at' = at \/ \E to \in RoleOf[p] : at' = [at EXCEPT ![p] = to])
<1>1. CASE LockStart(p)
  BY <1>1, RolesDiffer DEF LockStart, Go, RoleOf, Beginning, Launched
<1>2. CASE ClearNothing(p) \/ ClearLock(p) \/ ClearOff(p) \/ ClearDone(p)
  <2>1. p \in up /\ at[p] \in {"clearing", "unexposing", "cleaning", "replacing", "undoing"}
    BY <1>2 DEF ClearNothing, ClearLock, ClearOff, ClearDone, Cleaning, Cleared
  <2>2. at' = at \/ at' = [at EXCEPT ![p] = Cleared[at[p]]] \/ at' = [at EXCEPT ![p] = NotCleared[at[p]]]
    BY <1>2 DEF ClearNothing, ClearLock, ClearOff, ClearDone, Leave, procs
  <2>3. Cleared[at[p]] \in RoleOf[p] /\ NotCleared[at[p]] \in RoleOf[p]
    <3>1. /\ at[p] = "clearing" => Cleared[at[p]] = "preparing" /\ NotCleared[at[p]] = "closing"
          /\ at[p] = "unexposing" => Cleared[at[p]] = "unlisting" /\ NotCleared[at[p]] = "reporting"
          /\ at[p] = "cleaning" => Cleared[at[p]] = "tidying" /\ NotCleared[at[p]] = "failed"
          /\ at[p] = "replacing" => Cleared[at[p]] = "spawning" /\ NotCleared[at[p]] = "failed"
          /\ at[p] = "undoing" => Cleared[at[p]] = "tidying" /\ NotCleared[at[p]] = "failed"
      BY DEF Cleared, NotCleared
    <3>2. /\ at[p] \in {"clearing", "unexposing"} => p \in Viewer
          /\ at[p] = "cleaning" => p \in Closer
          /\ at[p] \in {"replacing", "undoing"} => p \in Ensurer
      BY PlaceTells DEF Beginning
    <3>3. /\ p \in Viewer => {"preparing", "closing", "unlisting", "reporting"} \subseteq RoleOf[p]
          /\ p \in Closer => {"tidying", "failed"} \subseteq RoleOf[p]
          /\ p \in Ensurer => {"spawning", "tidying", "failed"} \subseteq RoleOf[p]
      BY RolesDiffer DEF RoleOf, Beginning, Launching, Launched
    <3> QED  BY <2>1, <3>1, <3>2, <3>3
  <2> QED  BY <2>1, <2>2, <2>3
<1>3. CASE InheritLock(p) \/ Admit(p) \/ Prepare(p) \/ Listen(p)
           \/ ServeLock(p) \/ ServeJournal(p) \/ ServeRoute(p) \/ ServeVerify(p) \/ PublishViewer(p)
  BY <1>3, RolesDiffer DEF InheritLock, Admit, Prepare, Listen, ServeLock, ServeJournal, ServeRoute, ServeVerify,
     PublishViewer, Go, RoleOf, Beginning
<1>4. CASE BeginClosing(p) \/ CloseReader(p) \/ ReportFailure(p) \/ Unlist(p)
  BY <1>4, RolesDiffer DEF BeginClosing, CloseReader, ReportFailure, Unlist, Go, RoleOf, Beginning
<1>5. CASE EnsureFound(p) \/ EnsureClear(p) \/ SpawnViewer(p) \/ EnsureReady(p)
           \/ EnsureGivesUp(p) \/ KillGroup(p) \/ EnsureFailed(p)
  BY <1>5, RolesDiffer DEF EnsureFound, EnsureClear, SpawnViewer, EnsureReady, EnsureGivesUp, KillGroup, EnsureFailed, Go,
     RoleOf, Launched, Launching
<1>6. CASE GiveBack(p)
  BY <1>6 DEF GiveBack
<1>7. CASE SignalViewer(p) \/ StopUnheard(p) \/ Watch(p) \/ StopDone(p) \/ Sweep(p)
  BY <1>7, RolesDiffer DEF SignalViewer, StopUnheard, Watch, StopDone, Sweep, Go, RoleOf
<1> QED  BY <1>1, <1>2, <1>3, <1>4, <1>5, <1>6, <1>7 DEF ViewerStep

LEMMA Moved ==
  ASSUME ViewerForm, NEW p \in Actor, ViewerStep(p)
  PROVE  /\ p \in up /\ at' = [q \in Actor |-> at'[q]] /\ \A q \in Actor : at'[q] \in RoleOf[q]
         /\ \A q \in Actor \ {p} : at'[q] = at[q]
         /\ at' = [at EXCEPT ![p] = at'[p]]
<1>1. at = [q \in Actor |-> at[q]] /\ \A q \in Actor : at[q] \in RoleOf[q]
  BY DEF ViewerForm
<1>2. p \in up /\ (at' = at \/ \E to \in RoleOf[p] : at' = [at EXCEPT ![p] = to])
  BY StepMoves
<1>3. CASE at' = at
  BY <1>1, <1>2, <1>3
<1>4. ASSUME NEW to \in RoleOf[p], at' = [at EXCEPT ![p] = to]
      PROVE  /\ at' = [q \in Actor |-> at'[q]] /\ \A q \in Actor : at'[q] \in RoleOf[q]
             /\ \A q \in Actor \ {p} : at'[q] = at[q]
             /\ at' = [at EXCEPT ![p] = at'[p]]
  BY <1>1, <1>4
<1> QED  BY <1>2, <1>3, <1>4

\* Who is alive after a step.
LEMMA WhoLives ==
  ASSUME NEW p \in Actor, ViewerStep(p)
  PROVE  \/ up' \subseteq up
         \/ p \in Ensurer /\ at[p] = "spawning" /\ up' = up \cup {ViewerOf[p]}
<1>1. CASE LockStart(p) \/ ClearNothing(p) \/ ClearLock(p) \/ ClearOff(p) \/ ClearDone(p)
  BY <1>1 DEF LockStart, ClearNothing, ClearLock, ClearOff, ClearDone, procs
<1>2. CASE InheritLock(p) \/ Admit(p) \/ Prepare(p) \/ Listen(p)
           \/ ServeLock(p) \/ ServeJournal(p) \/ ServeRoute(p) \/ ServeVerify(p) \/ PublishViewer(p)
  BY <1>2 DEF InheritLock, Admit, Prepare, Listen, ServeLock, ServeJournal, ServeRoute, ServeVerify, PublishViewer, Dies
<1>3. CASE BeginClosing(p) \/ CloseReader(p) \/ ReportFailure(p) \/ Unlist(p)
  BY <1>3 DEF BeginClosing, CloseReader, ReportFailure, Unlist, Dies
<1>4. CASE EnsureFound(p) \/ EnsureClear(p) \/ EnsureReady(p) \/ EnsureGivesUp(p) \/ KillGroup(p) \/ EnsureFailed(p) \/ GiveBack(p)
  BY <1>4 DEF EnsureFound, EnsureClear, EnsureReady, EnsureGivesUp, KillGroup, EnsureFailed, GiveBack, Dies
<1>5. CASE SpawnViewer(p)
  BY <1>5 DEF SpawnViewer, Go
<1>6. CASE SignalViewer(p) \/ StopUnheard(p) \/ Watch(p) \/ StopDone(p) \/ Sweep(p)
  BY <1>6 DEF SignalViewer, StopUnheard, Watch, StopDone, Sweep
<1> QED  BY <1>1, <1>2, <1>3, <1>4, <1>5, <1>6 DEF ViewerStep

LEMMA ViewerFormStep ==
  ASSUME ViewerForm, NEW p \in Actor, ViewerStep(p)
  PROVE  ViewerForm'
<1>1. at' = [q \in Actor |-> at'[q]] /\ \A q \in Actor : at'[q] \in RoleOf[q]
  BY Moved
<1>2. up' \subseteq Actor
  <2>1. up \subseteq Actor /\ \A s \in Ensurer : ViewerOf[s] \in Actor
    BY RolesDiffer DEF ViewerForm
  <2> QED  BY <2>1, WhoLives
<1>3. p \in up
  BY Moved
<1> DEFINE Rest == /\ listening' \subseteq up' \cap Viewer /\ journal' \in Viewer \cup {NoOne}
                   /\ viewerJson' \in Viewer \cup {NoOne} /\ trouble' \in Nat
<1>4. /\ listening \subseteq up \cap Viewer /\ journal \in Viewer \cup {NoOne}
      /\ viewerJson \in Viewer \cup {NoOne} /\ trouble \in Nat
  BY DEF ViewerForm
<1>12. Rest
  <2>5. CASE LockStart(p) \/ ClearNothing(p) \/ ClearLock(p) \/ ClearOff(p) \/ ClearDone(p)
    BY <1>3, <1>4, <2>5 DEF LockStart, ClearNothing, ClearLock, ClearOff, ClearDone, procs, files, network, Trouble
  <2>6. CASE InheritLock(p) \/ Admit(p) \/ Prepare(p) \/ Listen(p)
    BY <1>3, <1>4, <2>6 DEF InheritLock, Admit, Prepare, Listen, Dies, files
  <2>7. CASE ServeLock(p) \/ ServeJournal(p) \/ ServeRoute(p) \/ ServeVerify(p) \/ PublishViewer(p)
    BY <1>3, <1>4, <2>7 DEF ServeLock, ServeJournal, ServeRoute, ServeVerify, PublishViewer, WhenPublished, files, network, Trouble
  <2>8. CASE BeginClosing(p) \/ CloseReader(p) \/ ReportFailure(p) \/ Unlist(p)
    BY <1>3, <1>4, <2>8 DEF BeginClosing, CloseReader, ReportFailure, Unlist, Dies, files, network
  <2>9. CASE EnsureFound(p) \/ EnsureClear(p) \/ EnsureReady(p) \/ EnsureGivesUp(p) \/ KillGroup(p) \/ EnsureFailed(p) \/ GiveBack(p)
    BY <1>3, <1>4, <2>9 DEF EnsureFound, EnsureClear, EnsureReady, EnsureGivesUp, KillGroup, EnsureFailed, GiveBack, Dies, files, network
  <2>10. CASE SpawnViewer(p)
    BY <1>3, <1>4, <2>10 DEF SpawnViewer, network
  <2>11. CASE SignalViewer(p) \/ StopUnheard(p) \/ Watch(p) \/ StopDone(p) \/ Sweep(p)
    BY <1>3, <1>4, <2>11 DEF SignalViewer, StopUnheard, Watch, StopDone, Sweep, Swept, files, network
  <2> QED  BY <2>5, <2>6, <2>7, <2>8, <2>9, <2>10, <2>11 DEF ViewerStep
<1> QED  BY <1>1, <1>2, <1>12 DEF ViewerForm

\* Steps at the route, or at what is recorded of it.
AtTheRoute(p) ==
  ClearLock(p) \/ ClearOff(p) \/ ClearDone(p) \/ ServeLock(p) \/ ServeJournal(p) \/ ServeRoute(p) \/ ServeVerify(p) \/ Sweep(p)

\* All the others leave it alone.
LEMMA RouteAlone ==
  ASSUME ViewerForm, NEW p \in Actor, ViewerStep(p), ~AtTheRoute(p)
  PROVE  /\ serve' = serve /\ nodeLock' = nodeLock /\ late' = late /\ journal' = journal /\ swept' = swept
         /\ at' # at => at[p] \notin {"serving", "verifying"} /\ at'[p] \notin {"serving", "verifying"}
<1>0. at = [q \in Actor |-> at[q]]
  BY DEF ViewerForm
<1>1. CASE LockStart(p) \/ ClearNothing(p)
  <2>1. ClearNothing(p) => at[p] \in DOMAIN Cleared /\ at' = [at EXCEPT ![p] = Cleared[at[p]]]
    BY DEF ClearNothing, Cleaning, Leave
  <2>2. \A x \in DOMAIN Cleared : x \notin {"serving", "verifying"} /\ Cleared[x] \notin {"serving", "verifying"}
    BY DEF Cleared
  <2> QED  BY <1>0, <1>1, <2>1, <2>2 DEF LockStart, ClearNothing, Go, files, network
<1>2. CASE InheritLock(p) \/ Admit(p) \/ Prepare(p) \/ Listen(p) \/ PublishViewer(p)
  BY <1>0, <1>2 DEF InheritLock, Admit, Prepare, Listen, PublishViewer, Go, files, network
<1>3. CASE BeginClosing(p) \/ CloseReader(p) \/ ReportFailure(p) \/ Unlist(p)
  BY <1>0, <1>3 DEF BeginClosing, CloseReader, ReportFailure, Unlist, Go, files, network
<1>4. CASE EnsureFound(p) \/ EnsureClear(p) \/ EnsureReady(p) \/ EnsureGivesUp(p) \/ KillGroup(p) \/ EnsureFailed(p) \/ GiveBack(p)
  BY <1>0, <1>4 DEF EnsureFound, EnsureClear, EnsureReady, EnsureGivesUp, KillGroup, EnsureFailed, GiveBack, Go, files, network
<1>5. CASE SpawnViewer(p)
  BY <1>0, <1>5 DEF SpawnViewer, Go, network
<1>6. CASE SignalViewer(p) \/ StopUnheard(p) \/ Watch(p) \/ StopDone(p)
  BY <1>0, <1>6 DEF SignalViewer, StopUnheard, Watch, StopDone, Go, files, network
<1> QED  BY <1>1, <1>2, <1>3, <1>4, <1>5, <1>6 DEF ViewerStep, AtTheRoute

\* A viewer alive after a step at this place was alive before it.
LEMMA StillThere ==
  ASSUME ViewerForm, SpawnedIsWatched, NEW p \in Actor, ViewerStep(p), NEW v \in Viewer, v \in up', v \notin up
  PROVE  at'[v] = "idle" /\ at[v] = "idle"
<1>1. p \in Ensurer /\ at[p] = "spawning" /\ v = ViewerOf[p]
  BY WhoLives
<1>2. at[v] = "idle"
  BY <1>1 DEF SpawnedIsWatched, Launched
<1> QED  BY <1>1, <1>2, Moved, RolesDiffer

RouteInv == RouteIsLocked /\ RouteIsJournalled

LEMMA RouteStep ==
  ASSUME ViewerForm, SpawnedIsWatched, RouteInv, NEW p \in Actor, ViewerStep(p)
  PROVE  RouteInv'
<1>1. /\ p \in up /\ at' = [at EXCEPT ![p] = at'[p]] /\ \A q \in Actor \ {p} : at'[q] = at[q]
  BY Moved
<1>2. /\ RouteIsLocked /\ RouteIsJournalled /\ journal \in Viewer \cup {NoOne} /\ NoOne \notin Viewer /\ Foreign \notin Viewer
      /\ Foreign # NoOne /\ Viewer \subseteq Actor
  BY RolesDiffer DEF RouteInv, ViewerForm
<1>3. \A v \in Viewer : v \in up' /\ at'[v] # "idle" => v \in up
  BY StillThere
<1>4. late # NoOne => late \notin up' /\ late # p
  <2>1. late # NoOne => late \in Viewer /\ late \notin up /\ at[late] # "idle"
    BY <1>2 DEF RouteIsLocked
  <2> QED  BY <1>1, <2>1, StillThere
<1>5. CASE ~AtTheRoute(p)
  <2>1. /\ serve' = serve /\ nodeLock' = nodeLock /\ late' = late /\ journal' = journal /\ swept' = swept
        /\ at' # at => at[p] \notin {"serving", "verifying"} /\ at'[p] \notin {"serving", "verifying"}
    BY <1>5, RouteAlone
  <2>2. \A v \in Viewer : v \in up' /\ at'[v] \in {"serving", "verifying"} => v \in up /\ at'[v] = at[v]
    BY <1>1, <1>2, <1>3, <2>1
  <2>3. late # NoOne => at'[late] = at[late]
    BY <1>1, <1>2, <1>4 DEF RouteIsLocked
  <2> QED  BY <1>2, <1>4, <2>1, <2>2, <2>3 DEF RouteInv, RouteIsLocked, RouteIsJournalled
<1>6. CASE AtTheRoute(p) /\ ~Sweep(p)
  <2>1. late' = late /\ swept' = swept /\ up' = up
    BY <1>6 DEF AtTheRoute, ClearLock, ClearOff, ClearDone, ServeLock, ServeJournal, ServeRoute, ServeVerify, procs, files, network
  <2>2. late # NoOne => at'[late] = at[late]
    BY <1>1, <1>2, <1>4 DEF RouteIsLocked
  <2>3. CASE ClearOff(p) \/ ClearDone(p)
    <3>1. nodeLock = p /\ at[p] \notin {"serving", "verifying"} /\ at'[p] \notin {"serving", "verifying"}
      <4>1. \A x \in DOMAIN Cleared : x \notin {"serving", "verifying"} /\ Cleared[x] \notin {"serving", "verifying"}
                                      /\ NotCleared[x] \notin {"serving", "verifying"}
        BY DEF Cleared, NotCleared
      <4> QED  BY <1>1, <2>3, <4>1 DEF ClearOff, ClearDone, Cleaning, Leave, procs, ViewerForm
    <3>2. /\ serve' = serve \/ serve' = NoOne
          /\ journal' = journal \/ (journal' = NoOne /\ serve = NoOne /\ serve' = NoOne)
      BY <2>3 DEF ClearOff, ClearDone, files, network
    <3>3. late = NoOne
      BY <1>2, <1>4, <3>1 DEF RouteIsLocked
    <3>4. \A v \in Viewer \cap up : at'[v] \notin {"serving", "verifying"}
      BY <1>1, <1>2, <3>1 DEF RouteIsLocked
    <3> QED  BY <1>2, <2>1, <3>2, <3>3, <3>4 DEF RouteInv, RouteIsLocked, RouteIsJournalled
  <2>4. CASE ClearLock(p) \/ ServeLock(p)
    <3>1. /\ serve' = serve /\ journal' = journal /\ (nodeLock' = nodeLock \/ nodeLock = NoOne)
      BY <2>4 DEF ClearLock, ServeLock, files
    <3>2. at[p] \notin {"serving", "verifying"} /\ at'[p] \notin {"serving", "verifying"}
      <4>1. \A x \in DOMAIN Cleared : x \notin {"serving", "verifying"} /\ NotCleared[x] \notin {"serving", "verifying"}
        BY DEF Cleared, NotCleared
      <4> QED  BY <1>1, <2>4, <4>1 DEF ClearLock, ServeLock, Cleaning, Leave, Go, ViewerForm
    <3>3. \A v \in Viewer \cap up : at'[v] \in {"serving", "verifying"} => at'[v] = at[v]
      BY <1>1, <1>2, <3>2
    <3> QED  BY <1>2, <1>4, <2>1, <2>2, <3>1, <3>3 DEF RouteInv, RouteIsLocked, RouteIsJournalled
  <2>5. CASE ServeJournal(p)
    <3>1. /\ p \in Viewer /\ nodeLock = p /\ serve' = serve /\ at[p] = "exposing"
          /\ \/ serve = NoOne /\ at' = [at EXCEPT ![p] = "serving"] /\ journal' = p /\ nodeLock' = nodeLock
             \/ at' = [at EXCEPT ![p] = "closing"] /\ journal' = journal
      BY <2>5 DEF ServeJournal, Available, Go
    <3>2. late = NoOne
      BY <1>2, <1>4, <3>1 DEF RouteIsLocked
    <3>3. \A v \in Viewer \cap up : v # p => at'[v] \notin {"serving", "verifying"}
      BY <1>1, <1>2, <3>1 DEF RouteIsLocked
    <3>4. at'[p] \in {"serving", "closing"} /\ (at'[p] = "serving" => serve = NoOne /\ journal' = p /\ nodeLock' = p)
          /\ (at'[p] = "closing" => journal' = journal)
      BY <1>1, <3>1 DEF ViewerForm
    <3> QED  BY <1>2, <2>1, <3>1, <3>2, <3>3, <3>4 DEF RouteInv, RouteIsLocked, RouteIsJournalled
  <2>6. CASE ServeRoute(p)
    <3>1. /\ p \in Viewer /\ nodeLock' = nodeLock /\ at[p] = "serving" /\ at' = [at EXCEPT ![p] = "verifying"]
          /\ journal' = journal /\ (serve' = p \/ serve' = serve)
      BY <2>6 DEF ServeRoute, Go, files
    <3>2. nodeLock = p /\ (journal = p \/ p \in swept)
      BY <1>1, <1>2, <3>1 DEF RouteIsLocked
    <3>3. late = NoOne
      BY <1>2, <1>4, <3>2 DEF RouteIsLocked
    <3>4. \A v \in Viewer \cap up : v # p => at'[v] \notin {"serving", "verifying"}
      BY <1>1, <1>2, <3>2 DEF RouteIsLocked
    <3>5. at'[p] = "verifying"
      BY <1>1, <1>2, <3>1 DEF ViewerForm
    <3> QED  BY <1>2, <2>1, <3>1, <3>2, <3>3, <3>4, <3>5 DEF RouteInv, RouteIsLocked, RouteIsJournalled
  <2>7. CASE ServeVerify(p)
    <3>1. /\ p \in Viewer /\ at[p] = "verifying"
          /\ \/ serve = p /\ at' = [at EXCEPT ![p] = "publishing"] /\ journal' = p /\ serve' = serve
             \/ /\ serve # p /\ at' = [at EXCEPT ![p] = "closing"] /\ serve' = serve
                /\ journal' = IF serve = NoOne THEN NoOne ELSE journal
             \/ /\ at' = [at EXCEPT ![p] = "closing"]
                /\ (serve' = NoOne \/ (serve' = serve /\ journal' = journal))
      BY <2>7 DEF ServeVerify, Go
    <3>2. nodeLock = p
      BY <1>1, <1>2, <3>1 DEF RouteIsLocked
    <3>3. late = NoOne
      BY <1>2, <1>4, <3>2 DEF RouteIsLocked
    <3>4. at'[p] \in {"publishing", "closing"}
      BY <1>1, <1>2, <3>1 DEF ViewerForm
    <3>5. \A v \in Viewer \cap up : at'[v] \notin {"serving", "verifying"}
      BY <1>1, <1>2, <3>2, <3>4 DEF RouteIsLocked
    <3>6. RouteIsJournalled'
      BY <1>2, <2>1, <3>1 DEF RouteIsJournalled
    <3> QED  BY <1>2, <2>1, <3>3, <3>5, <3>6 DEF RouteInv, RouteIsLocked
  <2> QED  BY <1>6, <2>3, <2>4, <2>5, <2>6, <2>7 DEF AtTheRoute
<1>7. CASE Sweep(p)
  <2>1. /\ late' = late /\ up' = up /\ serve' = serve /\ nodeLock' = nodeLock /\ p \in Curator
        /\ \/ journal' = journal /\ swept' = swept
           \/ journal' = NoOne /\ swept' = swept \cup ({journal} \ {NoOne})
    BY <1>7 DEF Sweep, Swept, files
  <2>2. \A v \in Viewer : at'[v] = at[v]
    BY <1>1, <2>1, RolesDiffer
  <2>3. \A v \in Viewer : journal = v \/ v \in swept => journal' = v \/ v \in swept'
    BY <1>2, <2>1
  <2> QED  BY <1>2, <2>1, <2>2, <2>3 DEF RouteInv, RouteIsLocked, RouteIsJournalled
<1> QED  BY <1>5, <1>6, <1>7

LEMMA StraysGrow ==
  ASSUME NEW p \in Actor, ViewerStep(p)
  PROVE  strays' = strays \/ (Sweep(p) /\ strays' = strays \cup ({viewerJson} \cap up))
<1>1. CASE LockStart(p) \/ ClearNothing(p) \/ ClearLock(p) \/ ClearOff(p) \/ ClearDone(p)
  BY <1>1 DEF LockStart, ClearNothing, ClearLock, ClearOff, ClearDone, procs
<1>2. CASE InheritLock(p) \/ Admit(p) \/ Prepare(p) \/ Listen(p)
           \/ ServeLock(p) \/ ServeJournal(p) \/ ServeRoute(p) \/ ServeVerify(p) \/ PublishViewer(p)
  BY <1>2 DEF InheritLock, Admit, Prepare, Listen, ServeLock, ServeJournal, ServeRoute, ServeVerify, PublishViewer
<1>3. CASE BeginClosing(p) \/ CloseReader(p) \/ ReportFailure(p) \/ Unlist(p)
  BY <1>3 DEF BeginClosing, CloseReader, ReportFailure, Unlist
<1>4. CASE EnsureFound(p) \/ EnsureClear(p) \/ SpawnViewer(p) \/ EnsureReady(p) \/ EnsureGivesUp(p) \/ KillGroup(p)
           \/ EnsureFailed(p) \/ GiveBack(p)
  BY <1>4 DEF EnsureFound, EnsureClear, SpawnViewer, EnsureReady, EnsureGivesUp, KillGroup, EnsureFailed, GiveBack
<1>5. CASE SignalViewer(p) \/ StopUnheard(p) \/ Watch(p) \/ StopDone(p) \/ Sweep(p)
  BY <1>5 DEF SignalViewer, StopUnheard, Watch, StopDone, Sweep, Swept
<1> QED  BY <1>1, <1>2, <1>3, <1>4, <1>5 DEF ViewerStep

\* Where the clean-up leads.
LEMMA ClearMoves ==
  ASSUME ViewerForm, NEW p \in Actor, ClearNothing(p) \/ ClearLock(p) \/ ClearOff(p) \/ ClearDone(p)
  PROVE  \/ at' = at
         \/ at[p] = "clearing" /\ at'[p] \in {"preparing", "closing"}
         \/ at[p] = "unexposing" /\ at'[p] \in {"unlisting", "reporting"}
         \/ at[p] = "cleaning" /\ at'[p] \in {"tidying", "failed"}
         \/ at[p] = "replacing" /\ at'[p] \in {"spawning", "failed"}
         \/ at[p] = "undoing" /\ at'[p] \in {"tidying", "failed"}
<1>1. at[p] \in {"clearing", "unexposing", "cleaning", "replacing", "undoing"}
  BY DEF ClearNothing, ClearLock, ClearOff, ClearDone, Cleaning, Cleared
<1>2. at' = at \/ at' = [at EXCEPT ![p] = Cleared[at[p]]] \/ at' = [at EXCEPT ![p] = NotCleared[at[p]]]
  BY DEF ClearNothing, ClearLock, ClearOff, ClearDone, Leave, procs
<1>3. at' = at \/ at'[p] = Cleared[at[p]] \/ at'[p] = NotCleared[at[p]]
  BY <1>2 DEF ViewerForm
<1>4. /\ at[p] = "clearing" => Cleared[at[p]] = "preparing" /\ NotCleared[at[p]] = "closing"
      /\ at[p] = "unexposing" => Cleared[at[p]] = "unlisting" /\ NotCleared[at[p]] = "reporting"
      /\ at[p] = "cleaning" => Cleared[at[p]] = "tidying" /\ NotCleared[at[p]] = "failed"
      /\ at[p] = "replacing" => Cleared[at[p]] = "spawning" /\ NotCleared[at[p]] = "failed"
      /\ at[p] = "undoing" => Cleared[at[p]] = "tidying" /\ NotCleared[at[p]] = "failed"
  BY DEF Cleared, NotCleared
<1> QED  BY <1>1, <1>3, <1>4

\* What a step does to the start lock.
LEMMA StartKept ==
  ASSUME ViewerForm, NEW p \in Actor, ViewerStep(p)
  PROVE  /\ \A q \in up \ {p} : startLock = q => startLock' = q
         /\ \A q \in Actor \ {p} : startLock' = q => startLock = q
         /\ p \in up' \ Spawned /\ at'[p] \in Holding => startLock' = p \/ (startLock' = startLock /\ at[p] \in Holding)
<1>0. at = [q \in Actor |-> at[q]] /\ p \in up /\ NoOne \notin Actor /\ up \subseteq Actor
  BY Moved, RolesDiffer DEF ViewerForm
<1>1. CASE LockStart(p)
  BY <1>0, <1>1 DEF LockStart
<1>2. CASE ClearNothing(p) \/ ClearLock(p) \/ ClearOff(p) \/ ClearDone(p)
  <2>1. startLock' = startLock
    BY <1>2 DEF ClearNothing, ClearLock, ClearOff, ClearDone, procs
  <2>2. at'[p] \in Holding => at[p] \in Holding
    BY <1>2, ClearMoves DEF Holding, Beginning, Launching
  <2> QED  BY <2>1, <2>2
<1>3. CASE InheritLock(p) \/ Prepare(p) \/ Listen(p) \/ ServeLock(p) \/ ServeJournal(p) \/ ServeRoute(p) \/ ServeVerify(p)
  BY <1>0, <1>3 DEF InheritLock, Prepare, Listen, ServeLock, ServeJournal, ServeRoute, ServeVerify, Go, Holding, Beginning, Launching
<1>4. CASE Admit(p) \/ PublishViewer(p) \/ BeginClosing(p) \/ CloseReader(p) \/ ReportFailure(p) \/ Unlist(p)
  BY <1>0, <1>4 DEF Admit, PublishViewer, BeginClosing, CloseReader, ReportFailure, Unlist, Go, Unlocked, Holding, Beginning, Launching
<1>5. CASE EnsureFound(p) \/ EnsureClear(p) \/ SpawnViewer(p) \/ EnsureReady(p)
  BY <1>0, <1>5 DEF EnsureFound, EnsureClear, SpawnViewer, EnsureReady, Go, Unlocked, Holding, Beginning, Launching
<1>6. CASE EnsureGivesUp(p) \/ KillGroup(p) \/ EnsureFailed(p) \/ GiveBack(p)
  BY <1>0, <1>6 DEF EnsureGivesUp, KillGroup, EnsureFailed, GiveBack, Go, Unlocked, Holding, Beginning, Launching
<1>7. CASE SignalViewer(p) \/ StopUnheard(p) \/ Watch(p) \/ StopDone(p) \/ Sweep(p)
  BY <1>0, <1>7 DEF SignalViewer, StopUnheard, Watch, StopDone, Sweep, Go, Unlocked, Holding, Beginning, Launching
<1> QED  BY <1>1, <1>2, <1>3, <1>4, <1>5, <1>6, <1>7 DEF ViewerStep

LEMMA StartIsHeldStep ==
  ASSUME ViewerForm, StartIsHeld, NEW p \in Actor, ViewerStep(p)
  PROVE  StartIsHeld'
<1>1. up' \ Spawned \subseteq up /\ up \subseteq Actor /\ p \in up /\ \A q \in Actor \ {p} : at'[q] = at[q]
  <2>1. up' \ Spawned \subseteq up
    <3>1. \A s \in Ensurer : ViewerOf[s] \in Spawned
      BY RolesDiffer
    <3> QED  BY <3>1, WhoLives
  <2> QED  BY <2>1, Moved DEF ViewerForm
<1> QED  BY <1>1, StartKept DEF StartIsHeld

\* Nobody listens before he has looked at the record.
ListensLater == \A v \in listening : at[v] \notin {"idle", "locked"}

LEMMA ListensLaterStep ==
  ASSUME ViewerForm, ListensLater, NEW p \in Actor, ViewerStep(p)
  PROVE  ListensLater'
<1>0. at = [q \in Actor |-> at[q]] /\ p \in up /\ listening \subseteq Actor /\ \A q \in Actor \ {p} : at'[q] = at[q]
  BY Moved, RolesDiffer DEF ViewerForm
<1>1. listening' \subseteq listening \/ (listening' = listening \cup {p} /\ at'[p] \notin {"idle", "locked"})
  <2>1. CASE LockStart(p) \/ ClearNothing(p) \/ ClearLock(p) \/ ClearOff(p) \/ ClearDone(p)
    BY <2>1 DEF LockStart, ClearNothing, ClearLock, ClearOff, ClearDone, network
  <2>2. CASE InheritLock(p) \/ Admit(p) \/ Prepare(p) \/ Listen(p)
             \/ ServeLock(p) \/ ServeJournal(p) \/ ServeRoute(p) \/ ServeVerify(p) \/ PublishViewer(p)
    BY <1>0, <2>2 DEF InheritLock, Admit, Prepare, Listen, ServeLock, ServeJournal, ServeRoute, ServeVerify, PublishViewer,
       Dies, Go, network
  <2>3. CASE BeginClosing(p) \/ CloseReader(p) \/ ReportFailure(p) \/ Unlist(p)
    BY <2>3 DEF BeginClosing, CloseReader, ReportFailure, Unlist, Dies, network
  <2>4. CASE EnsureFound(p) \/ EnsureClear(p) \/ SpawnViewer(p) \/ EnsureReady(p) \/ EnsureGivesUp(p) \/ KillGroup(p)
             \/ EnsureFailed(p) \/ GiveBack(p)
    BY <2>4 DEF EnsureFound, EnsureClear, SpawnViewer, EnsureReady, EnsureGivesUp, KillGroup, EnsureFailed, GiveBack, Dies, network
  <2>5. CASE SignalViewer(p) \/ StopUnheard(p) \/ Watch(p) \/ StopDone(p) \/ Sweep(p)
    BY <2>5 DEF SignalViewer, StopUnheard, Watch, StopDone, Sweep, network
  <2> QED  BY <2>1, <2>2, <2>3, <2>4, <2>5 DEF ViewerStep
<1>2. p \in listening => at'[p] \notin {"idle", "locked"} \/ p \notin listening'
  <2>1. p \in listening => ~LockStart(p) /\ ~InheritLock(p) /\ ~Admit(p)
    BY <1>0 DEF ListensLater, LockStart, InheritLock, Admit, Go
  <2>2. CASE ClearNothing(p) \/ ClearLock(p) \/ ClearOff(p) \/ ClearDone(p)
    BY <2>2, ClearMoves DEF ListensLater
  <2>3. CASE Prepare(p) \/ Listen(p)
             \/ ServeLock(p) \/ ServeJournal(p) \/ ServeRoute(p) \/ ServeVerify(p) \/ PublishViewer(p)
    BY <1>0, <2>3 DEF Prepare, Listen, ServeLock, ServeJournal, ServeRoute, ServeVerify, PublishViewer, Go
  <2>4. CASE BeginClosing(p) \/ CloseReader(p) \/ ReportFailure(p) \/ Unlist(p)
    BY <1>0, <2>4 DEF BeginClosing, CloseReader, ReportFailure, Unlist, Go
  <2>5. CASE p \notin Viewer
    BY <2>5 DEF ViewerForm
  <2> QED  BY <2>1, <2>2, <2>3, <2>4, <2>5, RolesDiffer DEF ViewerStep, EnsureFound, EnsureClear, SpawnViewer, EnsureReady,
           EnsureGivesUp, KillGroup, EnsureFailed, GiveBack, SignalViewer, StopUnheard, Watch, StopDone, Sweep
<1> QED  BY <1>0, <1>1, <1>2 DEF ListensLater

LEMMA SpawnedStep ==
  ASSUME ViewerForm, SpawnedIsWatched, ListenerIsKnown, ListensLater, NEW p \in Actor, ViewerStep(p)
  PROVE  SpawnedIsWatched'
<1>0. /\ at = [q \in Actor |-> at[q]] /\ p \in up /\ up \subseteq Actor /\ \A q \in Actor \ {p} : at'[q] = at[q]
      /\ strays' = {} => strays = {}
  BY Moved, StraysGrow DEF ViewerForm
<1>1. CASE p \notin Ensurer
  <2>1. up' \subseteq up /\ \A s \in Ensurer : at'[s] = at[s]
    BY <1>0, <1>1, WhoLives, RolesDiffer
  <2>2. \A s \in Ensurer : s \in up => s \in up'
    <3>1. up' = up \/ up' = up \ {p}
      <4>1. CASE LockStart(p) \/ ClearNothing(p) \/ ClearLock(p) \/ ClearOff(p) \/ ClearDone(p) \/ GiveBack(p)
        BY <4>1 DEF LockStart, ClearNothing, ClearLock, ClearOff, ClearDone, GiveBack, procs
      <4>2. CASE InheritLock(p) \/ Admit(p) \/ Prepare(p) \/ Listen(p)
                 \/ ServeLock(p) \/ ServeJournal(p) \/ ServeRoute(p) \/ ServeVerify(p) \/ PublishViewer(p)
        BY <4>2 DEF InheritLock, Admit, Prepare, Listen, ServeLock, ServeJournal, ServeRoute, ServeVerify, PublishViewer, Dies
      <4>3. CASE BeginClosing(p) \/ CloseReader(p) \/ ReportFailure(p) \/ Unlist(p)
        BY <4>3 DEF BeginClosing, CloseReader, ReportFailure, Unlist, Dies
      <4>4. CASE SignalViewer(p) \/ StopUnheard(p) \/ Watch(p) \/ StopDone(p) \/ Sweep(p)
        BY <4>4 DEF SignalViewer, StopUnheard, Watch, StopDone, Sweep
      <4> QED  BY <1>1, <4>1, <4>2, <4>3, <4>4 DEF ViewerStep, EnsureFound, EnsureClear, SpawnViewer, EnsureReady,
               EnsureGivesUp, KillGroup, EnsureFailed
    <3> QED  BY <1>1, <3>1
  <2>3. p \in Spawned /\ at'[p] \in Beginning \cup {"idle"} => at[p] \in Beginning \cup {"idle"}
    <3>1. p \in Spawned => ~LockStart(p) /\ p \in Viewer
      BY RolesDiffer DEF LockStart
    <3>2. CASE ClearNothing(p) \/ ClearLock(p) \/ ClearOff(p) \/ ClearDone(p)
      BY <3>2, ClearMoves DEF Beginning
    <3>3. CASE InheritLock(p) \/ Admit(p) \/ Prepare(p) \/ Listen(p)
               \/ ServeLock(p) \/ ServeJournal(p) \/ ServeRoute(p) \/ ServeVerify(p) \/ PublishViewer(p)
      BY <1>0, <3>3 DEF InheritLock, Admit, Prepare, Listen, ServeLock, ServeJournal, ServeRoute, ServeVerify, PublishViewer, Go,
         Beginning
    <3>4. CASE BeginClosing(p) \/ CloseReader(p) \/ ReportFailure(p) \/ Unlist(p)
      BY <1>0, <3>4 DEF BeginClosing, CloseReader, ReportFailure, Unlist, Go, Beginning
    <3> QED  BY <1>1, <3>1, <3>2, <3>3, <3>4, RolesDiffer DEF ViewerStep, EnsureFound, EnsureClear, SpawnViewer, EnsureReady,
             EnsureGivesUp, KillGroup, EnsureFailed, GiveBack, SignalViewer, StopUnheard, Watch, StopDone, Sweep
  <2>4. \A s \in Ensurer : ViewerOf[s] \in Actor /\ ViewerOf[s] \in Spawned
    BY RolesDiffer
  <2>5. \A s \in Ensurer : at[s] \in Launched => at'[ViewerOf[s]] = "idle"
    BY <1>0, <2>4 DEF SpawnedIsWatched
  <2>6. \A s \in Ensurer : at'[ViewerOf[s]] \in Beginning \cup {"idle"} => at[ViewerOf[s]] \in Beginning \cup {"idle"}
    BY <1>0, <2>3, <2>4
  <2> QED  BY <1>0, <2>1, <2>2, <2>5, <2>6 DEF SpawnedIsWatched
<1>2. CASE p \in Ensurer
  <2>1. /\ p \notin Viewer /\ \A s \in Ensurer : ViewerOf[s] \in Viewer /\ at'[ViewerOf[s]] = at[ViewerOf[s]]
        /\ \A s \in Ensurer \ {p} : ViewerOf[s] # ViewerOf[p] /\ at'[s] = at[s]
    BY <1>0, <1>2, RolesDiffer
  <2>2. \/ LockStart(p) \/ ClearNothing(p) \/ ClearLock(p) \/ ClearOff(p) \/ ClearDone(p) \/ GiveBack(p)
        \/ EnsureFound(p) \/ EnsureClear(p) \/ SpawnViewer(p) \/ EnsureReady(p) \/ EnsureGivesUp(p) \/ KillGroup(p)
        \/ EnsureFailed(p)
    BY <1>2, RolesDiffer DEF ViewerStep, InheritLock, Admit, Prepare, Listen, ServeLock, ServeJournal, ServeRoute, ServeVerify,
       PublishViewer, BeginClosing, CloseReader, ReportFailure, Unlist, SignalViewer, StopUnheard, Watch, StopDone, Sweep
  <2>3. CASE LockStart(p) \/ EnsureClear(p) \/ EnsureFound(p) \/ EnsureFailed(p) \/ GiveBack(p) \/ EnsureGivesUp(p)
    <3>1. /\ up' = up /\ (at'[p] \in Launched => at[p] \in Launched)
          /\ at'[p] \in {"undoing", "tidying"} => at'[p] = at[p]
          /\ at[p] \in Launching => at'[p] \in Launching
      BY <1>0, <2>3 DEF LockStart, EnsureClear, EnsureFound, EnsureFailed, GiveBack, EnsureGivesUp, Go, Launched, Launching
    <3> QED  BY <1>0, <1>2, <2>1, <3>1 DEF SpawnedIsWatched
  <2>4. CASE ClearNothing(p) \/ ClearLock(p) \/ ClearOff(p) \/ ClearDone(p)
    <3>1. up' = up
      BY <2>4 DEF ClearNothing, ClearLock, ClearOff, ClearDone, procs
    <3>2. at[p] # "cleaning"
      BY <1>2, PlaceTells, RolesDiffer
    <3>3. /\ at'[p] \in Launched => at[p] \in Launched
          /\ at'[p] \in {"undoing", "tidying"} => at[p] \in {"undoing", "tidying"}
          /\ at[p] \in Launching => at'[p] \in Launching
      BY <2>4, <3>2, ClearMoves DEF Launched, Launching
    <3> QED  BY <1>0, <1>2, <2>1, <3>1, <3>3 DEF SpawnedIsWatched
  <2>5. CASE SpawnViewer(p)
    <3>1. up' = up \cup {ViewerOf[p]} /\ at'[p] = "waiting" /\ at[p] = "spawning"
      BY <1>0, <2>5 DEF SpawnViewer, Go
    <3>2. \A s \in Ensurer \ {p} : (ViewerOf[s] \in up' <=> ViewerOf[s] \in up) /\ (s \in up => s \in up') /\ at'[s] = at[s]
      BY <2>1, <3>1
    <3>3. p \in up'
      BY <1>0, <3>1
    <3>4. ASSUME NEW s \in Ensurer
          PROVE  /\ at'[s] \in Launched => ViewerOf[s] \notin up' /\ at'[ViewerOf[s]] = "idle"
                 /\ at'[s] \in {"undoing", "tidying"} => ViewerOf[s] \notin up'
                 /\ strays' = {} /\ ViewerOf[s] \in up' /\ at'[ViewerOf[s]] \in Beginning \cup {"idle"} =>
                      s \in up' /\ at'[s] \in Launching
      <4>1. CASE s = p
        BY <3>1, <3>3, <4>1 DEF Launched, Launching
      <4>2. CASE s # p
        BY <1>0, <2>1, <3>2, <4>2 DEF SpawnedIsWatched
      <4> QED  BY <4>1, <4>2
    <3> QED  BY <3>4 DEF SpawnedIsWatched
  <2>6. CASE EnsureReady(p)
    <3>1. up' = up /\ at'[p] = "done" /\ viewerJson = ViewerOf[p] /\ ViewerOf[p] \in listening /\ ViewerOf[p] \in up
      BY <1>0, <2>6 DEF EnsureReady, Go, StatusRunning, Ready
    <3>2. strays = {} => at[ViewerOf[p]] \notin Beginning \cup {"idle"}
      BY <1>2, <2>1, <3>1 DEF ListensLater, ListenerIsKnown
    <3> QED  BY <1>0, <1>2, <2>1, <3>1, <3>2 DEF SpawnedIsWatched, Launched, Launching
  <2>7. CASE KillGroup(p)
    <3>1. up' = up \ {ViewerOf[p]} /\ at'[p] = "undoing"
      BY <1>0, <2>7 DEF KillGroup, Go, Dies
    <3>2. p \in up'
      BY <1>0, <1>2, <2>1, <3>1, RolesDiffer
    <3>3. \A s \in Ensurer \ {p} : (ViewerOf[s] \in up' <=> ViewerOf[s] \in up) /\ (s \in up => s \in up') /\ at'[s] = at[s]
      <4>1. \A s \in Ensurer : s # ViewerOf[p]
        BY <1>2, RolesDiffer
      <4> QED  BY <2>1, <3>1, <4>1
    <3>4. ASSUME NEW s \in Ensurer
          PROVE  /\ at'[s] \in Launched => ViewerOf[s] \notin up' /\ at'[ViewerOf[s]] = "idle"
                 /\ at'[s] \in {"undoing", "tidying"} => ViewerOf[s] \notin up'
                 /\ strays' = {} /\ ViewerOf[s] \in up' /\ at'[ViewerOf[s]] \in Beginning \cup {"idle"} =>
                      s \in up' /\ at'[s] \in Launching
      <4>1. CASE s = p
        BY <3>1, <3>2, <4>1 DEF Launched
      <4>2. CASE s # p
        BY <1>0, <2>1, <3>3, <4>2 DEF SpawnedIsWatched
      <4> QED  BY <4>1, <4>2
    <3> QED  BY <3>4 DEF SpawnedIsWatched
  <2> QED  BY <2>2, <2>3, <2>4, <2>5, <2>6, <2>7
<1> QED  BY <1>1, <1>2

LEMMA HeldStarting ==
  ASSUME ViewerForm, StartIsHeld, SpawnedIsWatched, strays = {}, NEW v \in Viewer, v \in up, at[v] \in Beginning
  PROVE  Held(v)
<1>1. CASE v \in Foreground
  BY <1>1, RolesDiffer DEF Held, StartIsHeld, Holding
<1>2. CASE v \in Spawned
  <2>1. PICK s \in Ensurer : v = ViewerOf[s]
    BY <1>2 DEF Spawned
  <2> QED  BY <2>1 DEF Held, SpawnedIsWatched
<1> QED  BY <1>1, <1>2, RolesDiffer

LEMMA HeldAlone ==
  ASSUME StartIsHeld, NEW v \in Viewer, Held(v)
  PROVE  /\ \A q \in up \ Spawned : at[q] \in Holding \/ startLock = q =>
              q = v \/ (q \in Ensurer /\ v = ViewerOf[q] /\ at[q] \in Launching)
         /\ \A w \in Viewer : Held(w) => w = v
<1>1. \A q \in up \ Spawned : at[q] \in Holding => startLock = q
  BY DEF StartIsHeld
<1>2. \A s \in Ensurer \cap up : at[s] \in Launching => startLock = s
  BY <1>1, RolesDiffer DEF Holding
<1> QED  BY <1>1, <1>2, RolesDiffer DEF Held

\* Who was behind a viewer stays until it has published its record.
LEMMA HeldKept ==
  ASSUME ViewerForm, StartIsHeld, NEW p \in Actor, ViewerStep(p), NEW v \in Viewer, v \in up, v \in up', Held(v)
  PROVE  \/ Held(v)'
         \/ v = p /\ PublishViewer(p) /\ viewerJson' = p
         \/ EnsureReady(p) /\ v = ViewerOf[p]
<1>0. at = [q \in Actor |-> at[q]] /\ p \in up /\ up \subseteq Actor /\ \A q \in Actor \ {p} : at'[q] = at[q]
  BY Moved DEF ViewerForm
<1>1. CASE v \in Foreground /\ startLock = v
  <2>1. v # p => startLock' = v
    BY <1>1, StartKept
  <2>2. v = p => startLock' = v \/ (PublishViewer(p) /\ viewerJson' = p)
    <3>1. CASE LockStart(p) \/ ClearNothing(p) \/ ClearLock(p) \/ ClearOff(p) \/ ClearDone(p)
      BY <1>1, <3>1 DEF LockStart, ClearNothing, ClearLock, ClearOff, ClearDone, procs
    <3>2. CASE InheritLock(p) \/ Prepare(p) \/ Listen(p) \/ ServeLock(p) \/ ServeJournal(p) \/ ServeRoute(p) \/ ServeVerify(p)
               \/ BeginClosing(p) \/ CloseReader(p)
      BY <1>1, <3>2 DEF InheritLock, Prepare, Listen, ServeLock, ServeJournal, ServeRoute, ServeVerify, BeginClosing, CloseReader
    <3>3. CASE Admit(p) \/ ReportFailure(p) \/ Unlist(p)
      BY <1>1, <3>3 DEF Admit, ReportFailure, Unlist, Dies
    <3>4. CASE PublishViewer(p)
      BY <1>1, <3>4 DEF PublishViewer, WhenPublished
    <3> QED  BY <3>1, <3>2, <3>3, <3>4, RolesDiffer DEF ViewerStep, EnsureFound, EnsureClear, SpawnViewer, EnsureReady,
             EnsureGivesUp, KillGroup, EnsureFailed, GiveBack, SignalViewer, StopUnheard, Watch, StopDone, Sweep
  <2> QED  BY <1>1, <2>1, <2>2 DEF Held
<1>2. ASSUME NEW s \in Ensurer, v = ViewerOf[s], s \in up, at[s] \in Launching
      PROVE  Held(v)' \/ (EnsureReady(p) /\ v = ViewerOf[p])
  <2>1. CASE s = p
    <3>1. EnsureReady(p) \/ EnsureGivesUp(p) \/ KillGroup(p) \/ (at' = at /\ up' = up)
      <4>1. p \in Ensurer /\ at[p] \in {"waiting", "terminating"}
        BY <1>2, <2>1 DEF Launching
      <4>2. ~LockStart(p) /\ ~EnsureFound(p) /\ ~EnsureClear(p) /\ ~SpawnViewer(p) /\ ~EnsureFailed(p) /\ ~GiveBack(p)
        BY <4>1 DEF LockStart, EnsureFound, EnsureClear, SpawnViewer, EnsureFailed, GiveBack, Go
      <4>3. ~ClearNothing(p) /\ ~ClearLock(p) /\ ~ClearOff(p) /\ ~ClearDone(p)
        BY <4>1 DEF ClearNothing, ClearLock, ClearOff, ClearDone, Cleaning, Cleared
      <4> QED  BY <4>1, <4>2, <4>3, RolesDiffer DEF ViewerStep, InheritLock, Admit, Prepare, Listen, ServeLock, ServeJournal,
             ServeRoute, ServeVerify, PublishViewer, BeginClosing, CloseReader, ReportFailure, Unlist, SignalViewer, StopUnheard,
             Watch, StopDone, Sweep
    <3>2. EnsureGivesUp(p) => Held(v)'
      BY <1>0, <1>2, <2>1 DEF EnsureGivesUp, Go, Held, Launching
    <3>3. ~KillGroup(p)
      BY <1>2, <2>1 DEF KillGroup, Dies
    <3> QED  BY <1>2, <2>1, <3>1, <3>2, <3>3 DEF Held
  <2>2. CASE s # p
    <3>1. s \in up'
      <4>1. up \subseteq up' \/ up' = up \ {p} \/ (p \in Ensurer /\ up' = up \ {ViewerOf[p]})
        <5>1. CASE LockStart(p) \/ ClearNothing(p) \/ ClearLock(p) \/ ClearOff(p) \/ ClearDone(p) \/ GiveBack(p)
          BY <5>1 DEF LockStart, ClearNothing, ClearLock, ClearOff, ClearDone, GiveBack, procs
        <5>2. CASE InheritLock(p) \/ Admit(p) \/ Prepare(p) \/ Listen(p)
                   \/ ServeLock(p) \/ ServeJournal(p) \/ ServeRoute(p) \/ ServeVerify(p) \/ PublishViewer(p)
          BY <5>2 DEF InheritLock, Admit, Prepare, Listen, ServeLock, ServeJournal, ServeRoute, ServeVerify, PublishViewer, Dies
        <5>3. CASE BeginClosing(p) \/ CloseReader(p) \/ ReportFailure(p) \/ Unlist(p)
          BY <5>3 DEF BeginClosing, CloseReader, ReportFailure, Unlist, Dies
        <5>4. CASE SignalViewer(p) \/ StopUnheard(p) \/ Watch(p) \/ StopDone(p) \/ Sweep(p)
          BY <5>4 DEF SignalViewer, StopUnheard, Watch, StopDone, Sweep
        <5>5. CASE EnsureFound(p) \/ EnsureClear(p) \/ SpawnViewer(p) \/ EnsureReady(p) \/ EnsureGivesUp(p) \/ KillGroup(p)
                   \/ EnsureFailed(p)
          BY <5>5 DEF EnsureFound, EnsureClear, SpawnViewer, EnsureReady, EnsureGivesUp, KillGroup, EnsureFailed, Dies
        <5> QED  BY <5>1, <5>2, <5>3, <5>4, <5>5 DEF ViewerStep
      <4>2. p \in Ensurer => s # ViewerOf[p]
        BY RolesDiffer
      <4> QED  BY <1>2, <2>2, <4>1, <4>2
    <3>2. at'[s] = at[s]
      BY <1>0, <1>2, <2>2
    <3> QED  BY <1>2, <3>1, <3>2 DEF Held
  <2> QED  BY <2>1, <2>2
<1> QED  BY <1>1, <1>2 DEF Held

LEMMA WhoListens ==
  ASSUME NEW p \in Actor, ViewerStep(p)
  PROVE  listening' \subseteq listening \/ (Listen(p) /\ listening' = listening \cup {p})
<1>1. CASE LockStart(p) \/ ClearNothing(p) \/ ClearLock(p) \/ ClearOff(p) \/ ClearDone(p)
  BY <1>1 DEF LockStart, ClearNothing, ClearLock, ClearOff, ClearDone, network
<1>2. CASE InheritLock(p) \/ Admit(p) \/ Prepare(p) \/ Listen(p)
           \/ ServeLock(p) \/ ServeJournal(p) \/ ServeRoute(p) \/ ServeVerify(p) \/ PublishViewer(p)
  BY <1>2 DEF InheritLock, Admit, Prepare, Listen, ServeLock, ServeJournal, ServeRoute, ServeVerify, PublishViewer, Dies, network
<1>3. CASE BeginClosing(p) \/ CloseReader(p) \/ ReportFailure(p) \/ Unlist(p)
  BY <1>3 DEF BeginClosing, CloseReader, ReportFailure, Unlist, Dies, network
<1>4. CASE EnsureFound(p) \/ EnsureClear(p) \/ SpawnViewer(p) \/ EnsureReady(p) \/ EnsureGivesUp(p) \/ KillGroup(p)
           \/ EnsureFailed(p) \/ GiveBack(p)
  BY <1>4 DEF EnsureFound, EnsureClear, SpawnViewer, EnsureReady, EnsureGivesUp, KillGroup, EnsureFailed, GiveBack, Dies, network
<1>5. CASE SignalViewer(p) \/ StopUnheard(p) \/ Watch(p) \/ StopDone(p) \/ Sweep(p)
  BY <1>5 DEF SignalViewer, StopUnheard, Watch, StopDone, Sweep, network
<1> QED  BY <1>1, <1>2, <1>3, <1>4, <1>5 DEF ViewerStep

\* What becomes of the record.
LEMMA JsonMoves ==
  ASSUME NEW p \in Actor, ViewerStep(p)
  PROVE  \/ viewerJson' = viewerJson /\ ~SpawnViewer(p)
         \/ PublishViewer(p) /\ viewerJson' = p
         \/ /\ viewerJson' = NoOne
            /\ \/ SpawnViewer(p)
               \/ Unlist(p) /\ viewerJson = p
               \/ EnsureFailed(p) /\ viewerJson = ViewerOf[p]
               \/ StopDone(p)
               \/ Sweep(p) /\ strays' = strays \cup ({viewerJson} \cap up)
<1>0. SpawnViewer(p) => viewerJson' = NoOne
  BY DEF SpawnViewer
<1>1. CASE LockStart(p) \/ ClearNothing(p) \/ ClearLock(p) \/ ClearOff(p) \/ ClearDone(p)
  BY <1>0, <1>1 DEF LockStart, ClearNothing, ClearLock, ClearOff, ClearDone, files
<1>2. CASE InheritLock(p) \/ Admit(p) \/ Prepare(p) \/ Listen(p)
           \/ ServeLock(p) \/ ServeJournal(p) \/ ServeRoute(p) \/ ServeVerify(p)
  BY <1>0, <1>2 DEF InheritLock, Admit, Prepare, Listen, ServeLock, ServeJournal, ServeRoute, ServeVerify, files
<1>3. CASE PublishViewer(p)
  BY <1>0, <1>3 DEF PublishViewer, WhenPublished
<1>4. CASE BeginClosing(p) \/ CloseReader(p) \/ ReportFailure(p)
  BY <1>0, <1>4 DEF BeginClosing, CloseReader, ReportFailure, files
<1>5. CASE Unlist(p)
  BY <1>0, <1>5 DEF Unlist
<1>6. CASE EnsureFound(p) \/ EnsureClear(p) \/ SpawnViewer(p) \/ EnsureReady(p) \/ EnsureGivesUp(p) \/ KillGroup(p) \/ GiveBack(p)
  BY <1>0, <1>6 DEF EnsureFound, EnsureClear, EnsureReady, EnsureGivesUp, KillGroup, GiveBack, files
<1>7. CASE EnsureFailed(p)
  BY <1>0, <1>7 DEF EnsureFailed
<1>8. CASE StopDone(p)
  BY <1>0, <1>8 DEF StopDone
<1>9. CASE SignalViewer(p) \/ StopUnheard(p) \/ Watch(p)
  BY <1>0, <1>9 DEF SignalViewer, StopUnheard, Watch, files
<1>10. CASE Sweep(p)
  BY <1>0, <1>10 DEF Sweep, Swept, files
<1> QED  BY <1>1, <1>2, <1>3, <1>4, <1>5, <1>6, <1>7, <1>8, <1>9, <1>10 DEF ViewerStep

LEMMA ListenerStep ==
  ASSUME ViewerInv, ListensLater, ViewerForm', NEW p \in Actor, ViewerStep(p)
  PROVE  ListenerIsKnown'
<1> SUFFICES ASSUME strays' = {} PROVE
        /\ \A v \in listening' : viewerJson' = v \/ Held(v)'
        /\ \A v \in listening' : at'[v] = "serves" => viewerJson' = v
        /\ \A v \in Viewer \cap up' : at'[v] \in Beginning \ {"locked"} => viewerJson' \notin up'
        /\ \A s \in Ensurer \cap up' : at'[s] \in {"replacing", "spawning"} => viewerJson' \notin up'
  BY DEF ListenerIsKnown
<1>0. /\ at = [q \in Actor |-> at[q]] /\ p \in up /\ up \subseteq Actor /\ \A q \in Actor \ {p} : at'[q] = at[q]
      /\ strays = {} /\ listening \subseteq up \cap Viewer /\ listening' \subseteq up' \cap Viewer /\ up' \subseteq Actor
      /\ NoOne \notin Actor
  BY Moved, StraysGrow, RolesDiffer DEF ViewerInv, ViewerForm
<1>1. /\ \A v \in listening : viewerJson = v \/ Held(v)
      /\ \A v \in listening : at[v] = "serves" => viewerJson = v
      /\ \A v \in Viewer \cap up : at[v] \in Beginning \ {"locked"} => viewerJson \notin up
      /\ \A s \in Ensurer \cap up : at[s] \in {"replacing", "spawning"} => viewerJson \notin up
  BY <1>0 DEF ViewerInv, ListenerIsKnown
<1>2. ViewerForm /\ StartIsHeld /\ SpawnedIsWatched /\ StopIsQuiet
  BY DEF ViewerInv
\* The record of a living viewer is left, but by itself.
<1>3. \/ viewerJson' = viewerJson /\ ~SpawnViewer(p)
      \/ PublishViewer(p) /\ viewerJson' = p
      \/ viewerJson' = NoOne /\ (viewerJson \notin up \cap up' \/ listening = {})
  <2>1. SpawnViewer(p) => viewerJson \notin up
    BY <1>0, <1>1 DEF SpawnViewer, Go
  <2>2. Unlist(p) /\ viewerJson = p => viewerJson \notin up'
    BY DEF Unlist, Dies
  <2>3. EnsureFailed(p) /\ viewerJson = ViewerOf[p] => viewerJson \notin up
    BY <1>2 DEF EnsureFailed, Go, SpawnedIsWatched
  <2>4. StopDone(p) => listening = {}
    <3>1. StopDone(p) => p \in Closer /\ at[p] = "tidying"
      BY DEF StopDone, Go
    <3>2. p \in Closer => p \in up \ Spawned
      BY <1>0, RolesDiffer
    <3>3. StopDone(p) => startLock = p
      BY <1>2, <3>1, <3>2 DEF StartIsHeld, Holding
    <3> QED  BY <1>0, <1>2, <3>1, <3>3 DEF StopIsQuiet
  <2>5. Sweep(p) /\ strays' = strays \cup ({viewerJson} \cap up) => viewerJson \notin up
    OBVIOUS
  <2> QED  BY <2>1, <2>2, <2>3, <2>4, <2>5, JsonMoves
<1>4. PublishViewer(p) => p \in Viewer /\ p \in up /\ at[p] = "publishing" /\ at'[p] \in {"serves", "closing"} /\ viewerJson \notin up /\ Held(p)
  <2>1. PublishViewer(p) => p \in Viewer /\ at[p] = "publishing" /\ at'[p] \in {"serves", "closing"}
    BY <1>0 DEF PublishViewer, Go
  <2> QED  BY <1>0, <1>1, <1>2, <2>1, HeldStarting DEF Beginning
<1>5. Listen(p) => p \in Viewer /\ at[p] = "binding" /\ at'[p] \in {"exposing", "publishing"} /\ Held(p) /\ ~PublishViewer(p)
  <2>1. Listen(p) => p \in Viewer /\ at[p] = "binding" /\ at'[p] \in {"exposing", "publishing"} /\ ~PublishViewer(p)
    BY <1>0 DEF Listen, PublishViewer, Go
  <2> QED  BY <1>0, <1>2, <2>1, HeldStarting DEF Beginning
<1>6. ASSUME NEW v \in listening' PROVE viewerJson' = v \/ Held(v)'
  <2>1. v \in Viewer /\ v \in up'
    BY <1>0
  <2>2. CASE v \in listening
    <3>1. v \in up
      BY <1>0, <2>2
    <3>2. CASE viewerJson = v
      BY <1>3, <1>4, <2>1, <2>2, <3>1, <3>2
    <3>3. CASE Held(v)
      <4>1. Held(v)' \/ (PublishViewer(p) /\ viewerJson' = v) \/ (EnsureReady(p) /\ v = ViewerOf[p])
        BY <1>2, <2>1, <3>1, <3>3, HeldKept
      <4>2. EnsureReady(p) => viewerJson' = ViewerOf[p]
        BY DEF EnsureReady, StatusRunning, Ready, files
      <4> QED  BY <4>1, <4>2
    <3> QED  BY <1>1, <2>2, <3>2, <3>3
  <2>3. CASE v \notin listening
    <3>1. Listen(p) /\ v = p
      BY <2>3, WhoListens
    <3>2. Held(v) /\ v \in up /\ ~PublishViewer(p) /\ ~EnsureReady(p)
      BY <1>0, <1>5, <3>1, RolesDiffer DEF EnsureReady
    <3> QED  BY <1>2, <2>1, <3>2, HeldKept
  <2> QED  BY <2>2, <2>3
<1>7. ASSUME NEW v \in listening', at'[v] = "serves" PROVE viewerJson' = v
  <2>1. v \in Viewer /\ v \in up' /\ v \in listening
    BY <1>0, <1>5, <1>7, WhoListens
  <2>2. CASE at[v] = "serves"
    <3>1. viewerJson = v /\ v \in up
      BY <1>0, <1>1, <2>1, <2>2
    <3> QED  BY <1>3, <1>4, <2>1, <3>1
  <2>3. CASE at[v] # "serves"
    <3>1. v = p
      BY <1>0, <1>7, <2>1, <2>3
    <3>2. PublishViewer(p) /\ viewerJson' = p
      <4>1. CASE LockStart(p) \/ ClearNothing(p) \/ ClearLock(p) \/ ClearOff(p) \/ ClearDone(p)
        BY <1>0, <1>2, <1>7, <2>3, <3>1, <4>1, ClearMoves DEF LockStart, Go
      <4>2. CASE InheritLock(p) \/ Admit(p) \/ Prepare(p) \/ Listen(p)
                 \/ ServeLock(p) \/ ServeJournal(p) \/ ServeRoute(p) \/ ServeVerify(p) \/ PublishViewer(p)
        BY <1>0, <1>7, <2>3, <3>1, <4>2 DEF InheritLock, Admit, Prepare, Listen, ServeLock, ServeJournal, ServeRoute,
           ServeVerify, PublishViewer, WhenPublished, Go
      <4>3. CASE BeginClosing(p) \/ CloseReader(p) \/ ReportFailure(p) \/ Unlist(p)
        BY <1>0, <1>7, <2>3, <3>1, <4>3 DEF BeginClosing, CloseReader, ReportFailure, Unlist, Go
      <4> QED  BY <2>1, <3>1, <4>1, <4>2, <4>3, RolesDiffer DEF ViewerStep, EnsureFound, EnsureClear, SpawnViewer, EnsureReady,
               EnsureGivesUp, KillGroup, EnsureFailed, GiveBack, SignalViewer, StopUnheard, Watch, StopDone, Sweep
    <3> QED  BY <3>1, <3>2
  <2> QED  BY <2>2, <2>3
\* Whoever is alive and was under the start lock found no living record.
<1>8. viewerJson \notin up /\ ~PublishViewer(p) => viewerJson' \notin up'
  <2>1. ~SpawnViewer(p) => up' \subseteq up
    <3>1. p \in Ensurer /\ at[p] = "spawning" /\ ~SpawnViewer(p) => up' \subseteq up
      <4>1. CASE LockStart(p) \/ ClearNothing(p) \/ ClearLock(p) \/ ClearOff(p) \/ ClearDone(p) \/ GiveBack(p)
        BY <4>1 DEF LockStart, ClearNothing, ClearLock, ClearOff, ClearDone, GiveBack, procs
      <4>2. CASE EnsureFound(p) \/ EnsureClear(p) \/ EnsureReady(p) \/ EnsureGivesUp(p) \/ KillGroup(p) \/ EnsureFailed(p)
        BY <4>2 DEF EnsureFound, EnsureClear, EnsureReady, EnsureGivesUp, KillGroup, EnsureFailed, Dies
      <4> QED  BY <4>1, <4>2, RolesDiffer DEF ViewerStep, InheritLock, Admit, Prepare, Listen, ServeLock, ServeJournal,
             ServeRoute, ServeVerify, PublishViewer, BeginClosing, CloseReader, ReportFailure, Unlist, SignalViewer, StopUnheard,
             Watch, StopDone, Sweep
    <3> QED  BY <3>1, WhoLives
  <2> QED  BY <1>0, <1>3, <2>1
<1>9. ASSUME NEW v \in Viewer, v \in up', at'[v] \in Beginning \ {"locked"} PROVE viewerJson' \notin up'
  <2>1. v \in up
    BY <1>2, <1>9, StillThere DEF Beginning
  <2>2. at[v] \in Beginning \ {"locked"} \/ (v = p /\ Admit(p) /\ viewerJson \notin up)
    <3>1. CASE LockStart(p) \/ ClearNothing(p) \/ ClearLock(p) \/ ClearOff(p) \/ ClearDone(p)
      BY <1>0, <1>2, <1>9, <2>1, <3>1, ClearMoves DEF LockStart, Go, Beginning
    <3>2. CASE InheritLock(p) \/ Prepare(p) \/ Listen(p)
               \/ ServeLock(p) \/ ServeJournal(p) \/ ServeRoute(p) \/ ServeVerify(p) \/ PublishViewer(p)
      BY <1>0, <1>9, <2>1, <3>2 DEF InheritLock, Prepare, Listen, ServeLock, ServeJournal, ServeRoute,
         ServeVerify, PublishViewer, Go, Beginning
    <3>3. CASE Admit(p) \/ BeginClosing(p) \/ CloseReader(p) \/ ReportFailure(p) \/ Unlist(p)
      BY <1>0, <1>9, <2>1, <3>3 DEF Admit, BeginClosing, CloseReader, ReportFailure, Unlist, Go, Beginning, Replaceable
    <3>4. CASE p \notin Viewer
      BY <1>0, <1>9, <2>1, <3>4
    <3> QED  BY <3>1, <3>2, <3>3, <3>4, RolesDiffer DEF ViewerStep, EnsureFound, EnsureClear, SpawnViewer, EnsureReady,
             EnsureGivesUp, KillGroup, EnsureFailed, GiveBack, SignalViewer, StopUnheard, Watch, StopDone, Sweep
  <2>3. ~PublishViewer(p)
    <3>1. PublishViewer(p) => at[v] \in Beginning /\ v # p
      <4>1. PublishViewer(p) => ~Admit(p) /\ at'[p] \notin Beginning
        BY <1>4 DEF Admit, Go, Beginning
      <4> QED  BY <1>9, <2>2, <4>1
    <3>2. PublishViewer(p) => Held(v) /\ Held(p)
      BY <1>0, <1>2, <1>4, <2>1, <3>1, HeldStarting
    <3> QED  BY <1>2, <1>4, <3>1, <3>2, HeldAlone
  <2>4. viewerJson \notin up
    BY <1>1, <2>1, <2>2
  <2> QED  BY <1>8, <2>3, <2>4
<1>10. ASSUME NEW s \in Ensurer, s \in up', at'[s] \in {"replacing", "spawning"} PROVE viewerJson' \notin up'
  <2>1. s \in up /\ s \notin Spawned
    <3>1. p \in Ensurer => s # ViewerOf[p]
      BY RolesDiffer
    <3>2. s \notin Spawned
      BY RolesDiffer
    <3> QED  BY <1>10, <3>1, <3>2, WhoLives
  <2>2. at[s] \in {"replacing", "spawning"} \/ (s = p /\ EnsureClear(p) /\ viewerJson \notin up)
    <3>1. CASE LockStart(p) \/ ClearNothing(p) \/ ClearLock(p) \/ ClearOff(p) \/ ClearDone(p) \/ GiveBack(p)
      BY <1>0, <1>2, <1>10, <2>1, <3>1, ClearMoves DEF LockStart, GiveBack, Go
    <3>2. CASE EnsureFound(p) \/ EnsureClear(p) \/ SpawnViewer(p) \/ EnsureReady(p) \/ EnsureGivesUp(p) \/ KillGroup(p)
               \/ EnsureFailed(p)
      BY <1>0, <1>10, <2>1, <3>2 DEF EnsureFound, EnsureClear, SpawnViewer, EnsureReady, EnsureGivesUp, KillGroup, EnsureFailed,
         Go, Replaceable
    <3>3. CASE p \notin Ensurer
      BY <1>0, <1>10, <2>1, <3>3
    <3> QED  BY <3>1, <3>2, <3>3, RolesDiffer DEF ViewerStep, InheritLock, Admit, Prepare, Listen, ServeLock, ServeJournal,
             ServeRoute, ServeVerify, PublishViewer, BeginClosing, CloseReader, ReportFailure, Unlist, SignalViewer, StopUnheard,
             Watch, StopDone, Sweep
  <2>3. ~PublishViewer(p)
    <3>1. PublishViewer(p) => at[s] \in {"replacing", "spawning"}
      BY <1>4, <2>2, RolesDiffer DEF EnsureClear, Go
    <3> QED  BY <1>2, <1>4, <2>1, <3>1, HeldAlone, RolesDiffer DEF Holding, Launching
  <2>4. viewerJson \notin up
    BY <1>1, <2>1, <2>2
  <2> QED  BY <1>8, <2>3, <2>4
<1> QED  BY <1>6, <1>7, <1>9, <1>10

\* What a step does to the root route.
LEMMA ServeMoves ==
  ASSUME NEW p \in Actor, ViewerStep(p)
  PROVE  late' = late /\ swept \subseteq swept' /\ (serve' = serve \/ serve' = NoOne \/ ServeRoute(p))
<1>1. CASE LockStart(p) \/ ClearNothing(p) \/ ClearLock(p) \/ ClearOff(p) \/ ClearDone(p)
  BY <1>1 DEF LockStart, ClearNothing, ClearLock, ClearOff, ClearDone, network
<1>2. CASE InheritLock(p) \/ Admit(p) \/ Prepare(p) \/ Listen(p)
           \/ ServeLock(p) \/ ServeJournal(p) \/ ServeRoute(p) \/ ServeVerify(p) \/ PublishViewer(p)
  BY <1>2 DEF InheritLock, Admit, Prepare, Listen, ServeLock, ServeJournal, ServeRoute, ServeVerify, PublishViewer, network
<1>3. CASE BeginClosing(p) \/ CloseReader(p) \/ ReportFailure(p) \/ Unlist(p)
  BY <1>3 DEF BeginClosing, CloseReader, ReportFailure, Unlist, network
<1>4. CASE EnsureFound(p) \/ EnsureClear(p) \/ SpawnViewer(p) \/ EnsureReady(p) \/ EnsureGivesUp(p) \/ KillGroup(p)
           \/ EnsureFailed(p) \/ GiveBack(p)
  BY <1>4 DEF EnsureFound, EnsureClear, SpawnViewer, EnsureReady, EnsureGivesUp, KillGroup, EnsureFailed, GiveBack, network
<1>5. CASE SignalViewer(p) \/ StopUnheard(p) \/ Watch(p) \/ StopDone(p) \/ Sweep(p)
  BY <1>5 DEF SignalViewer, StopUnheard, Watch, StopDone, Sweep, Swept, network
<1> QED  BY <1>1, <1>2, <1>3, <1>4, <1>5 DEF ViewerStep

LEMMA StopStep ==
  ASSUME ViewerInv, NEW p \in Actor, ViewerStep(p)
  PROVE  StopIsQuiet'
<1> DEFINE Closed == serve \notin Viewer \ swept /\ (late # NoOne => late \in swept)
<1> SUFFICES ASSUME strays' = {}, NEW q \in Closer, q \in up', startLock' = q
             PROVE  /\ at'[q] \in {"cleaning", "tidying", "stopped"} => listening' = {}
                    /\ at'[q] \in {"tidying", "stopped"} =>
                         serve' \notin Viewer \ swept' /\ (late' # NoOne => late' \in swept')
  BY DEF StopIsQuiet
<1>0. /\ at = [r \in Actor |-> at[r]] /\ p \in up /\ up \subseteq Actor /\ \A r \in Actor \ {p} : at'[r] = at[r]
      /\ strays = {} /\ listening \subseteq up \cap Viewer /\ NoOne \notin Actor /\ Viewer \subseteq Actor
  BY Moved, StraysGrow, RolesDiffer DEF ViewerInv, ViewerForm
<1>1. ViewerForm /\ RouteIsLocked /\ RouteIsJournalled /\ StartIsHeld /\ SpawnedIsWatched
  BY DEF ViewerInv
<1>2. q \in up /\ q \notin Spawned /\ q \notin Viewer /\ q \in Actor /\ q \notin Ensurer
  <2>1. q \notin Viewer /\ q \in Actor /\ q \notin Ensurer /\ q \notin Spawned
    BY RolesDiffer
  <2>2. p \in Ensurer => q # ViewerOf[p]
    BY <2>1, RolesDiffer
  <2> QED  BY <2>1, <2>2, WhoLives
<1>3. ASSUME startLock = q, NEW v \in Viewer PROVE ~Held(v)
  BY <1>1, <1>2, <1>3, HeldAlone
<1>4. startLock = q => /\ at[q] \in {"cleaning", "tidying", "stopped"} => listening = {}
                       /\ at[q] \in {"tidying", "stopped"} => Closed
  BY <1>0, <1>2 DEF ViewerInv, StopIsQuiet
<1>5. startLock = q => listening' \subseteq listening /\ ~ServeRoute(p)
  <2>1. Listen(p) \/ ServeRoute(p) => p \in Viewer /\ at[p] \in Beginning
    BY DEF Listen, ServeRoute, Go, Beginning
  <2>2. Listen(p) \/ ServeRoute(p) => Held(p)
    BY <1>0, <1>1, <2>1, HeldStarting
  <2> QED  BY <1>3, <2>1, <2>2, WhoListens
<1>6. startLock = q /\ Closed => serve' \notin Viewer \ swept' /\ (late' # NoOne => late' \in swept')
  BY <1>0, <1>5, ServeMoves
<1> HIDE DEF Closed
<1>7. CASE q # p
  <2>1. startLock = q /\ at'[q] = at[q]
    BY <1>0, <1>1, <1>2, <1>7, StartKept
  <2> QED  BY <1>4, <1>5, <1>6, <2>1
<1>8. CASE q = p
  <2>1. startLock = q \/ LockStart(p)
    <3>1. CASE ClearNothing(p) \/ ClearLock(p) \/ ClearOff(p) \/ ClearDone(p)
      BY <3>1 DEF ClearNothing, ClearLock, ClearOff, ClearDone, procs
    <3>2. CASE GiveBack(p) \/ SignalViewer(p) \/ StopUnheard(p) \/ Watch(p) \/ StopDone(p) \/ Sweep(p)
      BY <1>0, <1>2, <3>2 DEF GiveBack, SignalViewer, StopUnheard, Watch, StopDone, Sweep, Unlocked
    <3> QED  BY <1>2, <1>8, <3>1, <3>2, RolesDiffer DEF ViewerStep, InheritLock, Admit, Prepare, Listen, ServeLock, ServeJournal,
             ServeRoute, ServeVerify, PublishViewer, BeginClosing, CloseReader, ReportFailure, Unlist, EnsureFound, EnsureClear,
             SpawnViewer, EnsureReady, EnsureGivesUp, KillGroup, EnsureFailed
  <2>2. CASE LockStart(p)
    BY <1>0, <1>8, <2>2 DEF LockStart, Go
  <2>3. CASE ClearNothing(p) \/ ClearLock(p) \/ ClearOff(p) \/ ClearDone(p)
    <3>1. at' = at \/ (at[q] = "cleaning" /\ at'[q] = "failed")
            \/ (at[q] = "cleaning" /\ at'[q] = "tidying" /\ (ClearNothing(p) \/ ClearDone(p)))
      <4>1. at' = at \/ (at[q] = "cleaning" /\ at'[q] \in {"tidying", "failed"})
        BY <1>1, <1>2, <1>8, <2>3, ClearMoves, PlaceTells, RolesDiffer DEF Beginning
      <4>2. ClearLock(p) \/ ClearOff(p) => at' = at \/ at'[p] = NotCleared[at[p]]
        BY <1>0 DEF ClearLock, ClearOff, Leave, procs
      <4>3. NotCleared["cleaning"] = "failed"
        BY DEF NotCleared
      <4> QED  BY <1>8, <2>3, <4>1, <4>2, <4>3
    <3>2. startLock = q
      BY <2>1, <2>3 DEF ClearNothing, ClearLock, ClearOff, ClearDone, LockStart, procs
    <3>3. at[q] = "cleaning" /\ ClearNothing(p) => Closed
      BY <1>1, RolesDiffer DEF ClearNothing, RouteIsJournalled, RouteIsLocked, Closed
    <3>4. at[q] = "cleaning" /\ at'[q] = "tidying" /\ ClearDone(p) => Closed
      <4> SUFFICES ASSUME at[q] = "cleaning", at'[q] = "tidying", ClearDone(p) PROVE Closed
        OBVIOUS
      <4>1. nodeLock = p
        BY DEF ClearDone
      <4>2. serve = NoOne
        <5>1. serve = NoOne \/ at' = [at EXCEPT ![p] = NotCleared[at[p]]]
          BY DEF ClearDone, Leave
        <5>2. NotCleared["cleaning"] = "failed"
          BY DEF NotCleared
        <5> QED  BY <1>0, <1>8, <5>1, <5>2
      <4>3. late = NoOne
        BY <1>1, <1>2, <1>8, <4>1 DEF RouteIsLocked
      <4> QED  BY <1>0, <4>2, <4>3 DEF Closed
    <3> QED  BY <1>4, <1>5, <1>6, <3>1, <3>2, <3>3, <3>4
  <2>4. CASE SignalViewer(p) \/ GiveBack(p) \/ Sweep(p)
    <3>1. ~GiveBack(p)
      BY <1>0, <1>2 DEF GiveBack
    <3>2. ~Sweep(p)
      BY <1>8, RolesDiffer DEF Sweep
    <3> QED  BY <1>0, <1>8, <2>4, <3>1, <3>2 DEF SignalViewer, Go
  <2>5. CASE StopUnheard(p) \/ Watch(p)
    <3>1. startLock = q
      BY <2>1, <2>5 DEF StopUnheard, Watch, LockStart
    <3>2. \A v \in listening : viewerJson = v
      BY <1>0, <1>3, <3>1 DEF ViewerInv, ListenerIsKnown
    <3>3. at'[q] \in {"watching", "cleaning", "failed"} /\ (at'[q] = "cleaning" => listening = {})
      <4>1. CASE StopUnheard(p)
        BY <1>0, <1>8, <3>2, <4>1 DEF StopUnheard, Go, Ready
      <4>2. CASE Watch(p)
        BY <1>0, <1>8, <3>2, <4>2 DEF Watch, Go, Departed
      <4> QED  BY <2>5, <4>1, <4>2
    <3> QED  BY <1>5, <3>1, <3>3
  <2>6. CASE StopDone(p)
    <3>1. at[q] = "tidying" /\ at'[q] = "stopped"
      BY <1>0, <1>8, <2>6 DEF StopDone, Go
    <3>2. startLock = q
      BY <2>1, <2>6, <3>1 DEF LockStart, Go
    <3> QED  BY <1>4, <1>5, <1>6, <3>1, <3>2
  <2> QED  BY <1>2, <1>8, <2>2, <2>3, <2>4, <2>5, <2>6, RolesDiffer DEF ViewerStep, InheritLock, Admit, Prepare, Listen,
           ServeLock, ServeJournal, ServeRoute, ServeVerify, PublishViewer, BeginClosing, CloseReader, ReportFailure, Unlist,
           EnsureFound, EnsureClear, SpawnViewer, EnsureReady, EnsureGivesUp, KillGroup, EnsureFailed
<1> QED  BY <1>7, <1>8

ViewerSound == ViewerInv /\ ListensLater

LEMMA ViewerKillStep ==
  ASSUME ViewerSound, NEW p \in Actor, KillProcess(p)
  PROVE  ViewerSound'
<1>1. ViewerForm /\ RouteIsLocked /\ RouteIsJournalled /\ StartIsHeld /\ SpawnedIsWatched /\ ListenerIsKnown /\ StopIsQuiet /\ ListensLater
  BY DEF ViewerSound, ViewerInv
<1>2. /\ at' = at /\ startLock' = startLock /\ journal' = journal /\ viewerJson' = viewerJson /\ trouble' = trouble
      /\ serve' = serve /\ nodeLock' = nodeLock /\ swept' = swept
      /\ p \in up /\ up' = up \ {p} /\ listening' = listening \ {p}
      /\ late' = (IF at[p] = "serving" THEN p ELSE late)
  BY DEF KillProcess, Dies, files
<1>3. strays' = {} => strays = {} /\ (p \in Ensurer => at[p] \notin Launching)
  BY DEF KillProcess, Launching
<1>4. ViewerForm' /\ StartIsHeld' /\ RouteIsJournalled' /\ ListensLater'
  BY <1>1, <1>2 DEF ViewerForm, StartIsHeld, RouteIsJournalled, ListensLater
<1>5. at[p] = "serving" => p \in Viewer /\ p # NoOne /\ nodeLock = p /\ serve # Foreign /\ (journal = p \/ p \in swept)
  BY <1>1, <1>2, PlaceTells, RolesDiffer DEF Beginning, RouteIsLocked
<1>6. RouteIsLocked'
  BY <1>1, <1>2, <1>5 DEF RouteIsLocked
<1>7. SpawnedIsWatched'
  BY <1>1, <1>2, <1>3 DEF SpawnedIsWatched
<1>8. ListenerIsKnown'
  <2>1. \A v \in Viewer : v # p /\ Held(v) /\ strays' = {} => Held(v)'
    BY <1>2, <1>3 DEF Held
  <2>2. listening \subseteq Viewer
    BY <1>1 DEF ViewerForm
  <2> QED  BY <1>1, <1>2, <1>3, <2>1, <2>2 DEF ListenerIsKnown
<1>9. StopIsQuiet'
  <2>1. ASSUME strays = {}, at[p] = "serving", NEW q \in Closer, q \in up, startLock = q PROVE FALSE
    <3>1. Held(p) /\ p \in Viewer
      BY <1>1, <1>2, <1>5, <2>1, HeldStarting DEF Beginning
    <3> QED  BY <1>1, <2>1, <3>1, HeldAlone, RolesDiffer
  <2> QED  BY <1>1, <1>2, <1>3, <2>1 DEF StopIsQuiet
<1> QED  BY <1>4, <1>6, <1>7, <1>8, <1>9 DEF ViewerSound, ViewerInv

LEMMA OutsideStep ==
  ASSUME ViewerSound, LateCommand \/ ByHand \/ FreeNode \/ (\E v \in Actor : AskedToClose(v)) \/ UNCHANGED viewerVars
  PROVE  ViewerSound'
<1>1. ViewerForm /\ RouteIsLocked /\ RouteIsJournalled /\ StartIsHeld /\ SpawnedIsWatched /\ ListenerIsKnown /\ StopIsQuiet /\ ListensLater
  BY DEF ViewerSound, ViewerInv
<1>2. /\ at' = at /\ startLock' = startLock /\ journal' = journal /\ viewerJson' = viewerJson /\ up' = up
      /\ strays' = strays /\ listening' = listening /\ swept' = swept /\ trouble' \in Nat
  BY <1>1 DEF ViewerForm, LateCommand, ByHand, FreeNode, AskedToClose, viewerVars, procs, files, network, Trouble
<1>3. ViewerForm' /\ StartIsHeld' /\ SpawnedIsWatched' /\ ListensLater'
  BY <1>1, <1>2 DEF ViewerForm, StartIsHeld, SpawnedIsWatched, ListensLater
<1>4. ListenerIsKnown'
  BY <1>1, <1>2 DEF ListenerIsKnown, Held
<1>5. RouteIsLocked' /\ RouteIsJournalled' /\ StopIsQuiet'
  <2>1. CASE LateCommand
    <3>1. late # NoOne /\ late' = NoOne /\ serve' = late /\ nodeLock' = nodeLock /\ late \in Viewer \ up /\ late # Foreign
          /\ nodeLock = late /\ (journal = late \/ late \in swept)
      BY <1>1, <2>1, RolesDiffer DEF LateCommand, RouteIsLocked
    <3> QED  BY <1>1, <1>2, <3>1 DEF RouteIsLocked, RouteIsJournalled, StopIsQuiet
  <2>2. CASE ByHand
    <3>1. nodeLock = NoOne /\ late = NoOne /\ serve' \in {NoOne, Foreign} /\ late' = late /\ nodeLock' = nodeLock
      BY <2>2 DEF ByHand
    <3>2. \A v \in Viewer \cap up : at[v] \notin {"serving", "verifying"}
      BY <1>1, <3>1, RolesDiffer DEF RouteIsLocked
    <3>3. NoOne \notin Viewer /\ Foreign \notin Viewer
      BY RolesDiffer
    <3> QED  BY <1>1, <1>2, <3>1, <3>2, <3>3 DEF RouteIsLocked, RouteIsJournalled, StopIsQuiet
  <2>3. CASE FreeNode
    <3>1. nodeLock \notin up /\ late = NoOne /\ late' = late /\ serve' = serve
      BY <2>3 DEF FreeNode
    <3>2. \A v \in Viewer \cap up : at[v] \notin {"serving", "verifying"}
      BY <1>1, <3>1 DEF RouteIsLocked
    <3> QED  BY <1>1, <1>2, <3>1, <3>2 DEF RouteIsLocked, RouteIsJournalled, StopIsQuiet
  <2>4. CASE (\E v \in Actor : AskedToClose(v)) \/ UNCHANGED viewerVars
    <3>1. late' = late /\ serve' = serve /\ nodeLock' = nodeLock
      BY <2>4 DEF AskedToClose, viewerVars, network
    <3> QED  BY <1>1, <1>2, <3>1 DEF RouteIsLocked, RouteIsJournalled, StopIsQuiet
  <2> QED  BY <2>1, <2>2, <2>3, <2>4
<1> QED  BY <1>1, <1>3, <1>4, <1>5 DEF ViewerSound, ViewerInv

LEMMA ViewerStepSound ==
  ASSUME ViewerSound, NEW p \in Actor, ViewerStep(p)
  PROVE  ViewerSound'
<1>1. ViewerInv /\ ListensLater /\ ViewerForm /\ RouteInv /\ StartIsHeld /\ SpawnedIsWatched /\ ListenerIsKnown
  BY DEF ViewerSound, ViewerInv, RouteInv
<1>2. ViewerForm'
  BY <1>1, ViewerFormStep
<1>3. RouteInv' /\ StartIsHeld' /\ SpawnedIsWatched' /\ ListensLater'
  BY <1>1, RouteStep, StartIsHeldStep, SpawnedStep, ListensLaterStep
<1>4. ListenerIsKnown' /\ StopIsQuiet'
  BY <1>1, <1>2, ListenerStep, StopStep
<1> QED  BY <1>2, <1>3, <1>4 DEF ViewerSound, ViewerInv, RouteInv

LEMMA ViewerAlwaysSound == ViewerSpec => []ViewerSound
<1>1. ViewerInit => ViewerSound
  <2> SUFFICES ASSUME ViewerInit PROVE ViewerSound
    OBVIOUS
  <2>1. ViewerForm
    BY RolesDiffer DEF ViewerInit, ViewerForm, RoleOf, Beginning, Launched
  <2>2. RouteIsLocked /\ RouteIsJournalled /\ StartIsHeld /\ ListensLater
    BY RolesDiffer DEF ViewerInit, RouteIsLocked, RouteIsJournalled, StartIsHeld, ListensLater, Holding, Beginning, Launching
  <2>3. SpawnedIsWatched
    BY RolesDiffer DEF ViewerInit, SpawnedIsWatched
  <2>4. ListenerIsKnown /\ StopIsQuiet
    BY RolesDiffer DEF ViewerInit, ListenerIsKnown, StopIsQuiet, Beginning
  <2> QED  BY <2>1, <2>2, <2>3, <2>4 DEF ViewerSound, ViewerInv
<1>2. ASSUME ViewerSound, [ViewerNext]_viewerVars PROVE ViewerSound'
  BY <1>2, ViewerStepSound, ViewerKillStep, OutsideStep DEF ViewerNext
<1> QED  BY <1>1, <1>2, PTL DEF ViewerSpec

\* A viewer and what it exposes can be found and ended by the next command, across
\* kills in the middle of a command and changes of the route by hand
\* (viewer-process.ts, viewer-server.ts, viewer-tailscale.ts).
THEOREM ViewerIsAccountedAlways == ViewerSpec => []ViewerIsAccounted
<1>1. ASSUME ViewerSound PROVE ViewerIsAccounted
  <2>1. ViewerForm /\ RouteIsJournalled /\ ListenerIsKnown /\ StopIsQuiet
    BY <1>1 DEF ViewerSound, ViewerInv
  <2>2. OneViewer
    BY <2>1 DEF OneViewer, ListenerIsKnown
  <2>3. StoppedIsClosed
    BY <2>1 DEF StoppedIsClosed, StopIsQuiet
  <2> QED  BY <2>1, <2>2, <2>3 DEF ViewerIsAccounted
<1> QED  BY <1>1, ViewerAlwaysSound, PTL

\* A root route that somebody else set is never turned off or replaced
\* (viewer-tailscale.ts, `cleanupTailscale`, `startTailscale`).
THEOREM ForeignRouteKeptAlways == ViewerSpec => ForeignRouteKept
<1>1. ASSUME ViewerSound, [ViewerNext]_viewerVars
      PROVE  [serve = Foreign => serve' = Foreign \/ trouble' > trouble]_viewerVars
  <2> SUFFICES ASSUME ViewerNext, serve = Foreign, serve' # Foreign PROVE trouble' > trouble
    BY <1>1
  <2>1. ViewerForm /\ RouteIsLocked /\ trouble \in Nat
    BY <1>1 DEF ViewerSound, ViewerInv, ViewerForm
  <2>2. ASSUME NEW p \in Actor, ViewerStep(p) PROVE FALSE
    <3>1. at[p] = "serving" => ~(p \in Viewer /\ p \in up)
      BY <2>1 DEF RouteIsLocked
    <3>2. ~ServeRoute(p)
      BY <3>1 DEF ServeRoute, Go
    <3>3. serve' = NoOne => ClearOff(p) \/ ServeVerify(p)
      <4>1. CASE AtTheRoute(p)
        BY RolesDiffer, <3>2, <4>1 DEF AtTheRoute, ClearLock, ClearDone, ServeLock, ServeJournal, Sweep, files
      <4>2. CASE ~AtTheRoute(p)
        BY <2>1, <2>2, <4>2, RouteAlone, RolesDiffer
      <4> QED  BY <4>1, <4>2
    <3>4. ~ClearOff(p)
      BY <2>1, RolesDiffer DEF ClearOff, OwnsRoute, ViewerForm
    <3>5. ServeVerify(p) => serve' = serve
      BY RolesDiffer DEF ServeVerify
    <3> QED  BY <2>2, <3>2, <3>3, <3>4, <3>5, ServeMoves
  <2>3. ~LateCommand
    BY <2>1 DEF LateCommand, RouteIsLocked
  <2>4. ByHand => trouble' > trouble
    BY <2>1 DEF ByHand, Trouble
  <2>5. ~FreeNode /\ \A p \in Actor : ~AskedToClose(p) /\ ~KillProcess(p)
    BY DEF FreeNode, AskedToClose, KillProcess
  <2> QED  BY <2>2, <2>3, <2>4, <2>5 DEF ViewerNext
<1> QED  BY <1>1, ViewerAlwaysSound, PTL DEF ViewerSpec, ForeignRouteKept

-----------------------------------------------------------------------------
(* The catalog.  Whoever holds the registration lock is the only one to      *)
(* change an entry or the intent of a fork, so what a command has checked    *)
(* under the lock still holds when it writes; an identity is drawn only      *)
(* where there is none, and a place that has one is a library, which nobody  *)
(* copies over.                                                              *)

Writing  == {"register", "create", "fork"}
Entering == {"making", "naming", "queueing", "drawing", "named", "publishing"}
Forking  == {"forking", "comparing", "rebinding", "closing intent"}
Inside   == {"holding"} \cup Entering \cup Forking

WishRecord == [kind : Kinds \cup {"none", "select", "prefer"}, place : Place \cup {Blank},
               title : Title \cup {Blank}, ident : Ident \cup {Blank}]
GateRecord == [of : Order \cup {0}, whole : BOOLEAN]
EntryRecord == [place : Place, ident : Ident] \cup {NoEntry}
IntentRecord == [title : Title \cup {Blank}, place : Place, old : Ident \cup {Blank}, new : Ident] \cup {NoIntent}

CatalogForm ==
  /\ order = [c \in Order |-> order[c]] /\ wish \in [Order -> WishRecord]
  /\ gate \in [Place \cup {Registry} -> GateRecord] /\ entry \in [Title -> EntryRecord]
  /\ stands \in [Place -> {"missing", "empty", "library"}] /\ ident \in [Place -> Ident \cup {Blank}]
  /\ scanned \in [Order -> [Title -> EntryRecord]] /\ intent \in IntentRecord /\ drawn \subseteq Ident

\* What a command is about tells where it can be.
KindFits(c) ==
  /\ wish[c].kind \in Kinds => wish[c].place \in Place /\ wish[c].title \in Title
  /\ order[c] \in {"idle", "choosing"} => wish[c].kind = "none"
  /\ order[c] \in {"asking", "holding"} => wish[c].kind \in Writing
  /\ order[c] = "making" => wish[c].kind = "create"
  /\ order[c] \in {"naming", "queueing", "drawing"} => wish[c].kind \in {"serve", "register", "create"}
  /\ order[c] \in {"named", "publishing"} => wish[c].kind \in {"register", "create"}
  /\ order[c] \in Forking => wish[c].kind = "fork"
  /\ order[c] \in {"inspecting", "preferring"} => wish[c].kind \in {"select", "prefer"}

\* Commands that write hold the registration lock.
WriterHolds(c) == order[c] \in Inside /\ wish[c].kind \in Writing => gate[Registry].of = c

OnLibrary(c) ==
  wish[c].kind \in {"register", "serve", "fork"} \/ order[c] \in Entering \ {"making"} => stands[wish[c].place] = "library"

\* What has been checked under the lock.
Checked(c) ==
  /\ order[c] \in Entering /\ wish[c].kind \in Writing => Unregistered(wish[c].title, wish[c].place)
  /\ order[c] \in {"named", "publishing"} =>
       wish[c].ident \in Ident /\ (wish[c].kind = "create" => ident[wish[c].place] = wish[c].ident)
  /\ order[c] = "publishing" => ident[wish[c].place] = wish[c].ident /\ NewToCatalog(c)
  /\ order[c] \in Forking => intent # NoIntent /\ intent.place = wish[c].place
  /\ order[c] \in {"comparing", "rebinding", "closing intent"} => ident[wish[c].place] = intent.new
  /\ order[c] = "rebinding" => Comparable(intent)
  /\ order[c] = "closing intent" => \A t \in Entries : entry[t].place = intent.place => entry[t].ident = intent.new

\* A name that was read is still a name of the same place.
NameLasts(c) ==
  /\ \A t \in Title : scanned[c][t] # NoEntry => t \in Entries /\ entry[t].place = scanned[c][t].place
  /\ order[c] \in {"inspecting", "preferring"}
       \/ (order[c] = "done" /\ wish[c].kind = "select" /\ wish[c].title # Blank)
     => wish[c].title \in Entries /\ entry[wish[c].title].place = wish[c].place

Fine(c) == KindFits(c) /\ WriterHolds(c) /\ OnLibrary(c) /\ Checked(c) /\ NameLasts(c)

\* What is named is a library.
NamedIsLibrary ==
  /\ \A p \in Place : ident[p] # Blank => stands[p] = "library"
  /\ \A t \in Entries : stands[entry[t].place] = "library"

EntriesDiffer == \A t, u \in Entries :
  t # u => entry[t].place # entry[u].place /\ entry[t].ident # entry[u].ident

EntriesAreTrue == \A t \in Entries : intent.place # entry[t].place => ident[entry[t].place] = entry[t].ident

FilesHold == NamedIsLibrary /\ EntriesDiffer /\ EntriesAreTrue /\ preferred \in Entries \cup {Blank}

CatalogInv == CatalogForm /\ (\A c \in Order : Fine(c)) /\ FilesHold

LEMMA BlankIsNothing ==
  /\ Blank \notin Place /\ Blank \notin Title /\ Blank \notin Ident /\ Registry \notin Place
  /\ NoEntry = [place |-> Blank, ident |-> Blank] /\ Order \subseteq Nat /\ 0 \notin Order
  /\ \A e \in EntryRecord : e # NoEntry => e.place \in Place /\ e.ident \in Ident /\ e = [place |-> e.place, ident |-> e.ident]
  /\ \A x \in IntentRecord : x # NoIntent => x.place \in Place /\ x.new \in Ident /\ x.title \in Title \cup {Blank}
  /\ NoIntent.place = Blank /\ NoEntry.place = Blank /\ NoWish \in WishRecord /\ NoWish.kind = "none"
  /\ NoEntries \in [Title -> EntryRecord] /\ \A t \in Title : NoEntries[t] = NoEntry
<1>1. Blank \notin Place /\ Blank \notin Title /\ Blank \notin Ident /\ Registry \notin Place
  BY InboxCatalogAssumption
<1>2. NoEntry = [place |-> Blank, ident |-> Blank] /\ NoIntent.place = Blank /\ NoEntry.place = Blank
  BY DEF NoEntry, NoIntent
<1>3. Order \subseteq Nat /\ 0 \notin Order
  BY InboxCatalogAssumption DEF Order
<1>4. \A e \in EntryRecord : e # NoEntry => e.place \in Place /\ e.ident \in Ident /\ e = [place |-> e.place, ident |-> e.ident]
  BY DEF EntryRecord
<1>5. \A x \in IntentRecord : x # NoIntent => x.place \in Place /\ x.new \in Ident /\ x.title \in Title \cup {Blank}
  BY DEF IntentRecord
<1>6. NoWish \in WishRecord /\ NoWish.kind = "none"
  BY DEF NoWish, WishRecord
<1>7. NoEntries \in [Title -> EntryRecord] /\ \A t \in Title : NoEntries[t] = NoEntry
  BY DEF NoEntries, EntryRecord
<1> QED  BY <1>1, <1>2, <1>3, <1>4, <1>5, <1>6, <1>7

\* Which steps a command takes alone: what they leave to the others.
CommandMoves(c) ==
  /\ \A d \in Order \ {c} : order'[d] = order[d] /\ wish'[d] = wish[d] /\ scanned'[d] = scanned[d]
  /\ \A d \in Order \ {c} : gate[Registry].of = d /\ order[d] # "dead" => gate'[Registry].of = d

\* Nothing that anybody relies on has changed.
Untouched ==
  /\ entry' = entry /\ intent' = intent
  /\ \A p \in Place : (stands[p] = "library" => stands'[p] = "library") /\ (ident[p] # Blank => ident'[p] = ident[p])

LEMMA PassesMoves ==
  ASSUME CatalogForm, NEW c \in Order, NEW from, NEW to, Passes(c, from, to)
  PROVE  order[c] = from /\ order'[c] = to /\ order' = [d \in Order |-> order'[d]] /\ \A d \in Order \ {c} : order'[d] = order[d]
BY DEF CatalogForm, Passes

LEMMA GateMoves ==
  ASSUME CatalogForm, NEW c \in Order, NEW l \in Place \cup {Registry}
  PROVE  /\ OpenGate(c, l) => /\ gate' \in [Place \cup {Registry} -> GateRecord] /\ gate'[l].of = c
                              /\ \A k \in Place \cup {Registry} : k # l => gate'[k] = gate[k]
                              /\ \A d \in Order : gate[l].of = d => order[d] = "dead"
         /\ /\ GateAfter(c, l) \in [Place \cup {Registry} -> GateRecord]
            /\ \A k \in Place \cup {Registry} : gate[k].of # c => GateAfter(c, l)[k] = gate[k]
            /\ \A k \in Place \cup {Registry} : k # l => GateAfter(c, l)[k] = gate[k]
<1>1. gate \in [Place \cup {Registry} -> GateRecord] /\ gate[l] \in GateRecord
  BY DEF CatalogForm
<1>2. Ajar \in GateRecord
  BY DEF Ajar, GateRecord
<1>3. ASSUME OpenGate(c, l)
      PROVE  /\ gate' \in [Place \cup {Registry} -> GateRecord] /\ gate'[l].of = c
             /\ \A k \in Place \cup {Registry} : k # l => gate'[k] = gate[k]
             /\ \A d \in Order : gate[l].of = d => order[d] = "dead"
  <2>1. gate' = [gate EXCEPT ![l] = [gate[l] EXCEPT !.of = c]]
    BY <1>1, <1>3 DEF OpenGate
  <2>2. [gate[l] EXCEPT !.of = c] \in GateRecord /\ [gate[l] EXCEPT !.of = c].of = c
    BY <1>1 DEF GateRecord
  <2>3. \A d \in Order : gate[l].of = d => order[d] = "dead"
    BY <1>3, BlankIsNothing DEF OpenGate
  <2> QED  BY <1>1, <2>1, <2>2, <2>3
<1>4. /\ GateAfter(c, l) \in [Place \cup {Registry} -> GateRecord]
      /\ \A k \in Place \cup {Registry} : gate[k].of # c => GateAfter(c, l)[k] = gate[k]
      /\ \A k \in Place \cup {Registry} : k # l => GateAfter(c, l)[k] = gate[k]
  BY <1>1, <1>2 DEF GateAfter
<1> QED  BY <1>3, <1>4

LEMMA EndsMoves ==
  ASSUME CatalogForm, NEW c \in Order, NEW from, NEW to, Ends(c, from, to)
  PROVE  /\ order[c] = from /\ order'[c] = to /\ order' = [d \in Order |-> order'[d]]
         /\ wish' \in [Order -> WishRecord] /\ wish'[c] = NoWish /\ gate' \in [Place \cup {Registry} -> GateRecord]
         /\ \A d \in Order \ {c} : order'[d] = order[d] /\ wish'[d] = wish[d]
         /\ \A d \in Order \ {c} : gate[Registry].of = d => gate'[Registry].of = d
<1>1. Passes(c, from, to) /\ gate' = GateAfter(c, Registry) /\ wish' = [wish EXCEPT ![c] = NoWish]
  BY DEF Ends, Forgets
<1>2. wish' \in [Order -> WishRecord] /\ wish'[c] = NoWish /\ \A d \in Order \ {c} : wish'[d] = wish[d]
  BY <1>1, BlankIsNothing DEF CatalogForm
<1>3. gate' \in [Place \cup {Registry} -> GateRecord] /\ \A d \in Order \ {c} : gate[Registry].of = d => gate'[Registry].of = d
  <2>1. /\ GateAfter(c, Registry) \in [Place \cup {Registry} -> GateRecord]
        /\ gate[Registry].of # c => GateAfter(c, Registry)[Registry] = gate[Registry]
    BY GateMoves
  <2> QED  BY <1>1, <2>1
<1> QED  BY <1>1, <1>2, <1>3, PassesMoves

\* A command that ends with its wish forgotten is fine.
LEMMA EndedFine ==
  ASSUME NEW c \in Order, order'[c] \in {"done", "failed", "dead"}, wish'[c].kind = "none",
         \A t \in Title : scanned'[c][t] # NoEntry => t \in Entries' /\ entry'[t].place = scanned'[c][t].place
  PROVE  Fine(c)'
BY DEF Fine, KindFits, WriterHolds, OnLibrary, Checked, NameLasts, Kinds, Writing, Inside, Entering, Forking

\* What the others rely on.
LEMMA OthersFine ==
  ASSUME CatalogForm, NamedIsLibrary, NEW c, \A d \in Order : Fine(d), CommandMoves(c),
         \/ Untouched
         \/ /\ c \in Order /\ order[c] \in Inside /\ wish[c].kind \in Writing
            /\ \A t \in Entries : t \in Entries' /\ entry'[t].place = entry[t].place
            /\ \A p \in Place : stands[p] = "library" => stands'[p] = "library",
         NEW d \in Order, d # c
  PROVE  Fine(d)'
<1>1. /\ KindFits(d) /\ WriterHolds(d) /\ OnLibrary(d) /\ Checked(d) /\ NameLasts(d)
      /\ order'[d] = order[d] /\ wish'[d] = wish[d] /\ scanned'[d] = scanned[d]
      /\ gate[Registry].of = d /\ order[d] # "dead" => gate'[Registry].of = d
  BY DEF Fine, CommandMoves
<1>2. /\ \A t \in Entries : t \in Entries' /\ entry'[t].place = entry[t].place
      /\ \A p \in Place : stands[p] = "library" => stands'[p] = "library"
  BY DEF Untouched, Entries
<1>3. KindFits(d)'
  BY <1>1 DEF KindFits
<1>4. WriterHolds(d)'
  BY <1>1 DEF WriterHolds, Inside, Entering, Forking
<1>5. wish[d].place \in Place \/ (wish[d].kind \notin Kinds /\ order[d] \notin Inside)
  BY <1>1 DEF KindFits, Kinds, Inside, Entering, Forking, Writing
<1>6. OnLibrary(d)'
  BY <1>1, <1>2, <1>5 DEF OnLibrary, Kinds, Inside
<1>7. NameLasts(d)'
  BY <1>1, <1>2 DEF NameLasts, CatalogForm
<1>8. Checked(d)'
  <2>1. CASE order[d] \in Inside /\ wish[d].kind \in Writing
    <3>1. Untouched
      BY <1>1, <2>1 DEF Fine, WriterHolds
    <3>2. /\ entry' = entry /\ intent' = intent /\ wish[d].place \in Place
          /\ ident[wish[d].place] # Blank => ident'[wish[d].place] = ident[wish[d].place]
      BY <1>5, <2>1, <3>1 DEF Untouched, Writing, Kinds
    <3>3. intent # NoIntent => intent.new # Blank
      BY BlankIsNothing DEF CatalogForm
    <3>4. order[d] \in Forking => intent # NoIntent
      BY <1>1 DEF Checked
    <3>5. order'[d] \in Entering /\ wish'[d].kind \in Writing => Unregistered(wish[d].title, wish[d].place)'
      BY <1>1, <3>2 DEF Checked, Unregistered, Entries
    <3>6. order'[d] \in {"named", "publishing"} =>
            wish'[d].ident \in Ident /\ (wish'[d].kind = "create" => ident'[wish'[d].place] = wish'[d].ident)
      BY <1>1, <3>2, BlankIsNothing DEF Checked
    <3>7. order'[d] = "publishing" => ident'[wish'[d].place] = wish'[d].ident /\ NewToCatalog(d)'
      BY <1>1, <3>2, BlankIsNothing DEF Checked, NewToCatalog, Entries
    <3>8. order'[d] \in Forking => intent' # NoIntent /\ intent'.place = wish'[d].place
      BY <1>1, <3>2 DEF Checked
    <3>9. order'[d] \in {"comparing", "rebinding", "closing intent"} => ident'[wish'[d].place] = intent'.new
      BY <1>1, <3>2, <3>3, <3>4 DEF Checked, Forking
    <3>10. /\ order'[d] = "rebinding" => Comparable(intent)'
           /\ order'[d] = "closing intent" => \A t \in Entries' : entry'[t].place = intent'.place => entry'[t].ident = intent'.new
      BY <1>1, <3>2 DEF Checked, Comparable, Entries
    <3> QED  BY <1>1, <3>5, <3>6, <3>7, <3>8, <3>9, <3>10 DEF Checked
  <2>2. CASE ~(order[d] \in Inside /\ wish[d].kind \in Writing)
    BY <1>1, <2>2 DEF Checked, KindFits, Inside, Forking, Entering, Writing
  <2> QED  BY <2>1, <2>2
<1> QED  BY <1>3, <1>4, <1>6, <1>7, <1>8 DEF Fine

\* What a step of one command comes to.
CatalogKept(c) ==
  /\ CatalogForm' /\ CommandMoves(c) /\ Fine(c)' /\ FilesHold'
  /\ \/ Untouched
     \/ /\ order[c] \in Inside /\ wish[c].kind \in Writing
        /\ \A t \in Entries : t \in Entries' /\ entry'[t].place = entry[t].place
        /\ \A p \in Place : stands[p] = "library" => stands'[p] = "library"
  /\ \A p \in Place : ident[p] # Blank => ident'[p] \in {ident[p], intent.new}

LEMMA KeptIsInductive ==
  ASSUME CatalogInv, NEW c \in Order, CatalogKept(c)
  PROVE  CatalogInv' /\ \A p \in Place : ident[p] # Blank => ident'[p] \in {ident[p], intent.new}
<1>1. \A d \in Order : d # c => Fine(d)'
  BY OthersFine DEF CatalogInv, CatalogKept, FilesHold
<1> QED  BY <1>1 DEF CatalogInv, CatalogKept

\* A step that changes nothing but where the command is, and the locks.
LEMMA QuietStep ==
  ASSUME CatalogInv, NEW c \in Order, UNCHANGED <<entry, preferred, stands, ident, intent, drawn>>,
         order' = [d \in Order |-> order'[d]], wish' \in [Order -> WishRecord],
         gate' \in [Place \cup {Registry} -> GateRecord], scanned' \in [Order -> [Title -> EntryRecord]],
         CommandMoves(c), Fine(c)'
  PROVE  CatalogKept(c)
<1>1. CatalogForm'
  BY DEF CatalogInv, CatalogForm
<1>2. FilesHold'
  BY DEF CatalogInv, FilesHold, NamedIsLibrary, EntriesDiffer, EntriesAreTrue, Entries
<1>3. Untouched
  BY DEF Untouched
<1>4. \A p \in Place : ident[p] # Blank => ident'[p] \in {ident[p], intent.new}
  OBVIOUS
<1> QED  BY <1>1, <1>2, <1>3, <1>4 DEF CatalogKept

\* A command that fails leaves everything as it found it.
LEMMA FailingStep ==
  ASSUME CatalogInv, NEW c \in Order, NEW from, Ends(c, from, "failed"),
         UNCHANGED <<choices, entry, stands, ident, intent, drawn>>
  PROVE  CatalogKept(c)
<1>1. CatalogForm /\ NameLasts(c) /\ scanned' = scanned
  BY DEF CatalogInv, Fine, choices
<1>2. /\ order'[c] = "failed" /\ order' = [d \in Order |-> order'[d]]
      /\ wish' \in [Order -> WishRecord] /\ wish'[c].kind = "none" /\ gate' \in [Place \cup {Registry} -> GateRecord]
      /\ \A d \in Order \ {c} : order'[d] = order[d] /\ wish'[d] = wish[d]
      /\ \A d \in Order \ {c} : gate[Registry].of = d => gate'[Registry].of = d
  <2>1. /\ order'[c] = "failed" /\ order' = [d \in Order |-> order'[d]]
        /\ wish' \in [Order -> WishRecord] /\ wish'[c] = NoWish /\ gate' \in [Place \cup {Registry} -> GateRecord]
        /\ \A d \in Order \ {c} : order'[d] = order[d] /\ wish'[d] = wish[d]
        /\ \A d \in Order \ {c} : gate[Registry].of = d => gate'[Registry].of = d
    BY <1>1, EndsMoves
  <2> QED  BY <2>1, BlankIsNothing
<1>3. CommandMoves(c)
  BY <1>1, <1>2 DEF CommandMoves
<1>4. Fine(c)'
  <2>1. \A t \in Title : scanned'[c][t] # NoEntry => t \in Entries' /\ entry'[t].place = scanned'[c][t].place
    BY <1>1 DEF NameLasts, Entries
  <2> QED  BY <1>2, <2>1, EndedFine
<1>5. scanned' \in [Order -> [Title -> EntryRecord]] /\ preferred' = preferred
  BY <1>1 DEF CatalogForm, choices
<1> QED  BY <1>2, <1>3, <1>4, <1>5, QuietStep DEF choices

\* A command that goes on with what it has.
LEMMA PassingStep ==
  ASSUME CatalogInv, NEW c \in Order, NEW from, NEW to, Passes(c, from, to),
         UNCHANGED <<choices, wish, entry, stands, ident, intent, drawn>>,
         gate' \in [Place \cup {Registry} -> GateRecord],
         \A d \in Order \ {c} : gate[Registry].of = d /\ order[d] # "dead" => gate'[Registry].of = d,
         KindFits(c)', WriterHolds(c)', OnLibrary(c)', Checked(c)',
         to \notin {"inspecting", "preferring", "done"}
  PROVE  CatalogKept(c)
<1>1. CatalogForm /\ NameLasts(c) /\ scanned' = scanned /\ preferred' = preferred
  BY DEF CatalogInv, Fine, choices
<1>2. order[c] = from /\ order'[c] = to /\ order' = [d \in Order |-> order'[d]] /\ \A d \in Order \ {c} : order'[d] = order[d]
  BY <1>1, PassesMoves
<1>3. CommandMoves(c)
  BY <1>1, <1>2 DEF CommandMoves
<1>4. NameLasts(c)'
  BY <1>1, <1>2 DEF NameLasts, Entries
<1>5. scanned' \in [Order -> [Title -> EntryRecord]] /\ wish' \in [Order -> WishRecord]
  BY <1>1 DEF CatalogForm
<1> QED  BY <1>1, <1>2, <1>3, <1>4, <1>5, QuietStep DEF Fine

LEMMA AskKept ==
  ASSUME CatalogInv, NEW c \in Order, Ask(c)
  PROVE  CatalogKept(c)
<1>1. CatalogForm /\ KindFits(c) /\ NameLasts(c)
  BY DEF CatalogInv, Fine
<1>2. PICK k \in Kinds, p \in Place, t \in Title :
        /\ k \in {"serve", "register", "fork"} => stands[p] = "library"
        /\ wish' = [wish EXCEPT ![c] = [kind |-> k, place |-> p, title |-> t, ident |-> ident[p]]]
        /\ Passes(c, "idle", IF k = "serve" THEN "naming" ELSE "asking")
        /\ UNCHANGED <<choices, gate, entry, stands, ident, intent, drawn, aborts>>
  BY DEF Ask
<1>3. /\ order[c] = "idle" /\ order'[c] = IF k = "serve" THEN "naming" ELSE "asking"
      /\ order' = [d \in Order |-> order'[d]] /\ \A d \in Order \ {c} : order'[d] = order[d]
  BY <1>1, <1>2, PassesMoves
<1>4. /\ wish'[c] = [kind |-> k, place |-> p, title |-> t, ident |-> ident[p]] /\ wish'[c] \in WishRecord
      /\ wish' \in [Order -> WishRecord] /\ \A d \in Order \ {c} : wish'[d] = wish[d]
  <2>1. [kind |-> k, place |-> p, title |-> t, ident |-> ident[p]] \in WishRecord
    BY <1>1 DEF WishRecord, CatalogForm
  <2> QED  BY <1>1, <1>2, <2>1 DEF CatalogForm
<1>5. UNCHANGED <<scanned, preferred, gate, entry, stands, ident, intent, drawn>>
  BY <1>2 DEF choices
<1>6. KindFits(c)' /\ WriterHolds(c)' /\ OnLibrary(c)' /\ Checked(c)'
  <2>1. KindFits(c)'
    BY <1>3, <1>4, <1>5 DEF KindFits, Kinds, Writing, Forking
  <2>2. WriterHolds(c)' /\ Checked(c)'
    BY <1>3, <1>4, <1>5 DEF WriterHolds, Checked, Kinds, Writing, Inside, Entering, Forking
  <2>3. OnLibrary(c)'
    BY <1>2, <1>3, <1>4, <1>5 DEF OnLibrary, Entering, Kinds
  <2> QED  BY <2>1, <2>2, <2>3
<1>7. NameLasts(c)'
  BY <1>1, <1>3, <1>4, <1>5 DEF NameLasts, Entries
<1>8. CommandMoves(c)
  BY <1>3, <1>4, <1>5 DEF CommandMoves
<1>9. gate' \in [Place \cup {Registry} -> GateRecord] /\ scanned' \in [Order -> [Title -> EntryRecord]]
  BY <1>1, <1>5 DEF CatalogForm
<1> QED  BY <1>3, <1>4, <1>5, <1>6, <1>7, <1>8, <1>9, QuietStep DEF Fine

LEMMA EnterKept ==
  ASSUME CatalogInv, NEW c \in Order, EnterCatalog(c)
  PROVE  CatalogKept(c)
<1>1. CASE Ends(c, "asking", "failed")
  BY <1>1, FailingStep DEF EnterCatalog
<1>2. CASE Passes(c, "asking", "holding") /\ OpenGate(c, Registry) /\ UNCHANGED wish
  <2>1. CatalogForm /\ KindFits(c) /\ OnLibrary(c)
    BY DEF CatalogInv, Fine
  <2>2. order[c] = "asking" /\ order'[c] = "holding"
    BY <1>2, <2>1, PassesMoves
  <2>3. /\ gate' \in [Place \cup {Registry} -> GateRecord] /\ gate'[Registry].of = c
        /\ \A d \in Order : gate[Registry].of = d => order[d] = "dead"
    <3>1. Registry \in Place \cup {Registry} /\ OpenGate(c, Registry)
      BY <1>2
    <3> QED  BY <2>1, <3>1, GateMoves
  <2>4. UNCHANGED <<choices, entry, stands, ident, intent, drawn>>
    BY DEF EnterCatalog
  <2>5. KindFits(c)'
    BY <1>2, <2>1, <2>2 DEF KindFits, Forking
  <2>6. WriterHolds(c)' /\ Checked(c)'
    BY <1>2, <2>2, <2>3 DEF WriterHolds, Checked, Entering, Forking
  <2>7. OnLibrary(c)'
    BY <1>2, <2>1, <2>2, <2>4 DEF OnLibrary, Entering
  <2> QED  BY <1>2, <2>3, <2>4, <2>5, <2>6, <2>7, PassingStep
<1> QED  BY <1>1, <1>2 DEF EnterCatalog

\* What holds of a command that goes on under the lock it has.
LEMMA StillHolds ==
  ASSUME CatalogInv, NEW c \in Order, gate' = gate
  PROVE  /\ gate' \in [Place \cup {Registry} -> GateRecord]
         /\ \A d \in Order \ {c} : gate[Registry].of = d /\ order[d] # "dead" => gate'[Registry].of = d
BY DEF CatalogInv, CatalogForm

LEMMA BeginRegisterKept ==
  ASSUME CatalogInv, NEW c \in Order, BeginRegister(c)
  PROVE  CatalogKept(c)
<1>1. UNCHANGED <<choices, entry, stands, ident, intent, drawn>> /\ Is(c, "register") /\ order[c] = "holding"
  BY DEF BeginRegister
<1>2. CASE Ends(c, "holding", "failed")
  BY <1>1, <1>2, FailingStep
<1>3. CASE /\ Unregistered(wish[c].title, Here(c)) /\ UNCHANGED <<gate, wish>>
           /\ Passes(c, "holding", IF wish[c].ident = Blank THEN "naming" ELSE "named")
  <2>1. CatalogForm /\ KindFits(c) /\ OnLibrary(c) /\ WriterHolds(c) /\ wish[c].kind = "register"
    BY <1>1 DEF CatalogInv, Fine, Is
  <2>2. order'[c] = IF wish[c].ident = Blank THEN "naming" ELSE "named"
    BY <1>3, <2>1, PassesMoves
  <2>3. wish[c].ident # Blank => wish[c].ident \in Ident
    BY <2>1 DEF CatalogForm, WishRecord
  <2>4. KindFits(c)'
    BY <1>3, <2>1, <2>2 DEF KindFits, Forking, Kinds
  <2>5. WriterHolds(c)' /\ OnLibrary(c)'
    BY <1>1, <1>3, <2>1, <2>2 DEF WriterHolds, OnLibrary, Inside, Writing
  <2>6. Checked(c)'
    BY <1>1, <1>3, <2>1, <2>2, <2>3 DEF Checked, Forking, Unregistered, Here, Entries
  <2> QED  BY <1>1, <1>3, <2>4, <2>5, <2>6, StillHolds, PassingStep
<1> QED  BY <1>2, <1>3 DEF BeginRegister

LEMMA BeginCreateKept ==
  ASSUME CatalogInv, NEW c \in Order, BeginCreate(c)
  PROVE  CatalogKept(c)
<1>1. UNCHANGED <<choices, entry, stands, ident, intent, drawn>> /\ Is(c, "create") /\ order[c] = "holding"
  BY DEF BeginCreate
<1>2. CASE Ends(c, "holding", "failed")
  BY <1>1, <1>2, FailingStep
<1>3. CASE Unregistered(wish[c].title, Here(c)) /\ UNCHANGED <<gate, wish>> /\ Passes(c, "holding", "making")
  <2>1. CatalogForm /\ KindFits(c) /\ OnLibrary(c) /\ WriterHolds(c) /\ wish[c].kind = "create"
    BY <1>1 DEF CatalogInv, Fine, Is
  <2>2. order'[c] = "making"
    BY <1>3, <2>1, PassesMoves
  <2>4. KindFits(c)'
    BY <1>3, <2>1, <2>2 DEF KindFits, Forking, Kinds
  <2>5. WriterHolds(c)' /\ OnLibrary(c)'
    BY <1>1, <1>3, <2>1, <2>2 DEF WriterHolds, OnLibrary, Inside, Writing
  <2>6. Checked(c)'
    BY <1>1, <1>3, <2>1, <2>2 DEF Checked, Forking, Unregistered, Here, Entries
  <2> QED  BY <1>1, <1>3, <2>4, <2>5, <2>6, StillHolds, PassingStep
<1> QED  BY <1>2, <1>3 DEF BeginCreate

LEMMA MakeLibraryKept ==
  ASSUME CatalogInv, NEW c \in Order, MakeLibrary(c)
  PROVE  CatalogKept(c)
<1>1. /\ CatalogForm /\ KindFits(c) /\ OnLibrary(c) /\ WriterHolds(c) /\ Checked(c) /\ NameLasts(c) /\ FilesHold
      /\ order[c] = "making"
  BY DEF CatalogInv, Fine, MakeLibrary
<1>2. /\ scanned' = scanned /\ preferred' = preferred /\ wish' = wish /\ gate' = gate /\ entry' = entry
      /\ ident' = ident /\ intent' = intent /\ drawn' = drawn
  BY DEF MakeLibrary, choices
<1>3. wish[c].kind = "create" /\ wish[c].place \in Place
  BY <1>1 DEF KindFits, Kinds
<1>4. /\ stands' \in [Place -> {"missing", "empty", "library"}]
      /\ \A p \in Place : stands[p] = "library" => stands'[p] = "library"
      /\ order' = [d \in Order |-> order'[d]] /\ \A d \in Order \ {c} : order'[d] = order[d]
      /\ order'[c] = "making" \/ (order'[c] = "naming" /\ stands'[wish[c].place] = "library")
  <2>1. CASE stands[wish[c].place] = "missing"
    BY <1>1, <1>3, <2>1 DEF MakeLibrary, Here, CatalogForm
  <2>2. CASE stands[wish[c].place] # "missing"
    <3>1. stands' = [stands EXCEPT ![wish[c].place] = "library"] /\ Passes(c, "making", "naming")
      BY <2>2 DEF MakeLibrary, Here
    <3>2. order'[c] = "naming" /\ order' = [d \in Order |-> order'[d]] /\ \A d \in Order \ {c} : order'[d] = order[d]
      BY <1>1, <3>1, PassesMoves
    <3> QED  BY <1>1, <1>3, <3>1, <3>2 DEF CatalogForm
  <2> QED  BY <2>1, <2>2
<1>5. CatalogForm'
  BY <1>1, <1>2, <1>4 DEF CatalogForm
<1>6. CommandMoves(c) /\ Untouched
  BY <1>2, <1>4 DEF CommandMoves, Untouched
<1>7. KindFits(c)' /\ WriterHolds(c)'
  BY <1>1, <1>2, <1>4 DEF KindFits, WriterHolds, Kinds, Writing, Inside, Entering, Forking
<1>8. OnLibrary(c)'
  BY <1>2, <1>3, <1>4 DEF OnLibrary, Entering
<1>9. Checked(c)' /\ NameLasts(c)'
  BY <1>1, <1>2, <1>4 DEF Checked, NameLasts, Entering, Forking, Unregistered, Entries
<1>10. FilesHold'
  <2>1. \A t \in Entries : entry[t].place \in Place
    BY <1>1, BlankIsNothing DEF CatalogForm, Entries
  <2>2. NamedIsLibrary'
    BY <1>1, <1>2, <1>4, <2>1 DEF FilesHold, NamedIsLibrary, Entries
  <2> QED  BY <1>1, <1>2, <2>2 DEF FilesHold, EntriesDiffer, EntriesAreTrue, Entries
<1> QED  BY <1>2, <1>5, <1>6, <1>7, <1>8, <1>9, <1>10 DEF CatalogKept, Fine

LEMMA ReadIdentKept ==
  ASSUME CatalogInv, NEW c \in Order, ReadIdent(c)
  PROVE  CatalogKept(c)
<1>1. /\ CatalogForm /\ KindFits(c) /\ OnLibrary(c) /\ WriterHolds(c) /\ Checked(c) /\ NameLasts(c)
      /\ order[c] = "naming" /\ UNCHANGED <<choices, gate, entry, stands, ident, intent, drawn>>
  BY DEF CatalogInv, Fine, ReadIdent
<1>2. wish[c].kind \in {"serve", "register", "create"} /\ wish[c].place \in Place
  BY <1>1 DEF KindFits, Kinds
<1>3. scanned' = scanned /\ preferred' = preferred
  BY <1>1 DEF choices
<1>4. CASE Passes(c, "naming", "queueing") /\ UNCHANGED wish
  <2>1. order'[c] = "queueing"
    BY <1>1, <1>4, PassesMoves
  <2>2. KindFits(c)' /\ WriterHolds(c)' /\ OnLibrary(c)'
    BY <1>1, <1>4, <2>1 DEF KindFits, WriterHolds, OnLibrary, Kinds, Writing, Inside, Entering, Forking
  <2>3. Checked(c)'
    BY <1>1, <1>4, <2>1 DEF Checked, Entering, Forking, Unregistered, Entries
  <2> QED  BY <1>1, <1>4, <2>2, <2>3, StillHolds, PassingStep
<1>5. CASE Is(c, "serve") /\ Passes(c, "naming", "done") /\ Forgets(c)
  <2>1. order'[c] = "done" /\ order' = [d \in Order |-> order'[d]] /\ \A d \in Order \ {c} : order'[d] = order[d]
    BY <1>1, <1>5, PassesMoves
  <2>2. wish' = [wish EXCEPT ![c] = NoWish] /\ NoWish \in WishRecord /\ NoWish.kind = "none"
    BY <1>5, BlankIsNothing DEF Forgets
  <2>3. wish' \in [Order -> WishRecord] /\ wish'[c].kind = "none" /\ \A d \in Order \ {c} : wish'[d] = wish[d]
    BY <1>1, <2>2 DEF CatalogForm
  <2>4. CommandMoves(c)
    BY <1>1, <1>3, <2>1, <2>3 DEF CommandMoves
  <2>5. \A t \in Title : scanned'[c][t] # NoEntry => t \in Entries' /\ entry'[t].place = scanned'[c][t].place
    BY <1>1, <1>3 DEF NameLasts, Entries
  <2>6. Fine(c)'
    BY <2>1, <2>3, <2>5, EndedFine
  <2>7. gate' \in [Place \cup {Registry} -> GateRecord] /\ scanned' \in [Order -> [Title -> EntryRecord]]
    BY <1>1, <1>3 DEF CatalogForm
  <2> QED  BY <1>1, <1>3, <2>1, <2>3, <2>4, <2>6, <2>7, QuietStep
<1>6. CASE /\ ~Is(c, "serve") /\ Passes(c, "naming", "named") /\ ident[Here(c)] # Blank
           /\ wish' = [wish EXCEPT ![c].ident = ident[Here(c)]]
  <2>1. order'[c] = "named" /\ order' = [d \in Order |-> order'[d]] /\ \A d \in Order \ {c} : order'[d] = order[d]
    BY <1>1, <1>6, PassesMoves
  <2>2. ident[wish[c].place] \in Ident
    BY <1>1, <1>2, <1>6 DEF Here, CatalogForm
  <2>3. /\ wish' \in [Order -> WishRecord] /\ \A d \in Order \ {c} : wish'[d] = wish[d]
        /\ wish'[c].kind = wish[c].kind /\ wish'[c].place = wish[c].place /\ wish'[c].title = wish[c].title
        /\ wish'[c].ident = ident[wish[c].place]
    <3>1. wish' = [wish EXCEPT ![c] = [wish[c] EXCEPT !.ident = ident[wish[c].place]]] /\ wish[c] \in WishRecord
      BY <1>1, <1>6 DEF Here, CatalogForm
    <3>2. [wish[c] EXCEPT !.ident = ident[wish[c].place]] \in WishRecord
      BY <2>2, <3>1 DEF WishRecord
    <3>3. wish'[c] = [wish[c] EXCEPT !.ident = ident[wish[c].place]]
      BY <1>1, <3>1 DEF CatalogForm
    <3>4. /\ wish'[c].kind = wish[c].kind /\ wish'[c].place = wish[c].place /\ wish'[c].title = wish[c].title
          /\ wish'[c].ident = ident[wish[c].place]
      BY <3>1, <3>3 DEF WishRecord
    <3> QED  BY <1>1, <3>1, <3>2, <3>4 DEF CatalogForm
  <2>4. CommandMoves(c)
    BY <1>1, <1>3, <2>1, <2>3 DEF CommandMoves
  <2>5. wish[c].kind \in {"register", "create"}
    BY <1>2, <1>6 DEF Is
  <2>6. KindFits(c)' /\ WriterHolds(c)' /\ OnLibrary(c)'
    BY <1>1, <2>1, <2>3, <2>5 DEF KindFits, WriterHolds, OnLibrary, Kinds, Writing, Inside, Entering, Forking
  <2>7. Checked(c)'
    <3>1. Unregistered(wish[c].title, wish[c].place)'
      BY <1>1, <2>3, <2>5 DEF Checked, Entering, Writing, Unregistered, Entries
    <3> QED  BY <1>1, <2>1, <2>2, <2>3, <3>1 DEF Checked, Entering, Forking
  <2>8. NameLasts(c)'
    BY <1>1, <1>3, <2>1, <2>3 DEF NameLasts, Entries
  <2>9. gate' \in [Place \cup {Registry} -> GateRecord] /\ scanned' \in [Order -> [Title -> EntryRecord]]
    BY <1>1, <1>3 DEF CatalogForm
  <2> QED  BY <1>1, <1>3, <2>1, <2>3, <2>4, <2>6, <2>7, <2>8, <2>9, QuietStep DEF Fine
<1> QED  BY <1>4, <1>5, <1>6 DEF ReadIdent

LEMMA LockIdentKept ==
  ASSUME CatalogInv, NEW c \in Order, LockIdent(c)
  PROVE  CatalogKept(c)
<1>1. /\ CatalogForm /\ KindFits(c) /\ OnLibrary(c) /\ WriterHolds(c) /\ Checked(c)
      /\ order[c] = "queueing" /\ UNCHANGED <<choices, entry, stands, ident, intent, drawn>>
  BY DEF CatalogInv, Fine, LockIdent
<1>2. CASE Ends(c, "queueing", "failed")
  BY <1>1, <1>2, FailingStep
<1>3. CASE Passes(c, "queueing", "drawing") /\ OpenGate(c, Here(c)) /\ UNCHANGED wish
  <2>1. Here(c) \in Place /\ Here(c) # Registry
    BY <1>1, BlankIsNothing DEF KindFits, Kinds, Here
  <2>2. order'[c] = "drawing"
    BY <1>1, <1>3, PassesMoves
  <2>3. gate' \in [Place \cup {Registry} -> GateRecord] /\ gate'[Registry] = gate[Registry]
    <3>1. Here(c) \in Place \cup {Registry} /\ OpenGate(c, Here(c))
      BY <1>3, <2>1
    <3>2. gate' \in [Place \cup {Registry} -> GateRecord] /\ \A k \in Place \cup {Registry} : k # Here(c) => gate'[k] = gate[k]
      BY <1>1, <3>1, GateMoves
    <3> QED  BY <2>1, <3>2
  <2>4. KindFits(c)' /\ OnLibrary(c)'
    BY <1>1, <1>3, <2>2 DEF KindFits, OnLibrary, Kinds, Writing, Inside, Entering, Forking
  <2>5. WriterHolds(c)'
    BY <1>1, <1>3, <2>2, <2>3 DEF WriterHolds, Inside, Entering
  <2>6. Checked(c)'
    BY <1>1, <1>3, <2>2 DEF Checked, Entering, Forking, Unregistered, Entries
  <2> QED  BY <1>1, <1>3, <2>3, <2>4, <2>5, <2>6, PassingStep
<1> QED  BY <1>2, <1>3 DEF LockIdent

LEMMA DrawIdentKept ==
  ASSUME CatalogInv, NEW c \in Order, DrawIdent(c)
  PROVE  CatalogKept(c)
<1>1. /\ CatalogForm /\ KindFits(c) /\ OnLibrary(c) /\ WriterHolds(c) /\ Checked(c) /\ NameLasts(c) /\ FilesHold
      /\ order[c] = "drawing"
  BY DEF CatalogInv, Fine, DrawIdent, Passes
<1>2. /\ scanned' = scanned /\ preferred' = preferred /\ wish' = wish /\ entry' = entry
      /\ stands' = stands /\ intent' = intent
  BY DEF DrawIdent, choices
<1>3. wish[c].place \in Place /\ wish[c].place # Registry /\ stands[wish[c].place] = "library"
  BY <1>1, BlankIsNothing DEF KindFits, Kinds, OnLibrary, Entering
<1>4. /\ ident' \in [Place -> Ident \cup {Blank}] /\ drawn' \subseteq Ident
      /\ \A p \in Place : ident[p] # Blank => ident'[p] = ident[p]
      /\ \A p \in Place : p # wish[c].place => ident'[p] = ident[p]
      /\ ident[wish[c].place] # Blank \/ ident'[wish[c].place] # Blank
  <2>1. CASE SecondLookAt(Here(c)) /\ Ident # drawn /\ ident' = [ident EXCEPT ![Here(c)] = NewIdent] /\ drawn' = drawn \cup {NewIdent}
    <3>1. NewIdent \in Ident
      BY <1>1, <2>1 DEF NewIdent, CatalogForm
    <3>2. ident[wish[c].place] = Blank
      BY <2>1 DEF SecondLookAt, Here
    <3> QED  BY <1>1, <1>3, <2>1, <3>1, <3>2, BlankIsNothing DEF Here, CatalogForm
  <2>2. CASE ~SecondLookAt(Here(c)) /\ UNCHANGED <<ident, drawn>>
    BY <1>1, <2>2 DEF SecondLookAt, Here, CatalogForm
  <2> QED  BY <2>1, <2>2 DEF DrawIdent
<1>5. order'[c] = "naming" /\ order' = [d \in Order |-> order'[d]] /\ \A d \in Order \ {c} : order'[d] = order[d]
  BY <1>1, PassesMoves DEF DrawIdent
<1>6. gate' \in [Place \cup {Registry} -> GateRecord] /\ gate'[Registry] = gate[Registry]
  <2>1. wish[c].place \in Place \cup {Registry} /\ gate' = GateAfter(c, wish[c].place)
    BY <1>3 DEF DrawIdent, Here
  <2>2. /\ GateAfter(c, wish[c].place) \in [Place \cup {Registry} -> GateRecord]
        /\ \A k \in Place \cup {Registry} : k # wish[c].place => GateAfter(c, wish[c].place)[k] = gate[k]
    BY <1>1, <2>1, GateMoves
  <2> QED  BY <1>3, <2>1, <2>2
<1>7. CatalogForm'
  BY <1>1, <1>2, <1>4, <1>5, <1>6 DEF CatalogForm
<1>8. CommandMoves(c) /\ Untouched
  BY <1>2, <1>4, <1>5, <1>6 DEF CommandMoves, Untouched
<1>9. KindFits(c)' /\ WriterHolds(c)' /\ OnLibrary(c)'
  BY <1>1, <1>2, <1>5, <1>6 DEF KindFits, WriterHolds, OnLibrary, Kinds, Writing, Inside, Entering, Forking
<1>10. Checked(c)' /\ NameLasts(c)'
  BY <1>1, <1>2, <1>5 DEF Checked, NameLasts, Entering, Forking, Unregistered, Entries
<1>11. FilesHold'
  <2>1. \A t \in Entries : entry[t].place \in Place /\ entry[t].ident # Blank
    BY <1>1, BlankIsNothing DEF CatalogForm, Entries
  <2>2. NamedIsLibrary'
    BY <1>1, <1>2, <1>3, <1>4 DEF FilesHold, NamedIsLibrary, Entries
  <2>3. EntriesAreTrue'
    BY <1>1, <1>2, <1>4, <2>1 DEF FilesHold, EntriesAreTrue, Entries
  <2> QED  BY <1>1, <1>2, <2>2, <2>3 DEF FilesHold, EntriesDiffer, Entries
<1>12. \A p \in Place : ident[p] # Blank => ident'[p] \in {ident[p], intent.new}
  BY <1>4
<1> QED  BY <1>2, <1>7, <1>8, <1>9, <1>10, <1>11, <1>12 DEF CatalogKept, Fine

LEMMA CheckEntryKept ==
  ASSUME CatalogInv, NEW c \in Order, CheckEntry(c)
  PROVE  CatalogKept(c)
<1>1. /\ CatalogForm /\ KindFits(c) /\ OnLibrary(c) /\ WriterHolds(c) /\ Checked(c)
      /\ order[c] = "named" /\ UNCHANGED <<choices, entry, stands, ident, intent, drawn>>
  BY DEF CatalogInv, Fine, CheckEntry
<1>2. CASE Ends(c, "named", "failed")
  BY <1>1, <1>2, FailingStep
<1>3. CASE NewToCatalog(c) /\ SameLibrary(c) /\ Passes(c, "named", "publishing") /\ UNCHANGED <<gate, wish>>
  <2>1. order'[c] = "publishing"
    BY <1>1, <1>3, PassesMoves
  <2>2. KindFits(c)' /\ WriterHolds(c)' /\ OnLibrary(c)'
    BY <1>1, <1>3, <2>1 DEF KindFits, WriterHolds, OnLibrary, Kinds, Writing, Inside, Entering, Forking
  <2>3. ident[wish[c].place] = wish[c].ident
    BY <1>1, <1>3 DEF Checked, SameLibrary, KindFits, Is, Here
  <2>4. NewToCatalog(c)'
    BY <1>1, <1>3 DEF NewToCatalog, Entries
  <2>5. Checked(c)'
    BY <1>1, <1>3, <2>1, <2>3, <2>4 DEF Checked, Entering, Forking, Unregistered, Entries
  <2> QED  BY <1>1, <1>3, <2>2, <2>5, StillHolds, PassingStep
<1> QED  BY <1>2, <1>3 DEF CheckEntry

LEMMA PublishEntryKept ==
  ASSUME CatalogInv, NEW c \in Order, PublishEntry(c)
  PROVE  CatalogKept(c)
<1> DEFINE t0 == wish[c].title  p0 == wish[c].place  i0 == wish[c].ident
<1>1. /\ CatalogForm /\ KindFits(c) /\ OnLibrary(c) /\ WriterHolds(c) /\ Checked(c) /\ NameLasts(c) /\ FilesHold
      /\ Ends(c, "publishing", "done")
  BY DEF CatalogInv, Fine, PublishEntry
<1>2. /\ scanned' = scanned /\ preferred' = preferred /\ stands' = stands /\ ident' = ident
      /\ intent' = intent /\ drawn' = drawn /\ entry' = [entry EXCEPT ![t0] = [place |-> p0, ident |-> i0]]
  BY DEF PublishEntry, choices, Here
<1>3. /\ order[c] = "publishing" /\ order'[c] = "done" /\ order' = [d \in Order |-> order'[d]]
      /\ wish' \in [Order -> WishRecord] /\ wish'[c] = NoWish /\ gate' \in [Place \cup {Registry} -> GateRecord]
      /\ \A d \in Order \ {c} : order'[d] = order[d] /\ wish'[d] = wish[d]
      /\ \A d \in Order \ {c} : gate[Registry].of = d => gate'[Registry].of = d
  BY <1>1, EndsMoves
<1>4. wish[c].kind \in {"register", "create"} /\ t0 \in Title /\ p0 \in Place
  BY <1>1, <1>3 DEF KindFits, Kinds
<1>5. i0 \in Ident /\ ident[p0] = i0 /\ stands[p0] = "library" /\ NewToCatalog(c) /\ Unregistered(t0, p0)
  BY <1>1, <1>3, <1>4 DEF Checked, OnLibrary, Entering, Writing
<1>6. /\ entry' \in [Title -> EntryRecord] /\ entry'[t0] = [place |-> p0, ident |-> i0] /\ entry'[t0] # NoEntry
      /\ \A t \in Title : t # t0 => entry'[t] = entry[t]
  <2>1. [place |-> p0, ident |-> i0] \in EntryRecord
    BY <1>4, <1>5 DEF EntryRecord
  <2>2. [place |-> p0, ident |-> i0] # NoEntry
    BY <1>4, BlankIsNothing
  <2> QED  BY <1>1, <1>2, <1>4, <2>1, <2>2 DEF CatalogForm
<1>7. entry[t0] = NoEntry /\ \A t \in Entries : entry[t].place # p0 /\ entry[t].ident # i0
  BY <1>5 DEF Unregistered, NewToCatalog
<1>8. \A t \in Entries : t \in Entries' /\ t # t0 /\ entry'[t] = entry[t]
  BY <1>6, <1>7 DEF Entries
<1>9. \A t \in Entries' : t \in Entries \/ t = t0
  BY <1>6 DEF Entries
<1>10. entry'[t0].place = p0 /\ entry'[t0].ident = i0 /\ t0 \in Entries'
  BY <1>4, <1>6 DEF Entries
<1> HIDE DEF t0, p0, i0
<1>11. CatalogForm'
  BY <1>1, <1>2, <1>3, <1>6 DEF CatalogForm
<1>12. CommandMoves(c)
  BY <1>2, <1>3 DEF CommandMoves
<1>13. Fine(c)'
  <2>1. \A t \in Title : scanned'[c][t] # NoEntry => t \in Entries' /\ entry'[t].place = scanned'[c][t].place
    BY <1>1, <1>2, <1>8 DEF NameLasts
  <2> QED  BY <1>3, <2>1, EndedFine, BlankIsNothing
<1>14. FilesHold'
  <2>1. NamedIsLibrary'
    BY <1>1, <1>2, <1>5, <1>8, <1>9, <1>10 DEF FilesHold, NamedIsLibrary
  <2>2. EntriesDiffer'
    BY <1>1, <1>7, <1>8, <1>9, <1>10 DEF FilesHold, EntriesDiffer
  <2>3. EntriesAreTrue'
    BY <1>1, <1>2, <1>5, <1>8, <1>9, <1>10 DEF FilesHold, EntriesAreTrue
  <2> QED  BY <1>1, <1>2, <1>8, <2>1, <2>2, <2>3 DEF FilesHold
<1>15. order[c] \in Inside /\ wish[c].kind \in Writing
  BY <1>3, <1>4 DEF Inside, Entering, Writing
<1> QED  BY <1>2, <1>8, <1>11, <1>12, <1>13, <1>14, <1>15 DEF CatalogKept

LEMMA BeginForkKept ==
  ASSUME CatalogInv, NEW c \in Order, BeginFork(c)
  PROVE  CatalogKept(c)
<1> DEFINE p0 == wish[c].place  old == wish[c].ident
<1>1. /\ CatalogForm /\ KindFits(c) /\ OnLibrary(c) /\ WriterHolds(c) /\ Checked(c) /\ NameLasts(c) /\ FilesHold
      /\ order[c] = "holding" /\ wish[c].kind = "fork"
  BY DEF CatalogInv, Fine, BeginFork, Is
<1>2. UNCHANGED <<choices, entry, stands, ident>> /\ p0 \in Place /\ old \in Ident \cup {Blank}
  BY <1>1 DEF BeginFork, KindFits, Kinds, CatalogForm, WishRecord
<1>3. scanned' = scanned /\ preferred' = preferred
  BY <1>2 DEF choices
<1>4. CASE /\ intent.place = p0 /\ Passes(c, "holding", "forking") /\ UNCHANGED <<gate, wish, intent, drawn>>
  <2>1. order'[c] = "forking"
    BY <1>1, <1>4, PassesMoves
  <2>2. intent # NoIntent
    BY <1>2, <1>4, BlankIsNothing
  <2>3. KindFits(c)' /\ WriterHolds(c)' /\ OnLibrary(c)'
    BY <1>1, <1>2, <1>4, <2>1 DEF KindFits, WriterHolds, OnLibrary, Kinds, Writing, Inside, Entering, Forking
  <2>4. Checked(c)'
    BY <1>4, <2>1, <2>2 DEF Checked, Entering
  <2> QED  BY <1>2, <1>4, <2>3, <2>4, StillHolds, PassingStep
<1>5. CASE /\ intent = NoIntent /\ Ident # drawn /\ Passes(c, "holding", "forking") /\ UNCHANGED <<gate, wish>>
           /\ intent' = [place |-> p0, old |-> old, new |-> NewIdent,
                         title |-> IF BoundTo(p0) = {} THEN Blank ELSE CHOOSE t \in BoundTo(p0) : TRUE]
           /\ drawn' = drawn \cup {NewIdent}
  <2>1. order'[c] = "forking" /\ order' = [d \in Order |-> order'[d]] /\ \A d \in Order \ {c} : order'[d] = order[d]
    BY <1>1, <1>5, PassesMoves
  <2>2. NewIdent \in Ident
    BY <1>1, <1>5 DEF NewIdent, CatalogForm
  <2>3. (IF BoundTo(p0) = {} THEN Blank ELSE CHOOSE t \in BoundTo(p0) : TRUE) \in Title \cup {Blank}
    <3>1. BoundTo(p0) \subseteq Title
      BY DEF BoundTo, Entries
    <3>2. BoundTo(p0) # {} => (CHOOSE t \in BoundTo(p0) : TRUE) \in BoundTo(p0)
      OBVIOUS
    <3> QED  BY <3>1, <3>2
  <2>4. intent' \in IntentRecord /\ intent'.place = p0 /\ intent' # NoIntent
    <3>1. intent' \in [title : Title \cup {Blank}, place : Place, old : Ident \cup {Blank}, new : Ident]
      BY <1>2, <1>5, <2>2, <2>3
    <3>2. intent'.place = p0
      BY <1>5
    <3> QED  BY <1>2, <3>1, <3>2, BlankIsNothing DEF IntentRecord
  <2>5. CatalogForm'
    BY <1>1, <1>2, <1>3, <1>5, <2>1, <2>2, <2>4 DEF CatalogForm
  <2>6. CommandMoves(c)
    BY <1>3, <1>5, <2>1 DEF CommandMoves
  <2>7. KindFits(c)' /\ WriterHolds(c)' /\ OnLibrary(c)'
    BY <1>1, <1>2, <1>5, <2>1 DEF KindFits, WriterHolds, OnLibrary, Kinds, Writing, Inside, Entering, Forking
  <2>8. Checked(c)'
    BY <1>5, <2>1, <2>4 DEF Checked, Entering
  <2>9. NameLasts(c)'
    BY <1>1, <1>2, <1>3, <1>5, <2>1 DEF NameLasts, Entries
  <2>10. FilesHold'
    <3>1. \A t \in Entries : entry[t].place \in Place
      BY <1>1, BlankIsNothing DEF CatalogForm, Entries
    <3>2. EntriesAreTrue'
      BY <1>1, <1>2, <1>5, <3>1, BlankIsNothing DEF FilesHold, EntriesAreTrue, Entries
    <3> QED  BY <1>1, <1>2, <1>3, <3>2 DEF FilesHold, NamedIsLibrary, EntriesDiffer, Entries
  <2>11. order[c] \in Inside /\ wish[c].kind \in Writing
    BY <1>1 DEF Inside, Writing
  <2>12. \A t \in Entries : t \in Entries' /\ entry'[t].place = entry[t].place
    BY <1>2 DEF Entries
  <2> QED  BY <1>2, <2>5, <2>6, <2>7, <2>8, <2>9, <2>10, <2>11, <2>12 DEF CatalogKept, Fine
<1>6. CASE Ends(c, "holding", "failed") /\ UNCHANGED <<intent, drawn>>
  BY <1>2, <1>6, FailingStep
<1> QED  BY <1>4, <1>5, <1>6 DEF BeginFork, Here

\* A fork's own step: it has the lock, and the intent is about its library.
LEMMA OfFork ==
  ASSUME CatalogInv, NEW c \in Order, order[c] \in Forking
  PROVE  /\ CatalogForm /\ KindFits(c) /\ OnLibrary(c) /\ WriterHolds(c) /\ Checked(c) /\ NameLasts(c) /\ FilesHold
         /\ wish[c].kind = "fork" /\ wish[c].place \in Place /\ stands[wish[c].place] = "library"
         /\ order[c] \in Inside /\ wish[c].kind \in Writing
         /\ intent # NoIntent /\ intent \in IntentRecord /\ intent.place = wish[c].place
         /\ intent.new \in Ident /\ intent.title \in Title \cup {Blank}
<1>1. CatalogForm /\ KindFits(c) /\ OnLibrary(c) /\ WriterHolds(c) /\ Checked(c) /\ NameLasts(c) /\ FilesHold
  BY DEF CatalogInv, Fine
<1>2. wish[c].kind = "fork" /\ wish[c].place \in Place /\ stands[wish[c].place] = "library"
  BY <1>1 DEF KindFits, OnLibrary, Kinds
<1>3. order[c] \in Inside /\ wish[c].kind \in Writing
  BY <1>2 DEF Inside, Writing
<1>4. intent # NoIntent /\ intent \in IntentRecord /\ intent.place = wish[c].place
  BY <1>1 DEF Checked, CatalogForm
<1> QED  BY <1>1, <1>2, <1>3, <1>4, BlankIsNothing

LEMMA ForkLibraryKept ==
  ASSUME CatalogInv, NEW c \in Order, ForkLibrary(c)
  PROVE  CatalogKept(c)
<1> DEFINE p0 == wish[c].place
<1>1. order[c] = "forking" /\ order[c] \in Forking /\ UNCHANGED <<choices, entry, stands, intent, drawn>>
  BY DEF ForkLibrary, Forking
<1>2. /\ CatalogForm /\ KindFits(c) /\ OnLibrary(c) /\ WriterHolds(c) /\ Checked(c) /\ NameLasts(c) /\ FilesHold
      /\ wish[c].kind = "fork" /\ p0 \in Place /\ stands[p0] = "library"
      /\ order[c] \in Inside /\ wish[c].kind \in Writing
      /\ intent # NoIntent /\ intent.place = p0 /\ intent.new \in Ident
  BY <1>1, OfFork
<1>3. CASE Ends(c, "forking", "failed") /\ UNCHANGED ident
  BY <1>1, <1>3, FailingStep
<1>4. CASE /\ Passes(c, "forking", "comparing") /\ UNCHANGED <<gate, wish>>
           /\ ident' = [ident EXCEPT ![p0] = intent.new]
  <2>1. order'[c] = "comparing" /\ order' = [d \in Order |-> order'[d]] /\ \A d \in Order \ {c} : order'[d] = order[d]
    BY <1>2, <1>4, PassesMoves
  <2>2. scanned' = scanned /\ preferred' = preferred
    BY <1>1 DEF choices
  <2>3. /\ ident' \in [Place -> Ident \cup {Blank}] /\ ident'[p0] = intent.new
        /\ \A p \in Place : p # p0 => ident'[p] = ident[p]
    BY <1>2, <1>4 DEF CatalogForm
  <2>4. CatalogForm'
    BY <1>1, <1>2, <1>4, <2>1, <2>2, <2>3 DEF CatalogForm
  <2>5. CommandMoves(c)
    BY <1>4, <2>1, <2>2 DEF CommandMoves
  <2>6. KindFits(c)' /\ WriterHolds(c)' /\ OnLibrary(c)'
    BY <1>1, <1>2, <1>4, <2>1 DEF KindFits, WriterHolds, OnLibrary, Kinds, Writing, Inside, Entering, Forking
  <2>7. Checked(c)'
    BY <1>1, <1>2, <1>4, <2>1, <2>3 DEF Checked, Entering
  <2>8. NameLasts(c)'
    BY <1>1, <1>2, <1>4, <2>1, <2>2 DEF NameLasts, Entries
  <2>9. FilesHold'
    <3>1. \A t \in Entries : entry[t].place \in Place
      BY <1>2, BlankIsNothing DEF CatalogForm, Entries
    <3>2. NamedIsLibrary'
      BY <1>1, <1>2, <2>3 DEF FilesHold, NamedIsLibrary, Entries
    <3>3. EntriesAreTrue'
      BY <1>1, <1>2, <2>3, <3>1 DEF FilesHold, EntriesAreTrue, Entries
    <3> QED  BY <1>1, <1>2, <2>2, <3>2, <3>3 DEF FilesHold, EntriesDiffer, Entries
  <2>10. \A p \in Place : ident[p] # Blank => ident'[p] \in {ident[p], intent.new}
    BY <2>3
  <2>11. \A t \in Entries : t \in Entries' /\ entry'[t].place = entry[t].place
    BY <1>1 DEF Entries
  <2> QED  BY <1>1, <1>2, <2>4, <2>5, <2>6, <2>7, <2>8, <2>9, <2>10, <2>11 DEF CatalogKept, Fine
<1> QED  BY <1>3, <1>4 DEF ForkLibrary, Here

LEMMA CompareEntriesKept ==
  ASSUME CatalogInv, NEW c \in Order, CompareEntries(c)
  PROVE  CatalogKept(c)
<1>1. order[c] = "comparing" /\ order[c] \in Forking /\ UNCHANGED <<choices, entry, stands, ident, intent, drawn>>
  BY DEF CompareEntries, Forking
<1>2. /\ CatalogForm /\ KindFits(c) /\ OnLibrary(c) /\ WriterHolds(c) /\ Checked(c)
      /\ wish[c].kind = "fork"
  BY <1>1, OfFork
<1>3. CASE Ends(c, "comparing", "failed")
  BY <1>1, <1>3, FailingStep
<1>4. CASE Comparable(intent) /\ Passes(c, "comparing", "rebinding") /\ UNCHANGED <<gate, wish>>
  <2>1. order'[c] = "rebinding"
    BY <1>2, <1>4, PassesMoves
  <2>2. KindFits(c)' /\ WriterHolds(c)' /\ OnLibrary(c)'
    BY <1>1, <1>2, <1>4, <2>1 DEF KindFits, WriterHolds, OnLibrary, Kinds, Writing, Inside, Entering, Forking
  <2>3. Comparable(intent)'
    BY <1>1, <1>4 DEF Comparable, Entries
  <2>4. Checked(c)'
    BY <1>1, <1>2, <1>4, <2>1, <2>3 DEF Checked, Entering, Forking
  <2> QED  BY <1>1, <1>4, <2>2, <2>4, StillHolds, PassingStep
<1> QED  BY <1>3, <1>4 DEF CompareEntries

LEMMA RebindKept ==
  ASSUME CatalogInv, NEW c \in Order, Rebind(c)
  PROVE  CatalogKept(c)
<1> DEFINE t0 == intent.title  p0 == intent.place  n0 == intent.new
<1>1. /\ order[c] = "rebinding" /\ order[c] \in Forking /\ Passes(c, "rebinding", "closing intent")
      /\ UNCHANGED <<wish, gate, stands, ident, intent, drawn>> /\ scanned' = scanned /\ preferred' = preferred
      /\ entry' = IF t0 = Blank THEN entry ELSE [entry EXCEPT ![t0].ident = n0]
  BY DEF Rebind, Passes, Forking, choices
<1>2. /\ CatalogForm /\ KindFits(c) /\ OnLibrary(c) /\ WriterHolds(c) /\ Checked(c) /\ NameLasts(c) /\ FilesHold
      /\ wish[c].kind = "fork" /\ p0 \in Place /\ stands[p0] = "library"
      /\ order[c] \in Inside /\ wish[c].kind \in Writing
      /\ intent # NoIntent /\ wish[c].place = p0 /\ n0 \in Ident /\ t0 \in Title \cup {Blank}
  BY <1>1, OfFork
<1>3. Comparable(intent) /\ ident[p0] = n0
  BY <1>1, <1>2 DEF Checked
<1>4. \A t \in Entries \ {t0} : entry[t].place # p0 /\ entry[t].ident # n0
  BY <1>3 DEF Comparable
<1>5. t0 # Blank => t0 \in Entries /\ entry[t0].place = p0
  BY <1>2, <1>3, BlankIsNothing DEF Comparable, Entries
<1>6. /\ entry' \in [Title -> EntryRecord] /\ \A t \in Title : t # t0 => entry'[t] = entry[t]
      /\ t0 # Blank => entry'[t0].place = p0 /\ entry'[t0].ident = n0 /\ entry'[t0] # NoEntry
  <2>1. CASE t0 = Blank
    BY <1>1, <1>2, <2>1, BlankIsNothing DEF CatalogForm
  <2>2. CASE t0 # Blank
    <3>1. entry[t0] \in EntryRecord /\ entry[t0] # NoEntry /\ t0 \in Title
      BY <1>2, <1>5, <2>2 DEF CatalogForm, Entries
    <3>2. entry[t0] = [place |-> entry[t0].place, ident |-> entry[t0].ident]
      BY <3>1, BlankIsNothing
    <3>3. [entry[t0] EXCEPT !.ident = n0] = [place |-> p0, ident |-> n0]
      BY <1>5, <2>2, <3>2
    <3>4. [place |-> p0, ident |-> n0] \in EntryRecord /\ [place |-> p0, ident |-> n0] # NoEntry
      BY <1>2, BlankIsNothing DEF EntryRecord
    <3>5. entry' = [entry EXCEPT ![t0] = [place |-> p0, ident |-> n0]]
      BY <1>1, <2>2, <3>3
    <3> QED  BY <1>2, <3>1, <3>4, <3>5 DEF CatalogForm
  <2> QED  BY <2>1, <2>2
<1>7. Entries' = Entries /\ (\A t \in Entries : entry'[t].place = entry[t].place) /\ \A t \in Entries \ {t0} : entry'[t] = entry[t]
  BY <1>2, <1>5, <1>6, BlankIsNothing DEF Entries
<1>8. t0 \in Entries => entry'[t0].place = p0 /\ entry'[t0].ident = n0
  BY <1>6, BlankIsNothing DEF Entries
<1>9. order'[c] = "closing intent" /\ order' = [d \in Order |-> order'[d]] /\ \A d \in Order \ {c} : order'[d] = order[d]
  BY <1>1, <1>2, PassesMoves
<1>10. CatalogForm'
  BY <1>1, <1>2, <1>6, <1>9 DEF CatalogForm
<1>11. CommandMoves(c)
  BY <1>1, <1>9 DEF CommandMoves
<1>12. KindFits(c)' /\ WriterHolds(c)' /\ OnLibrary(c)'
  BY <1>1, <1>2, <1>9 DEF KindFits, WriterHolds, OnLibrary, Kinds, Writing, Inside, Entering, Forking
<1>13. \A t \in Entries' : entry'[t].place = p0 => entry'[t].ident = n0
  BY <1>4, <1>7, <1>8
<1>14. Checked(c)'
  BY <1>1, <1>2, <1>3, <1>9, <1>13 DEF Checked, Entering
<1>15. NameLasts(c)'
  BY <1>1, <1>2, <1>7, <1>9 DEF NameLasts
<1>16. FilesHold'
  <2>1. NamedIsLibrary'
    BY <1>1, <1>2, <1>7 DEF FilesHold, NamedIsLibrary
  <2>2. EntriesDiffer'
    BY <1>2, <1>4, <1>7, <1>8 DEF FilesHold, EntriesDiffer
  <2>3. EntriesAreTrue'
    BY <1>1, <1>2, <1>7, <1>8 DEF FilesHold, EntriesAreTrue
  <2> QED  BY <1>1, <1>2, <1>7, <2>1, <2>2, <2>3 DEF FilesHold
<1>17. /\ \A t \in Entries : t \in Entries' /\ entry'[t].place = entry[t].place
       /\ \A p \in Place : stands[p] = "library" => stands'[p] = "library"
       /\ \A p \in Place : ident[p] # Blank => ident'[p] \in {ident[p], intent.new}
  BY <1>1, <1>7
<1> QED  BY <1>2, <1>10, <1>11, <1>12, <1>14, <1>15, <1>16, <1>17 DEF CatalogKept, Fine

LEMMA CloseIntentKept ==
  ASSUME CatalogInv, NEW c \in Order, CloseIntent(c)
  PROVE  CatalogKept(c)
<1>1. /\ Ends(c, "closing intent", "done") /\ order[c] = "closing intent" /\ order[c] \in Forking /\ intent' = NoIntent
      /\ UNCHANGED <<entry, stands, ident, drawn>> /\ scanned' = scanned /\ preferred' = preferred
  BY DEF CloseIntent, Ends, Passes, Forking, choices
<1>2. /\ CatalogForm /\ Checked(c) /\ NameLasts(c) /\ FilesHold
      /\ order[c] \in Inside /\ wish[c].kind \in Writing /\ intent.place = wish[c].place
  BY <1>1, OfFork
<1>3. /\ order'[c] = "done" /\ order' = [d \in Order |-> order'[d]]
      /\ wish' \in [Order -> WishRecord] /\ wish'[c] = NoWish /\ gate' \in [Place \cup {Registry} -> GateRecord]
      /\ \A d \in Order \ {c} : order'[d] = order[d] /\ wish'[d] = wish[d]
      /\ \A d \in Order \ {c} : gate[Registry].of = d => gate'[Registry].of = d
  BY <1>1, <1>2, EndsMoves
<1>4. CatalogForm'
  BY <1>1, <1>2, <1>3 DEF CatalogForm, IntentRecord
<1>5. CommandMoves(c)
  BY <1>1, <1>3 DEF CommandMoves
<1>6. Fine(c)'
  <2>1. \A t \in Title : scanned'[c][t] # NoEntry => t \in Entries' /\ entry'[t].place = scanned'[c][t].place
    BY <1>1, <1>2 DEF NameLasts, Entries
  <2> QED  BY <1>3, <2>1, EndedFine, BlankIsNothing
<1>7. FilesHold'
  <2>1. ident[intent.place] = intent.new /\ \A t \in Entries : entry[t].place = intent.place => entry[t].ident = intent.new
    BY <1>1, <1>2 DEF Checked
  <2>2. EntriesAreTrue'
    BY <1>1, <1>2, <2>1 DEF FilesHold, EntriesAreTrue, Entries
  <2> QED  BY <1>1, <1>2, <2>2 DEF FilesHold, NamedIsLibrary, EntriesDiffer, Entries
<1>8. /\ \A t \in Entries : t \in Entries' /\ entry'[t].place = entry[t].place
      /\ \A p \in Place : stands[p] = "library" => stands'[p] = "library"
      /\ \A p \in Place : ident[p] # Blank => ident'[p] \in {ident[p], intent.new}
  BY <1>1 DEF Entries
<1> QED  BY <1>2, <1>4, <1>5, <1>6, <1>7, <1>8 DEF CatalogKept

\* A step of one that only selects: it changes no file but the default.
LEMMA SelectingStep ==
  ASSUME CatalogInv, NEW c \in Order, UNCHANGED <<gate, entry, stands, ident, intent, drawn>>,
         order' = [d \in Order |-> order'[d]], wish' \in [Order -> WishRecord],
         scanned' \in [Order -> [Title -> EntryRecord]],
         \A d \in Order \ {c} : order'[d] = order[d] /\ wish'[d] = wish[d] /\ scanned'[d] = scanned[d],
         wish'[c].kind \in {"none", "select", "prefer"},
         order'[c] \in {"choosing", "inspecting", "preferring", "done", "failed"},
         order'[c] = "choosing" => wish'[c].kind = "none",
         order'[c] \in {"inspecting", "preferring"} => wish'[c].kind # "none",
         NameLasts(c)', preferred' \in Entries \cup {Blank}
  PROVE  CatalogKept(c)
<1>1. CatalogForm /\ FilesHold
  BY DEF CatalogInv
<1>2. CatalogForm'
  BY <1>1 DEF CatalogForm
<1>3. CommandMoves(c) /\ Untouched
  BY DEF CommandMoves, Untouched
<1>4. KindFits(c)' /\ WriterHolds(c)' /\ OnLibrary(c)' /\ Checked(c)'
  <2>1. KindFits(c)'
    BY DEF KindFits, Kinds, Forking
  <2>2. WriterHolds(c)' /\ OnLibrary(c)'
    BY DEF WriterHolds, OnLibrary, Inside, Entering, Forking
  <2>3. Checked(c)'
    BY DEF Checked, Entering, Forking
  <2> QED  BY <2>1, <2>2, <2>3
<1>5. FilesHold'
  BY <1>1 DEF FilesHold, NamedIsLibrary, EntriesDiffer, EntriesAreTrue, Entries
<1>6. \A p \in Place : ident[p] # Blank => ident'[p] \in {ident[p], intent.new}
  OBVIOUS
<1> QED  BY <1>2, <1>3, <1>4, <1>5, <1>6 DEF CatalogKept, Fine

\* What a command has read is of the form of a wish.
LEMMA SelectedForm ==
  ASSUME NEW k \in {"select", "prefer"}, NEW t \in Title \cup {Blank}, NEW e,
         e.place \in Place \cup {Blank}, e.ident \in Ident \cup {Blank}
  PROVE  /\ Selected(k, t, e) \in WishRecord
         /\ Selected(k, t, e).kind = k /\ Selected(k, t, e).place = e.place /\ Selected(k, t, e).title = t
BY DEF Selected, WishRecord

LEMMA ScanCatalogKept ==
  ASSUME CatalogInv, NEW c \in Order, ScanCatalog(c)
  PROVE  CatalogKept(c)
<1>1. /\ CatalogForm /\ KindFits(c) /\ NameLasts(c) /\ FilesHold
      /\ Passes(c, "idle", "choosing") /\ scanned' = [scanned EXCEPT ![c] = entry]
      /\ UNCHANGED <<wish, gate, entry, preferred, stands, ident, intent, drawn>>
  BY DEF CatalogInv, Fine, ScanCatalog
<1>2. /\ order[c] = "idle" /\ order'[c] = "choosing" /\ order' = [d \in Order |-> order'[d]]
      /\ \A d \in Order \ {c} : order'[d] = order[d]
  BY <1>1, PassesMoves
<1>3. wish'[c].kind = "none" /\ wish' \in [Order -> WishRecord] /\ preferred' \in Entries \cup {Blank}
  BY <1>1, <1>2 DEF KindFits, CatalogForm, FilesHold
<1>4. /\ scanned' \in [Order -> [Title -> EntryRecord]] /\ scanned'[c] = entry
      /\ \A d \in Order \ {c} : scanned'[d] = scanned[d]
  BY <1>1 DEF CatalogForm
<1>5. NameLasts(c)'
  BY <1>1, <1>2, <1>4 DEF NameLasts, Entries
<1> QED  BY <1>1, <1>2, <1>3, <1>4, <1>5, SelectingStep

LEMMA ChooseNamedKept ==
  ASSUME CatalogInv, NEW c \in Order, ChooseNamed(c)
  PROVE  CatalogKept(c)
<1>1. /\ CatalogForm /\ KindFits(c) /\ NameLasts(c) /\ FilesHold /\ order[c] = "choosing"
      /\ scanned' = [scanned EXCEPT ![c] = NoEntries]
      /\ UNCHANGED <<gate, entry, preferred, stands, ident, intent, drawn>>
  BY DEF CatalogInv, Fine, ChooseNamed
<1>2. /\ scanned' \in [Order -> [Title -> EntryRecord]] /\ \A t \in Title : scanned'[c][t] = NoEntry
      /\ \A d \in Order \ {c} : scanned'[d] = scanned[d]
  BY <1>1, BlankIsNothing DEF CatalogForm
<1>3. preferred' \in Entries \cup {Blank} /\ wish[c].kind = "none" /\ wish \in [Order -> WishRecord]
  BY <1>1 DEF KindFits, CatalogForm, FilesHold
<1>4. PICK t \in Title :
       \/ scanned[c][t] # NoEntry /\ Passes(c, "choosing", "inspecting")
          /\ wish' = [wish EXCEPT ![c] = Selected("select", t, scanned[c][t])]
       \/ scanned[c][t] = NoEntry /\ Passes(c, "choosing", "failed") /\ UNCHANGED wish
  BY DEF ChooseNamed
<1>5. CASE /\ scanned[c][t] # NoEntry /\ Passes(c, "choosing", "inspecting")
           /\ wish' = [wish EXCEPT ![c] = Selected("select", t, scanned[c][t])]
  <2>1. order'[c] = "inspecting" /\ order' = [d \in Order |-> order'[d]] /\ \A d \in Order \ {c} : order'[d] = order[d]
    BY <1>1, <1>5, PassesMoves
  <2>2. scanned[c][t].place \in Place /\ scanned[c][t].ident \in Ident
    BY <1>1, <1>5, BlankIsNothing DEF CatalogForm
  <2>3. Selected("select", t, scanned[c][t]) \in WishRecord /\ Selected("select", t, scanned[c][t]).kind = "select"
        /\ Selected("select", t, scanned[c][t]).place = scanned[c][t].place /\ Selected("select", t, scanned[c][t]).title = t
    BY <2>2, SelectedForm
  <2>4. /\ wish' \in [Order -> WishRecord] /\ wish'[c].kind = "select" /\ wish'[c].title = t
        /\ wish'[c].place = scanned[c][t].place /\ \A d \in Order \ {c} : wish'[d] = wish[d]
    BY <1>3, <1>5, <2>3
  <2>5. NameLasts(c)'
    BY <1>1, <1>2, <1>5, <2>4 DEF NameLasts, Entries
  <2> QED  BY <1>1, <1>2, <1>3, <2>1, <2>4, <2>5, SelectingStep
<1>6. CASE Passes(c, "choosing", "failed") /\ UNCHANGED wish
  <2>1. order'[c] = "failed" /\ order' = [d \in Order |-> order'[d]] /\ \A d \in Order \ {c} : order'[d] = order[d]
    BY <1>1, <1>6, PassesMoves
  <2>2. NameLasts(c)'
    BY <1>2, <2>1 DEF NameLasts
  <2> QED  BY <1>1, <1>2, <1>3, <1>6, <2>1, <2>2, SelectingStep
<1> QED  BY <1>4, <1>5, <1>6

LEMMA ChoosePlaceKept ==
  ASSUME CatalogInv, NEW c \in Order, ChoosePlace(c)
  PROVE  CatalogKept(c)
<1>1. /\ CatalogForm /\ KindFits(c) /\ NameLasts(c) /\ FilesHold /\ order[c] = "choosing"
      /\ scanned' = [scanned EXCEPT ![c] = NoEntries]
      /\ UNCHANGED <<gate, entry, preferred, stands, ident, intent, drawn>>
  BY DEF CatalogInv, Fine, ChoosePlace
<1>2. /\ scanned' \in [Order -> [Title -> EntryRecord]] /\ \A t \in Title : scanned'[c][t] = NoEntry
      /\ \A d \in Order \ {c} : scanned'[d] = scanned[d]
  BY <1>1, BlankIsNothing DEF CatalogForm
<1>3. preferred' \in Entries \cup {Blank} /\ wish[c].kind = "none" /\ wish \in [Order -> WishRecord]
  BY <1>1 DEF KindFits, CatalogForm, FilesHold
<1>4. PICK p \in Place :
        IF ListedElsewhere(c, ident[p]) THEN Passes(c, "choosing", "failed") /\ UNCHANGED wish
        ELSE Passes(c, "choosing", "done")
             /\ wish' = [wish EXCEPT ![c] = Selected("select", Blank, [place |-> p, ident |-> ident[p]])]
  BY DEF ChoosePlace
<1>5. CASE Passes(c, "choosing", "done")
           /\ wish' = [wish EXCEPT ![c] = Selected("select", Blank, [place |-> p, ident |-> ident[p]])]
  <2> DEFINE s == Selected("select", Blank, [place |-> p, ident |-> ident[p]])
  <2>1. order'[c] = "done" /\ order' = [d \in Order |-> order'[d]] /\ \A d \in Order \ {c} : order'[d] = order[d]
    BY <1>1, <1>5, PassesMoves
  <2>2. s \in WishRecord /\ s.kind = "select" /\ s.title = Blank
    <3>1. p \in Place /\ ident[p] \in Ident \cup {Blank}
      BY <1>1 DEF CatalogForm
    <3>2. [place |-> p, ident |-> ident[p]].place \in Place \cup {Blank} /\ [place |-> p, ident |-> ident[p]].ident \in Ident \cup {Blank}
      BY <3>1
    <3> QED  BY <3>2, SelectedForm
  <2> HIDE DEF s
  <2>3. /\ wish' \in [Order -> WishRecord] /\ wish'[c].kind = "select" /\ wish'[c].title = Blank
        /\ \A d \in Order \ {c} : wish'[d] = wish[d]
    <3>1. wish' = [wish EXCEPT ![c] = s]
      BY <1>5 DEF s
    <3> QED  BY <1>3, <2>2, <3>1
  <2>4. NameLasts(c)'
    BY <1>2, <2>1, <2>3 DEF NameLasts
  <2> QED  BY <1>1, <1>2, <1>3, <2>1, <2>3, <2>4, SelectingStep
<1>6. CASE Passes(c, "choosing", "failed") /\ UNCHANGED wish
  <2>1. order'[c] = "failed" /\ order' = [d \in Order |-> order'[d]] /\ \A d \in Order \ {c} : order'[d] = order[d]
    BY <1>1, <1>6, PassesMoves
  <2>2. NameLasts(c)'
    BY <1>2, <2>1 DEF NameLasts
  <2> QED  BY <1>1, <1>2, <1>3, <1>6, <2>1, <2>2, SelectingStep
<1> QED  BY <1>4, <1>5, <1>6

LEMMA LookUpKept ==
  ASSUME CatalogInv, NEW c \in Order, LookUp(c)
  PROVE  CatalogKept(c)
<1>1. /\ CatalogForm /\ KindFits(c) /\ NameLasts(c) /\ FilesHold /\ scanned' = scanned
      /\ UNCHANGED <<gate, entry, preferred, stands, ident, intent, drawn>>
  BY DEF CatalogInv, Fine, LookUp, choices
<1>2. scanned' \in [Order -> [Title -> EntryRecord]] /\ preferred' \in Entries \cup {Blank} /\ wish \in [Order -> WishRecord]
  BY <1>1 DEF CatalogForm, FilesHold
<1>3. PICK t \in Title :
       \/ entry[t] # NoEntry /\ Passes(c, "idle", "inspecting")
          /\ wish' = [wish EXCEPT ![c] = Selected("prefer", t, entry[t])]
       \/ entry[t] = NoEntry /\ Passes(c, "idle", "failed") /\ UNCHANGED wish
  BY DEF LookUp
<1>4. CASE /\ entry[t] # NoEntry /\ Passes(c, "idle", "inspecting")
           /\ wish' = [wish EXCEPT ![c] = Selected("prefer", t, entry[t])]
  <2>1. order'[c] = "inspecting" /\ order' = [d \in Order |-> order'[d]] /\ \A d \in Order \ {c} : order'[d] = order[d]
    BY <1>1, <1>4, PassesMoves
  <2>2. entry[t].place \in Place /\ entry[t].ident \in Ident
    BY <1>1, <1>4, BlankIsNothing DEF CatalogForm
  <2>3. Selected("prefer", t, entry[t]) \in WishRecord /\ Selected("prefer", t, entry[t]).kind = "prefer"
        /\ Selected("prefer", t, entry[t]).place = entry[t].place /\ Selected("prefer", t, entry[t]).title = t
    BY <2>2, SelectedForm
  <2>4. /\ wish' \in [Order -> WishRecord] /\ wish'[c].kind = "prefer" /\ wish'[c].title = t
        /\ wish'[c].place = entry[t].place /\ \A d \in Order \ {c} : wish'[d] = wish[d]
    BY <1>2, <1>4, <2>3
  <2>5. NameLasts(c)'
    BY <1>1, <1>4, <2>1, <2>4 DEF NameLasts, Entries
  <2> QED  BY <1>1, <1>2, <2>1, <2>4, <2>5, SelectingStep
<1>5. CASE Passes(c, "idle", "failed") /\ UNCHANGED wish
  <2>1. /\ order[c] = "idle" /\ order'[c] = "failed" /\ order' = [d \in Order |-> order'[d]]
        /\ \A d \in Order \ {c} : order'[d] = order[d]
    BY <1>1, <1>5, PassesMoves
  <2>2. NameLasts(c)'
    BY <1>1, <2>1 DEF NameLasts, Entries
  <2>3. wish[c].kind = "none"
    BY <1>1, <2>1 DEF KindFits
  <2> QED  BY <1>1, <1>2, <1>5, <2>1, <2>2, <2>3, SelectingStep
<1> QED  BY <1>3, <1>4, <1>5

LEMMA InspectKept ==
  ASSUME CatalogInv, NEW c \in Order, Inspect(c)
  PROVE  CatalogKept(c)
<1>1. /\ CatalogForm /\ KindFits(c) /\ NameLasts(c) /\ FilesHold /\ scanned' = scanned /\ order[c] = "inspecting"
      /\ UNCHANGED <<gate, entry, preferred, stands, ident, intent, drawn>>
  BY DEF CatalogInv, Fine, Inspect, choices
<1>2. /\ scanned' \in [Order -> [Title -> EntryRecord]] /\ preferred' \in Entries \cup {Blank} /\ wish \in [Order -> WishRecord]
      /\ wish[c].kind \in {"select", "prefer"}
  BY <1>1 DEF CatalogForm, FilesHold, KindFits
<1>3. CASE UNCHANGED wish /\ Passes(c, "inspecting", IF Is(c, "select") THEN "done" ELSE "preferring")
  <2>1. /\ order'[c] = IF Is(c, "select") THEN "done" ELSE "preferring"
        /\ order' = [d \in Order |-> order'[d]] /\ \A d \in Order \ {c} : order'[d] = order[d]
    BY <1>1, <1>3, PassesMoves
  <2>2. NameLasts(c)'
    BY <1>1, <1>3, <2>1 DEF NameLasts, Entries
  <2> QED  BY <1>1, <1>2, <1>3, <2>1, <2>2, SelectingStep
<1>4. CASE Passes(c, "inspecting", "failed") /\ Forgets(c)
  <2>1. order'[c] = "failed" /\ order' = [d \in Order |-> order'[d]] /\ \A d \in Order \ {c} : order'[d] = order[d]
    BY <1>1, <1>4, PassesMoves
  <2>2. wish' \in [Order -> WishRecord] /\ wish'[c].kind = "none" /\ \A d \in Order \ {c} : wish'[d] = wish[d]
    BY <1>2, <1>4, BlankIsNothing DEF Forgets
  <2>3. NameLasts(c)'
    BY <1>1, <2>1 DEF NameLasts, Entries
  <2> QED  BY <1>1, <1>2, <2>1, <2>2, <2>3, SelectingStep
<1> QED  BY <1>3, <1>4 DEF Inspect

LEMMA PreferInboxKept ==
  ASSUME CatalogInv, NEW c \in Order, PreferInbox(c)
  PROVE  CatalogKept(c)
<1>1. /\ CatalogForm /\ KindFits(c) /\ NameLasts(c) /\ scanned' = scanned /\ order[c] = "preferring"
      /\ Passes(c, "preferring", "done") /\ preferred' = wish[c].title
      /\ UNCHANGED <<wish, gate, entry, stands, ident, intent, drawn>>
  BY DEF CatalogInv, Fine, PreferInbox
<1>2. /\ scanned' \in [Order -> [Title -> EntryRecord]] /\ preferred' \in Entries \cup {Blank} /\ wish \in [Order -> WishRecord]
      /\ wish[c].kind \in {"select", "prefer"}
  BY <1>1 DEF CatalogForm, NameLasts, KindFits
<1>3. order'[c] = "done" /\ order' = [d \in Order |-> order'[d]] /\ \A d \in Order \ {c} : order'[d] = order[d]
  BY <1>1, PassesMoves
<1>4. NameLasts(c)'
  BY <1>1, <1>3 DEF NameLasts, Entries
<1> QED  BY <1>1, <1>2, <1>3, <1>4, SelectingStep

LEMMA AbortKept ==
  ASSUME CatalogInv, NEW c \in Order, Abort(c)
  PROVE  CatalogKept(c)
<1>1. /\ CatalogForm /\ KindFits(c) /\ NameLasts(c) /\ scanned' = scanned /\ preferred' = preferred
      /\ order' = [order EXCEPT ![c] = "dead"] /\ wish' = [wish EXCEPT ![c] = NoWish]
      /\ UNCHANGED <<entry, stands, ident, intent, drawn>>
  BY DEF CatalogInv, Fine, Abort, Forgets, choices
<1>2. order'[c] = "dead" /\ order' = [d \in Order |-> order'[d]] /\ \A d \in Order \ {c} : order'[d] = order[d]
  BY <1>1 DEF CatalogForm
<1>3. wish' \in [Order -> WishRecord] /\ wish'[c].kind = "none" /\ \A d \in Order \ {c} : wish'[d] = wish[d]
  BY <1>1, BlankIsNothing DEF CatalogForm
<1>4. gate' \in [Place \cup {Registry} -> GateRecord] /\ gate'[Registry].of = gate[Registry].of
  <2>1. ASSUME NEW l \in Place \cup {Registry}, gate' = [gate EXCEPT ![l].whole = FALSE]
        PROVE  gate' \in [Place \cup {Registry} -> GateRecord] /\ gate'[Registry].of = gate[Registry].of
    <3>1. gate' = [gate EXCEPT ![l] = [gate[l] EXCEPT !.whole = FALSE]] /\ gate[l] \in GateRecord
      BY <1>1, <2>1 DEF CatalogForm
    <3>2. [gate[l] EXCEPT !.whole = FALSE] \in GateRecord /\ [gate[l] EXCEPT !.whole = FALSE].of = gate[l].of
      BY <3>1 DEF GateRecord
    <3> QED  BY <1>1, <3>1, <3>2 DEF CatalogForm
  <2>2. CASE UNCHANGED gate
    BY <1>1, <2>2 DEF CatalogForm
  <2>3. CASE gate' = [gate EXCEPT ![Registry].whole = FALSE]
    BY <2>1, <2>3
  <2>4. CASE order[c] = "drawing" /\ gate' = [gate EXCEPT ![Here(c)].whole = FALSE]
    <3>1. wish[c].place \in Place
      BY <1>1, <2>4 DEF KindFits, Kinds
    <3> QED  BY <2>1, <2>4, <3>1 DEF Here
  <2> QED  BY <2>2, <2>3, <2>4 DEF Abort
<1>5. CommandMoves(c)
  BY <1>1, <1>2, <1>3, <1>4 DEF CommandMoves
<1>6. Fine(c)'
  <2>1. \A t \in Title : scanned'[c][t] # NoEntry => t \in Entries' /\ entry'[t].place = scanned'[c][t].place
    BY <1>1 DEF NameLasts, Entries
  <2> QED  BY <1>2, <1>3, <2>1, EndedFine
<1>7. scanned' \in [Order -> [Title -> EntryRecord]]
  BY <1>1 DEF CatalogForm
<1> QED  BY <1>1, <1>2, <1>3, <1>4, <1>5, <1>6, <1>7, QuietStep

\* A copy, or a default forgotten, is nobody's step among the commands.
LEMMA OutsideKept ==
  ASSUME CatalogInv, PreferNone \/ \E p, q \in Place : CopyLibrary(p, q)
  PROVE  CatalogInv' /\ \A p \in Place : ident[p] # Blank => ident'[p] \in {ident[p], intent.new}
<1>1. CatalogForm /\ FilesHold /\ NamedIsLibrary /\ \A d \in Order : Fine(d)
  BY DEF CatalogInv, FilesHold
<1>2. ASSUME order' = order, wish' = wish, scanned' = scanned, gate' = gate, Untouched
      PROVE  \A d \in Order : Fine(d)'
  <2>1. ASSUME NEW d \in Order PROVE Fine(d)'
    <3>1. CommandMoves(0) /\ d # 0
      BY <1>2, BlankIsNothing DEF CommandMoves
    <3> QED  BY <1>1, <1>2, <3>1, OthersFine
  <2> QED  BY <2>1
<1>3. CASE PreferNone
  <2>1. /\ UNCHANGED <<order, wish, gate, entry, scanned, stands, ident, intent, drawn>> /\ preferred' = Blank
    BY <1>3 DEF PreferNone
  <2>2. Untouched
    BY <2>1 DEF Untouched
  <2>3. CatalogForm' /\ FilesHold'
    BY <1>1, <2>1 DEF CatalogForm, FilesHold, NamedIsLibrary, EntriesDiffer, EntriesAreTrue, Entries
  <2> QED  BY <1>2, <2>1, <2>2, <2>3 DEF CatalogInv
<1>4. ASSUME NEW p \in Place, NEW q \in Place, CopyLibrary(p, q)
      PROVE  CatalogInv' /\ \A r \in Place : ident[r] # Blank => ident'[r] \in {ident[r], intent.new}
  <2>1. /\ UNCHANGED <<order, wish, gate, entry, scanned, preferred, intent, drawn>>
        /\ stands[p] = "library" /\ stands[q] # "library"
        /\ stands' = [stands EXCEPT ![q] = "library"] /\ ident' = [ident EXCEPT ![q] = ident[p]]
    BY <1>4 DEF CopyLibrary, choices
  <2>2. /\ stands'[q] = "library" /\ \A r \in Place : r # q => stands'[r] = stands[r] /\ ident'[r] = ident[r]
        /\ stands' \in [Place -> {"missing", "empty", "library"}] /\ ident' \in [Place -> Ident \cup {Blank}]
    BY <1>1, <2>1 DEF CatalogForm
  <2>3. ident[q] = Blank
    BY <1>1, <2>1 DEF NamedIsLibrary
  <2>4. Untouched
    BY <2>1, <2>2, <2>3 DEF Untouched
  <2>5. CatalogForm'
    BY <1>1, <2>1, <2>2 DEF CatalogForm
  <2>6. \A t \in Entries : entry[t].place \in Place /\ entry[t].place # q
    <3>1. \A t \in Entries : entry[t].place \in Place /\ stands[entry[t].place] = "library"
      BY <1>1, BlankIsNothing DEF CatalogForm, Entries, NamedIsLibrary
    <3> QED  BY <2>1, <3>1
  <2>7. NamedIsLibrary'
    BY <1>1, <2>1, <2>2, <2>6 DEF NamedIsLibrary, Entries
  <2>8. EntriesAreTrue'
    BY <1>1, <2>1, <2>2, <2>6 DEF FilesHold, EntriesAreTrue, Entries
  <2>9. FilesHold'
    BY <1>1, <2>1, <2>7, <2>8 DEF FilesHold, EntriesDiffer, Entries
  <2> QED  BY <1>2, <2>1, <2>2, <2>3, <2>4, <2>5, <2>9 DEF CatalogInv
<1> QED  BY <1>3, <1>4

LEMMA CatalogInvInit == CatalogInit => CatalogInv
<1> SUFFICES ASSUME CatalogInit PROVE CatalogInv
  OBVIOUS
<1>1. /\ order = [c \in Order |-> "idle"] /\ wish = [c \in Order |-> NoWish]
      /\ gate = [l \in Place \cup {Registry} |-> Ajar] /\ entry = NoEntries /\ scanned = [c \in Order |-> NoEntries]
      /\ stands = [p \in Place |-> IF p = AtFirst THEN "library" ELSE "missing"] /\ intent = NoIntent /\ preferred = Blank
  BY DEF CatalogInit
<1>2. Entries = {}
  BY <1>1, BlankIsNothing DEF Entries
<1>3. drawn \subseteq Ident /\ ident \in [Place -> Ident \cup {Blank}] /\ \A p \in Place : ident[p] # Blank => p = AtFirst
  <2>1. CASE drawn = {}
    BY <2>1 DEF CatalogInit
  <2>2. CASE drawn = {CHOOSE i \in Ident : TRUE} /\ drawn # {}
    <3>1. (CHOOSE i \in drawn : TRUE) \in drawn
      BY <2>2
    <3>2. drawn \subseteq Ident \/ Ident = {}
      BY <2>2
    <3>3. Ident # {}
      BY InboxCatalogAssumption
    <3>4. ident = [p \in Place |-> IF p = AtFirst /\ drawn # {} THEN CHOOSE i \in drawn : TRUE ELSE Blank]
      BY DEF CatalogInit
    <3> QED  BY <3>1, <3>2, <3>3, <3>4
  <2> QED  BY <2>1, <2>2 DEF CatalogInit
<1>4. CatalogForm
  <2>1. Ajar \in GateRecord /\ intent \in IntentRecord
    BY <1>1 DEF Ajar, GateRecord, IntentRecord
  <2> QED  BY <1>1, <1>3, <2>1, BlankIsNothing DEF CatalogForm
<1>5. FilesHold
  BY <1>1, <1>2, <1>3 DEF FilesHold, NamedIsLibrary, EntriesDiffer, EntriesAreTrue
<1>6. ASSUME NEW c \in Order PROVE Fine(c)
  <2>1. order[c] = "idle" /\ wish[c].kind = "none" /\ \A t \in Title : scanned[c][t] = NoEntry
    BY <1>1, BlankIsNothing
  <2> QED  BY <2>1 DEF Fine, KindFits, WriterHolds, OnLibrary, Checked, NameLasts, Kinds, Writing, Inside, Entering, Forking
<1> QED  BY <1>4, <1>5, <1>6 DEF CatalogInv

LEMMA CatalogInvNext ==
  CatalogInv /\ [CatalogNext]_catalogVars
    => CatalogInv' /\ \A p \in Place : ident[p] # Blank => ident'[p] \in {ident[p], intent.new}
<1> SUFFICES ASSUME CatalogInv, [CatalogNext]_catalogVars
             PROVE  CatalogInv' /\ \A p \in Place : ident[p] # Blank => ident'[p] \in {ident[p], intent.new}
  OBVIOUS
<1>1. ASSUME NEW c \in Order, CatalogStep(c) \/ Abort(c) PROVE CatalogKept(c)
  <2>1. CASE Ask(c) \/ EnterCatalog(c) \/ BeginRegister(c) \/ BeginCreate(c) \/ MakeLibrary(c)
    BY <2>1, AskKept, EnterKept, BeginRegisterKept, BeginCreateKept, MakeLibraryKept
  <2>2. CASE ReadIdent(c) \/ LockIdent(c) \/ DrawIdent(c) \/ CheckEntry(c) \/ PublishEntry(c)
    BY <2>2, ReadIdentKept, LockIdentKept, DrawIdentKept, CheckEntryKept, PublishEntryKept
  <2>3. CASE BeginFork(c) \/ ForkLibrary(c) \/ CompareEntries(c) \/ Rebind(c) \/ CloseIntent(c)
    BY <2>3, BeginForkKept, ForkLibraryKept, CompareEntriesKept, RebindKept, CloseIntentKept
  <2>4. CASE ScanCatalog(c) \/ ChooseNamed(c) \/ ChoosePlace(c) \/ LookUp(c) \/ Inspect(c) \/ PreferInbox(c)
    BY <2>4, ScanCatalogKept, ChooseNamedKept, ChoosePlaceKept, LookUpKept, InspectKept, PreferInboxKept
  <2> QED  BY <1>1, <2>1, <2>2, <2>3, <2>4, AbortKept DEF CatalogStep
<1>2. CASE CatalogNext
  BY <1>1, <1>2, KeptIsInductive, OutsideKept DEF CatalogNext
<1>3. CASE UNCHANGED catalogVars
  <2>1. UNCHANGED <<order, wish, gate, entry, scanned, preferred, stands, ident, intent, drawn>>
    BY <1>3 DEF catalogVars, choices
  <2>2. CatalogForm'
    BY <2>1 DEF CatalogInv, CatalogForm
  <2>3. FilesHold'
    BY <2>1 DEF CatalogInv, FilesHold, NamedIsLibrary, EntriesDiffer, EntriesAreTrue, Entries
  <2>4. ASSUME NEW d \in Order PROVE Fine(d)'
    <3>1. CommandMoves(0) /\ Untouched /\ d # 0
      BY <2>1, BlankIsNothing DEF CommandMoves, Untouched
    <3>2. CatalogForm /\ NamedIsLibrary /\ \A e \in Order : Fine(e)
      BY DEF CatalogInv, FilesHold
    <3> QED  BY <3>1, <3>2, OthersFine
  <2> QED  BY <2>1, <2>2, <2>3, <2>4 DEF CatalogInv
<1> QED  BY <1>2, <1>3

\* For any number of commands, places, names and identities, and whoever is
\* killed: the catalog can be read and says what is there, and a selection or a
\* default still means the place it meant (inbox-catalog.ts, inbox-selection.ts).
THEOREM CatalogHoldsAlways == CatalogSpec => []CatalogHolds
<1>1. ASSUME CatalogInv PROVE CatalogHolds
  <2>1. FilesHold /\ \A c \in Order : NameLasts(c)
    BY <1>1 DEF CatalogInv, Fine
  <2>2. \A c \in Order : Is(c, "select") /\ order[c] = "done" /\ wish[c].title # Blank =>
          entry[wish[c].title].place = Here(c)
    BY <2>1 DEF NameLasts, Is, Here
  <2> QED  BY <2>1, <2>2 DEF CatalogHolds, FilesHold, EntriesDiffer, EntriesAreTrue
<1>2. CatalogInv /\ [CatalogNext]_catalogVars => CatalogInv'
  BY CatalogInvNext
<1> QED  BY <1>1, <1>2, CatalogInvInit, PTL DEF CatalogSpec

\* For any number of commands that ask at once and whoever is killed, a library
\* keeps its identity from the first time anybody asked for it until it is
\* forked, and a fork gives it the one its intent names (viewer-records.ts).
THEOREM IdentityAgreedAlways == CatalogSpec => IdentityAgreed
<1>1. ASSUME CatalogInv, [CatalogNext]_catalogVars
      PROVE  [\A p \in Place : ident[p] # Blank => ident'[p] \in {ident[p], intent.new}]_catalogVars
  BY <1>1, CatalogInvNext
<1>2. CatalogInv /\ [CatalogNext]_catalogVars => CatalogInv'
  BY CatalogInvNext
<1> QED  BY <1>1, <1>2, CatalogInvInit, PTL DEF CatalogSpec, IdentityAgreed
-----------------------------------------------------------------------------
(* The boot service.  A command is a list of steps for the manager, and what *)
(* holds between two of them depends on which are left: the invariant is the *)
(* annotated program of either command and of the rollback, per platform.    *)

Definition == Settings \cup {Undefined}

MachineRecord == [file : Definition, memory : Definition, runs : Definition, enabled : BOOLEAN]
EarlierRecord == [file : Definition, loaded : BOOLEAN, enabled : BOOLEAN, running : BOOLEAN]

BootForm ==
  /\ machine \in MachineRecord /\ earlier \in EarlierRecord /\ wanted \in Definition
  /\ flawed \in BOOLEAN /\ overlooked \in BOOLEAN /\ stale \in BOOLEAN /\ meddled \in BOOLEAN

\* launchd runs only what it has loaded.  It may have loaded what is no longer on file,
\* after a rollback that could not see it.
LaunchdTied == ~Linux /\ machine.runs # Undefined => machine.memory # Undefined

\* What was reported before the command is a state the manager can be in.
EarlierSound ==
  /\ earlier.enabled => earlier.file # Undefined
  /\ ~Linux => /\ earlier.running => earlier.loaded
               /\ earlier.loaded => earlier.file # Undefined

\* The manager knows and runs nothing but d.
Only(d) == machine.memory \in {Undefined, d} /\ machine.runs \in {Undefined, d}

\* systemd's start leaves running what runs: that has to be right before it.
InstallOnLinux ==
  \E s \in {"start", "restart"} :
    \/ /\ remaining = <<"write", "daemon-reload", "enable", s, "wait">>
       /\ s = "start" /\ ~stale => machine.runs = Undefined
    \/ /\ remaining = <<"daemon-reload", "enable", s, "wait">> /\ machine.file = wanted
       /\ s = "start" /\ ~stale => machine.runs = Undefined
    \/ /\ remaining = <<"enable", s, "wait">> /\ machine.file = wanted
       /\ s = "start" /\ ~stale => machine.runs = Undefined \/ Only(wanted)
    \/ /\ remaining = <<s, "wait">> /\ machine.file = wanted /\ machine.memory \in {Undefined, wanted}
       /\ s = "start" /\ ~stale => machine.runs \in {Undefined, wanted}

InstallOnDarwin ==
  \/ remaining = <<"bootout", "write", "enable", "bootstrap", "wait">>
  \/ machine.memory = Undefined /\ remaining = <<"write", "enable", "bootstrap", "wait">>
  \/ /\ machine.memory = Undefined /\ machine.file = wanted
     /\ remaining \in {<<"enable", "bootstrap", "wait">>, <<"bootstrap", "wait">>}
  \/ /\ machine.file = wanted /\ (~stale => Only(wanted))
     /\ remaining \in {<<"enable", "kickstart", "wait">>, <<"kickstart", "wait">>, <<"enable", "wait">>}

Installing ==
  /\ wanted # Undefined
  /\ \/ Linux /\ InstallOnLinux
     \/ ~Linux /\ InstallOnDarwin
     \/ remaining = <<"wait">> /\ machine.file = wanted /\ (~stale => Only(wanted))

RemoveOnLinux ==
  \/ remaining \in {<<"disable --now", "rm", "daemon-reload", "gone">>, <<"rm", "daemon-reload", "gone">>}
  \/ remaining = <<"daemon-reload", "gone">> /\ machine.file = Undefined

RemoveOnDarwin ==
  \/ remaining = <<"bootout", "disable", "rm", "gone">>
  \/ machine.memory = Undefined /\ remaining \in {<<"disable", "rm", "gone">>, <<"rm", "gone">>}

Removing ==
  /\ wanted = Undefined
  /\ \/ Linux /\ RemoveOnLinux
     \/ ~Linux /\ RemoveOnDarwin
     \/ remaining = <<"gone">> /\ machine.file = Undefined

\* What a rollback leaves unless a step of it failed; of what it could not see, the file.
Restored ==
  /\ machine.file = earlier.file /\ Reported.enabled = earlier.enabled
  /\ ~overlooked => Only(machine.file)
  /\ ~meddled => overlooked \/ (ViewerRuns = earlier.running) \/ (~Linux /\ earlier.loaded)

\* The rollback on Linux, by what is left of it.
UndoStarts   == If(earlier.running, "start")
UndoEnables  == If(earlier.enabled, "enable") \o UndoStarts
UndoReloads  == <<"daemon-reload">> \o UndoEnables
UndoRestores == <<"restore">> \o UndoReloads
UndoDisables == If(~earlier.enabled, "disable") \o UndoRestores

Stopped  == machine.runs = Undefined
Disabled == ~earlier.enabled => ~machine.enabled
Reloaded == machine.file = earlier.file /\ machine.memory \in {Undefined, machine.file}

UndoOnLinux ==
  \/ remaining = <<"stop">> \o UndoDisables
  \/ ~earlier.enabled /\ remaining = <<"disable">> \o UndoRestores /\ (~flawed => Stopped)
  \/ remaining = UndoRestores /\ (~flawed => Stopped /\ Disabled)
  \/ remaining = UndoReloads /\ (~flawed => Stopped /\ Disabled /\ machine.file = earlier.file)
  \/ earlier.enabled /\ remaining = <<"enable">> \o UndoStarts /\ (~flawed => Stopped /\ Reloaded)
  \/ /\ earlier.running /\ remaining = <<"start">>
     /\ ~flawed => Stopped /\ Reloaded /\ Reported.enabled = earlier.enabled
  \/ remaining = << >> /\ (~flawed => Restored)

\* On Darwin it begins with what is loaded, if that can be seen.
Back    == IF earlier.enabled THEN "enable" ELSE "disable"
Reboots == earlier.loaded /\ earlier.file # Undefined
BootedOut == overlooked \/ machine.memory = Undefined

UndoOnDarwin ==
  \/ remaining = <<"query", "restore", Back>> \o If(Reboots, "bootstrap")
  \/ remaining = <<"bootout", "restore", Back>> \o If(Reboots, "bootstrap")
  \/ remaining = <<"restore", Back>> \o If(Reboots, "bootstrap") /\ (~flawed => BootedOut)
  \/ remaining = <<Back>> \o If(Reboots, "bootstrap") /\ (~flawed => BootedOut /\ machine.file = earlier.file)
  \/ /\ Reboots /\ remaining = <<"bootstrap">>
     /\ ~flawed => BootedOut /\ machine.file = earlier.file /\ Reported.enabled = earlier.enabled
  \/ remaining = << >> /\ (~flawed => Restored)

BootInv ==
  /\ BootForm /\ LaunchdTied /\ EarlierSound
  /\ verdict = "doing" => Installing \/ Removing
  /\ verdict = "undoing" => (Linux /\ UndoOnLinux) \/ (~Linux /\ UndoOnDarwin)
  /\ NoCommand /\ ~stale => Only(machine.file)
  /\ verdict = "installed" => machine.file = wanted /\ machine.enabled /\ ViewerRuns
  /\ verdict = "removed" => machine.file = Undefined /\ ~Loaded /\ ~ViewerRuns
  /\ verdict = "restored" => Restored

-----------------------------------------------------------------------------
(* Lists of orders. *)

LEMMA StepTaken ==
  ASSUME NEW S, NEW a \in S, NEW s \in Seq(S)
  PROVE  <<a>> \o s \in Seq(S) /\ <<a>> \o s # << >> /\ Head(<<a>> \o s) = a /\ Tail(<<a>> \o s) = s
<1> DEFINE t == <<a>> \o s
<1>1. t = <<a>> \o s
  OBVIOUS
<1> HIDE DEF t
<1>2. Head(t) = a /\ Tail(t) = s /\ t # << >>
  BY <1>1
<1>3. t \in Seq(S)
  BY <1>1
<1> QED  BY <1>1, <1>2, <1>3

LEMMA StepBefore ==
  ASSUME NEW S, NEW a \in S, NEW s \in Seq(S), NEW u \in Seq(S), u # << >>, Head(u) = a, Tail(u) = s
  PROVE  <<a>> \o s = u
<1>1. <<a>> \o s \in Seq(S) /\ <<a>> \in Seq(S) /\ Len(<<a>>) = 1 /\ <<a>>[1] = a
  BY StepTaken
<1>2. Len(u) \in Nat /\ Len(u) # 0 /\ u[1] = a /\ Len(s) = Len(u) - 1 /\ \A i \in 1 .. Len(s) : s[i] = u[i + 1]
  BY EmptySeq, LenProperties, HeadTailProperties
<1>3. Len(<<a>> \o s) = Len(u)
  BY <1>1, <1>2, ConcatProperties
<1>4. ASSUME NEW i \in 1 .. Len(<<a>> \o s) PROVE (<<a>> \o s)[i] = u[i]
  <2>1. (<<a>> \o s)[i] = IF i <= 1 THEN <<a>>[i] ELSE s[i - 1]
    BY <1>1, <1>2, <1>3, ConcatProperties
  <2>2. CASE i = 1
    BY <1>1, <1>2, <2>1, <2>2
  <2>3. CASE i # 1
    <3>1. i - 1 \in 1 .. Len(s) /\ (i - 1) + 1 = i
      BY <1>2, <1>3, <2>3
    <3> QED  BY <1>2, <2>1, <2>3, <3>1
  <2> QED  BY <2>2, <2>3
<1> QED  BY <1>1, <1>3, <1>4, SeqEqual

\* The orders of the two commands and of the rollback.
BootOrder == {"write", "restore", "rm", "daemon-reload", "enable", "disable", "disable --now", "start", "restart", "stop",
              "kickstart", "bootout", "bootstrap", "wait", "gone", "query"}

LEMMA Orders ==
  /\ "write" \in BootOrder /\ "restore" \in BootOrder /\ "rm" \in BootOrder /\ "daemon-reload" \in BootOrder
  /\ "enable" \in BootOrder /\ "disable" \in BootOrder /\ "disable --now" \in BootOrder /\ "start" \in BootOrder
  /\ "restart" \in BootOrder /\ "stop" \in BootOrder /\ "kickstart" \in BootOrder /\ "bootout" \in BootOrder
  /\ "bootstrap" \in BootOrder /\ "wait" \in BootOrder /\ "gone" \in BootOrder /\ "query" \in BootOrder
BY DEF BootOrder

LEMMA ListsOfOrders ==
  /\ \A a \in BootOrder : <<a>> \in Seq(BootOrder)
  /\ \A a, b \in BootOrder : <<a, b>> \in Seq(BootOrder)
  /\ \A a, b, c \in BootOrder : <<a, b, c>> \in Seq(BootOrder)
  /\ \A a, b, c, d \in BootOrder : <<a, b, c, d>> \in Seq(BootOrder)
OBVIOUS

LEMMA ListsAssociate == \A p, q, r \in Seq(BootOrder) : (p \o q) \o r = p \o (q \o r)
BY ConcatAssociative

LEMMA Joined11 ==
  ASSUME NEW a \in BootOrder, NEW b \in BootOrder
  PROVE  <<a>> \o <<b>> = <<a, b>>
<1>1. <<a, b>> \in Seq(BootOrder) /\ <<b>> \in Seq(BootOrder) /\ <<a, b>> # << >> /\ Head(<<a, b>>) = a /\ Tail(<<a, b>>) = <<b>>
  OBVIOUS
<1> QED  BY <1>1, StepBefore

LEMMA Joined12 ==
  ASSUME NEW a \in BootOrder, NEW b \in BootOrder, NEW c \in BootOrder
  PROVE  <<a>> \o <<b, c>> = <<a, b, c>>
<1>1. /\ <<a, b, c>> \in Seq(BootOrder) /\ <<b, c>> \in Seq(BootOrder) /\ <<a, b, c>> # << >>
      /\ Head(<<a, b, c>>) = a /\ Tail(<<a, b, c>>) = <<b, c>>
  OBVIOUS
<1> QED  BY <1>1, StepBefore

LEMMA Joined13 ==
  ASSUME NEW a \in BootOrder, NEW b \in BootOrder, NEW c \in BootOrder, NEW d \in BootOrder
  PROVE  <<a>> \o <<b, c, d>> = <<a, b, c, d>>
<1>1. /\ <<a, b, c, d>> \in Seq(BootOrder) /\ <<b, c, d>> \in Seq(BootOrder) /\ <<a, b, c, d>> # << >>
      /\ Head(<<a, b, c, d>>) = a /\ Tail(<<a, b, c, d>>) = <<b, c, d>>
  OBVIOUS
<1> QED  BY <1>1, StepBefore

LEMMA Joined14 ==
  ASSUME NEW a \in BootOrder, NEW b \in BootOrder, NEW c \in BootOrder, NEW d \in BootOrder, NEW e \in BootOrder
  PROVE  <<a>> \o <<b, c, d, e>> = <<a, b, c, d, e>>
<1>1. /\ <<a, b, c, d, e>> \in Seq(BootOrder) /\ <<b, c, d, e>> \in Seq(BootOrder) /\ <<a, b, c, d, e>> # << >>
      /\ Head(<<a, b, c, d, e>>) = a /\ Tail(<<a, b, c, d, e>>) = <<b, c, d, e>>
  OBVIOUS
<1> QED  BY <1>1, StepBefore

LEMMA Joined21 ==
  ASSUME NEW a \in BootOrder, NEW b \in BootOrder, NEW c \in BootOrder
  PROVE  <<a, b>> \o <<c>> = <<a, b, c>>
<1>1. <<a>> \in Seq(BootOrder) /\ <<b>> \in Seq(BootOrder) /\ <<c>> \in Seq(BootOrder)
  OBVIOUS
<1>2. (<<a>> \o <<b>>) \o <<c>> = <<a>> \o (<<b>> \o <<c>>)
  BY <1>1, ListsAssociate, Zenon
<1>3. <<a>> \o <<b>> = <<a, b>>
  BY Joined11
<1>4. <<b>> \o <<c>> = <<b, c>>
  BY Joined11
<1>5. <<a>> \o <<b, c>> = <<a, b, c>>
  BY Joined12
<1> QED  BY <1>2, <1>3, <1>4, <1>5, Zenon

LEMMA Joined31 ==
  ASSUME NEW a \in BootOrder, NEW b \in BootOrder, NEW c \in BootOrder, NEW d \in BootOrder
  PROVE  <<a, b, c>> \o <<d>> = <<a, b, c, d>>
<1>1. <<a>> \in Seq(BootOrder) /\ <<b, c>> \in Seq(BootOrder) /\ <<d>> \in Seq(BootOrder)
  OBVIOUS
<1>2. (<<a>> \o <<b, c>>) \o <<d>> = <<a>> \o (<<b, c>> \o <<d>>)
  BY <1>1, ListsAssociate, Zenon
<1>3. <<a>> \o <<b, c>> = <<a, b, c>>
  BY Joined12
<1>4. <<b, c>> \o <<d>> = <<b, c, d>>
  BY Joined21
<1>5. <<a>> \o <<b, c, d>> = <<a, b, c, d>>
  BY Joined13
<1> QED  BY <1>2, <1>3, <1>4, <1>5, Zenon

LEMMA Joined41 ==
  ASSUME NEW a \in BootOrder, NEW b \in BootOrder, NEW c \in BootOrder, NEW d \in BootOrder, NEW e \in BootOrder
  PROVE  <<a, b, c, d>> \o <<e>> = <<a, b, c, d, e>>
<1>1. <<a>> \in Seq(BootOrder) /\ <<b, c, d>> \in Seq(BootOrder) /\ <<e>> \in Seq(BootOrder)
  OBVIOUS
<1>2. (<<a>> \o <<b, c, d>>) \o <<e>> = <<a>> \o (<<b, c, d>> \o <<e>>)
  BY <1>1, ListsAssociate, Zenon
<1>3. <<a>> \o <<b, c, d>> = <<a, b, c, d>>
  BY Joined13
<1>4. <<b, c, d>> \o <<e>> = <<b, c, d, e>>
  BY Joined31
<1>5. <<a>> \o <<b, c, d, e>> = <<a, b, c, d, e>>
  BY Joined14
<1> QED  BY <1>2, <1>3, <1>4, <1>5, Zenon

LEMMA Joined23 ==
  ASSUME NEW a \in BootOrder, NEW b \in BootOrder, NEW c \in BootOrder, NEW d \in BootOrder, NEW e \in BootOrder
  PROVE  <<a, b>> \o <<c, d, e>> = <<a, b, c, d, e>>
<1>1. <<a>> \in Seq(BootOrder) /\ <<b>> \in Seq(BootOrder) /\ <<c, d, e>> \in Seq(BootOrder)
  OBVIOUS
<1>2. (<<a>> \o <<b>>) \o <<c, d, e>> = <<a>> \o (<<b>> \o <<c, d, e>>)
  BY <1>1, ListsAssociate, Zenon
<1>3. <<a>> \o <<b>> = <<a, b>>
  BY Joined11
<1>4. <<b>> \o <<c, d, e>> = <<b, c, d, e>>
  BY Joined13
<1>5. <<a>> \o <<b, c, d, e>> = <<a, b, c, d, e>>
  BY Joined14
<1> QED  BY <1>2, <1>3, <1>4, <1>5, Zenon

LEMMA IfIsList ==
  ASSUME NEW b \in BOOLEAN, NEW a \in BootOrder, NEW s \in Seq(BootOrder)
  PROVE  /\ If(b, a) \in Seq(BootOrder) /\ If(b, a) \o s \in Seq(BootOrder)
         /\ b => If(b, a) = <<a>> /\ If(b, a) \o s = <<a>> \o s
         /\ ~b => If(b, a) = << >> /\ If(b, a) \o s = s
<1>1. (b => If(b, a) = <<a>>) /\ (~b => If(b, a) = << >>)
  BY DEF If
<1>2. << >> \o s = s /\ <<a>> \o s \in Seq(BootOrder) /\ <<a>> \in Seq(BootOrder) /\ << >> \in Seq(BootOrder)
  BY ConcatEmptySeq, StepTaken
<1> QED  BY <1>1, <1>2, Zenon

\* What is left of a rollback on Linux are lists, each the one after the other.
LEMMA UndoLists ==
  ASSUME BootForm
  PROVE  /\ UndoStarts \in Seq(BootOrder) /\ UndoEnables \in Seq(BootOrder) /\ UndoReloads \in Seq(BootOrder)
         /\ UndoRestores \in Seq(BootOrder) /\ UndoDisables \in Seq(BootOrder)
         /\ (earlier.running => UndoStarts = <<"start">>) /\ (~earlier.running => UndoStarts = << >>)
         /\ (earlier.enabled => UndoEnables = <<"enable">> \o UndoStarts) /\ (~earlier.enabled => UndoEnables = UndoStarts)
         /\ (earlier.enabled => UndoDisables = UndoRestores)
         /\ (~earlier.enabled => UndoDisables = <<"disable">> \o UndoRestores)
         /\ Linux => Undo = <<"stop">> \o UndoDisables
<1>1. earlier.running \in BOOLEAN /\ earlier.enabled \in BOOLEAN /\ (~earlier.enabled) \in BOOLEAN
  BY DEF BootForm, EarlierRecord
<1>2. << >> \in Seq(BootOrder) /\ << >> \o << >> = << >>
  BY ConcatEmptySeq
<1>3. UndoStarts \in Seq(BootOrder) /\ (earlier.running => UndoStarts = <<"start">>) /\ (~earlier.running => UndoStarts = << >>)
  BY <1>1, <1>2, IfIsList, Orders, Zenon DEF UndoStarts
<1>4. /\ UndoEnables \in Seq(BootOrder)
      /\ (earlier.enabled => UndoEnables = <<"enable">> \o UndoStarts) /\ (~earlier.enabled => UndoEnables = UndoStarts)
  <2>1. "enable" \in BootOrder
    BY Orders
  <2> QED  BY <1>1, <1>3, <2>1, IfIsList, Zenon DEF UndoEnables
<1>5. UndoReloads \in Seq(BootOrder)
  BY <1>4, StepTaken, Orders, Zenon DEF UndoReloads
<1>6. UndoRestores \in Seq(BootOrder)
  BY <1>5, StepTaken, Orders, Zenon DEF UndoRestores
<1>7. /\ UndoDisables \in Seq(BootOrder) /\ (earlier.enabled => UndoDisables = UndoRestores)
      /\ (~earlier.enabled => UndoDisables = <<"disable">> \o UndoRestores)
  BY <1>1, <1>6, IfIsList, Orders, Zenon DEF UndoDisables
<1>8. ASSUME Linux PROVE Undo = <<"stop">> \o UndoDisables
  <2> DEFINE d == If(~earlier.enabled, "disable")  e == If(earlier.enabled, "enable")  p == <<"restore", "daemon-reload">>
  <2>1. /\ d \in Seq(BootOrder) /\ e \in Seq(BootOrder) /\ p \in Seq(BootOrder) /\ <<"stop">> \in Seq(BootOrder)
        /\ <<"restore">> \in Seq(BootOrder) /\ <<"daemon-reload">> \in Seq(BootOrder)
    BY <1>1, <1>2, Orders, IfIsList, ListsOfOrders, Zenon
  <2>2. Undo = (((<<"stop">> \o d) \o p) \o e) \o UndoStarts
    BY <1>8 DEF Undo, UndoStarts
  <2>3. p = <<"restore">> \o <<"daemon-reload">>
    BY Joined11, Orders
  <2> HIDE DEF d, e, p
  <2>4. e \o UndoStarts = UndoEnables
    BY DEF e, UndoEnables
  <2>5. p \o UndoEnables = UndoRestores
    BY <1>4, <2>1, <2>3, ListsAssociate, Zenon DEF UndoRestores, UndoReloads
  <2>6. d \o UndoRestores = UndoDisables
    BY DEF d, UndoDisables
  <2> DEFINE x == <<"stop">> \o d  y == (<<"stop">> \o d) \o p
  <2>7. x \in Seq(BootOrder) /\ y \in Seq(BootOrder)
    <3>1. \A v, w \in Seq(BootOrder) : v \o w \in Seq(BootOrder)
      BY ConcatProperties
    <3> QED  BY <2>1, <3>1, Zenon
  <2>8. y = x \o p /\ Undo = (y \o e) \o UndoStarts /\ x \o UndoRestores = (<<"stop">> \o d) \o UndoRestores
    BY <2>2
  <2> HIDE DEF x, y
  <2>9. Undo = y \o UndoEnables
    <3>0. y \in Seq(BootOrder) /\ e \in Seq(BootOrder) /\ UndoStarts \in Seq(BootOrder)
      BY <1>3, <2>1, <2>7
    <3>1. (y \o e) \o UndoStarts = y \o (e \o UndoStarts)
      BY <3>0, ListsAssociate, Zenon
    <3> QED  BY <2>4, <2>8, <3>1, Zenon
  <2>10. Undo = x \o UndoRestores
    <3>0. x \in Seq(BootOrder) /\ p \in Seq(BootOrder) /\ UndoEnables \in Seq(BootOrder)
      BY <1>4, <2>1, <2>7
    <3>1. (x \o p) \o UndoEnables = x \o (p \o UndoEnables)
      BY <3>0, ListsAssociate, Zenon
    <3> QED  BY <2>5, <2>8, <2>9, <3>1, Zenon
  <2>11. (<<"stop">> \o d) \o UndoRestores = <<"stop">> \o (d \o UndoRestores)
    BY <1>6, <2>1, ListsAssociate, Zenon
  <2> QED  BY <2>6, <2>8, <2>10, <2>11, Zenon
<1> QED  BY <1>3, <1>4, <1>5, <1>6, <1>7, <1>8

\* The steps of an installation.
LEMMA InstallLists ==
  ASSUME NEW changed \in BOOLEAN, earlier'.loaded \in BOOLEAN, earlier'.running \in BOOLEAN
  PROVE  /\ Linux /\ changed => \E s \in {"start", "restart"} :
              /\ InstallSteps(changed) = <<"write", "daemon-reload", "enable", s, "wait">>
              /\ s = "start" => ~earlier'.loaded
         /\ Linux /\ ~changed => InstallSteps(changed) = <<"enable", "start", "wait">>
         /\ ~Linux /\ changed /\ earlier'.loaded =>
              InstallSteps(changed) = <<"bootout", "write", "enable", "bootstrap", "wait">>
         /\ ~Linux /\ changed /\ ~earlier'.loaded =>
              InstallSteps(changed) = <<"write", "enable", "bootstrap", "wait">>
         /\ ~Linux /\ ~changed /\ ~earlier'.loaded => InstallSteps(changed) = <<"enable", "bootstrap", "wait">>
         /\ ~Linux /\ ~changed /\ earlier'.loaded /\ ~earlier'.running =>
              InstallSteps(changed) = <<"enable", "kickstart", "wait">>
         /\ ~Linux /\ ~changed /\ earlier'.loaded /\ earlier'.running => InstallSteps(changed) = <<"enable", "wait">>
<1>1. /\ << >> \o <<"enable">> = <<"enable">> /\ << >> \o <<"write">> = <<"write">> /\ <<"enable">> \o << >> = <<"enable">>
  <2>1. <<"enable">> \in Seq(BootOrder) /\ <<"write">> \in Seq(BootOrder)
    BY ListsOfOrders, Orders, Zenon
  <2>2. \A s \in Seq(BootOrder) : << >> \o s = s /\ s \o << >> = s
    BY ConcatEmptySeq
  <2> QED  BY <2>1, <2>2, Zenon
<1>2. ASSUME Linux, changed
      PROVE  \E s \in {"start", "restart"} : /\ InstallSteps(changed) = <<"write", "daemon-reload", "enable", s, "wait">>
                                             /\ s = "start" => ~earlier'.loaded
  <2> DEFINE s == Starting(changed)
  <2>1. s \in {"start", "restart"} /\ (s = "start" => ~earlier'.loaded)
    BY <1>2 DEF Starting
  <2>2. InstallSteps(changed) = <<"write", "daemon-reload">> \o <<"enable", s, "wait">>
    BY <1>2, Zenon DEF InstallSteps
  <2> HIDE DEF s
  <2>3. s \in BootOrder
    BY <2>1, Orders
  <2>4. <<"write", "daemon-reload">> \o <<"enable", s, "wait">> = <<"write", "daemon-reload", "enable", s, "wait">>
    <3>1. "write" \in BootOrder /\ "daemon-reload" \in BootOrder /\ "enable" \in BootOrder /\ "wait" \in BootOrder
      BY Orders
    <3> QED  BY <2>3, <3>1, Joined23
  <2>5. InstallSteps(changed) = <<"write", "daemon-reload", "enable", s, "wait">>
    BY <2>2, <2>4, Zenon
  <2> QED  BY <2>1, <2>5, Zenon
<1>3. ASSUME Linux, ~changed PROVE InstallSteps(changed) = <<"enable", "start", "wait">>
  <2>1. Starting(changed) = "start"
    BY <1>3 DEF Starting
  <2>2. InstallSteps(changed) = << >> \o <<"enable", "start", "wait">>
    BY <1>3, <2>1, Zenon DEF InstallSteps
  <2>3. <<"enable", "start", "wait">> \in Seq(BootOrder)
    BY ListsOfOrders, Orders
  <2> QED  BY <2>2, <2>3, ConcatEmptySeq
<1>4. ASSUME ~Linux, changed, earlier'.loaded PROVE InstallSteps(changed) = <<"bootout", "write", "enable", "bootstrap", "wait">>
  <2>1. InstallSteps(changed) = (((<<"bootout">> \o <<"write">>) \o <<"enable">>) \o <<"bootstrap">>) \o <<"wait">>
    BY <1>4, Zenon DEF InstallSteps, If
  <2>2. <<"bootout">> \o <<"write">> = <<"bootout", "write">>
    BY Joined11, Orders
  <2>3. <<"bootout", "write">> \o <<"enable">> = <<"bootout", "write", "enable">>
    BY Joined21, Orders
  <2>4. <<"bootout", "write", "enable">> \o <<"bootstrap">> = <<"bootout", "write", "enable", "bootstrap">>
    <3>1. "bootout" \in BootOrder /\ "write" \in BootOrder /\ "enable" \in BootOrder /\ "bootstrap" \in BootOrder
      BY Orders
    <3> QED  BY <3>1, Joined31
  <2>5. <<"bootout", "write", "enable", "bootstrap">> \o <<"wait">> = <<"bootout", "write", "enable", "bootstrap", "wait">>
    <3>1. "bootout" \in BootOrder /\ "write" \in BootOrder /\ "enable" \in BootOrder /\ "bootstrap" \in BootOrder /\ "wait" \in BootOrder
      BY Orders
    <3> QED  BY <3>1, Joined41
  <2> QED  BY <2>1, <2>2, <2>3, <2>4, <2>5, Zenon
<1>5. /\ <<"write">> \o <<"enable">> = <<"write", "enable">>
      /\ <<"write", "enable">> \o <<"bootstrap">> = <<"write", "enable", "bootstrap">>
      /\ <<"write", "enable", "bootstrap">> \o <<"wait">> = <<"write", "enable", "bootstrap", "wait">>
  <2>1. <<"write">> \o <<"enable">> = <<"write", "enable">>
    BY Joined11, Orders
  <2>2. <<"write", "enable">> \o <<"bootstrap">> = <<"write", "enable", "bootstrap">>
    BY Joined21, Orders
  <2>3. <<"write", "enable", "bootstrap">> \o <<"wait">> = <<"write", "enable", "bootstrap", "wait">>
    <3>1. "write" \in BootOrder /\ "enable" \in BootOrder /\ "bootstrap" \in BootOrder /\ "wait" \in BootOrder
      BY Orders
    <3> QED  BY <3>1, Joined31
  <2> QED  BY <2>1, <2>2, <2>3
<1>10. /\ <<"enable">> \o <<"bootstrap">> = <<"enable", "bootstrap">>
       /\ <<"enable", "bootstrap">> \o <<"wait">> = <<"enable", "bootstrap", "wait">>
       /\ <<"enable">> \o <<"kickstart">> = <<"enable", "kickstart">>
       /\ <<"enable", "kickstart">> \o <<"wait">> = <<"enable", "kickstart", "wait">>
       /\ <<"enable">> \o <<"wait">> = <<"enable", "wait">>
  <2>1. <<"enable">> \o <<"bootstrap">> = <<"enable", "bootstrap">>
    BY Joined11, Orders
  <2>2. <<"enable", "bootstrap">> \o <<"wait">> = <<"enable", "bootstrap", "wait">>
    BY Joined21, Orders
  <2>3. <<"enable">> \o <<"kickstart">> = <<"enable", "kickstart">>
    BY Joined11, Orders
  <2>4. <<"enable", "kickstart">> \o <<"wait">> = <<"enable", "kickstart", "wait">>
    BY Joined21, Orders
  <2>5. <<"enable">> \o <<"wait">> = <<"enable", "wait">>
    BY Joined11, Orders
  <2> QED  BY <2>1, <2>2, <2>3, <2>4, <2>5
<1>6. ASSUME ~Linux, changed, ~earlier'.loaded PROVE InstallSteps(changed) = <<"write", "enable", "bootstrap", "wait">>
  <2>1. InstallSteps(changed) = (((<< >> \o <<"write">>) \o <<"enable">>) \o <<"bootstrap">>) \o <<"wait">>
    BY <1>6, Zenon DEF InstallSteps, If
  <2> QED  BY <1>1, <1>5, <2>1, Zenon
<1>7. ASSUME ~Linux, ~changed, ~earlier'.loaded PROVE InstallSteps(changed) = <<"enable", "bootstrap", "wait">>
  <2>1. InstallSteps(changed) = ((<< >> \o <<"enable">>) \o <<"bootstrap">>) \o <<"wait">>
    BY <1>7, Zenon DEF InstallSteps, If
  <2> QED  BY <1>1, <1>10, <2>1, Zenon
<1>8. ASSUME ~Linux, ~changed, earlier'.loaded, ~earlier'.running PROVE InstallSteps(changed) = <<"enable", "kickstart", "wait">>
  <2>1. InstallSteps(changed) = ((<< >> \o <<"enable">>) \o <<"kickstart">>) \o <<"wait">>
    BY <1>8, Zenon DEF InstallSteps, If
  <2> QED  BY <1>1, <1>10, <2>1, Zenon
<1>9. ASSUME ~Linux, ~changed, earlier'.loaded, earlier'.running PROVE InstallSteps(changed) = <<"enable", "wait">>
  <2>1. InstallSteps(changed) = ((<< >> \o <<"enable">>) \o << >>) \o <<"wait">>
    BY <1>9, Zenon DEF InstallSteps, If
  <2> QED  BY <1>1, <1>10, <2>1, Zenon
<1> QED  BY <1>2, <1>3, <1>4, <1>6, <1>7, <1>8, <1>9, Zenon

LEMMA RemovalLists ==
  ASSUME earlier'.loaded \in BOOLEAN
  PROVE  /\ Linux => RemovalSteps = <<"disable --now", "rm", "daemon-reload", "gone">>
         /\ ~Linux /\ earlier'.loaded => RemovalSteps = <<"bootout", "disable", "rm", "gone">>
         /\ ~Linux /\ ~earlier'.loaded => RemovalSteps = <<"disable", "rm", "gone">>
<1>1. ASSUME Linux PROVE RemovalSteps = <<"disable --now", "rm", "daemon-reload", "gone">>
  BY <1>1, Zenon DEF RemovalSteps
<1>2. ASSUME ~Linux, earlier'.loaded PROVE RemovalSteps = <<"bootout", "disable", "rm", "gone">>
  <2>1. RemovalSteps = <<"bootout">> \o <<"disable", "rm", "gone">>
    BY <1>2, Zenon DEF RemovalSteps, If
  <2>2. <<"bootout">> \o <<"disable", "rm", "gone">> = <<"bootout", "disable", "rm", "gone">>
    <3>1. "bootout" \in BootOrder /\ "disable" \in BootOrder /\ "rm" \in BootOrder /\ "gone" \in BootOrder
      BY Orders
    <3> QED  BY <3>1, Joined13
  <2> QED  BY <2>1, <2>2, Zenon
<1>3. ASSUME ~Linux, ~earlier'.loaded PROVE RemovalSteps = <<"disable", "rm", "gone">>
  <2>1. RemovalSteps = << >> \o <<"disable", "rm", "gone">>
    BY <1>3, Zenon DEF RemovalSteps, If
  <2>2. <<"disable", "rm", "gone">> \in Seq(BootOrder)
    BY ListsOfOrders, Orders
  <2> QED  BY <2>1, <2>2, ConcatEmptySeq
<1> QED  BY <1>1, <1>2, <1>3, Zenon

-----------------------------------------------------------------------------
(* What an order does. *)

LEMMA InMemoryIs ==
  ASSUME BootForm
  PROVE  /\ InMemory \in Definition /\ (~Linux => InMemory = machine.memory)
         /\ Linux => (machine.memory = Undefined => InMemory = machine.file) /\ (machine.memory # Undefined => InMemory = machine.memory)
         /\ Loaded = (InMemory # Undefined)
BY DEF BootForm, MachineRecord, InMemory, Loaded

LEMMA FileOrders ==
  ASSUME BootForm
  PROVE  /\ Done("write") = [machine EXCEPT !.file = wanted] /\ Done("restore") = [machine EXCEPT !.file = earlier.file]
         /\ Done("rm") = [machine EXCEPT !.file = Undefined] /\ Done("daemon-reload") = [machine EXCEPT !.memory = machine.file]
BY DEF Done

LEMMA SwitchOrders ==
  ASSUME BootForm
  PROVE  /\ Done("enable") = [machine EXCEPT !.enabled = TRUE, !.memory = IF Linux THEN machine.file ELSE machine.memory]
         /\ Done("disable") = [machine EXCEPT !.enabled = FALSE, !.memory = IF Linux THEN machine.file ELSE machine.memory]
         /\ Done("disable --now") = [machine EXCEPT !.enabled = FALSE, !.memory = IF Linux THEN machine.file ELSE machine.memory,
                                                    !.runs = Undefined]
BY DEF Done, Switched, BootForm, MachineRecord

LEMMA RunOrders ==
  ASSUME BootForm
  PROVE  /\ Done("stop") = [machine EXCEPT !.runs = Undefined]
         /\ Done("restart") = [machine EXCEPT !.runs = InMemory, !.memory = InMemory]
         /\ Done("start") = [machine EXCEPT !.runs = IF ViewerRuns THEN machine.runs ELSE InMemory, !.memory = InMemory]
         /\ Done("kickstart") = [machine EXCEPT !.runs = IF ViewerRuns THEN machine.runs ELSE InMemory, !.memory = InMemory]
         /\ Done("bootout") = [machine EXCEPT !.memory = Undefined, !.runs = Undefined]
         /\ Done("bootstrap") = [machine EXCEPT !.memory = machine.file, !.runs = machine.file]
BY DEF Done, BootForm, MachineRecord

ManagerOrder == {"daemon-reload", "enable", "disable", "disable --now", "start", "restart", "stop", "kickstart", "bootout",
                 "bootstrap"}

\* No order of the manager makes launchd run what it has not loaded.
LEMMA OrderTied ==
  ASSUME BootForm, LaunchdTied, NEW c \in ManagerOrder, Possible(c), machine' = Done(c), KeepCommand,
         c = "daemon-reload" => Linux
  PROVE  machine' \in MachineRecord /\ LaunchdTied'
<1>1. machine \in MachineRecord /\ InMemory \in Definition /\ (~Linux => InMemory = machine.memory)
  BY InMemoryIs DEF BootForm
<1>2. platform' = platform /\ (Linux' <=> Linux)
  BY DEF KeepCommand, Linux
<1>3. Loaded <=> InMemory # Undefined
  BY InMemoryIs
<1> SUFFICES /\ machine' \in MachineRecord
             /\ ~Linux /\ machine'.runs # Undefined => machine'.memory # Undefined
  BY <1>2 DEF LaunchdTied
<1> USE DEF MachineRecord, Definition
<1>4. CASE c = "daemon-reload"
  BY <1>1, <1>4, FileOrders DEF LaunchdTied
<1>5. CASE c \in {"enable", "disable", "disable --now"}
  <2> DEFINE mem == IF Linux THEN machine.file ELSE machine.memory
  <2>1. mem \in Definition /\ (~Linux => mem = machine.memory)
    BY <1>1
  <2> HIDE DEF mem
  <2>2. CASE c = "disable --now"
    <3>1. machine' = [machine EXCEPT !.enabled = FALSE, !.memory = mem, !.runs = Undefined]
      BY <2>2, SwitchOrders DEF mem
    <3> QED  BY <1>1, <2>1, <3>1 DEF LaunchdTied
  <2>3. CASE c \in {"enable", "disable"}
    <3>1. PICK on \in BOOLEAN : machine' = [machine EXCEPT !.enabled = on, !.memory = mem]
      BY <2>3, SwitchOrders DEF mem
    <3> QED  BY <1>1, <2>1, <3>1 DEF LaunchdTied
  <2> QED  BY <1>5, <2>2, <2>3
<1>6. CASE c = "stop"
  BY <1>1, <1>6, RunOrders DEF LaunchdTied
<1>9. CASE c = "bootout"
  BY <1>1, <1>9, RunOrders DEF LaunchdTied
<1>7. CASE c \in {"start", "restart", "kickstart"}
  <2>1. InMemory # Undefined
    BY <1>3, <1>7 DEF Possible
  <2>2. CASE c = "restart"
    BY <1>1, <2>1, <2>2, RunOrders DEF LaunchdTied
  <2>3. CASE c \in {"start", "kickstart"}
    <3>1. machine' = [machine EXCEPT !.runs = IF ViewerRuns THEN machine.runs ELSE InMemory, !.memory = InMemory]
      BY <2>3, RunOrders
    <3> QED  BY <1>1, <2>1, <3>1 DEF LaunchdTied
  <2> QED  BY <1>7, <2>2, <2>3
<1>8. CASE c = "bootstrap"
  <2>1. machine.file # Undefined
    BY <1>8 DEF Possible
  <2> QED  BY <1>1, <1>8, <2>1, RunOrders DEF LaunchdTied
<1> QED  BY <1>4, <1>5, <1>6, <1>7, <1>8, <1>9 DEF ManagerOrder

-----------------------------------------------------------------------------
(* A step of the command, and its failure. *)

LEMMA DoingKept ==
  ASSUME BootInv, KeepCommand, machine' \in MachineRecord, LaunchdTied', verdict' = "doing", Installing' \/ Removing',
         UNCHANGED Reports, meddled' \in BOOLEAN
  PROVE  BootInv'
<1>1. BootForm'
  BY DEF BootInv, BootForm, KeepCommand, Reports
<1>2. EarlierSound'
  BY DEF BootInv, EarlierSound, KeepCommand, Linux
<1>3. ~NoCommand'
  BY DEF NoCommand
<1> QED  BY <1>1, <1>2, <1>3 DEF BootInv

LEMMA UndoingKept ==
  ASSUME BootInv, KeepCommand, machine' \in MachineRecord, LaunchdTied', verdict' = "undoing",
         (Linux /\ UndoOnLinux') \/ (~Linux /\ UndoOnDarwin'), flawed' \in BOOLEAN, overlooked' \in BOOLEAN, UNCHANGED stale, meddled' \in BOOLEAN
  PROVE  BootInv'
<1>1. BootForm'
  BY DEF BootInv, BootForm, KeepCommand
<1>2. EarlierSound' /\ (Linux' <=> Linux)
  BY DEF BootInv, EarlierSound, KeepCommand, Linux
<1>3. ~NoCommand'
  BY DEF NoCommand
<1> QED  BY <1>1, <1>2, <1>3 DEF BootInv

\* A failure leaves the whole rollback to do, and no promise about the machine.
LEMMA FailsKept ==
  ASSUME BootInv, KeepCommand, Fails, machine' \in MachineRecord, LaunchdTied', UNCHANGED meddled
  PROVE  BootInv'
<1>1. flawed' \in BOOLEAN /\ overlooked' \in BOOLEAN /\ stale' = stale /\ meddled' \in BOOLEAN /\ verdict' = "undoing" /\ remaining' = Undo /\ earlier' = earlier
  BY DEF BootInv, BootForm, Fails, Reports, KeepCommand
<1>2. CASE Linux
  <2>1. Undo = <<"stop">> \o UndoDisables
    BY <1>2, UndoLists DEF BootInv
  <2>2. UndoDisables' = UndoDisables
    BY <1>1, Zenon DEF UndoDisables, UndoRestores, UndoReloads, UndoEnables, UndoStarts
  <2>3. UndoOnLinux'
    BY <1>1, <2>1, <2>2, Zenon DEF UndoOnLinux
  <2> QED  BY <1>1, <1>2, <2>3, UndoingKept
<1>3. CASE ~Linux
  <2>1. Undo = <<"query", "restore", Back>> \o If(Reboots, "bootstrap")
    BY <1>3, Zenon DEF Undo, Back, Reboots
  <2>2. Back' = Back /\ (Reboots' <=> Reboots)
    BY <1>1 DEF Back, Reboots
  <2>3. If(Reboots, "bootstrap")' = If(Reboots, "bootstrap")
    BY <2>2, Zenon DEF If
  <2>4. UndoOnDarwin'
    BY <1>1, <2>1, <2>2, <2>3, Zenon DEF UndoOnDarwin
  <2> QED  BY <1>1, <1>3, <2>4, UndoingKept
<1> QED  BY <1>2, <1>3

-----------------------------------------------------------------------------
(* The steps of an installation and of a removal. *)

LEMMA FourTaken == \A a, b, c, d : Head(<<a, b, c, d>>) = a /\ Tail(<<a, b, c, d>>) = <<b, c, d>>
OBVIOUS

LEMMA InstallStepOnLinux ==
  ASSUME BootInv, Ordered, Possible(NextOrder), Linux, wanted # Undefined, InstallOnLinux
  PROVE  Installing' /\ machine' \in MachineRecord
<1>1. machine \in MachineRecord /\ wanted \in Definition /\ machine' = Done(NextOrder) /\ remaining' = Tail(remaining)
      /\ wanted' = wanted /\ stale' = stale /\ NextOrder = Head(remaining) /\ Linux'
  BY DEF BootInv, BootForm, Ordered, Succeeds, Reports, KeepCommand, NextOrder, Linux
<1>2. PICK s \in {"start", "restart"} :
        \/ /\ remaining = <<"write", "daemon-reload", "enable", s, "wait">>
           /\ s = "start" /\ ~stale => machine.runs = Undefined
        \/ /\ remaining = <<"daemon-reload", "enable", s, "wait">> /\ machine.file = wanted
           /\ s = "start" /\ ~stale => machine.runs = Undefined
        \/ /\ remaining = <<"enable", s, "wait">> /\ machine.file = wanted
           /\ s = "start" /\ ~stale => machine.runs = Undefined \/ Only(wanted)
        \/ /\ remaining = <<s, "wait">> /\ machine.file = wanted /\ machine.memory \in {Undefined, wanted}
           /\ s = "start" /\ ~stale => machine.runs \in {Undefined, wanted}
  BY DEF InstallOnLinux
<1>3. BootForm
  BY DEF BootInv
<1>4. CASE remaining = <<"write", "daemon-reload", "enable", s, "wait">> /\ (s = "start" /\ ~stale => machine.runs = Undefined)
  <2>1. Head(remaining) = "write" /\ Tail(remaining) = <<"daemon-reload", "enable", s, "wait">>
    BY <1>4
  <2>2. machine' = [machine EXCEPT !.file = wanted]
    BY <1>1, <1>3, <2>1, FileOrders
  <2>3. machine' \in MachineRecord /\ machine'.file = wanted' /\ (s = "start" /\ ~stale' => machine'.runs = Undefined)
    BY <1>1, <1>4, <2>2 DEF MachineRecord
  <2> QED  BY <1>1, <2>1, <2>3 DEF Installing, InstallOnLinux
<1>5. CASE /\ remaining = <<"daemon-reload", "enable", s, "wait">> /\ machine.file = wanted
           /\ s = "start" /\ ~stale => machine.runs = Undefined
  <2>1. Head(remaining) = "daemon-reload" /\ Tail(remaining) = <<"enable", s, "wait">>
    BY <1>5
  <2>2. machine' = [machine EXCEPT !.memory = machine.file]
    BY <1>1, <1>3, <2>1, FileOrders
  <2>3. machine' \in MachineRecord /\ machine'.file = wanted' /\ (s = "start" /\ ~stale' => machine'.runs = Undefined)
    BY <1>1, <1>5, <2>2 DEF MachineRecord
  <2> QED  BY <1>1, <2>1, <2>3 DEF Installing, InstallOnLinux
<1>6. CASE /\ remaining = <<"enable", s, "wait">> /\ machine.file = wanted
           /\ s = "start" /\ ~stale => machine.runs = Undefined \/ Only(wanted)
  <2>1. Head(remaining) = "enable" /\ Tail(remaining) = <<s, "wait">>
    BY <1>6
  <2>2. machine' = [machine EXCEPT !.enabled = TRUE, !.memory = machine.file]
    BY <1>1, <1>3, <2>1, SwitchOrders
  <2>3. /\ machine' \in MachineRecord /\ machine'.file = wanted' /\ machine'.memory \in {Undefined, wanted'}
        /\ s = "start" /\ ~stale' => machine'.runs \in {Undefined, wanted'}
    BY <1>1, <1>6, <2>2 DEF MachineRecord, Only
  <2> QED  BY <1>1, <2>1, <2>3 DEF Installing, InstallOnLinux
<1>7. CASE /\ remaining = <<s, "wait">> /\ machine.file = wanted /\ machine.memory \in {Undefined, wanted}
           /\ s = "start" /\ ~stale => machine.runs \in {Undefined, wanted}
  <2>1. Head(remaining) = s /\ Tail(remaining) = <<"wait">>
    BY <1>7
  <2>2. InMemory = wanted
    BY <1>3, <1>7, InMemoryIs
  <2>3. PICK r \in {machine.runs, wanted} : /\ machine' = [machine EXCEPT !.runs = r, !.memory = wanted]
                                            /\ s = "restart" \/ machine.runs = Undefined => r = wanted
    <3>1. CASE s = "restart"
      BY <1>1, <1>3, <2>1, <2>2, <3>1, RunOrders
    <3>2. CASE s = "start"
      BY <1>1, <1>3, <2>1, <2>2, <3>2, RunOrders DEF ViewerRuns
    <3> QED  BY <3>1, <3>2
  <2>4. /\ machine' \in MachineRecord /\ machine'.file = wanted' /\ machine'.memory \in {Undefined, wanted'}
        /\ ~stale' => machine'.runs \in {Undefined, wanted'}
    BY <1>1, <1>7, <2>3 DEF MachineRecord
  <2> QED  BY <1>1, <2>1, <2>4 DEF Installing, Only
<1> QED  BY <1>2, <1>4, <1>5, <1>6, <1>7

LEMMA InstallStepOnDarwin ==
  ASSUME BootInv, Ordered, Possible(NextOrder), ~Linux, wanted # Undefined, InstallOnDarwin
  PROVE  Installing' /\ machine' \in MachineRecord /\ LaunchdTied'
<1>1. machine \in MachineRecord /\ wanted \in Definition /\ machine' = Done(NextOrder) /\ remaining' = Tail(remaining)
      /\ wanted' = wanted /\ stale' = stale /\ NextOrder = Head(remaining) /\ ~Linux'
  BY DEF BootInv, BootForm, Ordered, Succeeds, Reports, KeepCommand, NextOrder, Linux
<1>2. BootForm /\ (machine.runs # Undefined => machine.memory # Undefined)
  BY DEF BootInv, LaunchdTied
<1>3. CASE remaining = <<"bootout", "write", "enable", "bootstrap", "wait">>
  <2>1. Head(remaining) = "bootout" /\ Tail(remaining) = <<"write", "enable", "bootstrap", "wait">>
    BY <1>3
  <2>2. machine' = [machine EXCEPT !.memory = Undefined, !.runs = Undefined]
    BY <1>1, <1>2, <2>1, RunOrders
  <2>3. machine' \in MachineRecord /\ machine'.memory = Undefined /\ machine'.runs = Undefined
    BY <1>1, <2>2 DEF MachineRecord, Definition
  <2> QED  BY <1>1, <2>1, <2>3 DEF Installing, InstallOnDarwin, LaunchdTied
<1>4. CASE machine.memory = Undefined /\ remaining = <<"write", "enable", "bootstrap", "wait">>
  <2>1. Head(remaining) = "write" /\ Tail(remaining) = <<"enable", "bootstrap", "wait">>
    BY <1>4
  <2>2. machine' = [machine EXCEPT !.file = wanted]
    BY <1>1, <1>2, <2>1, FileOrders
  <2>3. machine' \in MachineRecord /\ machine'.memory = Undefined /\ machine'.file = wanted' /\ machine'.runs = Undefined
    BY <1>1, <1>2, <1>4, <2>2 DEF MachineRecord, Definition
  <2> QED  BY <1>1, <2>1, <2>3 DEF Installing, InstallOnDarwin, LaunchdTied
<1>5. CASE machine.memory = Undefined /\ machine.file = wanted /\ remaining = <<"enable", "bootstrap", "wait">>
  <2>1. Head(remaining) = "enable" /\ Tail(remaining) = <<"bootstrap", "wait">>
    BY <1>5
  <2>2. machine' = [machine EXCEPT !.enabled = TRUE, !.memory = machine.memory]
    BY <1>1, <1>2, <2>1, SwitchOrders
  <2>3. machine' \in MachineRecord /\ machine'.memory = Undefined /\ machine'.file = wanted' /\ machine'.runs = Undefined
    BY <1>1, <1>2, <1>5, <2>2 DEF MachineRecord, Definition
  <2> QED  BY <1>1, <2>1, <2>3 DEF Installing, InstallOnDarwin, LaunchdTied
<1>6. CASE machine.memory = Undefined /\ machine.file = wanted /\ remaining = <<"bootstrap", "wait">>
  <2>1. Head(remaining) = "bootstrap" /\ Tail(remaining) = <<"wait">>
    BY <1>6
  <2>2. machine' = [machine EXCEPT !.memory = machine.file, !.runs = machine.file]
    BY <1>1, <1>2, <2>1, RunOrders
  <2>3. machine' \in MachineRecord /\ machine'.memory = wanted' /\ machine'.file = wanted' /\ machine'.runs = wanted'
    BY <1>1, <1>6, <2>2 DEF MachineRecord, Definition
  <2> QED  BY <1>1, <2>1, <2>3 DEF Installing, LaunchdTied, Only
<1>7. CASE machine.file = wanted /\ (~stale => Only(wanted)) /\ remaining \in {<<"enable", "kickstart", "wait">>, <<"enable", "wait">>}
  <2>1. Head(remaining) = "enable" /\ (Tail(remaining) = <<"kickstart", "wait">> \/ Tail(remaining) = <<"wait">>)
    <3>1. CASE remaining = <<"enable", "kickstart", "wait">>
      BY <3>1
    <3>2. CASE remaining = <<"enable", "wait">>
      BY <3>2
    <3> QED  BY <1>7, <3>1, <3>2
  <2>2. machine' = [machine EXCEPT !.enabled = TRUE, !.memory = machine.memory]
    BY <1>1, <1>2, <2>1, SwitchOrders
  <2>3. machine' \in MachineRecord /\ machine'.memory = machine.memory /\ machine'.file = wanted' /\ machine'.runs = machine.runs
    BY <1>1, <1>7, <2>2 DEF MachineRecord, Definition
  <2>4. (~stale' => Only(wanted)') /\ LaunchdTied'
    BY <1>1, <1>2, <1>7, <2>3 DEF Only, LaunchdTied
  <2> QED  BY <1>1, <2>1, <2>3, <2>4 DEF Installing, InstallOnDarwin
<1>8. CASE machine.file = wanted /\ (~stale => Only(wanted)) /\ remaining = <<"kickstart", "wait">>
  <2>1. Head(remaining) = "kickstart" /\ Tail(remaining) = <<"wait">>
    BY <1>8
  <2>2. machine.memory # Undefined /\ InMemory = machine.memory
    BY <1>1, <1>2, <2>1, InMemoryIs DEF Possible
  <2>3. machine' = [machine EXCEPT !.runs = IF ViewerRuns THEN machine.runs ELSE InMemory, !.memory = InMemory]
    BY <1>1, <1>2, <2>1, RunOrders
  <2>4. machine' \in MachineRecord /\ machine'.memory = machine.memory /\ machine'.file = wanted'
        /\ machine'.runs \in {machine.runs, machine.memory}
    BY <1>1, <1>8, <2>2, <2>3 DEF MachineRecord, Definition
  <2>5. (~stale' => Only(wanted)') /\ LaunchdTied'
    BY <1>1, <1>2, <1>8, <2>2, <2>4 DEF Only, LaunchdTied
  <2> QED  BY <1>1, <2>1, <2>4, <2>5 DEF Installing
<1> QED  BY <1>3, <1>4, <1>5, <1>6, <1>7, <1>8 DEF InstallOnDarwin

LEMMA RemoveStepOnLinux ==
  ASSUME BootInv, Ordered, Possible(NextOrder), Linux, wanted = Undefined, RemoveOnLinux
  PROVE  Removing' /\ machine' \in MachineRecord
<1>1. machine \in MachineRecord /\ machine' = Done(NextOrder) /\ remaining' = Tail(remaining)
      /\ wanted' = wanted /\ NextOrder = Head(remaining) /\ Linux'
  BY DEF BootInv, BootForm, Ordered, Succeeds, Reports, KeepCommand, NextOrder, Linux
<1>2. BootForm
  BY DEF BootInv
<1>3. CASE remaining = <<"disable --now", "rm", "daemon-reload", "gone">>
  <2>1. Head(remaining) = "disable --now" /\ Tail(remaining) = <<"rm", "daemon-reload", "gone">>
    BY <1>3, FourTaken, Zenon
  <2>2. machine' = [machine EXCEPT !.enabled = FALSE, !.memory = machine.file, !.runs = Undefined]
    BY <1>1, <1>2, <2>1, SwitchOrders
  <2>3. machine' \in MachineRecord
    BY <1>1, <2>2 DEF MachineRecord, Definition
  <2> QED  BY <1>1, <2>1, <2>3 DEF Removing, RemoveOnLinux
<1>4. CASE remaining = <<"rm", "daemon-reload", "gone">>
  <2>1. Head(remaining) = "rm" /\ Tail(remaining) = <<"daemon-reload", "gone">>
    BY <1>4
  <2>2. machine' = [machine EXCEPT !.file = Undefined]
    BY <1>1, <1>2, <2>1, FileOrders
  <2>3. machine' \in MachineRecord /\ machine'.file = Undefined
    BY <1>1, <2>2 DEF MachineRecord, Definition
  <2> QED  BY <1>1, <2>1, <2>3 DEF Removing, RemoveOnLinux
<1>5. CASE remaining = <<"daemon-reload", "gone">> /\ machine.file = Undefined
  <2>1. Head(remaining) = "daemon-reload" /\ Tail(remaining) = <<"gone">>
    BY <1>5
  <2>2. machine' = [machine EXCEPT !.memory = machine.file]
    BY <1>1, <1>2, <2>1, FileOrders
  <2>3. machine' \in MachineRecord /\ machine'.file = Undefined
    BY <1>1, <1>5, <2>2 DEF MachineRecord, Definition
  <2> QED  BY <1>1, <2>1, <2>3 DEF Removing
<1> QED  BY <1>3, <1>4, <1>5 DEF RemoveOnLinux

LEMMA RemoveStepOnDarwin ==
  ASSUME BootInv, Ordered, Possible(NextOrder), ~Linux, wanted = Undefined, RemoveOnDarwin
  PROVE  Removing' /\ machine' \in MachineRecord /\ LaunchdTied'
<1>1. machine \in MachineRecord /\ machine' = Done(NextOrder) /\ remaining' = Tail(remaining)
      /\ wanted' = wanted /\ NextOrder = Head(remaining) /\ ~Linux'
  BY DEF BootInv, BootForm, Ordered, Succeeds, Reports, KeepCommand, NextOrder, Linux
<1>2. BootForm /\ (machine.runs # Undefined => machine.memory # Undefined)
  BY DEF BootInv, LaunchdTied
<1>3. CASE remaining = <<"bootout", "disable", "rm", "gone">>
  <2>1. Head(remaining) = "bootout" /\ Tail(remaining) = <<"disable", "rm", "gone">>
    BY <1>3
  <2>2. machine' = [machine EXCEPT !.memory = Undefined, !.runs = Undefined]
    BY <1>1, <1>2, <2>1, RunOrders
  <2>3. machine' \in MachineRecord /\ machine'.memory = Undefined /\ machine'.runs = Undefined
    BY <1>1, <2>2 DEF MachineRecord, Definition
  <2> QED  BY <1>1, <2>1, <2>3 DEF Removing, RemoveOnDarwin, LaunchdTied
<1>4. CASE machine.memory = Undefined /\ remaining = <<"disable", "rm", "gone">>
  <2>1. Head(remaining) = "disable" /\ Tail(remaining) = <<"rm", "gone">>
    BY <1>4
  <2>2. machine' = [machine EXCEPT !.enabled = FALSE, !.memory = machine.memory]
    BY <1>1, <1>2, <2>1, SwitchOrders
  <2>3. machine' \in MachineRecord /\ machine'.memory = Undefined /\ machine'.runs = Undefined
    BY <1>1, <1>2, <1>4, <2>2 DEF MachineRecord, Definition
  <2> QED  BY <1>1, <2>1, <2>3 DEF Removing, RemoveOnDarwin, LaunchdTied
<1>5. CASE machine.memory = Undefined /\ remaining = <<"rm", "gone">>
  <2>1. Head(remaining) = "rm" /\ Tail(remaining) = <<"gone">>
    BY <1>5
  <2>2. machine' = [machine EXCEPT !.file = Undefined]
    BY <1>1, <1>2, <2>1, FileOrders
  <2>3. machine' \in MachineRecord /\ machine'.file = Undefined /\ machine'.memory = Undefined /\ machine'.runs = Undefined
    BY <1>1, <1>2, <1>5, <2>2 DEF MachineRecord, Definition
  <2> QED  BY <1>1, <2>1, <2>3 DEF Removing, LaunchdTied
<1> QED  BY <1>3, <1>4, <1>5 DEF RemoveOnDarwin

\* The wait is the last step of an installation, the last look that of a removal.
LEMMA LastSteps ==
  ASSUME BootInv, Doing
  PROVE  /\ NextOrder = "wait" => /\ wanted # Undefined /\ machine.file = wanted /\ (~stale => Only(wanted))
         /\ NextOrder = "gone" => machine.file = Undefined
         /\ NextOrder \notin {"wait", "gone"} =>
              \/ Linux /\ wanted # Undefined /\ InstallOnLinux
              \/ ~Linux /\ wanted # Undefined /\ InstallOnDarwin
              \/ Linux /\ wanted = Undefined /\ RemoveOnLinux
              \/ ~Linux /\ wanted = Undefined /\ RemoveOnDarwin
<1>1. NextOrder = Head(remaining) /\ (Installing \/ Removing)
  BY DEF NextOrder, Doing, BootInv
<1>2. CASE Installing /\ InstallOnLinux /\ Linux
  <2>1. NextOrder \in {"write", "daemon-reload", "enable", "start", "restart"}
    BY <1>1, <1>2 DEF InstallOnLinux
  <2> QED  BY <1>2, <2>1 DEF Installing
<1>3. CASE Installing /\ InstallOnDarwin /\ ~Linux
  <2>1. NextOrder \in {"write", "bootout", "enable", "bootstrap", "kickstart"}
    BY <1>1, <1>3 DEF InstallOnDarwin
  <2> QED  BY <1>3, <2>1 DEF Installing
<1>4. CASE Installing /\ remaining = <<"wait">> /\ machine.file = wanted /\ (~stale => Only(wanted))
  <2>1. NextOrder = "wait"
    BY <1>1, <1>4
  <2> QED  BY <1>4, <2>1 DEF Installing
<1>5. CASE Removing /\ RemoveOnLinux /\ Linux
  <2>1. NextOrder = "disable --now" \/ NextOrder = "rm" \/ NextOrder = "daemon-reload"
    <3>1. CASE remaining = <<"disable --now", "rm", "daemon-reload", "gone">>
      BY <1>1, <3>1, FourTaken, Zenon
    <3>2. CASE remaining = <<"rm", "daemon-reload", "gone">>
      BY <1>1, <3>2
    <3>3. CASE remaining = <<"daemon-reload", "gone">>
      BY <1>1, <3>3
    <3> QED  BY <1>5, <3>1, <3>2, <3>3, Zenon DEF RemoveOnLinux
  <2>2. NextOrder # "wait" /\ NextOrder # "gone"
    <3>1. "disable --now" # "wait" /\ "disable --now" # "gone"
      BY Zenon
    <3>2. "rm" # "wait" /\ "rm" # "gone" /\ "daemon-reload" # "wait" /\ "daemon-reload" # "gone"
      OBVIOUS
    <3> QED  BY <2>1, <3>1, <3>2, Zenon
  <2> QED  BY <1>5, <2>2, Zenon DEF Removing
<1>6. CASE Removing /\ RemoveOnDarwin /\ ~Linux
  <2>1. NextOrder \in {"bootout", "disable", "rm"}
    BY <1>1, <1>6 DEF RemoveOnDarwin
  <2> QED  BY <1>6, <2>1 DEF Removing
<1>7. CASE Removing /\ remaining = <<"gone">> /\ machine.file = Undefined
  <2>1. NextOrder = "gone"
    BY <1>1, <1>7
  <2> QED  BY <1>7, <2>1 DEF Removing
<1> QED  BY <1>1, <1>2, <1>3, <1>4, <1>5, <1>6, <1>7 DEF Installing, Removing

LEMMA OrderedKept ==
  ASSUME BootInv, Ordered
  PROVE  BootInv'
<1>1. Doing /\ KeepCommand /\ NextOrder \notin {"wait", "gone"} /\ UNCHANGED meddled /\ meddled \in BOOLEAN /\ machine \in MachineRecord
  BY DEF Ordered, BootInv, BootForm
<1>2. CASE ~Possible(NextOrder)
  <2>1. Fails /\ machine' = machine
    BY <1>2 DEF Ordered
  <2>2. LaunchdTied'
    BY <1>1, <2>1 DEF BootInv, LaunchdTied, KeepCommand, Linux
  <2> QED  BY <1>1, <2>1, <2>2, FailsKept
<1>3. CASE Possible(NextOrder)
  <2>1. verdict' = "doing" /\ UNCHANGED Reports
    BY <1>3 DEF Ordered, Succeeds, Doing
  <2>2. (Installing' \/ Removing') /\ machine' \in MachineRecord /\ LaunchdTied'
    <3>1. CASE Linux
      <4>1. LaunchdTied'
        BY <1>1, <3>1 DEF LaunchdTied, KeepCommand, Linux
      <4> QED  BY <1>1, <1>3, <3>1, <4>1, LastSteps, InstallStepOnLinux, RemoveStepOnLinux
    <3>2. CASE ~Linux
      BY <1>1, <1>3, <3>2, LastSteps, InstallStepOnDarwin, RemoveStepOnDarwin
    <3> QED  BY <3>1, <3>2
  <2> QED  BY <1>1, <2>1, <2>2, DoingKept
<1> QED  BY <1>2, <1>3

LEMMA OrderToManager ==
  ASSUME BootInv, Doing, NextOrder \notin {"wait", "gone", "write", "rm"}
  PROVE  NextOrder \in ManagerOrder /\ (NextOrder = "daemon-reload" => Linux)
<1>1. NextOrder = Head(remaining)
  BY DEF NextOrder
<1>2. CASE InstallOnLinux /\ Linux
  <2>1. NextOrder \in {"write", "daemon-reload", "enable", "start", "restart"}
    BY <1>1, <1>2 DEF InstallOnLinux
  <2> QED  BY <1>2, <2>1 DEF ManagerOrder
<1>3. CASE InstallOnDarwin
  <2>1. NextOrder \in {"write", "bootout", "enable", "bootstrap", "kickstart"}
    BY <1>1, <1>3 DEF InstallOnDarwin
  <2> QED  BY <2>1 DEF ManagerOrder
<1>4. CASE RemoveOnLinux /\ Linux
  <2>1. CASE remaining = <<"disable --now", "rm", "daemon-reload", "gone">>
    <3>2. Head(<<"disable --now", "rm", "daemon-reload", "gone">>) = "disable --now"
      BY FourTaken, Zenon
    <3>1. NextOrder = "disable --now"
      BY <1>1, <2>1, <3>2, Zenon
    <3> QED  BY <1>4, <3>1, Zenon DEF ManagerOrder
  <2>2. CASE remaining = <<"rm", "daemon-reload", "gone">>
    BY <1>1, <2>2
  <2>3. CASE remaining = <<"daemon-reload", "gone">>
    <3>1. NextOrder = "daemon-reload"
      BY <1>1, <2>3
    <3> QED  BY <1>4, <3>1 DEF ManagerOrder
  <2> QED  BY <1>4, <2>1, <2>2, <2>3, Zenon DEF RemoveOnLinux
<1>5. CASE RemoveOnDarwin
  <2>1. NextOrder \in {"bootout", "disable", "rm"}
    BY <1>1, <1>5 DEF RemoveOnDarwin
  <2> QED  BY <2>1 DEF ManagerOrder
<1> QED  BY <1>2, <1>3, <1>4, <1>5, LastSteps

LEMMA OrderFailsKept ==
  ASSUME BootInv, OrderFails
  PROVE  BootInv'
<1>1. Doing /\ KeepCommand /\ Fails /\ UNCHANGED meddled /\ BootForm /\ LaunchdTied /\ machine \in MachineRecord
  BY DEF OrderFails, BootInv, BootForm
<1>2. CASE machine' = machine
  <2>1. LaunchdTied'
    BY <1>1, <1>2 DEF LaunchdTied, KeepCommand, Linux
  <2> QED  BY <1>1, <1>2, <2>1, FailsKept
<1>3. CASE machine' # machine
  <2>1. NextOrder \notin {"wait", "gone", "write", "rm"} /\ Possible(NextOrder) /\ machine' = Done(NextOrder)
    BY <1>3 DEF OrderFails
  <2>2. NextOrder \in ManagerOrder /\ (NextOrder = "daemon-reload" => Linux)
    BY <1>1, <2>1, OrderToManager
  <2>3. machine' \in MachineRecord /\ LaunchdTied'
    BY <1>1, <2>1, <2>2, OrderTied
  <2> QED  BY <1>1, <2>3, FailsKept
<1> QED  BY <1>2, <1>3

\* What a command tells at its end.
LEMMA ToldKept ==
  ASSUME BootInv, KeepCommand, UNCHANGED <<machine, meddled, flawed, overlooked>>, stale' \in BOOLEAN, NEW outcome, verdict' = outcome,
         outcome \notin {"doing", "undoing"}, ~stale' => Only(machine.file),
         outcome = "installed" => machine.file = wanted /\ machine.enabled /\ ViewerRuns,
         outcome = "removed" => machine.file = Undefined /\ ~Loaded /\ ~ViewerRuns,
         outcome = "restored" => Restored
  PROVE  BootInv'
<1>1. BootForm' /\ LaunchdTied' /\ EarlierSound'
  BY DEF BootInv, BootForm, LaunchdTied, EarlierSound, KeepCommand, Linux
<1>2. (verdict' # "doing") /\ (verdict' # "undoing")
  OBVIOUS
<1>3. (~stale' => Only(machine.file)') /\ (outcome = "installed" => machine'.file = wanted' /\ machine'.enabled /\ ViewerRuns')
  BY DEF Only, ViewerRuns, KeepCommand
<1>4. outcome = "removed" => machine'.file = Undefined /\ ~Loaded' /\ ~ViewerRuns'
  BY DEF Loaded, InMemory, Linux, ViewerRuns, KeepCommand
<1>5. outcome = "restored" => Restored'
  BY DEF Restored, Reported, Only, ViewerRuns, Loaded, InMemory, Linux, KeepCommand
<1> QED  BY <1>1, <1>2, <1>3, <1>4, <1>5 DEF BootInv

LEMMA HealthyKept ==
  ASSUME BootInv, Healthy
  PROVE  BootInv'
<1>1. Doing /\ NextOrder = "wait" /\ ViewerRuns /\ verdict' = "installed" /\ stale' = stale /\ stale \in BOOLEAN /\ KeepCommand
      /\ UNCHANGED <<machine, meddled, flawed, overlooked>> /\ machine.enabled
  BY DEF Healthy, Tells, Reports, Reported, BootInv, BootForm
<1>2. machine.file = wanted /\ (~stale => Only(machine.file))
  BY <1>1, LastSteps
<1> QED  BY <1>1, <1>2, ToldKept

LEMMA UnmovedTied ==
  ASSUME BootInv, machine' = machine, KeepCommand
  PROVE  machine' \in MachineRecord /\ LaunchdTied'
BY DEF BootInv, BootForm, LaunchdTied, KeepCommand, Linux

LEMMA WaitEndsKept ==
  ASSUME BootInv, WaitEnds
  PROVE  BootInv'
<1>1. machine' = machine /\ KeepCommand /\ Fails /\ UNCHANGED meddled
  BY DEF WaitEnds
<1> QED  BY <1>1, UnmovedTied, FailsKept

LEMMA SeenGoneKept ==
  ASSUME BootInv, SeenGone
  PROVE  BootInv'
<1>1. Doing /\ NextOrder = "gone" /\ machine' = machine /\ KeepCommand /\ UNCHANGED meddled /\ stale \in BOOLEAN
  BY DEF SeenGone, BootInv, BootForm
<1>2. CASE Fails
  BY <1>1, <1>2, UnmovedTied, FailsKept
<1>3. CASE ~Loaded /\ ~ViewerRuns /\ Tells("removed")
  <2>1. machine.file = Undefined /\ machine.memory = Undefined /\ machine.runs = Undefined
    BY <1>1, <1>3, LastSteps, InMemoryIs DEF BootInv, ViewerRuns, Loaded, InMemory
  <2>2. Only(machine.file) /\ verdict' = "removed" /\ UNCHANGED Reports
    BY <1>3, <2>1 DEF Only, Tells, Reports
  <2> QED  BY <1>1, <1>3, <2>1, <2>2, ToldKept DEF Reports
<1> QED  BY <1>2, <1>3 DEF SeenGone

-----------------------------------------------------------------------------
(* The rollback. *)

\* The lists of a rollback on Linux begin as they say, and end as they say.
LEMMA UndoTaken ==
  ASSUME BootForm
  PROVE  /\ Head(<<"stop">> \o UndoDisables) = "stop" /\ Tail(<<"stop">> \o UndoDisables) = UndoDisables
         /\ Head(<<"disable">> \o UndoRestores) = "disable" /\ Tail(<<"disable">> \o UndoRestores) = UndoRestores
         /\ Head(UndoRestores) = "restore" /\ Tail(UndoRestores) = UndoReloads
         /\ Head(UndoReloads) = "daemon-reload" /\ Tail(UndoReloads) = UndoEnables
         /\ Head(<<"enable">> \o UndoStarts) = "enable" /\ Tail(<<"enable">> \o UndoStarts) = UndoStarts
         /\ Head(<<"start">>) = "start" /\ Tail(<<"start">>) = << >>
<1>1. UndoStarts \in Seq(BootOrder) /\ UndoEnables \in Seq(BootOrder) /\ UndoReloads \in Seq(BootOrder)
      /\ UndoRestores \in Seq(BootOrder) /\ UndoDisables \in Seq(BootOrder)
  BY UndoLists
<1>2. Head(<<"stop">> \o UndoDisables) = "stop" /\ Tail(<<"stop">> \o UndoDisables) = UndoDisables
  BY <1>1, Orders, StepTaken
<1>3. Head(<<"disable">> \o UndoRestores) = "disable" /\ Tail(<<"disable">> \o UndoRestores) = UndoRestores
  BY <1>1, Orders, StepTaken
<1>4. Head(UndoRestores) = "restore" /\ Tail(UndoRestores) = UndoReloads
  BY <1>1, Orders, StepTaken DEF UndoRestores
<1>5. Head(UndoReloads) = "daemon-reload" /\ Tail(UndoReloads) = UndoEnables
  BY <1>1, Orders, StepTaken DEF UndoReloads
<1>6. Head(<<"enable">> \o UndoStarts) = "enable" /\ Tail(<<"enable">> \o UndoStarts) = UndoStarts
  BY <1>1, Orders, StepTaken
<1>7. Head(<<"start">>) = "start" /\ Tail(<<"start">>) = << >>
  OBVIOUS
<1> QED  BY <1>2, <1>3, <1>4, <1>5, <1>6, <1>7

LEMMA UndoIsLeft ==
  ASSUME BootForm
  PROVE  /\ <<"stop">> \o UndoDisables # << >> /\ <<"disable">> \o UndoRestores # << >> /\ UndoRestores # << >>
         /\ UndoReloads # << >> /\ <<"enable">> \o UndoStarts # << >> /\ <<"start">> # << >>
<1>1. UndoStarts \in Seq(BootOrder) /\ UndoEnables \in Seq(BootOrder) /\ UndoReloads \in Seq(BootOrder)
      /\ UndoRestores \in Seq(BootOrder) /\ UndoDisables \in Seq(BootOrder)
  BY UndoLists
<1>2. <<"stop">> \o UndoDisables # << >>
  BY <1>1, Orders, StepTaken
<1>3. <<"disable">> \o UndoRestores # << >>
  BY <1>1, Orders, StepTaken
<1>4. UndoRestores # << >>
  BY <1>1, Orders, StepTaken DEF UndoRestores
<1>5. UndoReloads # << >>
  BY <1>1, Orders, StepTaken DEF UndoReloads
<1>6. <<"enable">> \o UndoStarts # << >>
  BY <1>1, Orders, StepTaken
<1>7. <<"start">> # << >>
  OBVIOUS
<1> QED  BY <1>2, <1>3, <1>4, <1>5, <1>6, <1>7

UndoListsKept ==
  /\ UndoDisables' = UndoDisables /\ UndoRestores' = UndoRestores /\ UndoReloads' = UndoReloads
  /\ UndoEnables' = UndoEnables /\ UndoStarts' = UndoStarts

LEMMA UndoListsStay ==
  ASSUME KeepCommand
  PROVE  UndoListsKept
<1>1. earlier' = earlier
  BY DEF KeepCommand
<1> QED  BY <1>1, Zenon DEF UndoListsKept, UndoDisables, UndoRestores, UndoReloads, UndoEnables, UndoStarts

\* A step of the rollback: done, or tried in vain and remembered.
UndoStep ==
  /\ Undoing /\ KeepCommand /\ remaining' = Tail(remaining) /\ UNCHANGED <<verdict, overlooked, stale, meddled>>
  /\ flawed' \in BOOLEAN /\ (flawed => flawed')
  /\ machine' \in MachineRecord
  /\ ~flawed' /\ Linux => Possible(NextOrder) /\ machine' = Done(NextOrder)

\* Before the last step of it, whether there is one or not.
LEMMA UndoStartsLeft ==
  ASSUME BootForm, KeepCommand, remaining' = UndoStarts,
         ~flawed' => Stopped' /\ Reloaded' /\ Reported'.enabled = earlier'.enabled
  PROVE  UndoOnLinux'
<1>1. earlier' = earlier /\ earlier.running \in BOOLEAN
  BY DEF KeepCommand, BootForm, EarlierRecord
<1>2. CASE earlier.running
  <2>1. earlier'.running /\ remaining' = <<"start">>
    BY <1>1, <1>2, UndoLists, Zenon
  <2> QED  BY <2>1, Zenon DEF UndoOnLinux
<1>3. CASE ~earlier.running
  <2>1. remaining' = << >>
    BY <1>3, UndoLists, Zenon
  <2>2. ~flawed' => machine'.file = earlier'.file /\ Only(machine.file)'
    BY DEF Stopped, Reloaded, Only
  <2>3. ~flawed' => ~ViewerRuns'
    BY DEF Stopped, ViewerRuns
  <2>4. ~flawed' => Restored'
    BY <1>1, <1>3, <2>2, <2>3 DEF Restored, ViewerRuns
  <2> QED  BY <2>1, <2>4, Zenon DEF UndoOnLinux
<1> QED  BY <1>1, <1>2, <1>3

LEMMA UndoneOnLinux ==
  ASSUME BootInv, UndoStep, Linux
  PROVE  UndoOnLinux'
<1>1. BootForm /\ EarlierSound /\ machine \in MachineRecord /\ machine' \in MachineRecord /\ NextOrder = Head(remaining)
      /\ remaining' = Tail(remaining) /\ UndoOnLinux /\ remaining # << >> /\ flawed \in BOOLEAN /\ flawed' \in BOOLEAN
      /\ (flawed => flawed') /\ earlier' = earlier /\ earlier \in EarlierRecord /\ KeepCommand
      /\ (~flawed' => Possible(NextOrder) /\ machine' = Done(NextOrder))
  BY DEF BootInv, BootForm, UndoStep, NextOrder, Undoing, KeepCommand
<1>2. UndoDisables' = UndoDisables /\ UndoRestores' = UndoRestores /\ UndoReloads' = UndoReloads
      /\ UndoEnables' = UndoEnables /\ UndoStarts' = UndoStarts
  BY UndoListsStay DEF UndoListsKept, UndoStep
<1>3. CASE remaining = <<"stop">> \o UndoDisables
  <2>1. NextOrder = "stop" /\ remaining' = UndoDisables
    BY <1>1, <1>3, UndoTaken, Zenon
  <2>2. ~flawed' => machine'.runs = Undefined
    BY <1>1, <2>1, RunOrders DEF MachineRecord
  <2>3. ~flawed' => Stopped'
    BY <2>2 DEF Stopped
  <2>4. CASE earlier.enabled
    <3>1. remaining' = UndoRestores' /\ (~flawed' => Stopped' /\ Disabled')
      BY <1>1, <1>2, <2>1, <2>3, <2>4, UndoLists DEF Disabled
    <3> QED  BY <3>1, Zenon DEF UndoOnLinux
  <2>5. CASE ~earlier.enabled
    <3>1. ~earlier'.enabled /\ remaining' = <<"disable">> \o UndoRestores'
      BY <1>1, <1>2, <2>1, <2>5, UndoLists, Zenon
    <3> QED  BY <2>3, <3>1, Zenon DEF UndoOnLinux
  <2> QED  BY <2>4, <2>5
<1>4. CASE ~earlier.enabled /\ remaining = <<"disable">> \o UndoRestores /\ (~flawed => Stopped)
  <2>1. NextOrder = "disable" /\ remaining' = UndoRestores'
    BY <1>1, <1>2, <1>4, UndoTaken, Zenon
  <2>2. ~flawed' => machine'.runs = machine.runs /\ ~machine'.enabled
    <3>1. ~flawed' => machine' = [machine EXCEPT !.enabled = FALSE, !.memory = machine.file]
      BY <1>1, <2>1, SwitchOrders DEF UndoStep
    <3> QED  BY <1>1, <3>1 DEF MachineRecord
  <2>3. ~flawed' => Stopped' /\ Disabled'
    BY <1>1, <1>4, <2>2 DEF Stopped, Disabled
  <2> QED  BY <2>1, <2>3, Zenon DEF UndoOnLinux
<1>5. CASE remaining = UndoRestores /\ (~flawed => Stopped /\ Disabled)
  <2>1. NextOrder = "restore" /\ remaining' = UndoReloads'
    BY <1>1, <1>2, <1>5, UndoTaken, Zenon
  <2>2. ~flawed' => machine'.runs = machine.runs /\ machine'.enabled = machine.enabled /\ machine'.file = earlier.file
    BY <1>1, <2>1, FileOrders DEF MachineRecord
  <2>3. ~flawed' => Stopped' /\ Disabled' /\ machine'.file = earlier'.file
    BY <1>1, <1>5, <2>2 DEF Stopped, Disabled
  <2> QED  BY <2>1, <2>3, Zenon DEF UndoOnLinux
<1>6. CASE remaining = UndoReloads /\ (~flawed => Stopped /\ Disabled /\ machine.file = earlier.file)
  <2>1. NextOrder = "daemon-reload" /\ remaining' = UndoEnables
    BY <1>1, <1>6, UndoTaken, Zenon
  <2>2. ~flawed' => machine'.runs = machine.runs /\ machine'.enabled = machine.enabled /\ machine'.file = machine.file
                    /\ machine'.memory = machine.file
    BY <1>1, <2>1, FileOrders DEF MachineRecord
  <2>3. ~flawed' => Stopped' /\ Reloaded' /\ (~earlier.enabled => ~machine'.enabled)
    BY <1>1, <1>6, <2>2 DEF Stopped, Disabled, Reloaded
  <2>4. CASE earlier.enabled
    <3>1. earlier'.enabled /\ remaining' = <<"enable">> \o UndoStarts'
      BY <1>1, <1>2, <2>1, <2>4, UndoLists, Zenon
    <3> QED  BY <2>3, <3>1, Zenon DEF UndoOnLinux
  <2>5. CASE ~earlier.enabled
    <3>1. remaining' = UndoStarts /\ (~flawed' => Reported'.enabled = earlier'.enabled)
      BY <1>1, <2>1, <2>3, <2>5, UndoLists DEF Reported, EarlierRecord, MachineRecord
    <3> QED  BY <1>1, <2>3, <3>1, UndoStartsLeft
  <2> QED  BY <2>4, <2>5
<1>7. CASE earlier.enabled /\ remaining = <<"enable">> \o UndoStarts /\ (~flawed => Stopped /\ Reloaded)
  <2>1. NextOrder = "enable" /\ remaining' = UndoStarts
    BY <1>1, <1>7, UndoTaken, Zenon
  <2>2. ~flawed' => machine'.runs = machine.runs /\ machine'.enabled /\ machine'.file = machine.file
                    /\ machine'.memory = machine.file
    <3>1. ~flawed' => machine' = [machine EXCEPT !.enabled = TRUE, !.memory = machine.file]
      BY <1>1, <2>1, SwitchOrders DEF UndoStep
    <3> QED  BY <1>1, <3>1 DEF MachineRecord
  <2>3. ~flawed' => Stopped' /\ Reloaded'
    BY <1>1, <1>7, <2>2 DEF Stopped, Reloaded
  <2>4. ~flawed' => machine'.file # Undefined
    BY <1>1, <1>7, <2>2 DEF Reloaded, EarlierSound
  <2>5. ~flawed' => Reported'.enabled = earlier'.enabled
    BY <1>1, <1>7, <2>2, <2>4 DEF Reported, EarlierRecord
  <2> QED  BY <1>1, <2>1, <2>3, <2>5, UndoStartsLeft
<1>8. CASE earlier.running /\ remaining = <<"start">> /\ (~flawed => Stopped /\ Reloaded /\ Reported.enabled = earlier.enabled)
  <2>1. NextOrder = "start" /\ remaining' = << >>
    BY <1>1, <1>8, UndoTaken, Zenon
  <2>2. ~flawed' => Loaded /\ machine'.runs = InMemory /\ machine'.enabled = machine.enabled /\ machine'.file = machine.file
                    /\ machine'.memory = InMemory
    <3>1. ~flawed' => Loaded /\ machine' = [machine EXCEPT !.runs = InMemory, !.memory = InMemory]
      <4>1. ~flawed' => Loaded /\ ~ViewerRuns
        BY <1>1, <1>8, <2>1 DEF Stopped, ViewerRuns, Possible
      <4> QED  BY <1>1, <2>1, <4>1, RunOrders
    <3> QED  BY <1>1, <3>1 DEF MachineRecord
  <2>3. ~flawed' => InMemory = machine.file /\ machine.file # Undefined
    BY <1>1, <1>8, <2>2, InMemoryIs DEF Reloaded
  <2>4. ~flawed' => machine'.file = earlier'.file /\ Only(machine.file)' /\ ViewerRuns'
    BY <1>1, <1>8, <2>2, <2>3 DEF Only, Reloaded, ViewerRuns
  <2>5. ~flawed' => Reported'.enabled = earlier'.enabled
    BY <1>1, <1>8, <2>2 DEF Reported
  <2>6. ~flawed' => Restored'
    BY <1>1, <1>8, <2>4, <2>5 DEF Restored, ViewerRuns, EarlierRecord
  <2> QED  BY <2>1, <2>6, Zenon DEF UndoOnLinux
<1> QED  BY <1>1, <1>3, <1>4, <1>5, <1>6, <1>7, <1>8, Zenon DEF UndoOnLinux

LEMMA TwoBegin ==
  ASSUME NEW a \in BootOrder, NEW b \in BootOrder, NEW s \in Seq(BootOrder)
  PROVE  /\ <<a, b>> \o s \in Seq(BootOrder) /\ <<a, b>> \o s # << >>
         /\ Head(<<a, b>> \o s) = a /\ Tail(<<a, b>> \o s) = <<b>> \o s
<1>1. <<a>> \in Seq(BootOrder) /\ <<b>> \in Seq(BootOrder)
  OBVIOUS
<1>2. (<<a>> \o <<b>>) \o s = <<a>> \o (<<b>> \o s)
  BY <1>1, ListsAssociate, Zenon
<1>3. <<a>> \o <<b>> = <<a, b>>
  BY Joined11
<1>4. <<b>> \o s \in Seq(BootOrder)
  BY StepTaken
<1>5. <<a>> \o (<<b>> \o s) \in Seq(BootOrder) /\ Head(<<a>> \o (<<b>> \o s)) = a /\ Tail(<<a>> \o (<<b>> \o s)) = <<b>> \o s
      /\ <<a>> \o (<<b>> \o s) # << >>
  BY <1>4, StepTaken, Zenon
<1> QED  BY <1>2, <1>3, <1>5, Zenon

LEMMA ThreeBegin ==
  ASSUME NEW a \in BootOrder, NEW b \in BootOrder, NEW c \in BootOrder, NEW s \in Seq(BootOrder)
  PROVE  /\ <<a, b, c>> \o s # << >> /\ Head(<<a, b, c>> \o s) = a /\ Tail(<<a, b, c>> \o s) = <<b, c>> \o s
<1>1. <<a>> \in Seq(BootOrder) /\ <<b, c>> \in Seq(BootOrder)
  OBVIOUS
<1>2. (<<a>> \o <<b, c>>) \o s = <<a>> \o (<<b, c>> \o s)
  BY <1>1, ListsAssociate, Zenon
<1>3. <<a>> \o <<b, c>> = <<a, b, c>>
  BY Joined12
<1>4. <<b, c>> \o s \in Seq(BootOrder)
  BY TwoBegin
<1>5. Head(<<a>> \o (<<b, c>> \o s)) = a /\ Tail(<<a>> \o (<<b, c>> \o s)) = <<b, c>> \o s /\ <<a>> \o (<<b, c>> \o s) # << >>
  BY <1>4, StepTaken, Zenon
<1> QED  BY <1>2, <1>3, <1>5, Zenon

Reboot == If(Reboots, "bootstrap")

LEMMA DarwinTaken ==
  ASSUME BootForm
  PROVE  /\ \A q \in {"query", "bootout"} : /\ Head(<<q, "restore", Back>> \o Reboot) = q
                                           /\ Tail(<<q, "restore", Back>> \o Reboot) = <<"restore", Back>> \o Reboot
                                           /\ <<q, "restore", Back>> \o Reboot # << >>
         /\ Head(<<"restore", Back>> \o Reboot) = "restore" /\ Tail(<<"restore", Back>> \o Reboot) = <<Back>> \o Reboot
         /\ Head(<<Back>> \o Reboot) = Back /\ Tail(<<Back>> \o Reboot) = Reboot
         /\ Head(<<"bootstrap">>) = "bootstrap" /\ Tail(<<"bootstrap">>) = << >>
         /\ (Reboots => Reboot = <<"bootstrap">>) /\ (~Reboots => Reboot = << >>)
         /\ <<"restore", Back>> \o Reboot # << >> /\ <<Back>> \o Reboot # << >> /\ <<"bootstrap">> # << >>
         /\ <<"restore", Back>> \o Reboot \in Seq(BootOrder)
         /\ <<"bootout">> \o (<<"restore", Back>> \o Reboot) = <<"bootout", "restore", Back>> \o Reboot
<1>1. Back \in BootOrder /\ "query" \in BootOrder /\ "bootout" \in BootOrder /\ "restore" \in BootOrder
      /\ "bootstrap" \in BootOrder
  <2>1. CASE earlier.enabled
    BY <2>1, Orders, Zenon DEF Back
  <2>2. CASE ~earlier.enabled
    BY <2>2, Orders, Zenon DEF Back
  <2> QED  BY <2>1, <2>2
<1>2. (Reboots => Reboot = <<"bootstrap">>) /\ (~Reboots => Reboot = << >>)
  BY DEF Reboot, If
<1>3. Reboot \in Seq(BootOrder)
  <2>1. << >> \in Seq(BootOrder)
    OBVIOUS
  <2>3. <<"bootstrap">> \in Seq(BootOrder)
    BY <1>1, ListsOfOrders, Zenon
  <2> QED  BY <1>2, <2>1, <2>3, Zenon
<1> DEFINE r == "restore"
<1>8. r \in BootOrder /\ Back \in BootOrder
  BY <1>1, Zenon
<1> HIDE DEF r
<1>9. \A q \in BootOrder : /\ Head(<<q, r, Back>> \o Reboot) = q /\ Tail(<<q, r, Back>> \o Reboot) = <<r, Back>> \o Reboot
                           /\ <<q, r, Back>> \o Reboot # << >>
  BY <1>3, <1>8, ThreeBegin
<1>10. Head(<<r, Back>> \o Reboot) = r /\ Tail(<<r, Back>> \o Reboot) = <<Back>> \o Reboot /\ <<r, Back>> \o Reboot # << >>
       /\ <<r, Back>> \o Reboot \in Seq(BootOrder)
  BY <1>3, <1>8, TwoBegin
<1>4. \A q \in {"query", "bootout"} : /\ Head(<<q, "restore", Back>> \o Reboot) = q
                                      /\ Tail(<<q, "restore", Back>> \o Reboot) = <<"restore", Back>> \o Reboot
                                      /\ <<q, "restore", Back>> \o Reboot # << >>
  BY <1>1, <1>9, Zenon DEF r
<1>5. /\ Head(<<"restore", Back>> \o Reboot) = "restore" /\ Tail(<<"restore", Back>> \o Reboot) = <<Back>> \o Reboot
      /\ <<"restore", Back>> \o Reboot # << >> /\ <<"restore", Back>> \o Reboot \in Seq(BootOrder)
  BY <1>10, Zenon DEF r
<1>6. Head(<<Back>> \o Reboot) = Back /\ Tail(<<Back>> \o Reboot) = Reboot /\ <<Back>> \o Reboot # << >>
  BY <1>1, <1>3, StepTaken, Zenon
<1>7. Head(<<"bootstrap">>) = "bootstrap" /\ Tail(<<"bootstrap">>) = << >> /\ <<"bootstrap">> # << >>
  OBVIOUS
<1>11. <<"bootout">> \o (<<"restore", Back>> \o Reboot) = <<"bootout", "restore", Back>> \o Reboot
  <2>1. <<"bootout">> \in Seq(BootOrder) /\ <<"restore", Back>> \in Seq(BootOrder)
    BY <1>1, ListsOfOrders, Zenon
  <2>2. (<<"bootout">> \o <<"restore", Back>>) \o Reboot = <<"bootout">> \o (<<"restore", Back>> \o Reboot)
    BY <1>3, <2>1, ListsAssociate, Zenon
  <2>3. <<"bootout">> \o <<"restore", Back>> = <<"bootout", "restore", Back>>
    BY <1>1, Joined12, Zenon
  <2> QED  BY <2>2, <2>3, Zenon
<1> QED  BY <1>2, <1>4, <1>5, <1>6, <1>7, <1>11, Zenon

LEMMA DarwinListsStay ==
  ASSUME KeepCommand
  PROVE  Back' = Back /\ (Reboots' <=> Reboots) /\ Reboot' = Reboot
<1>1. earlier' = earlier
  BY DEF KeepCommand
<1>2. Back' = Back /\ (Reboots' <=> Reboots)
  BY <1>1 DEF Back, Reboots
<1> QED  BY <1>2, Zenon DEF Reboot, If

\* launchd: a step of the rollback after the query.
LEMMA UndoneOnDarwin ==
  ASSUME BootInv, UndoStep, ~Linux, NextOrder # "query", ~flawed' => Possible(NextOrder) /\ machine' = Done(NextOrder),
         \/ machine' = machine
         \/ Possible(NextOrder) /\ machine' = Done(NextOrder)
  PROVE  UndoOnDarwin' /\ LaunchdTied'
<1>1. BootForm /\ EarlierSound /\ machine \in MachineRecord /\ machine' \in MachineRecord /\ NextOrder = Head(remaining)
      /\ remaining' = Tail(remaining) /\ UndoOnDarwin /\ remaining # << >> /\ flawed \in BOOLEAN /\ flawed' \in BOOLEAN
      /\ (flawed => flawed') /\ earlier' = earlier /\ earlier \in EarlierRecord /\ ~Linux'
      /\ (machine.runs # Undefined => machine.memory # Undefined) /\ overlooked' = overlooked
  BY DEF BootInv, BootForm, UndoStep, NextOrder, Undoing, KeepCommand, LaunchdTied, Linux
<1>2. Back' = Back /\ (Reboots' <=> Reboots) /\ Reboot' = Reboot
  BY DarwinListsStay DEF UndoStep
<1>3. CASE remaining = <<"query", "restore", Back>> \o Reboot
  BY <1>1, <1>3, DarwinTaken, Zenon
<1>7. CASE remaining = <<"bootout", "restore", Back>> \o Reboot
  <2>1. NextOrder = "bootout" /\ remaining' = <<"restore", Back'>> \o Reboot'
    BY <1>1, <1>2, <1>7, DarwinTaken, Zenon
  <2>2. \/ machine' = machine
        \/ machine' = [machine EXCEPT !.memory = Undefined, !.runs = Undefined]
    BY <1>1, <2>1, RunOrders
  <2>3. ~flawed' => BootedOut'
    <3>1. ~flawed' => machine' = [machine EXCEPT !.memory = Undefined, !.runs = Undefined]
      BY <1>1, <2>1, RunOrders
    <3> QED  BY <1>1, <3>1 DEF MachineRecord, BootedOut
  <2>4. LaunchdTied'
    BY <1>1, <2>2 DEF LaunchdTied, MachineRecord
  <2> QED  BY <2>1, <2>3, <2>4, Zenon DEF UndoOnDarwin, Reboot
<1>4. CASE remaining = <<"restore", Back>> \o Reboot /\ (~flawed => BootedOut)
  <2>1. NextOrder = "restore" /\ remaining' = <<Back'>> \o Reboot'
    BY <1>1, <1>2, <1>4, DarwinTaken, Zenon
  <2>2. \/ machine' = machine
        \/ machine' = [machine EXCEPT !.file = earlier.file]
    BY <1>1, <2>1, FileOrders
  <2>3. machine'.memory = machine.memory /\ machine'.runs = machine.runs /\ (~flawed' => BootedOut')
    BY <1>1, <1>4, <2>2 DEF MachineRecord, BootedOut
  <2>4. ~flawed' => machine'.file = earlier'.file
    <3>1. ~flawed' => machine' = [machine EXCEPT !.file = earlier.file]
      BY <1>1, <2>1, FileOrders
    <3> QED  BY <1>1, <3>1 DEF MachineRecord
  <2>5. LaunchdTied'
    BY <1>1, <2>3 DEF LaunchdTied
  <2> QED  BY <2>1, <2>3, <2>4, <2>5, Zenon DEF UndoOnDarwin, Reboot
<1>5. CASE remaining = <<Back>> \o Reboot /\ (~flawed => BootedOut /\ machine.file = earlier.file)
  <2>1. NextOrder = Back /\ remaining' = Reboot
    BY <1>1, <1>5, DarwinTaken, Zenon
  <2>2. Done(Back) = [machine EXCEPT !.enabled = earlier.enabled, !.memory = machine.memory]
    BY <1>1, SwitchOrders DEF Back, EarlierRecord
  <2>3. machine'.memory = machine.memory /\ machine'.runs = machine.runs /\ machine'.file = machine.file
        /\ (~flawed' => BootedOut')
    BY <1>1, <1>5, <2>1, <2>2 DEF MachineRecord, BootedOut
  <2>4. ~flawed' => machine'.file = earlier'.file /\ machine'.enabled = earlier.enabled
    BY <1>1, <1>5, <2>1, <2>2, <2>3 DEF MachineRecord
  <2>5. ~flawed' => Reported'.enabled = earlier'.enabled
    BY <1>1, <2>4 DEF Reported, EarlierSound, EarlierRecord
  <2>6. LaunchdTied'
    BY <1>1, <2>3 DEF LaunchdTied
  <2>7. CASE Reboots
    <3>1. remaining' = <<"bootstrap">> /\ Reboots'
      BY <1>1, <1>2, <2>1, <2>7, DarwinTaken, Zenon
    <3> QED  BY <2>3, <2>4, <2>5, <2>6, <3>1, Zenon DEF UndoOnDarwin
  <2>8. CASE ~Reboots
    <3>1. remaining' = << >>
      BY <1>1, <2>1, <2>8, DarwinTaken, Zenon
    <3>2. ~earlier.running
      BY <1>1, <2>8 DEF Reboots, EarlierSound
    <3>4. ~flawed' /\ ~overlooked' => machine'.memory = Undefined /\ machine'.runs = Undefined
      BY <1>1, <2>3 DEF BootedOut
    <3>3. ~flawed' => Restored'
      BY <1>1, <2>4, <2>5, <3>2, <3>4 DEF Restored, Only, ViewerRuns, EarlierRecord
    <3> QED  BY <2>6, <3>1, <3>3, Zenon DEF UndoOnDarwin
  <2> QED  BY <2>7, <2>8
<1>6. CASE Reboots /\ remaining = <<"bootstrap">>
           /\ (~flawed => BootedOut /\ machine.file = earlier.file /\ Reported.enabled = earlier.enabled)
  <2>1. NextOrder = "bootstrap" /\ remaining' = << >>
    BY <1>1, <1>6, DarwinTaken, Zenon
  <2>2. \/ machine' = machine
        \/ machine.file # Undefined /\ machine' = [machine EXCEPT !.memory = machine.file, !.runs = machine.file]
    BY <1>1, <2>1, RunOrders DEF Possible
  <2>3. ~flawed' => machine' = [machine EXCEPT !.memory = machine.file, !.runs = machine.file]
    BY <1>1, <2>1, RunOrders
  <2>4. LaunchdTied'
    BY <1>1, <2>2 DEF LaunchdTied, MachineRecord
  <2>5. ~flawed' => machine'.file = earlier'.file /\ machine'.memory = machine'.file /\ machine'.runs = machine'.file
                    /\ machine'.enabled = machine.enabled /\ machine'.file = machine.file
    BY <1>1, <1>6, <2>3 DEF MachineRecord
  <2>6. ~flawed' => Reported'.enabled = earlier'.enabled
    BY <1>1, <1>6, <2>5 DEF Reported
  <2>7. ~flawed' => Restored'
    BY <1>1, <1>6, <2>5, <2>6 DEF Restored, Only, Reboots
  <2> QED  BY <2>1, <2>4, <2>7, Zenon DEF UndoOnDarwin
<1> QED  BY <1>1, <1>3, <1>4, <1>5, <1>6, <1>7, Zenon DEF UndoOnDarwin, Reboot

LEMMA UndoOrderForm ==
  ASSUME BootInv, Undoing, NextOrder # "query",
         \/ Possible(NextOrder) /\ machine' = Done(NextOrder)
         \/ machine' = machine
  PROVE  machine' \in MachineRecord
<1>1. BootForm /\ machine \in MachineRecord /\ earlier \in EarlierRecord /\ NextOrder = Head(remaining) /\ remaining # << >>
  BY DEF BootInv, BootForm, NextOrder, Undoing
<1>2. NextOrder \in {"stop", "disable", "restore", "daemon-reload", "enable", "start", "bootstrap", "bootout"}
  <2>1. CASE Linux
    <3>1. UndoOnLinux
      BY <2>1 DEF BootInv, Undoing
    <3> QED  BY <1>1, <3>1, UndoTaken, Zenon DEF UndoOnLinux
  <2>2. CASE ~Linux
    <3>1. UndoOnDarwin
      BY <2>2 DEF BootInv, Undoing
    <3>2. NextOrder = "restore" \/ NextOrder = Back \/ NextOrder = "bootstrap" \/ NextOrder = "bootout"
      BY <1>1, <3>1, DarwinTaken, Zenon DEF UndoOnDarwin, Reboot
    <3>3. Back = "enable" \/ Back = "disable"
      BY DEF Back
    <3> QED  BY <3>2, <3>3
  <2> QED  BY <2>1, <2>2
<1>3. InMemory \in Definition /\ machine.file \in Definition /\ machine.memory \in Definition /\ earlier.file \in Definition
  BY <1>1, InMemoryIs DEF MachineRecord, EarlierRecord
<1>4. CASE NextOrder = "restore" /\ machine' = Done(NextOrder)
  <2>1. machine' = [machine EXCEPT !.file = earlier.file]
    BY <1>1, <1>4, FileOrders
  <2> QED  BY <1>1, <1>3, <2>1 DEF MachineRecord
<1>9. CASE NextOrder = "daemon-reload" /\ machine' = Done(NextOrder)
  <2>1. machine' = [machine EXCEPT !.memory = machine.file]
    BY <1>1, <1>9, FileOrders
  <2> QED  BY <1>1, <1>3, <2>1 DEF MachineRecord
<1>5. CASE NextOrder \in {"enable", "disable"} /\ machine' = Done(NextOrder)
  <2>1. PICK on \in BOOLEAN : machine' = [machine EXCEPT !.enabled = on, !.memory = IF Linux THEN machine.file ELSE machine.memory]
    BY <1>1, <1>5, SwitchOrders
  <2> QED  BY <1>1, <1>3, <2>1 DEF MachineRecord
<1>6. CASE NextOrder = "stop" /\ machine' = Done(NextOrder)
  <2>1. machine' = [machine EXCEPT !.runs = Undefined]
    BY <1>1, <1>6, RunOrders
  <2> QED  BY <1>1, <2>1 DEF MachineRecord, Definition
<1>7. CASE NextOrder = "start" /\ machine' = Done(NextOrder)
  <2>1. machine' = [machine EXCEPT !.runs = IF ViewerRuns THEN machine.runs ELSE InMemory, !.memory = InMemory]
    BY <1>1, <1>7, RunOrders
  <2> QED  BY <1>1, <1>3, <2>1 DEF MachineRecord
<1>10. CASE NextOrder = "bootout" /\ machine' = Done(NextOrder)
  <2>1. machine' = [machine EXCEPT !.memory = Undefined, !.runs = Undefined]
    BY <1>1, <1>10, RunOrders
  <2> QED  BY <1>1, <2>1 DEF MachineRecord, Definition
<1>8. CASE NextOrder = "bootstrap" /\ machine' = Done(NextOrder)
  BY <1>1, <1>3, <1>8, RunOrders DEF MachineRecord
<1> QED  BY <1>1, <1>2, <1>4, <1>5, <1>6, <1>7, <1>8, <1>9, <1>10

LEMMA UndoneKept ==
  ASSUME BootInv, Undone
  PROVE  BootInv'
<1>1. Undoing /\ KeepCommand /\ remaining' = Tail(remaining) /\ UNCHANGED <<verdict, overlooked, stale, meddled>> /\ BootForm
      /\ machine \in MachineRecord /\ flawed \in BOOLEAN /\ overlooked \in BOOLEAN /\ meddled \in BOOLEAN /\ verdict = "undoing"
      /\ LaunchdTied /\ NextOrder # "query" /\ earlier' = earlier /\ (~Linux' <=> ~Linux)
  BY DEF Undone, BootInv, BootForm, Undoing, KeepCommand, Linux
<1>2. \/ Possible(NextOrder) /\ machine' = Done(NextOrder) /\ flawed' = flawed
      \/ machine' = machine /\ flawed' = TRUE
  BY Zenon DEF Undone
<1>3. machine' \in MachineRecord
  BY <1>1, <1>2, UndoOrderForm
<1>4. UndoStep
  BY <1>1, <1>2, <1>3 DEF UndoStep
<1>5. CASE Linux
  <2>1. LaunchdTied'
    BY <1>1, <1>5 DEF LaunchdTied
  <2> QED  BY <1>1, <1>3, <1>4, <1>5, <2>1, UndoneOnLinux, UndoingKept DEF UndoStep
<1>6. CASE ~Linux
  <2>1. UndoOnDarwin' /\ LaunchdTied'
    BY <1>1, <1>2, <1>4, <1>6, UndoneOnDarwin
  <2> QED  BY <1>1, <1>3, <1>4, <1>6, <2>1, UndoingKept DEF UndoStep
<1> QED  BY <1>5, <1>6

\* Only the first step of a rollback on launchd is a query.
LEMMA QueryIsFirst ==
  ASSUME BootInv, Undoing, NextOrder = "query"
  PROVE  /\ ~Linux /\ remaining = <<"query", "restore", Back>> \o Reboot
         /\ Tail(remaining) = <<"restore", Back>> \o Reboot
<1>1. BootForm /\ verdict = "undoing" /\ NextOrder = Head(remaining) /\ remaining # << >>
  BY DEF BootInv, Undoing, NextOrder
<1>2. ~Linux
  <2>1. ASSUME UndoOnLinux PROVE NextOrder \in {"stop", "disable", "restore", "daemon-reload", "enable", "start"}
    BY <1>1, <2>1, UndoTaken, Zenon DEF UndoOnLinux
  <2> QED  BY <1>1, <2>1 DEF BootInv
<1>3. UndoOnDarwin
  BY <1>1, <1>2 DEF BootInv
<1>4. remaining = <<"query", "restore", Back>> \o Reboot
  <2>1. Back # "query"
    BY DEF Back
  <2>2. NextOrder # "restore" /\ NextOrder # "bootstrap" /\ NextOrder # "bootout" /\ NextOrder # Back
    BY <2>1
  <2> QED  BY <1>1, <1>3, <2>2, DarwinTaken, Zenon DEF UndoOnDarwin, Reboot
<1> QED  BY <1>1, <1>2, <1>4, DarwinTaken, Zenon

\* What is loaded is booted out next, and what is not loaded need not be.
LEMMA SeenLoadedKept ==
  ASSUME BootInv, SeenLoaded
  PROVE  BootInv'
<1>1. Undoing /\ NextOrder = "query" /\ KeepCommand /\ remaining' = If(Loaded, "bootout") \o Tail(remaining) /\ machine' = machine
      /\ UNCHANGED <<verdict, flawed, overlooked, stale, meddled>> /\ verdict = "undoing" /\ BootForm /\ flawed \in BOOLEAN
      /\ overlooked \in BOOLEAN /\ meddled \in BOOLEAN
  BY DEF SeenLoaded, BootInv, BootForm, Undoing, Reports
<1>2. ~Linux /\ Tail(remaining) = <<"restore", Back>> \o Reboot
  BY <1>1, QueryIsFirst
<1>3. Back' = Back /\ Reboot' = Reboot /\ machine' \in MachineRecord /\ LaunchdTied'
  BY <1>1, DarwinListsStay, UnmovedTied
<1>4. UndoOnDarwin'
  <2>1. CASE Loaded
    <3>1. If(Loaded, "bootout") = <<"bootout">>
      BY <2>1 DEF If
    <3>2. remaining' = <<"bootout", "restore", Back'>> \o Reboot'
      BY <1>1, <1>2, <1>3, <3>1, DarwinTaken, Zenon
    <3> QED  BY <3>2, Zenon DEF UndoOnDarwin, Reboot
  <2>2. CASE ~Loaded
    <3>1. If(Loaded, "bootout") = << >>
      BY <2>2 DEF If
    <3>2. << >> \o Tail(remaining) = Tail(remaining)
      <4>1. Tail(remaining) \in Seq(BootOrder)
        BY <1>1, <1>2, DarwinTaken
      <4> QED  BY <4>1
    <3>3. remaining' = <<"restore", Back'>> \o Reboot'
      BY <1>1, <1>2, <1>3, <3>1, <3>2, Zenon
    <3>4. BootedOut'
      BY <1>1, <1>2, <2>2, InMemoryIs DEF BootedOut
    <3> QED  BY <3>3, <3>4, Zenon DEF UndoOnDarwin, Reboot
  <2> QED  BY <2>1, <2>2
<1> QED  BY <1>1, <1>2, <1>3, <1>4, UndoingKept

LEMMA NotSeenKept ==
  ASSUME BootInv, NotSeen
  PROVE  BootInv'
<1>1. Undoing /\ NextOrder = "query" /\ KeepCommand /\ remaining' = Tail(remaining) /\ machine' = machine
      /\ UNCHANGED <<verdict, flawed, stale, meddled>> /\ verdict = "undoing" /\ BootForm /\ flawed \in BOOLEAN
      /\ overlooked' = Loaded /\ meddled \in BOOLEAN
  BY DEF NotSeen, BootInv, BootForm, Undoing
<1>2. ~Linux /\ Tail(remaining) = <<"restore", Back>> \o Reboot
  BY <1>1, QueryIsFirst
<1>3. Back' = Back /\ Reboot' = Reboot /\ machine' \in MachineRecord /\ LaunchdTied'
  BY <1>1, DarwinListsStay, UnmovedTied
<1>4. BootedOut' /\ overlooked' \in BOOLEAN
  BY <1>1, <1>2, InMemoryIs DEF BootedOut, Loaded
<1>5. remaining' = <<"restore", Back'>> \o Reboot'
  BY <1>1, <1>2, <1>3, Zenon
<1>6. UndoOnDarwin'
  BY <1>4, <1>5, Zenon DEF UndoOnDarwin, Reboot
<1> QED  BY <1>1, <1>2, <1>3, <1>4, <1>6, UndoingKept

LEMMA UndoFailsKept ==
  ASSUME BootInv, UndoFails
  PROVE  BootInv'
<1>1. Undoing /\ KeepCommand /\ remaining' = Tail(remaining) /\ UNCHANGED <<verdict, overlooked, stale, meddled>> /\ BootForm /\ overlooked \in BOOLEAN
      /\ machine \in MachineRecord /\ flawed \in BOOLEAN /\ flawed' = TRUE /\ meddled \in BOOLEAN /\ verdict = "undoing"
      /\ NextOrder # "query" /\ LaunchdTied /\ (~Linux' <=> ~Linux)
  BY DEF UndoFails, BootInv, BootForm, Undoing, KeepCommand, Linux
<1>2. \/ Possible(NextOrder) /\ machine' = Done(NextOrder)
      \/ machine' = machine
  BY Zenon DEF UndoFails
<1>3. machine' \in MachineRecord
  BY <1>1, <1>2, UndoOrderForm
<1>4. UndoStep
  BY <1>1, <1>3 DEF UndoStep
<1>5. CASE Linux
  <2>1. LaunchdTied'
    BY <1>1, <1>5 DEF LaunchdTied
  <2> QED  BY <1>1, <1>3, <1>4, <1>5, <2>1, UndoneOnLinux, UndoingKept DEF UndoStep
<1>6. CASE ~Linux
  <2>1. UndoOnDarwin' /\ LaunchdTied'
    BY <1>1, <1>2, <1>4, <1>6, UndoneOnDarwin
  <2> QED  BY <1>1, <1>3, <1>4, <1>6, <2>1, UndoingKept DEF UndoStep
<1> QED  BY <1>5, <1>6

LEMMA RolledBackKept ==
  ASSUME BootInv, RolledBack
  PROVE  BootInv'
<1>1. remaining = << >> /\ verdict = "undoing" /\ verdict' = (IF flawed THEN "incomplete" ELSE "restored") /\ BootForm
      /\ (stale' <=> stale \/ flawed \/ overlooked) /\ KeepCommand /\ UNCHANGED <<machine, meddled, flawed, overlooked>> /\ overlooked \in BOOLEAN /\ flawed \in BOOLEAN
      /\ stale' \in BOOLEAN
  BY DEF RolledBack, BootInv, BootForm
<1>2. ~flawed => Restored
  <2>1. CASE Linux
    <3>1. UndoOnLinux
      BY <1>1, <2>1 DEF BootInv
    <3> QED  BY <1>1, <3>1, UndoIsLeft, Zenon DEF UndoOnLinux
  <2>2. CASE ~Linux
    <3>1. UndoOnDarwin
      BY <1>1, <2>2 DEF BootInv
    <3> QED  BY <1>1, <3>1, DarwinTaken, Zenon DEF UndoOnDarwin, Reboot
  <2> QED  BY <2>1, <2>2
<1>3. ~stale' => Only(machine.file)
  BY <1>1, <1>2 DEF Restored
<1>4. CASE flawed
  BY <1>1, <1>3, <1>4, ToldKept
<1>5. CASE ~flawed
  BY <1>1, <1>2, <1>3, <1>5, ToldKept
<1> QED  BY <1>4, <1>5

-----------------------------------------------------------------------------
(* The world around a command. *)

\* The viewer stops, or the manager starts it by what it knows, or systemd forgets what it knows.
Weather ==
  /\ machine' \in MachineRecord /\ machine'.file = machine.file /\ machine'.enabled = machine.enabled
  /\ machine'.memory \in {machine.memory, Undefined} /\ (~Linux => machine'.memory = machine.memory)
  /\ machine'.runs \in {machine.runs, Undefined} \/ (ViewerRuns /\ Loaded /\ machine'.runs = InMemory)
  /\ KeepCommand /\ UNCHANGED <<remaining, Reports>>

LEMMA WeatherKeeps ==
  ASSUME BootForm, LaunchdTied, Weather
  PROVE  /\ Stopped => Stopped'
         /\ \A d : machine.file = d /\ Only(d) => machine'.memory \in {Undefined, d} /\ machine'.runs \in {Undefined, d}
         /\ Reported'.enabled = Reported.enabled
         /\ LaunchdTied'
<1>1. (machine.memory = Undefined => InMemory \in {machine.file, Undefined}) /\ (machine.memory # Undefined => InMemory = machine.memory)
      /\ (~Linux => InMemory = machine.memory) /\ (Loaded <=> InMemory # Undefined)
  BY InMemoryIs DEF InMemory
<1>2. Stopped => Stopped'
  BY DEF Stopped, Weather, ViewerRuns
<1>3. ASSUME NEW d, machine.file = d, Only(d) PROVE machine'.memory \in {Undefined, d} /\ machine'.runs \in {Undefined, d}
  BY <1>1, <1>3 DEF Only, Weather
<1>4. Reported'.enabled = Reported.enabled
  BY DEF Reported, Weather
<1>5. LaunchdTied'
  BY <1>1 DEF LaunchdTied, Weather, KeepCommand, Linux
<1> QED  BY <1>2, <1>3, <1>4, <1>5

LEMMA WeatherOnInstall ==
  ASSUME BootForm, LaunchdTied, Weather, Installing
  PROVE  Installing'
<1>1. /\ machine'.file = machine.file /\ (~Linux => machine'.memory = machine.memory) /\ remaining' = remaining
      /\ machine'.memory \in {machine.memory, Undefined} /\ wanted' = wanted /\ stale' = stale /\ (Linux' <=> Linux)
      /\ (machine.runs = Undefined => machine'.runs = Undefined)
      /\ wanted # Undefined
  BY DEF Weather, KeepCommand, Linux, ViewerRuns, Installing, Reports
<1>2. /\ \A d : machine.file = d /\ Only(d) => machine'.memory \in {Undefined, d} /\ machine'.runs \in {Undefined, d}
      /\ LaunchdTied'
  BY WeatherKeeps
<1>3. machine.file = wanted /\ (~stale => Only(wanted)) => (~stale' => Only(wanted)')
  BY <1>1, <1>2 DEF Only
<1>4. CASE Linux /\ InstallOnLinux
  <2>1. PICK s \in {"start", "restart"} :
          \/ /\ remaining = <<"write", "daemon-reload", "enable", s, "wait">>
             /\ s = "start" /\ ~stale => machine.runs = Undefined
          \/ /\ remaining = <<"daemon-reload", "enable", s, "wait">> /\ machine.file = wanted
             /\ s = "start" /\ ~stale => machine.runs = Undefined
          \/ /\ remaining = <<"enable", s, "wait">> /\ machine.file = wanted
             /\ s = "start" /\ ~stale => machine.runs = Undefined \/ Only(wanted)
          \/ /\ remaining = <<s, "wait">> /\ machine.file = wanted /\ machine.memory \in {Undefined, wanted}
             /\ s = "start" /\ ~stale => machine.runs \in {Undefined, wanted}
    BY <1>4, Zenon DEF InstallOnLinux
  <2>2. \/ /\ remaining' = <<"write", "daemon-reload", "enable", s, "wait">>
           /\ s = "start" /\ ~stale' => machine'.runs = Undefined
        \/ /\ remaining' = <<"daemon-reload", "enable", s, "wait">> /\ machine'.file = wanted'
           /\ s = "start" /\ ~stale' => machine'.runs = Undefined
        \/ /\ remaining' = <<"enable", s, "wait">> /\ machine'.file = wanted'
           /\ s = "start" /\ ~stale' => machine'.runs = Undefined \/ Only(wanted)'
        \/ /\ remaining' = <<s, "wait">> /\ machine'.file = wanted' /\ machine'.memory \in {Undefined, wanted'}
           /\ s = "start" /\ ~stale' => machine'.runs \in {Undefined, wanted'}
    <3>1. CASE /\ remaining = <<"write", "daemon-reload", "enable", s, "wait">>
               /\ s = "start" /\ ~stale => machine.runs = Undefined
      BY <1>1, <3>1
    <3>2. CASE /\ remaining = <<"daemon-reload", "enable", s, "wait">> /\ machine.file = wanted
               /\ s = "start" /\ ~stale => machine.runs = Undefined
      BY <1>1, <3>2
    <3>3. CASE /\ remaining = <<"enable", s, "wait">> /\ machine.file = wanted
               /\ s = "start" /\ ~stale => machine.runs = Undefined \/ Only(wanted)
      <4>1. s = "start" /\ ~stale' => machine'.runs = Undefined \/ Only(wanted)'
        BY <1>1, <1>2, <3>3 DEF Only
      <4> QED  BY <1>1, <3>3, <4>1
    <3>4. CASE /\ remaining = <<s, "wait">> /\ machine.file = wanted /\ machine.memory \in {Undefined, wanted}
               /\ s = "start" /\ ~stale => machine.runs \in {Undefined, wanted}
      <4>1. s = "start" /\ ~stale' => machine'.runs \in {Undefined, wanted'}
        BY <1>1, <1>2, <3>4 DEF Only
      <4> QED  BY <1>1, <3>4, <4>1
    <3> QED  BY <2>1, <3>1, <3>2, <3>3, <3>4
  <2>3. InstallOnLinux'
    BY <2>2, Zenon DEF InstallOnLinux
  <2> QED  BY <1>1, <1>4, <2>3 DEF Installing
<1>5. CASE ~Linux /\ InstallOnDarwin
  <2>1. InstallOnDarwin'
    BY <1>1, <1>3, <1>5, Zenon DEF InstallOnDarwin
  <2> QED  BY <1>1, <1>5, <2>1 DEF Installing
<1>6. CASE remaining = <<"wait">> /\ machine.file = wanted /\ (~stale => Only(wanted))
  BY <1>1, <1>3, <1>6, Zenon DEF Installing
<1> QED  BY <1>4, <1>5, <1>6 DEF Installing

LEMMA WeatherOnRemoval ==
  ASSUME BootForm, LaunchdTied, Weather, Removing
  PROVE  Removing'
<1>1. /\ machine'.file = machine.file /\ (~Linux => machine'.memory = machine.memory) /\ remaining' = remaining
      /\ wanted' = wanted /\ (Linux' <=> Linux)
  BY DEF Weather, KeepCommand, Linux
<1>2. CASE Linux /\ RemoveOnLinux
  BY <1>1, <1>2, Zenon DEF Removing, RemoveOnLinux
<1>3. CASE ~Linux /\ RemoveOnDarwin
  BY <1>1, <1>3, Zenon DEF Removing, RemoveOnDarwin
<1>4. CASE remaining = <<"gone">> /\ machine.file = Undefined
  BY <1>1, <1>4, Zenon DEF Removing
<1> QED  BY <1>2, <1>3, <1>4 DEF Removing

LEMMA WeatherOnRestored ==
  ASSUME BootForm, LaunchdTied, Weather, Restored, meddled' = TRUE \/ (meddled' = meddled /\ machine'.runs = machine.runs)
  PROVE  Restored'
<1>1. machine'.file = machine.file /\ earlier' = earlier /\ (Linux' <=> Linux) /\ Reported'.enabled = Reported.enabled
      /\ overlooked' = overlooked
  BY WeatherKeeps DEF Weather, KeepCommand, Linux, Reports
<1>2. ~overlooked' => Only(machine.file)'
  BY <1>1, WeatherKeeps DEF Restored, Only
<1>3. ~meddled' => ViewerRuns' = ViewerRuns /\ ~meddled
  BY DEF ViewerRuns
<1> QED  BY <1>1, <1>2, <1>3 DEF Restored

LEMMA WeatherOnUndo ==
  ASSUME BootInv, Weather, verdict = "undoing", meddled' = TRUE \/ (meddled' = meddled /\ machine'.runs = machine.runs)
  PROVE  (Linux /\ UndoOnLinux') \/ (~Linux /\ UndoOnDarwin')
<1>1. /\ machine'.file = machine.file /\ (~Linux => machine'.memory = machine.memory) /\ remaining' = remaining
      /\ earlier' = earlier /\ flawed' = flawed /\ machine'.enabled = machine.enabled /\ BootForm /\ LaunchdTied
      /\ machine'.memory \in {machine.memory, Undefined} /\ overlooked' = overlooked
  BY DEF Weather, KeepCommand, BootInv, Reports
<1>2. (Stopped => Stopped') /\ Reported'.enabled = Reported.enabled /\ (Restored => Restored')
  BY <1>1, WeatherKeeps, WeatherOnRestored
<1>3. CASE Linux
  <2>1. UndoOnLinux
    BY <1>3 DEF BootInv
  <2>2. (Disabled => Disabled') /\ (Reloaded => Reloaded')
    BY <1>1 DEF Disabled, Reloaded
  <2>3. UndoDisables' = UndoDisables /\ UndoRestores' = UndoRestores /\ UndoReloads' = UndoReloads /\ UndoStarts' = UndoStarts
    BY UndoListsStay DEF UndoListsKept, Weather
  <2>4. UndoOnLinux'
    <3>1. CASE remaining = <<"stop">> \o UndoDisables
      BY <1>1, <2>3, <3>1, Zenon DEF UndoOnLinux
    <3>2. CASE ~earlier.enabled /\ remaining = <<"disable">> \o UndoRestores /\ (~flawed => Stopped)
      BY <1>1, <1>2, <2>3, <3>2, Zenon DEF UndoOnLinux
    <3>3. CASE remaining = UndoRestores /\ (~flawed => Stopped /\ Disabled)
      BY <1>1, <1>2, <2>2, <2>3, <3>3, Zenon DEF UndoOnLinux
    <3>4. CASE remaining = UndoReloads /\ (~flawed => Stopped /\ Disabled /\ machine.file = earlier.file)
      BY <1>1, <1>2, <2>2, <2>3, <3>4, Zenon DEF UndoOnLinux
    <3>5. CASE earlier.enabled /\ remaining = <<"enable">> \o UndoStarts /\ (~flawed => Stopped /\ Reloaded)
      BY <1>1, <1>2, <2>2, <2>3, <3>5, Zenon DEF UndoOnLinux
    <3>6. CASE earlier.running /\ remaining = <<"start">> /\ (~flawed => Stopped /\ Reloaded /\ Reported.enabled = earlier.enabled)
      BY <1>1, <1>2, <2>2, <3>6, Zenon DEF UndoOnLinux
    <3>7. CASE remaining = << >> /\ (~flawed => Restored)
      BY <1>1, <1>2, <3>7, Zenon DEF UndoOnLinux
    <3> QED  BY <2>1, <3>1, <3>2, <3>3, <3>4, <3>5, <3>6, <3>7, Zenon DEF UndoOnLinux
  <2> QED  BY <1>3, <2>4
<1>4. CASE ~Linux
  <2>1. UndoOnDarwin
    BY <1>4 DEF BootInv
  <2>2. Back' = Back /\ (Reboots' <=> Reboots) /\ Reboot' = Reboot
    BY DarwinListsStay DEF Weather
  <2>4. BootedOut => BootedOut'
    BY <1>1, <1>4 DEF BootedOut
  <2>3. UndoOnDarwin'
    <3>1. CASE remaining = <<"query", "restore", Back>> \o Reboot \/ remaining = <<"bootout", "restore", Back>> \o Reboot
      BY <1>1, <2>2, <3>1, Zenon DEF UndoOnDarwin, Reboot
    <3>2. CASE remaining = <<"restore", Back>> \o Reboot /\ (~flawed => BootedOut)
      BY <1>1, <2>2, <2>4, <3>2, Zenon DEF UndoOnDarwin, Reboot
    <3>3. CASE remaining = <<Back>> \o Reboot /\ (~flawed => BootedOut /\ machine.file = earlier.file)
      BY <1>1, <2>2, <2>4, <3>3, Zenon DEF UndoOnDarwin, Reboot
    <3>4. CASE Reboots /\ remaining = <<"bootstrap">>
               /\ (~flawed => BootedOut /\ machine.file = earlier.file /\ Reported.enabled = earlier.enabled)
      BY <1>1, <1>2, <2>2, <2>4, <3>4, Zenon DEF UndoOnDarwin
    <3>5. CASE remaining = << >> /\ (~flawed => Restored)
      BY <1>1, <1>2, <3>5, Zenon DEF UndoOnDarwin
    <3> QED  BY <2>1, <3>1, <3>2, <3>3, <3>4, <3>5, Zenon DEF UndoOnDarwin, Reboot
  <2> QED  BY <1>4, <2>3
<1> QED  BY <1>3, <1>4

\* Within a command and outside of one.
LEMMA WeatherInCommand ==
  ASSUME BootInv, Weather, ~NoCommand, verdict' = verdict, meddled' = TRUE \/ (meddled' = meddled /\ machine'.runs = machine.runs)
  PROVE  BootInv'
<1>1. machine' \in MachineRecord /\ LaunchdTied' /\ KeepCommand /\ meddled' \in BOOLEAN /\ flawed' \in BOOLEAN
      /\ UNCHANGED Reports /\ overlooked' \in BOOLEAN /\ stale' = stale /\ BootForm /\ LaunchdTied
  BY WeatherKeeps DEF BootInv, BootForm, Weather, Reports
<1>2. CASE verdict = "doing"
  <2>1. Installing' \/ Removing'
    BY <1>1, <1>2, WeatherOnInstall, WeatherOnRemoval DEF BootInv
  <2> QED  BY <1>1, <1>2, <2>1, DoingKept
<1>3. CASE verdict = "undoing"
  BY <1>1, <1>3, WeatherOnUndo, UndoingKept
<1> QED  BY <1>2, <1>3 DEF NoCommand

LEMMA WeatherAtRest ==
  ASSUME BootInv, Weather, NoCommand, verdict' = "idle", meddled' \in BOOLEAN
  PROVE  BootInv'
<1>1. BootForm' /\ LaunchdTied' /\ EarlierSound'
  BY WeatherKeeps DEF BootInv, BootForm, EarlierSound, Weather, KeepCommand, Linux, Reports
<1>2. ~stale' => Only(machine.file)'
  BY WeatherKeeps DEF BootInv, Weather, Only, Reports
<1> QED  BY <1>1, <1>2 DEF BootInv

LEMMA StoppedByHandKept ==
  ASSUME BootInv, StoppedByHand
  PROVE  BootInv'
<1>1. BootForm /\ machine \in MachineRecord /\ Calm /\ Around /\ machine' = [machine EXCEPT !.runs = Undefined]
  BY DEF BootInv, BootForm, StoppedByHand
<1>2. Weather
  BY <1>1 DEF Weather, Around, MachineRecord, Definition
<1>3. CASE NoCommand
  BY <1>1, <1>2, <1>3, WeatherAtRest DEF Calm
<1>4. CASE ~NoCommand
  BY <1>1, <1>2, <1>4, WeatherInCommand DEF Calm
<1> QED  BY <1>3, <1>4

LEMMA ViewerFailsKept ==
  ASSUME BootInv, ViewerFails
  PROVE  BootInv'
<1>1. BootForm /\ machine \in MachineRecord /\ Calm /\ Around /\ machine' = [machine EXCEPT !.runs = InMemory] /\ ViewerRuns /\ Loaded
      /\ InMemory \in Definition
  BY InMemoryIs DEF BootInv, BootForm, ViewerFails
<1>2. Weather
  BY <1>1 DEF Weather, Around, MachineRecord
<1>3. CASE NoCommand
  BY <1>1, <1>2, <1>3, WeatherAtRest DEF Calm
<1>4. CASE ~NoCommand
  BY <1>1, <1>2, <1>4, WeatherInCommand DEF Calm
<1> QED  BY <1>3, <1>4

LEMMA DroppedKept ==
  ASSUME BootInv, Dropped
  PROVE  BootInv'
<1>1. BootForm /\ machine \in MachineRecord /\ Around /\ machine' = [machine EXCEPT !.memory = Undefined] /\ ~ViewerRuns /\ Linux
      /\ UNCHANGED <<verdict, meddled>> /\ LaunchdTied
  BY DEF BootInv, BootForm, Dropped
<1>2. Weather /\ machine'.runs = machine.runs /\ machine'.memory = Undefined
  BY <1>1 DEF Weather, Around, MachineRecord, Definition
<1>3. CASE ~NoCommand
  BY <1>1, <1>2, <1>3, WeatherInCommand
<1>4. CASE NoCommand
  <2>1. BootForm' /\ LaunchdTied' /\ EarlierSound'
    BY <1>1, <1>2, WeatherKeeps DEF BootInv, BootForm, EarlierSound, Weather, KeepCommand, Linux, Reports
  <2>2. ~stale' => Only(machine.file)'
    BY <1>1, <1>2, <1>4, WeatherKeeps DEF BootInv, Weather, Only, Reports
  <2>3. verdict # "installed" /\ verdict # "doing" /\ verdict # "undoing"
    BY <1>1, <1>4 DEF BootInv, NoCommand
  <2>4. verdict = "removed" => machine'.file = Undefined /\ ~Loaded' /\ ~ViewerRuns'
    BY <1>1, <1>2 DEF BootInv, Weather, Loaded, InMemory, ViewerRuns
  <2>5. verdict = "restored" => Restored'
    BY <1>1, <1>2, WeatherOnRestored DEF BootInv
  <2> QED  BY <1>1, <2>1, <2>2, <2>3, <2>4, <2>5 DEF BootInv
<1> QED  BY <1>3, <1>4

LEMMA CommandKilledKept ==
  ASSUME BootInv, CommandKilled
  PROVE  BootInv'
<1>1. BootForm' /\ LaunchdTied' /\ EarlierSound'
  BY DEF BootInv, BootForm, LaunchdTied, EarlierSound, CommandKilled, KeepCommand, Linux
<1>2. verdict' = "idle" /\ stale' = TRUE
  BY DEF CommandKilled
<1> QED  BY <1>1, <1>2 DEF BootInv

LEMMA MachineRestartsKept ==
  ASSUME BootInv, MachineRestarts
  PROVE  BootInv'
<1>1. machine \in MachineRecord /\ verdict' = "idle" /\ KeepCommand /\ UNCHANGED <<flawed, overlooked, meddled>> /\ stale' = FALSE
  BY DEF BootInv, BootForm, MachineRestarts
<1>2. PICK kept \in {machine.file, Undefined} : machine' = [machine EXCEPT !.memory = kept, !.runs = kept]
  BY DEF MachineRestarts
<1>3. machine' \in MachineRecord /\ machine'.file = machine.file /\ machine'.memory = kept /\ machine'.runs = kept
  BY <1>1, <1>2 DEF MachineRecord, Definition
<1>4. BootForm' /\ LaunchdTied' /\ EarlierSound' /\ Only(machine.file)'
  BY <1>1, <1>2, <1>3 DEF BootInv, BootForm, LaunchdTied, EarlierSound, KeepCommand, Linux, Only
<1> QED  BY <1>1, <1>4 DEF BootInv

-----------------------------------------------------------------------------
(* The commands begin. *)

LEMMA CommandedIs ==
  ASSUME BootInv, Commanded, wanted' \in Definition
  PROVE  /\ BootForm' /\ LaunchdTied' /\ EarlierSound' /\ ~NoCommand' /\ verdict' = "doing"
         /\ machine' = machine /\ stale' = stale /\ (~stale => Only(machine.file)) /\ (Linux' <=> Linux)
         /\ (earlier'.loaded <=> Loaded) /\ (earlier'.running <=> ViewerRuns)
         /\ earlier'.loaded \in BOOLEAN /\ earlier'.running \in BOOLEAN
<1>1. BootForm /\ machine \in MachineRecord /\ earlier' = Reported /\ machine' = machine /\ stale' = stale /\ (Linux' <=> Linux)
      /\ verdict' = "doing" /\ NoCommand /\ flawed' = FALSE /\ overlooked' = FALSE /\ meddled' = FALSE /\ ~QueryRefuses
  BY DEF BootInv, BootForm, Commanded, Linux
<1>2. /\ Reported \in EarlierRecord /\ Reported.loaded = Loaded /\ Reported.running = ViewerRuns /\ Reported.file = machine.file
      /\ Reported.enabled = (machine.enabled /\ machine.file # Undefined)
  BY <1>1 DEF Reported, EarlierRecord, MachineRecord, Loaded, ViewerRuns
<1>3. BootForm'
  BY <1>1, <1>2 DEF BootForm
<1>4. LaunchdTied'
  BY <1>1 DEF BootInv, LaunchdTied
<1>5. EarlierSound'
  BY <1>1, <1>2, InMemoryIs DEF EarlierSound, BootInv, LaunchdTied, ViewerRuns, QueryRefuses, Loaded
<1>6. ~NoCommand' /\ (~stale => Only(machine.file))
  BY <1>1 DEF NoCommand, BootInv
<1> QED  BY <1>1, <1>2, <1>3, <1>4, <1>5, <1>6 DEF EarlierRecord

LEMMA InstallServiceKept ==
  ASSUME BootInv, NEW d \in Settings, InstallService(d)
  PROVE  BootInv'
<1> DEFINE changed == machine.file # d
<1>1. Commanded /\ wanted' = d /\ d # Undefined /\ d \in Definition /\ remaining' = InstallSteps(changed) /\ changed \in BOOLEAN
  BY BootAssumption DEF InstallService, Definition
<1>2. /\ BootForm' /\ LaunchdTied' /\ EarlierSound' /\ ~NoCommand' /\ verdict' = "doing"
      /\ machine' = machine /\ stale' = stale /\ (~stale => Only(machine.file)) /\ (Linux' <=> Linux)
      /\ (earlier'.loaded <=> Loaded) /\ (earlier'.running <=> ViewerRuns)
      /\ earlier'.loaded \in BOOLEAN /\ earlier'.running \in BOOLEAN
  BY <1>1, CommandedIs
<1>3. BootForm /\ (~changed => machine.file = d)
  BY DEF BootInv
<1> HIDE DEF changed
<1>4. Installing'
  <2>1. CASE Linux /\ changed
    <3>1. PICK s \in {"start", "restart"} : /\ remaining' = <<"write", "daemon-reload", "enable", s, "wait">>
                                            /\ s = "start" => ~Loaded
      BY <1>1, <1>2, <2>1, InstallLists
    <3>2. s = "start" /\ ~stale' => machine'.runs = Undefined
      BY <1>2, <1>3, <2>1, <3>1, InMemoryIs DEF Only
    <3>3. InstallOnLinux'
      BY <3>1, <3>2, Zenon DEF InstallOnLinux
    <3> QED  BY <1>1, <1>2, <2>1, <3>3 DEF Installing
  <2>2. CASE Linux /\ ~changed
    <3>1. remaining' = <<"enable", "start", "wait">>
      BY <1>1, <1>2, <2>2, InstallLists
    <3>2. machine'.file = wanted' /\ (~stale' => Only(wanted)')
      BY <1>1, <1>2, <1>3, <2>2 DEF Only
    <3>3. InstallOnLinux'
      BY <3>1, <3>2 DEF InstallOnLinux
    <3> QED  BY <1>1, <1>2, <2>2, <3>3 DEF Installing
  <2>3. CASE ~Linux
    <3>1. Loaded <=> machine'.memory # Undefined
      BY <1>2, <1>3, <2>3, InMemoryIs
    <3>2. CASE changed /\ Loaded
      <4>1. remaining' = <<"bootout", "write", "enable", "bootstrap", "wait">>
        BY <1>1, <1>2, <2>3, <3>2, InstallLists
      <4> QED  BY <1>1, <1>2, <2>3, <4>1 DEF Installing, InstallOnDarwin
    <3>3. CASE changed /\ ~Loaded
      <4>1. remaining' = <<"write", "enable", "bootstrap", "wait">>
        BY <1>1, <1>2, <2>3, <3>3, InstallLists
      <4> QED  BY <1>1, <1>2, <2>3, <3>1, <3>3, <4>1 DEF Installing, InstallOnDarwin
    <3>4. ~changed => machine'.file = wanted' /\ (~stale' => Only(wanted)')
      BY <1>1, <1>2, <1>3 DEF Only
    <3>5. CASE ~changed /\ ~Loaded
      <4>1. remaining' = <<"enable", "bootstrap", "wait">>
        BY <1>1, <1>2, <2>3, <3>5, InstallLists
      <4> QED  BY <1>1, <1>2, <2>3, <3>1, <3>4, <3>5, <4>1 DEF Installing, InstallOnDarwin
    <3>6. CASE ~changed /\ Loaded /\ ~ViewerRuns
      <4>1. remaining' = <<"enable", "kickstart", "wait">>
        BY <1>1, <1>2, <2>3, <3>6, InstallLists
      <4> QED  BY <1>1, <1>2, <2>3, <3>4, <3>6, <4>1 DEF Installing, InstallOnDarwin
    <3>7. CASE ~changed /\ Loaded /\ ViewerRuns
      <4>1. remaining' = <<"enable", "wait">>
        BY <1>1, <1>2, <2>3, <3>7, InstallLists
      <4> QED  BY <1>1, <1>2, <2>3, <3>4, <3>7, <4>1 DEF Installing, InstallOnDarwin
    <3> QED  BY <1>1, <3>2, <3>3, <3>5, <3>6, <3>7
  <2> QED  BY <1>1, <2>1, <2>2, <2>3
<1> QED  BY <1>2, <1>4 DEF BootInv

LEMMA UninstallServiceKept ==
  ASSUME BootInv, UninstallService
  PROVE  BootInv'
<1>1. Commanded /\ wanted' = Undefined /\ Undefined \in Definition /\ remaining' = RemovalSteps
  BY DEF UninstallService, Definition
<1>2. /\ BootForm' /\ LaunchdTied' /\ EarlierSound' /\ ~NoCommand' /\ verdict' = "doing"
      /\ machine' = machine /\ (Linux' <=> Linux) /\ (earlier'.loaded <=> Loaded) /\ earlier'.loaded \in BOOLEAN
  BY <1>1, CommandedIs
<1>3. BootForm
  BY DEF BootInv
<1>4. Removing'
  <2>1. CASE Linux
    <3>1. remaining' = <<"disable --now", "rm", "daemon-reload", "gone">>
      BY <1>1, <1>2, <2>1, RemovalLists, Zenon
    <3> QED  BY <1>1, <1>2, <2>1, <3>1, Zenon DEF Removing, RemoveOnLinux
  <2>2. CASE ~Linux /\ Loaded
    <3>1. remaining' = <<"bootout", "disable", "rm", "gone">>
      BY <1>1, <1>2, <2>2, RemovalLists
    <3> QED  BY <1>1, <1>2, <2>2, <3>1 DEF Removing, RemoveOnDarwin
  <2>3. CASE ~Linux /\ ~Loaded
    <3>1. remaining' = <<"disable", "rm", "gone">> /\ machine'.memory = Undefined
      BY <1>1, <1>2, <1>3, <2>3, RemovalLists, InMemoryIs
    <3> QED  BY <1>1, <1>2, <2>3, <3>1 DEF Removing, RemoveOnDarwin
  <2> QED  BY <2>1, <2>2, <2>3
<1> QED  BY <1>2, <1>4 DEF BootInv

LEMMA BootInitially == BootInit => BootInv
<1> SUFFICES ASSUME BootInit PROVE BootInv
  OBVIOUS
<1>1. BootForm
  BY DEF BootInit, BootForm, MachineRecord, EarlierRecord, NothingYet, Definition
<1>2. LaunchdTied /\ EarlierSound /\ Only(machine.file)
  BY DEF BootInit, LaunchdTied, EarlierSound, NothingYet, Only
<1>3. verdict = "idle"
  BY DEF BootInit
<1> QED  BY <1>1, <1>2, <1>3 DEF BootInv

LEMMA BootStutter ==
  ASSUME BootInv, UNCHANGED bootVars
  PROVE  BootInv'
<1>1. /\ platform' = platform /\ machine' = machine /\ remaining' = remaining /\ wanted' = wanted /\ earlier' = earlier
      /\ verdict' = verdict /\ flawed' = flawed /\ overlooked' = overlooked /\ stale' = stale /\ meddled' = meddled
  BY DEF bootVars
<1>2. BootForm /\ LaunchdTied /\ KeepCommand /\ flawed' \in BOOLEAN /\ overlooked' \in BOOLEAN /\ meddled' \in BOOLEAN /\ stale' \in BOOLEAN
      /\ machine' \in MachineRecord
  BY <1>1 DEF BootInv, BootForm, KeepCommand
<1>3. CASE NoCommand
  BY <1>1, <1>2, <1>3, ToldKept DEF BootInv, NoCommand
<1>4. CASE ~NoCommand
  <2>1. Weather
    BY <1>1, <1>2 DEF Weather, Reports
  <2> QED  BY <1>1, <1>4, <2>1, WeatherInCommand
<1> QED  BY <1>3, <1>4

LEMMA BootStep ==
  ASSUME BootInv, [BootNext]_bootVars
  PROVE  BootInv'
<1>1. CASE \E d \in Settings : InstallService(d)
  BY <1>1, InstallServiceKept
<1>2. CASE UninstallService
  BY <1>2, UninstallServiceKept
<1>3. CASE Ordered \/ OrderFails \/ Healthy \/ WaitEnds \/ SeenGone
  BY <1>3, OrderedKept, OrderFailsKept, HealthyKept, WaitEndsKept, SeenGoneKept
<1>4. CASE SeenLoaded \/ NotSeen \/ Undone \/ UndoFails \/ RolledBack
  BY <1>4, SeenLoadedKept, NotSeenKept, UndoneKept, UndoFailsKept, RolledBackKept
<1>5. CASE CommandKilled \/ StoppedByHand \/ ViewerFails \/ Dropped \/ MachineRestarts
  BY <1>5, CommandKilledKept, StoppedByHandKept, ViewerFailsKept, DroppedKept, MachineRestartsKept
<1>6. CASE UNCHANGED bootVars
  BY <1>6, BootStutter
<1> QED  BY <1>1, <1>2, <1>3, <1>4, <1>5, <1>6 DEF BootNext

LEMMA BootTells == BootInv => ServiceIsAsTold
<1> SUFFICES ASSUME BootInv PROVE ServiceIsAsTold
  OBVIOUS
<1>1. verdict = "installed" => machine.file = wanted /\ machine.enabled /\ ViewerRuns /\ (stale \/ machine.runs = wanted)
  <2>1. verdict = "installed" /\ ~stale => Only(machine.file)
    BY DEF BootInv, NoCommand
  <2> QED  BY <2>1 DEF BootInv, Only, ViewerRuns
<1>2. verdict = "restored" => Reported.file = earlier.file /\ Reported.enabled = earlier.enabled
  BY DEF BootInv, Restored, Reported
<1>3. verdict = "restored" /\ ~meddled => overlooked \/ (ViewerRuns = earlier.running) \/ (~Linux /\ earlier.loaded)
  BY DEF BootInv, Restored
<1>4. verdict = "removed" => machine.file = Undefined /\ ~Loaded /\ ~ViewerRuns
  BY DEF BootInv
<1> QED  BY <1>1, <1>2, <1>3, <1>4, Zenon DEF ServiceIsAsTold

\* For any number of commands, definitions, failures, kills and restarts, what an
\* installation or a removal of the boot service tells is what the machine does: the
\* viewer runs by the definition on file, nothing is left to run, or the rollback has
\* put back the file and what the manager starts, and what runs unless its query failed
\* (viewer-service.ts, viewer-service-manager.ts).
THEOREM ServiceIsAsToldAlways == BootSpec => []ServiceIsAsTold
<1>1. BootInv /\ [BootNext]_bootVars => BootInv'
  BY BootStep
<1> QED  BY BootInitially, <1>1, BootTells, PTL DEF BootSpec
=============================================================================
