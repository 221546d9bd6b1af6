------------------------------ MODULE StartLock ------------------------------
(***************************************************************************)
(* viewer-start.lock: one command of a home at a time may start, stop or   *)
(* replace its viewer.  The file is created before its owner is written    *)
(* into it, it is taken from an owner whose process is gone, and whoever   *)
(* takes it does so under a guard file of the same kind.  Reading and      *)
(* removing are two operations on a name that others use meanwhile.        *)
(*                                                                         *)
(* A file nobody lived to write to is in everybody's way: it is not known  *)
(* whose it is.  So is a guard left behind.                                *)
(***************************************************************************)
EXTENDS Naturals, FiniteSets

CONSTANTS
  Starter,      \* processes that take the lock once
  Nameless,     \* no process
  MaxKills      \* bound: processes killed

ASSUME StartLockAssumption == Nameless \notin Starter /\ MaxKills \in Nat

VARIABLES
  begun,        \* Starter -> where it is
  theirs,       \* Starter -> the dead owner it has read
  startFile,    \* viewer-start.lock: who created it, and whether it is written
  guardFile,    \* viewer-start.lock.recovery, likewise
  killed

startVars == <<begun, theirs, startFile, guardFile, killed>>

NoLockFile == [by |-> Nameless, written |-> FALSE]
Made(p)    == [by |-> p, written |-> FALSE]
Whole(p)   == [by |-> p, written |-> TRUE]

StartInit ==
  /\ begun = [p \in Starter |-> "outside"] /\ theirs = [p \in Starter |-> Nameless]
  /\ startFile = NoLockFile /\ guardFile = NoLockFile /\ killed = {}

Moves(p, from, to) == p \notin killed /\ begun[p] = from /\ begun' = [begun EXCEPT ![p] = to]

\* readLock takes a file that is not written for none at first, and later
\* refuses it.
ReadRefuses(f) == f.by # Nameless /\ ~f.written
OwnerGone(f)   == f.written /\ f.by \in killed

-----------------------------------------------------------------------------
CreateStart(p) ==
  /\ IF startFile = NoLockFile
     THEN Moves(p, "outside", "writing") /\ startFile' = Made(p)
     ELSE Moves(p, "outside", "reading") /\ UNCHANGED startFile
  /\ UNCHANGED <<theirs, guardFile, killed>>

\* Written, or removed again when it cannot be.
WriteStart(p) ==
  /\ \/ Moves(p, "writing", "inside") /\ startFile' = Whole(p)
     \/ Moves(p, "writing", "refused") /\ startFile' = NoLockFile
  /\ UNCHANGED <<theirs, guardFile, killed>>

\* A live owner is waited for, and so is one that is not written yet or whose
\* process id was given out again.
ReadStart(p) ==
  /\ \/ OwnerGone(startFile) /\ Moves(p, "reading", "guarding")
        /\ theirs' = [theirs EXCEPT ![p] = startFile.by]
     \/ Moves(p, "reading", "outside") /\ UNCHANGED theirs
     \/ ReadRefuses(startFile) /\ Moves(p, "reading", "refused") /\ UNCHANGED theirs
  /\ UNCHANGED <<startFile, guardFile, killed>>

\* Aborted by its signal, or past its deadline.
GivesUp(p) ==
  /\ Moves(p, "outside", "refused") /\ UNCHANGED <<theirs, startFile, guardFile, killed>>

-----------------------------------------------------------------------------
(* recoverAbandonedLock *)

CreateGuard(p) ==
  /\ IF guardFile = NoLockFile
     THEN Moves(p, "guarding", "writing guard") /\ guardFile' = Made(p)
     ELSE Moves(p, "guarding", "reading guard") /\ UNCHANGED guardFile
  /\ UNCHANGED <<theirs, startFile, killed>>

WriteGuard(p) ==
  /\ \/ Moves(p, "writing guard", "guarded") /\ guardFile' = Whole(p)
     \/ Moves(p, "writing guard", "refused") /\ guardFile' = NoLockFile
  /\ UNCHANGED <<theirs, startFile, killed>>

\* A guard whose owner died stays where it is.
ReadGuard(p) ==
  /\ \/ Moves(p, "reading guard", "outside")
     \/ (OwnerGone(guardFile) \/ ReadRefuses(guardFile)) /\ Moves(p, "reading guard", "refused")
  /\ UNCHANGED <<theirs, startFile, guardFile, killed>>

\* Mutant of StillTheirs: what was read before the guard is trusted.
AsFound(p) == startFile # NoLockFile

\* Under the guard the lock must still be that of the dead owner.
StillTheirs(p) == OwnerGone(startFile) /\ startFile.by = theirs[p]

ReadAgain(p) ==
  /\ \/ StillTheirs(p) /\ Moves(p, "guarded", "removing")
     \/ ~StillTheirs(p) /\ Moves(p, "guarded", "unguarding")
  /\ UNCHANGED <<theirs, startFile, guardFile, killed>>

RemoveDead(p) ==
  /\ Moves(p, "removing", "unguarding") /\ startFile' = NoLockFile
  /\ UNCHANGED <<theirs, guardFile, killed>>

ReleaseGuard(p) ==
  /\ Moves(p, "unguarding", "outside") /\ theirs' = [theirs EXCEPT ![p] = Nameless]
  /\ guardFile' = IF guardFile.by = p THEN NoLockFile ELSE guardFile
  /\ UNCHANGED <<startFile, killed>>

-----------------------------------------------------------------------------
(* release: read, and removed when the token is its own *)

BeginRelease(p) ==
  /\ Moves(p, "inside", IF startFile = Whole(p) THEN "leaving" ELSE "left")
  /\ UNCHANGED <<theirs, startFile, guardFile, killed>>

RemoveOwn(p) ==
  /\ Moves(p, "leaving", "left") /\ startFile' = NoLockFile
  /\ UNCHANGED <<theirs, guardFile, killed>>

KillStarter(p) ==
  /\ begun[p] \notin {"left", "refused"} /\ p \notin killed /\ Cardinality(killed) < MaxKills
  /\ killed' = killed \cup {p} /\ UNCHANGED <<begun, theirs, startFile, guardFile>>

StartStep(p) ==
  \/ CreateStart(p) \/ WriteStart(p) \/ ReadStart(p) \/ GivesUp(p)
  \/ CreateGuard(p) \/ WriteGuard(p) \/ ReadGuard(p) \/ ReadAgain(p) \/ RemoveDead(p) \/ ReleaseGuard(p)
  \/ BeginRelease(p) \/ RemoveOwn(p)

StartNext == \E p \in Starter : StartStep(p) \/ KillStarter(p)

StartSpec == StartInit /\ [][StartNext]_startVars
-----------------------------------------------------------------------------
\* A process that created the lock and has not removed it is alone, and the file
\* is its own to the end, whoever recovers what was left by the dead meanwhile
\* (`acquireViewerStartLock`, `recoverAbandonedLock`, `release`).
OneStarter ==
  LET Within == {p \in Starter \ killed : begun[p] \in {"writing", "inside", "leaving"}} IN
  \A p \in Within : startFile.by = p /\ Within = {p}
=============================================================================
