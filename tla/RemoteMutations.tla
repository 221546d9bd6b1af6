--------------------------- MODULE RemoteMutations ---------------------------
(***************************************************************************)
(* `remote init`, `publish`, `revoke` and `reconcile`: commands that       *)
(* change the production site of a home on Cloudflare Pages.  Each holds   *)
(* the mutation lock, writes its operation before it touches the site, and *)
(* ends with the state file, the operation and its work directory.  A      *)
(* command may fail or be killed at any step; `reconcile` finishes what is *)
(* left, and with --recover-lock takes the lock of a dead command.         *)
(*                                                                         *)
(* Cloudflare is external: a creation or a deployment takes effect or not  *)
(* before its command has ended, whatever the command is told.             *)
(***************************************************************************)
EXTENDS Naturals, FiniteSets, Sequences, SequencesExt

CONSTANTS
  Cmd,          \* processes that run remote commands
  OpId,           \* operation ids, each drawn once
  NoCmd, NoOp,
  First,        \* the capability of a site configured before
  MaxCrashes,   \* bound: commands killed
  MaxOutages    \* bound: answers lost, requests that fail, projects others create

ASSUME RemoteAssumption ==
  NoCmd \notin Cmd /\ {NoOp, First} \cap OpId = {} /\ {MaxCrashes, MaxOutages} \subseteq Nat

VARIABLES
  cmd,          \* Cmd -> where it is, and the operation it holds in memory
  crashed,      \* commands that were killed
  mutationLock, \* who created mutation.lock, and whether its record is written
  guard,        \* likewise mutation.lock.recovery
  remoteState,  \* state.json: capability, last deployment
  operation,    \* operation.json
  work,         \* operations that have a snapshot
  project,      \* the Pages project: absent, ours, theirs
  deployed,     \* what was deployed to production, oldest first
  drawn,        \* operation ids drawn
  retired,      \* capabilities that a finished revoke replaced
  outages

site  == <<project, deployed>>
locks == <<mutationLock, guard>>
remoteFiles == <<remoteState, operation, work>>
remoteVars == <<cmd, crashed, locks, remoteFiles, site, drawn, retired, outages>>

NoOperation == [id |-> NoOp, kind |-> "init", phase |-> "prepared", cap |-> NoOp, prev |-> NoOp,
                adopt |-> FALSE]
Unconfigured == [cap |-> NoOp, last |-> NoOp]
LockFree == [by |-> NoCmd, written |-> FALSE]
AtRest == [at |-> "idle", op |-> NoOperation]

Configured == remoteState # Unconfigured
Pending    == operation # NoOperation
Production == Last(deployed)

RemoteInit ==
  /\ cmd = [c \in Cmd |-> AtRest] /\ crashed = {}
  /\ mutationLock = LockFree /\ guard = LockFree
  /\ \/ remoteState = Unconfigured /\ project \in {"absent", "theirs"}
     \/ remoteState = [cap |-> First, last |-> NoOp] /\ project = "ours"
  /\ operation = NoOperation /\ work = {} /\ deployed = <<>>
  /\ drawn = {} /\ retired = {} /\ outages = 0

Step(c, from, to) ==
  c \notin crashed /\ cmd[c].at = from /\ cmd' = [cmd EXCEPT ![c].at = to]
StepWith(c, from, to, op) ==
  c \notin crashed /\ cmd[c].at = from /\ cmd' = [cmd EXCEPT ![c] = [at |-> to, op |-> op]]
Outage == outages < MaxOutages /\ outages' = outages + 1

\* Ids are random: which of those left is drawn makes no difference.
NewId == CHOOSE o \in OpId \ drawn : TRUE

Verbs == {"init", "publish", "revoke", "reconcile"}
-----------------------------------------------------------------------------
(* The lock. *)

\* The file is created first and its record written after.
CreateLock(c) ==
  /\ mutationLock = LockFree /\ Step(c, "idle", "created")
  /\ mutationLock' = [by |-> c, written |-> FALSE]
  /\ UNCHANGED <<crashed, guard, remoteFiles, site, drawn, retired, outages>>

\* Written, or removed again when it cannot be.
WriteLock(c) ==
  /\ \/ Step(c, "created", "locked") /\ UNCHANGED outages
        /\ mutationLock' = [mutationLock EXCEPT !.written = TRUE]
     \/ Step(c, "created", "idle") /\ mutationLock' = LockFree /\ Outage
  /\ UNCHANGED <<crashed, guard, remoteFiles, site, drawn, retired>>

\* Mutant of Abandoned: a recovery does not look whether the owner still runs.
AnyLock == mutationLock # LockFree

Abandoned == mutationLock.written /\ mutationLock.by \in crashed

\* reconcile --recover-lock: the guard, two looks at the record, the removal.
GuardRecovery(c) ==
  /\ guard = LockFree /\ mutationLock # LockFree /\ Step(c, "idle", "guarding")
  /\ guard' = [by |-> c, written |-> FALSE]
  /\ UNCHANGED <<crashed, mutationLock, remoteFiles, site, drawn, retired, outages>>

\* Or the record cannot be read, or the guard not be written.
LookAtLock(c) ==
  /\ \/ Abandoned /\ Step(c, "guarding", "looked") /\ UNCHANGED outages
     \/ ~Abandoned /\ Step(c, "guarding", "unguarding") /\ UNCHANGED outages
     \/ Step(c, "guarding", "unguarding") /\ Outage
  /\ guard' = [guard EXCEPT !.written = TRUE]
  /\ UNCHANGED <<crashed, mutationLock, remoteFiles, site, drawn, retired>>

\* What was abandoned at the first look cannot be another record at the second:
\* only the owner of the guard removes it.
LookAgain(c) ==
  /\ \/ Abandoned /\ Step(c, "looked", "removing")
     \/ ~Abandoned /\ Step(c, "looked", "unguarding")
  /\ UNCHANGED <<crashed, locks, remoteFiles, site, drawn, retired, outages>>

RemoveLock(c) ==
  /\ Step(c, "removing", "removed") /\ mutationLock' = LockFree
  /\ UNCHANGED <<crashed, guard, remoteFiles, site, drawn, retired, outages>>

\* Another command may be faster: then this one has recovered nothing.
TakeRemoved(c) ==
  /\ \/ mutationLock = LockFree /\ Step(c, "removed", "recovered")
        /\ mutationLock' = [by |-> c, written |-> FALSE]
     \/ mutationLock # LockFree /\ Step(c, "removed", "unguarding") /\ UNCHANGED mutationLock
  /\ UNCHANGED <<crashed, guard, remoteFiles, site, drawn, retired, outages>>

\* The new lock is written, or removed again, and then the guard is.
Unguard(c) ==
  /\ guard.by = c /\ guard' = LockFree
  /\ \/ Step(c, "recovered", "locked") /\ UNCHANGED outages
        /\ mutationLock' = [mutationLock EXCEPT !.written = TRUE]
     \/ Step(c, "recovered", "idle") /\ mutationLock' = LockFree /\ Outage
     \/ Step(c, "unguarding", "idle") /\ UNCHANGED <<mutationLock, outages>>
  /\ UNCHANGED <<crashed, remoteFiles, site, drawn, retired>>

Release(c) ==
  /\ StepWith(c, "ending", "idle", NoOperation)
  /\ mutationLock' = IF mutationLock.by = c THEN LockFree ELSE mutationLock
  /\ UNCHANGED <<crashed, guard, remoteFiles, site, drawn, retired, outages>>

\* Mutant of OrphanWork: every work directory counts as an orphan.
AllWork == work

OrphanWork == work \ {operation.id}

\* cleanupOrphanWork, then the command proper; each starts by reading operation.json,
\* and is refused by what it finds or has nothing to do.
Begin(c) ==
  /\ \/ Step(c, "locked", "ending")
     \/ Pending /\ StepWith(c, "locked", "reconcile", operation)
     \/ ~Pending /\ \E verb \in Verbs \ {"reconcile"} :
          /\ (verb = "init") <=> ~Configured
          /\ StepWith(c, "locked", verb, [NoOperation EXCEPT !.kind = verb])
  /\ work' = work \ OrphanWork
  /\ UNCHANGED <<crashed, locks, remoteState, operation, site, drawn, retired, outages>>
-----------------------------------------------------------------------------
(* init *)

\* The projects of the account are listed; one that is there must be adopted.
PrepareInit(c) ==
  \/ /\ project # "absent" /\ Step(c, "init", "ending")
     /\ UNCHANGED <<crashed, locks, remoteFiles, site, drawn, retired, outages>>
  \/ LET new == [id |-> NewId, kind |-> "init", phase |-> "prepared", cap |-> NewId, prev |-> NoOp,
                 adopt |-> project # "absent"]
     IN /\ drawn # OpId
        /\ StepWith(c, "init", IF project = "absent" THEN "creating" ELSE "ensured", new)
        /\ operation' = new /\ drawn' = drawn \cup {new.id}
        /\ UNCHANGED <<crashed, locks, remoteState, work, project, deployed, retired, outages>>

\* createProject fails, or its answer is lost.
CreateProject(c) ==
  /\ \/ project = "absent" /\ project' = "ours" /\ Step(c, "creating", "ensured") /\ UNCHANGED outages
     \/ project = "absent" /\ project' \in {"absent", "ours"} /\ Step(c, "creating", "ending") /\ Outage
     \/ project # "absent" /\ Step(c, "creating", "ending") /\ UNCHANGED <<project, outages>>
  /\ UNCHANGED <<crashed, locks, remoteFiles, deployed, drawn, retired>>

\* ensureProjectExists when the intent is older than this command: the project
\* that is there may be ours, or somebody else's, so the user has to confirm.
MayAdopt(op, confirmed) == op.adopt \/ confirmed

ReconcileInit(c) ==
  LET op == cmd[c].op IN
  /\ op.kind = "init" /\ op.phase = "prepared"
  /\ \/ /\ project = "absent" /\ Step(c, "reconcile", "creating") /\ UNCHANGED operation
     \/ \E confirmed \in BOOLEAN :
          /\ project # "absent" /\ MayAdopt(op, confirmed)
          /\ StepWith(c, "reconcile", "ensured", [op EXCEPT !.adopt = TRUE])
          /\ operation' = [op EXCEPT !.adopt = TRUE]
     \/ /\ project # "absent" /\ ~MayAdopt(op, FALSE) /\ Step(c, "reconcile", "ending")
        /\ UNCHANGED operation
  /\ UNCHANGED <<crashed, locks, remoteState, work, project, deployed, drawn, retired, outages>>
-----------------------------------------------------------------------------
(* publish and revoke *)

\* assertProductionTarget and exportStaticSnapshot.
Export(c) ==
  \/ /\ cmd[c].at \in {"publish", "revoke"} /\ Step(c, cmd[c].at, "ending") /\ Outage
     /\ UNCHANGED <<crashed, locks, remoteFiles, site, drawn, retired>>
  \/ LET kind == cmd[c].op.kind
         new == [id |-> NewId, kind |-> kind, phase |-> "prepared",
                 cap |-> IF kind = "revoke" THEN NewId ELSE remoteState.cap,
                 prev |-> IF kind = "revoke" THEN remoteState.cap ELSE NoOp, adopt |-> FALSE]
     IN /\ drawn # OpId /\ cmd[c].at \in {"publish", "revoke"}
        /\ StepWith(c, cmd[c].at, "exported", new)
        /\ work' = work \cup {new.id} /\ drawn' = drawn \cup {new.id}
        /\ UNCHANGED <<crashed, locks, remoteState, operation, site, retired, outages>>

RecordIntent(c) ==
  /\ Step(c, "exported", "deploying") /\ operation' = cmd[c].op
  /\ UNCHANGED <<crashed, locks, remoteState, work, site, drawn, retired, outages>>

\* assertOperationMatchesState
Matches(op) ==
  \/ op.kind = "init"
  \/ op.kind = "publish" /\ op.cap = remoteState.cap
  \/ op.kind = "revoke" /\ op.prev = remoteState.cap

Found(op) == \E i \in DOMAIN deployed : deployed[i].id = op.id

\* reconcile of a prepared snapshot: what was deployed is found by its commit.
ReconcileSnapshot(c) ==
  LET op == cmd[c].op IN
  /\ op.kind # "init" /\ op.phase = "prepared"
  /\ \/ Matches(op) /\ Found(op) /\ Step(c, "reconcile", "landed") /\ UNCHANGED outages
     \/ Matches(op) /\ ~Found(op) /\ Step(c, "reconcile", "deploying") /\ UNCHANGED outages
     \/ Step(c, "reconcile", "ending") /\ Outage
  /\ UNCHANGED <<crashed, locks, remoteFiles, site, drawn, retired>>

\* deploySnapshot: it takes effect and is reported, takes effect with the
\* answer lost, or fails.
Deploy(c) ==
  LET op == cmd[c].op
      landed == Append(deployed, [id |-> op.id, cap |-> op.cap])
  IN /\ \/ op.id \in work /\ Step(c, "deploying", "landed") /\ deployed' = landed /\ UNCHANGED outages
        \/ op.id \in work /\ Step(c, "deploying", "ending") /\ deployed' = landed /\ Outage
        \/ Step(c, "deploying", "ending") /\ UNCHANGED deployed
           /\ (op.id \in work => Outage) /\ (op.id \notin work => UNCHANGED outages)
     /\ UNCHANGED <<crashed, locks, remoteFiles, project, drawn, retired>>

Checkpoint(c) ==
  LET done == [cmd[c].op EXCEPT !.phase = "remote-succeeded"] IN
  /\ StepWith(c, cmd[c].at, "finalizing", done) /\ cmd[c].at \in {"ensured", "landed"}
  /\ operation' = done
  /\ UNCHANGED <<crashed, locks, remoteState, work, site, drawn, retired, outages>>

ReconcileFinished(c) ==
  /\ cmd[c].op.phase = "remote-succeeded" /\ Step(c, "reconcile", "finalizing")
  /\ UNCHANGED <<crashed, locks, remoteFiles, site, drawn, retired, outages>>
-----------------------------------------------------------------------------
(* finalizeOperation: the state, then the operation, then the work directory. *)

StateFor(op) ==
  [cap |-> op.cap, last |-> IF op.kind = "init" THEN NoOp ELSE op.id]

WriteState(c) ==
  LET op == cmd[c].op IN
  \/ /\ remoteState.last # op.id /\ Matches(op) /\ Step(c, "finalizing", "written")
     /\ remoteState' = StateFor(op)
     /\ retired' = IF op.kind = "revoke" THEN retired \cup {op.prev} ELSE retired
     /\ UNCHANGED <<crashed, locks, operation, work, site, drawn, outages>>
  \/ /\ remoteState.last = op.id /\ Step(c, "finalizing", "written")
     /\ UNCHANGED <<crashed, locks, remoteFiles, site, drawn, retired, outages>>
  \/ /\ remoteState.last # op.id /\ ~Matches(op) /\ Step(c, "finalizing", "ending")
     /\ UNCHANGED <<crashed, locks, remoteFiles, site, drawn, retired, outages>>

RemoveOperation(c) ==
  /\ Step(c, "written", "unlisted") /\ operation' = NoOperation
  /\ UNCHANGED <<crashed, locks, remoteState, work, site, drawn, retired, outages>>

RemoveWork(c) ==
  /\ Step(c, "unlisted", "ending") /\ work' = work \ {cmd[c].op.id}
  /\ UNCHANGED <<crashed, locks, remoteState, operation, site, drawn, retired, outages>>
-----------------------------------------------------------------------------
Crash(c) ==
  /\ cmd[c].at # "idle" /\ c \notin crashed
  /\ Cardinality(crashed) < MaxCrashes /\ crashed' = crashed \cup {c}
  /\ UNCHANGED <<cmd, locks, remoteFiles, site, drawn, retired, outages>>

\* Somebody else creates a project of that name.
OthersCreate ==
  /\ project = "absent" /\ Outage /\ project' = "theirs"
  /\ UNCHANGED <<cmd, crashed, locks, remoteFiles, deployed, drawn, retired>>

RemoteStep(c) ==
  \/ CreateLock(c) \/ WriteLock(c) \/ GuardRecovery(c) \/ LookAtLock(c) \/ LookAgain(c)
  \/ RemoveLock(c) \/ TakeRemoved(c) \/ Unguard(c) \/ Release(c) \/ Begin(c)
  \/ PrepareInit(c) \/ CreateProject(c) \/ ReconcileInit(c)
  \/ Export(c) \/ RecordIntent(c) \/ ReconcileSnapshot(c) \/ Deploy(c)
  \/ Checkpoint(c) \/ ReconcileFinished(c)
  \/ WriteState(c) \/ RemoveOperation(c) \/ RemoveWork(c)

RemoteNext == OthersCreate \/ \E c \in Cmd : RemoteStep(c) \/ Crash(c)

RemoteSpec == RemoteInit /\ [][RemoteNext]_remoteVars

-----------------------------------------------------------------------------
Holding(c) ==
  c \notin crashed /\ cmd[c].at \notin {"idle", "guarding", "looked", "removing",
                                         "removed", "unguarding"}

\* Two commands never change the site at the same time, whoever is killed and
\* whoever recovers the lock meanwhile.
MutationAlone == \A c1, c2 \in Cmd : Holding(c1) /\ Holding(c2) => c1 = c2

\* What production serves is known wherever a command was killed: it is the last
\* deployment of state.json or the pending operation's, no operation was deployed
\* twice, and with nothing pending the link in state.json is the one served.
SiteIsKnown ==
  /\ deployed # <<>> => Production.id \in {remoteState.last, operation.id}
  /\ \A i, j \in DOMAIN deployed : deployed[i].id = deployed[j].id => i = j
  /\ Configured /\ ~Pending /\ deployed # <<>> => Production.cap = remoteState.cap

\* After a finished revoke the old link is never served again by the production
\* site, whichever operations were interrupted before and reconciled after.
RevokedStaysRevoked == deployed # <<>> => Production.cap \notin retired

\* An operation that has still to be deployed has its snapshot: reconcile can
\* finish it.
PreparedCanFinish ==
  Pending /\ operation.kind # "init" /\ operation.phase = "prepared" => operation.id \in work

\* The records of the home tell what the site serves, and what can be done about it.
SiteFollowsRecords == SiteIsKnown /\ RevokedStaysRevoked /\ PreparedCanFinish
=============================================================================
