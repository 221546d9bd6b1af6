---------------------------- MODULE DurableStore ----------------------------
(***************************************************************************)
(* The files below <home>/sync and the processes that change them: the     *)
(* ledger, the directory of bodies, and the staging area with its leases.  *)
(*                                                                         *)
(* What the processes see (ledger, bodies, staging) differs from what a    *)
(* restart of the host may leave (ledgerDisk, bodiesDisk, stagingDisk)     *)
(* until the directory is flushed.  The disk is the one of                 *)
(* docs/phase2-sync/architecture.md, which honours file and directory      *)
(* flushes: the changes of one directory reach it in their order, those of *)
(* different directories independently of each other.                      *)
(*                                                                         *)
(* An operation is the list of the steps it has left; a step that throws   *)
(* leaves those of the finally blocks around it.  The lock is the one      *)
(* StoreLock shows to have one holder.                                     *)
(***************************************************************************)
EXTENDS Naturals, FiniteSets, Sequences

CONSTANTS
  User,          \* processes that open the store
  SyncWorker,    \* the workers among them, which serve peers; the others are commands
  Ours,          \* documents published here
  Theirs,        \* documents received from a peer
  Name,          \* random names of stages and bodies
  Nothing,
  MaxReserved,   \* MAX_RESERVATIONS
  MaxFaults,     \* bound: steps that fail and processes that are killed
  MaxRestarts    \* bound: restarts of the host

Held == Ours \cup Theirs

ASSUME DurableAssumption ==
  /\ SyncWorker \subseteq User /\ Nothing \notin User \cup Name
  /\ MaxReserved \in Nat /\ MaxFaults \in Nat /\ MaxRestarts \in Nat

VARIABLES
  ledger,        \* the visible ledger: the body file of every document it records
  ledgerDisk,    \* the ledgers a restart of the host may leave
  bodies,        \* the files in bodies/
  bodiesDisk,
  staging,       \* the stages and the leases in staging/
  stagingDisk,
  content,       \* Name -> what the file holds
  lease,         \* Name -> what its lease holds
  lessee,        \* Name -> the process that made its lease, or Nothing when it is dead
  left,          \* User -> the steps its operation has left
  job,           \* User -> its kind, document, file and copy of the ledger
  locked,        \* who holds the store lock
  uncertain,     \* the processes that have this store in uncertainStores
  recovered,     \* the processes whose store object has recovered
  told,          \* the documents somebody outside was told are held here
  faults, restarts

ledgerFile == <<ledger, ledgerDisk>>
bodyFiles  == <<bodies, bodiesDisk>>
stageFiles == <<staging, stagingDisk, lease, lessee>>
flags      == <<locked, uncertain, recovered>>
bounds     == <<faults, restarts>>
storeVars  == <<ledgerFile, bodyFiles, stageFiles, content, left, job, flags, told, bounds>>

NoJob == [kind |-> "none", doc |-> Nothing, file |-> Nothing, copy |-> [d \in Held |-> Nothing]]

StoreInit ==
  /\ ledger = [d \in Held |-> Nothing] /\ ledgerDisk = {ledger}
  /\ bodies = {} /\ bodiesDisk = {bodies}
  /\ staging = [stages |-> {}, leases |-> {}] /\ stagingDisk = {staging}
  /\ content = [f \in Name |-> "none"]
  /\ lease = [f \in Name |-> "empty"] /\ lessee = [f \in Name |-> Nothing]
  /\ left = [u \in User |-> << >>] /\ job = [u \in User |-> NoJob]
  /\ locked = Nothing /\ uncertain = {} /\ recovered = {}
  /\ told = {} /\ faults = 0 /\ restarts = 0

-----------------------------------------------------------------------------
(* The operations, as lists of steps. *)

Baseline     == <<"doubt", "flushLedger", "flushBodies", "flushStages", "sure">>
Recovery     == Baseline \o <<"sweep", "recovered">>
Reserve      == <<"sweep", "lease", "writeLease", "syncLease", "flushStages", "stage", "flushStages">>
Discard      == <<"discard", "flushStages">>
StageBody    == <<"write", "sync">>

\* Mutant of InstallBody: the final directory is left to the next flush.
InstallUnflushed == <<"moveBody", "flushStages", "sure">> \o Discard \o <<"refer">>

InstallBody  == <<"moveBody", "flushBodies", "flushStages", "sure">> \o Discard \o <<"refer">>
CommitLedger == <<"moveLedger", "flushLedger", "sure">>
ReleaseStage == <<"lock">> \o Discard \o <<"unlock">>

PublishSteps == <<"mutate">> \o Reserve \o StageBody \o InstallBody \o CommitLedger \o <<"unlock", "tell">>
ApplySteps   == <<"mutate">> \o Reserve \o <<"unlock">> \o StageBody
                \o <<"mutate", "install">> \o CommitLedger \o <<"unlock">> \o ReleaseStage \o <<"tell">>
SpeakSteps   == <<"mutate">> \o Baseline \o <<"tell", "unlock">>

Ahead(u) == {left[u][i] : i \in DOMAIN left[u]}

At(u, name) == left[u] # << >> /\ Head(left[u]) = name

\* installBody gives the stage back before the record refers to the body.
Installing(u) ==
  \E i, j \in DOMAIN left[u] : 1 < i /\ i < j /\ left[u][i] = "discard" /\ left[u][j] = "refer"

\* The finally and catch blocks around the step that threw: those of reserve, stageBuffer
\* and installBody under the lock, and the one around a transfer.  A reservation that
\* fails before it creates its stage gives nothing back: its lease stays.
Finally(u) ==
  LET owns     == "stage" \in Ahead(u) => At(u, "stage")
      filling  == "write" \in Ahead(u) /\ locked = u
      inner    == IF owns /\ locked = u /\ (filling \/ Installing(u)) THEN Discard ELSE << >>
      unlock   == IF locked = u THEN <<"unlock">> ELSE << >>
      transfer == IF owns /\ "lock" \in Ahead(u) /\ ~filling THEN ReleaseStage ELSE << >>
  IN  inner \o unlock \o transfer

Follow(u, steps) == left' = [left EXCEPT ![u] = steps]
Proceeds(u)      == Follow(u, Tail(left[u]))
Throws(u)        == Follow(u, Finally(u))

Starts(u, kind, d, steps) ==
  /\ left[u] = << >>
  /\ job' = [job EXCEPT ![u] = [NoJob EXCEPT !.kind = kind, !.doc = d]]
  /\ Follow(u, steps)
  /\ UNCHANGED <<ledgerFile, bodyFiles, stageFiles, content, flags, told, bounds>>

\* mutate: the lock, the refusal after an uncertain outcome, the first recovery of this
\* store object, then the ledger.  Only a maintenance command calls recover by itself; it
\* is a process of its own, and does what its first mutation would.
Mutate(u) ==
  /\ At(u, "mutate") /\ locked = Nothing
  /\ IF u \in uncertain THEN Throws(u) /\ UNCHANGED locked
     ELSE /\ locked' = u
          /\ Follow(u, (IF u \in recovered THEN << >> ELSE Recovery) \o <<"read">> \o Tail(left[u]))
  /\ UNCHANGED <<ledgerFile, bodyFiles, stageFiles, content, job, uncertain, recovered, told, bounds>>

\* A document that is recorded is not published again.
ReadLedger(u) ==
  /\ At(u, "read")
  /\ job' = [job EXCEPT ![u].copy = ledger]
  /\ IF job[u].kind = "publish" /\ ledger[job[u].doc] # Nothing THEN Throws(u) ELSE Proceeds(u)
  /\ UNCHANGED <<ledgerFile, bodyFiles, stageFiles, content, flags, told, bounds>>

\* withStoreLock by itself, for releaseStage, and the end of either.
LockOrUnlock(u) ==
  /\ \/ At(u, "lock") /\ locked = Nothing /\ locked' = u
     \/ At(u, "unlock") /\ locked' = Nothing
  /\ Proceeds(u)
  /\ UNCHANGED <<ledgerFile, bodyFiles, stageFiles, content, job, uncertain, recovered, told, bounds>>

SetFlag(u) ==
  /\ \/ At(u, "doubt") /\ uncertain' = uncertain \cup {u} /\ UNCHANGED recovered
     \/ At(u, "sure") /\ uncertain' = uncertain \ {u} /\ UNCHANGED recovered
     \/ At(u, "recovered") /\ recovered' = recovered \cup {u} /\ UNCHANGED uncertain
  /\ Proceeds(u)
  /\ UNCHANGED <<ledgerFile, bodyFiles, stageFiles, content, job, locked, told, bounds>>

\* flushDirectory: what is visible in the directory is what a restart leaves.
Flush(u) ==
  /\ \/ At(u, "flushLedger") /\ ledgerDisk' = {ledger} /\ UNCHANGED <<bodiesDisk, stagingDisk>>
     \/ At(u, "flushBodies") /\ bodiesDisk' = {bodies} /\ UNCHANGED <<ledgerDisk, stagingDisk>>
     \/ At(u, "flushStages") /\ stagingDisk' = {staging} /\ UNCHANGED <<ledgerDisk, bodiesDisk>>
  /\ Proceeds(u)
  /\ UNCHANGED <<ledger, bodies, staging, content, lease, lessee, job, flags, told, bounds>>

-----------------------------------------------------------------------------
(* The staging area. *)

Becomes(changes) ==
  /\ staging' = changes[Len(changes)]
  /\ stagingDisk' = stagingDisk \cup {changes[i] : i \in DOMAIN changes}

\* Mutant of Removal: the lease, then the stage it stood for.
LeaseFirst(f) ==
  LET unleased == [staging EXCEPT !.leases = @ \ {f}]
  IN  <<unleased, [unleased EXCEPT !.stages = @ \ {f}]>>

\* SyncStaging.release: the stage, then its lease.
Removal(f) ==
  LET unstaged == [staging EXCEPT !.stages = @ \ {f}]
  IN  <<unstaged, [unstaged EXCEPT !.leases = @ \ {f}]>>

DiscardStage(u) ==
  /\ At(u, "discard") /\ Proceeds(u)
  /\ Becomes(Removal(job[u].file))
  /\ UNCHANGED <<ledgerFile, bodyFiles, lease, lessee, content, job, flags, told, bounds>>

\* readLease refuses what is not a whole record.
Readable(f) == lease[f] \in {"written", "synced"}

\* cleanDead: in the order of the directory, the lease of one dead process after the
\* other, until the first that cannot be read.
CleanDead(u) ==
  /\ At(u, "sweep")
  /\ LET dead == {f \in staging.leases : Readable(f) /\ lessee[f] = Nothing}
     IN  \/ dead = {} /\ (\A f \in staging.leases : Readable(f)) /\ Proceeds(u)
            /\ UNCHANGED <<staging, stagingDisk>>
         \/ (\E f \in staging.leases : ~Readable(f)) /\ Throws(u) /\ UNCHANGED <<staging, stagingDisk>>
         \/ \E f \in dead : Becomes(Removal(f)) /\ Follow(u, <<"flushStages">> \o left[u])
  /\ UNCHANGED <<ledgerFile, bodyFiles, lease, lessee, content, job, flags, told, bounds>>

\* reserve, after cleanDead: an unknown stage or a full quota refuses.
MayReserve == staging.stages \subseteq staging.leases /\ Cardinality(staging.leases) < MaxReserved

\* A random name is nobody's, on any disk or in the hands of a process.
Unused == {f \in Name : /\ \A b \in bodiesDisk : f \notin b
                        /\ \A s \in stagingDisk : f \notin s.stages \cup s.leases
                        /\ \A u \in User : job[u].file # f}

RefuseReservation(u) ==
  /\ At(u, "lease") /\ ~MayReserve /\ Throws(u)
  /\ UNCHANGED <<ledgerFile, bodyFiles, stageFiles, content, job, flags, told, bounds>>

\* exclusiveFile: the lease is created empty, then written and flushed.
CreateLease(u) ==
  /\ At(u, "lease") /\ MayReserve /\ Proceeds(u)
  /\ Unused # {}
  /\ LET f == CHOOSE f \in Unused : TRUE   \* random names are interchangeable
     IN  /\ Becomes(<<[staging EXCEPT !.leases = @ \cup {f}]>>)
         /\ lease' = [lease EXCEPT ![f] = "empty"]
         /\ lessee' = [lessee EXCEPT ![f] = u]
         /\ content' = [content EXCEPT ![f] = "none"]
         /\ job' = [job EXCEPT ![u].file = f]
  /\ UNCHANGED <<ledgerFile, bodyFiles, flags, told, bounds>>

FillLease(u) ==
  /\ \/ At(u, "writeLease") /\ lease' = [lease EXCEPT ![job[u].file] = "written"]
     \/ At(u, "syncLease") /\ lease' = [lease EXCEPT ![job[u].file] = "synced"]
  /\ Proceeds(u)
  /\ UNCHANGED <<ledgerFile, bodyFiles, staging, stagingDisk, lessee, content, job, flags, told, bounds>>

CreateStage(u) ==
  /\ At(u, "stage") /\ Proceeds(u)
  /\ Becomes(<<[staging EXCEPT !.stages = @ \cup {job[u].file}]>>)
  /\ UNCHANGED <<ledgerFile, bodyFiles, lease, lessee, content, job, flags, told, bounds>>

\* stageBuffer and stageStream: the bytes, then the flush of the file.
FillStage(u) ==
  /\ \/ At(u, "write") /\ content' = [content EXCEPT ![job[u].file] = "written"]
     \/ At(u, "sync") /\ content' = [content EXCEPT ![job[u].file] = "synced"]
  /\ Proceeds(u)
  /\ UNCHANGED <<ledgerFile, bodyFiles, stageFiles, job, flags, told, bounds>>

-----------------------------------------------------------------------------
(* Bodies and the ledger. *)

\* applyLocked: a body that is there is not installed again.
Install(u) ==
  /\ At(u, "install")
  /\ Follow(u, (IF job[u].copy[job[u].doc] \in bodies THEN << >> ELSE InstallBody) \o Tail(left[u]))
  /\ UNCHANGED <<ledgerFile, bodyFiles, stageFiles, content, job, flags, told, bounds>>

MoveBody(u) ==
  /\ At(u, "moveBody") /\ Proceeds(u)
  /\ uncertain' = uncertain \cup {u}
  /\ Becomes(<<[staging EXCEPT !.stages = @ \ {job[u].file}]>>)
  /\ bodies' = bodies \cup {job[u].file} /\ bodiesDisk' = bodiesDisk \cup {bodies'}
  /\ UNCHANGED <<ledgerFile, lease, lessee, content, job, locked, recovered, told, bounds>>

Refer(u) ==
  /\ At(u, "refer") /\ Proceeds(u)
  /\ job' = [job EXCEPT ![u].copy[job[u].doc] = job[u].file]
  /\ UNCHANGED <<ledgerFile, bodyFiles, stageFiles, content, flags, told, bounds>>

\* replaceLedger: the temporary file is flushed before the rename.
MoveLedger(u) ==
  /\ At(u, "moveLedger") /\ Proceeds(u)
  /\ uncertain' = uncertain \cup {u}
  /\ ledger' = job[u].copy /\ ledgerDisk' = ledgerDisk \cup {ledger'}
  /\ UNCHANGED <<bodyFiles, stageFiles, content, job, locked, recovered, told, bounds>>

\* The result of a publication, a receipt, or a request or answer about all that the
\* ledger holds: an inventory, holdings, an offer, a delivery status.
Tell(u) ==
  /\ At(u, "tell") /\ Proceeds(u)
  /\ told' = told \cup (IF job[u].kind = "speak" THEN {d \in Held : job[u].copy[d] # Nothing}
                        ELSE {job[u].doc})
  /\ UNCHANGED <<ledgerFile, bodyFiles, stageFiles, content, job, flags, bounds>>

-----------------------------------------------------------------------------
(* Faults. *)

Fallible == {"flushLedger", "flushBodies", "flushStages", "discard", "lease", "writeLease",
             "syncLease", "stage", "write", "sync", "moveBody", "moveLedger"}

StepFails(u) ==
  /\ left[u] # << >> /\ Head(left[u]) \in Fallible
  /\ faults < MaxFaults /\ faults' = faults + 1
  /\ Throws(u)
  /\ uncertain' = IF Head(left[u]) \in {"moveBody", "moveLedger"} THEN uncertain \cup {u} ELSE uncertain
  /\ UNCHANGED <<ledgerFile, bodyFiles, stageFiles, content, job, locked, recovered, told, restarts>>

End(ended) ==
  /\ left' = [u \in User |-> IF u \in ended THEN << >> ELSE left[u]]
  /\ job' = [u \in User |-> IF u \in ended THEN NoJob ELSE job[u]]
  /\ locked' = IF locked \in ended THEN Nothing ELSE locked
  /\ uncertain' = uncertain \ ended /\ recovered' = recovered \ ended
  /\ lessee' = [f \in Name |-> IF lessee[f] \in ended THEN Nothing ELSE lessee[f]]

\* A process is killed, or ends after its operation; another takes its place.
UserKilled(u) ==
  /\ left[u] # << >>
  /\ faults < MaxFaults /\ faults' = faults + 1
  /\ End({u})
  /\ UNCHANGED <<ledgerFile, bodyFiles, staging, stagingDisk, lease, content, told, restarts>>

UserExits(u) ==
  /\ left[u] = << >> /\ u \in uncertain \cup recovered \cup {lessee[f] : f \in staging.leases}
  /\ End({u})
  /\ UNCHANGED <<ledgerFile, bodyFiles, staging, stagingDisk, lease, content, told, bounds>>

HostRestarts ==
  /\ restarts < MaxRestarts /\ restarts' = restarts + 1
  /\ End(User)
  /\ \E v \in ledgerDisk : ledger' = v /\ ledgerDisk' = {v}
  /\ \E b \in bodiesDisk : bodies' = b /\ bodiesDisk' = {b}
  /\ \E s \in stagingDisk : staging' = s /\ stagingDisk' = {s}
  /\ content' = [f \in Name |-> IF content[f] = "written" THEN "torn" ELSE content[f]]
  /\ \E torn \in SUBSET {f \in Name : lease[f] = "written"} :
       lease' = [f \in Name |-> IF f \in torn THEN "torn" ELSE lease[f]]
  /\ UNCHANGED <<told, faults>>

OperationStarts(u) ==
  \/ u \notin SyncWorker /\ \E d \in Ours : Starts(u, "publish", d, PublishSteps)
  \/ u \in SyncWorker /\ \E d \in Theirs : Starts(u, "apply", d, ApplySteps)
  \/ Starts(u, "speak", Nothing, SpeakSteps)

UserStep(u) ==
  \/ OperationStarts(u)
  \/ Mutate(u) \/ ReadLedger(u) \/ LockOrUnlock(u) \/ SetFlag(u) \/ Flush(u)
  \/ DiscardStage(u) \/ CleanDead(u) \/ RefuseReservation(u) \/ CreateLease(u) \/ FillLease(u)
  \/ CreateStage(u) \/ FillStage(u) \/ Install(u) \/ MoveBody(u) \/ Refer(u) \/ MoveLedger(u) \/ Tell(u)
  \/ StepFails(u) \/ UserKilled(u) \/ UserExits(u)

StoreNext == (\E u \in User : UserStep(u)) \/ HostRestarts

StoreSpec == StoreInit /\ [][StoreNext]_storeVars

-----------------------------------------------------------------------------
Referenced(v) == {d \in Held : v[d] # Nothing}

\* Whatever a crash or a restart leaves, every body the ledger refers to is in its
\* directory, whole: it is staged, flushed and moved before the commit (installBody).
BodiesSurvive ==
  \A v \in ledgerDisk, b \in bodiesDisk :
    \A d \in Referenced(v) : v[d] \in b /\ content[v[d]] = "synced"

\* What a user or a peer was told survives a restart, also when the ledger it was read
\* from had been renamed by a process that did not get to flush it (baseline).
ToldIsKept == \A v \in ledgerDisk : told \subseteq Referenced(v)

\* Whatever a crash or a restart leaves: a stage is never without the whole lease by which
\* a later process clears it (it would refuse every reservation until somebody removes it
\* by hand), there are never more leases than may be reserved, and a transfer that still
\* needs its stage never loses it to another process (SyncStaging).
StagesOwned ==
  /\ \A s \in stagingDisk :
       /\ \A f \in s.stages : f \in s.leases /\ lease[f] = "synced"
       /\ Cardinality(s.leases) <= MaxReserved
  /\ \A u \in User :
       /\ job[u].kind = "apply" /\ Ahead(u) \cap {"lease", "stage"} = {}
       /\ Ahead(u) \cap {"write", "sync", "install", "moveBody"} # {}
       => job[u].file \in staging.stages

\* "Unreferenced staging/body files are harmless crash leftovers" (architecture.md:23):
\* who clears the staging area can read every lease a dead process left there.
LeftoversHarmless ==
  \A u \in User : At(u, "sweep") => \A f \in staging.leases : lessee[f] = Nothing => Readable(f)

\* Nothing that was promised is lost with the ledger or with the body it names.
StoreSurvives == BodiesSurvive /\ ToldIsKept
=============================================================================
