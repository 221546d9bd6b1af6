----------------------------- MODULE Enrollment -----------------------------
(***************************************************************************)
(* The documents of one home while it changes from a directory of          *)
(* documents to a managed ledger: commands that publish into the           *)
(* directory, viewers and commands that delete from it, the enrollment     *)
(* that evacuates it, raises the format barrier in its place and enters    *)
(* every document in the ledger, and an offline fork of the home.          *)
(*                                                                         *)
(* Publishing and deleting take no lock that enrollment knows; they look   *)
(* for a ledger first and then work through paths.  The enrollment may be  *)
(* killed at any step and is then started again.                           *)
(***************************************************************************)
EXTENDS Naturals, FiniteSets

CONSTANTS
  Doc,          \* documents
  Early,        \* those in the directory from the beginning; others are published
  Deleter,      \* deletions, each asked for once
  NoDoc,
  BatchSize,    \* documents that are committed together
  MaxCuts       \* bound: processes killed

ASSUME EnrollmentAssumption ==
  Early \subseteq Doc /\ NoDoc \notin Doc /\ BatchSize \in Nat \ {0} /\ MaxCuts \in Nat

VARIABLES
  documents,    \* what `documents` is: none, old, new, unwritten, barrier
  evacuated,    \* is there a sync/legacy-documents?
  held,         \* old, new -> the documents in that directory
  odd,          \* documents whose metadata enrollment does not accept
  phase,        \* migration phase of the ledger; none without a ledger
  listed,       \* documents that the ledger lists
  enroller,     \* where enrollment or recovery is
  todo, batch,  \* what it has still to enter, and what it has not committed
  pub,          \* Doc -> where its publication is
  staged,       \* Doc -> the directory it is staged in
  acked,        \* documents whose publication was reported
  del,          \* Deleter -> where it is, what it deletes and from which directory
  removed,      \* documents whose deletion was reported, or may have been
  cutShort,     \* was a home forked before its enrollment was complete?
  cuts

tree  == <<documents, evacuated, held, odd>>
entry == <<enroller, todo, batch>>
edits == <<pub, staged, acked, del, removed>>
enrollVars == <<tree, phase, listed, entry, edits, cutShort, cuts>>

Directory == {"old", "new"}

EnrollInit ==
  /\ documents = (IF Early = {} THEN "none" ELSE "old") /\ evacuated = FALSE
  /\ held = [old |-> Early, new |-> {}] /\ odd \in SUBSET Early
  /\ phase = "none" /\ listed = {}
  /\ enroller = "idle" /\ todo = {} /\ batch = {}
  /\ pub = [d \in Doc |-> IF d \in Early THEN "done" ELSE "new"]
  /\ staged = [d \in Doc |-> "none"] /\ acked = Early
  /\ del = [q \in Deleter |-> [at |-> "new", doc |-> NoDoc, dir |-> "none"]] /\ removed = {}
  /\ cutShort = FALSE /\ cuts = 0

-----------------------------------------------------------------------------
(* ManagedSyncStore.enroll and recover. *)

Enrolls(from, to) == enroller = from /\ enroller' = to
GivesUp == enroller' = "idle" /\ todo' = {} /\ batch' = {}

\* Without a ledger: nothing may be there that only a ledger explains.
BeginEnroll ==
  /\ phase = "none" /\ ~evacuated /\ documents \in Directory \cup {"none"}
  /\ Enrolls("idle", "migrating") /\ phase' = "intent"
  /\ UNCHANGED <<tree, listed, todo, batch, edits, cutShort, cuts>>

ResumeEnroll ==
  /\ phase \in {"intent", "barrier", "enrolling"} /\ Enrolls("idle", "migrating")
  /\ UNCHANGED <<tree, phase, listed, todo, batch, edits, cutShort, cuts>>

Evacuate ==
  /\ Enrolls("migrating", "evacuated") /\ evacuated' = TRUE
  /\ \/ documents \in Directory /\ ~evacuated /\ phase = "intent" /\ documents' = "none"
     \/ documents = "none" /\ (evacuated \/ phase = "intent") /\ UNCHANGED documents
     \/ documents \in {"unwritten", "barrier"} /\ evacuated /\ UNCHANGED documents
  /\ UNCHANGED <<held, odd, phase, listed, todo, batch, edits, cutShort, cuts>>

\* A legacy writer has recreated the directory, or what was evacuated is gone.
EvacuationBlocked ==
  /\ enroller = "migrating" /\ GivesUp
  /\ \/ documents \in Directory /\ (evacuated \/ phase # "intent")
     \/ documents \notin Directory /\ ~evacuated /\ (documents # "none" \/ phase # "intent")
  /\ UNCHANGED <<tree, phase, listed, edits, cutShort, cuts>>

\* The barrier is created exclusively and then written.
RaiseBarrier ==
  /\ documents = "none" /\ Enrolls("evacuated", "raising") /\ documents' = "unwritten"
  /\ UNCHANGED <<evacuated, held, odd, phase, listed, todo, batch, edits, cutShort, cuts>>

WriteBarrier ==
  /\ Enrolls("raising", "evacuated") /\ documents' = "barrier"
  /\ UNCHANGED <<evacuated, held, odd, phase, listed, todo, batch, edits, cutShort, cuts>>

Barred == documents = "barrier"

CommitBarrier ==
  /\ \/ Barred /\ Enrolls("evacuated", "enumerating") /\ phase' = "barrier" /\ UNCHANGED <<todo, batch>>
     \/ ~Barred /\ documents # "none" /\ enroller = "evacuated" /\ GivesUp /\ UNCHANGED phase
  /\ UNCHANGED <<tree, listed, edits, cutShort, cuts>>

Candidates == held.old \ listed

Enumerate ==
  /\ Enrolls("enumerating", "entering") /\ todo' = Candidates
  /\ UNCHANGED <<tree, phase, listed, batch, edits, cutShort, cuts>>

\* A candidate is read, signed and its body installed; a full batch is committed.
EnterDocument(d) ==
  /\ enroller = "entering" /\ d \in todo /\ d \in held.old \ odd
  /\ todo' = todo \ {d}
  /\ IF Cardinality(batch) + 1 = BatchSize
     THEN listed' = listed \cup batch \cup {d} /\ phase' = "enrolling" /\ batch' = {}
     ELSE batch' = batch \cup {d} /\ UNCHANGED <<listed, phase>>
  /\ UNCHANGED <<tree, enroller, edits, cutShort, cuts>>

\* A candidate that is not a document, or whose metadata would be lost.
CandidateRefused(d) ==
  /\ enroller = "entering" /\ d \in todo /\ d \notin held.old \ odd /\ GivesUp
  /\ UNCHANGED <<tree, phase, listed, edits, cutShort, cuts>>

CompleteEnroll ==
  /\ enroller = "entering" /\ todo = {} /\ GivesUp
  /\ listed' = listed \cup batch /\ phase' = "complete"
  /\ UNCHANGED <<tree, edits, cutShort, cuts>>

-----------------------------------------------------------------------------
(* `sync fork`, offline: neither the quarantine nor the fork looks at how far *)
(* the migration has come; recovery finishes an interrupted fork.             *)

ForkHome ==
  /\ enroller = "idle" /\ phase # "none" /\ phase' = "forking"
  /\ cutShort' = (cutShort \/ phase \notin {"complete", "forking"})
  /\ UNCHANGED <<tree, listed, entry, edits, cuts>>

FinishFork ==
  /\ enroller = "idle" /\ phase = "forking" /\ phase' = "complete"
  /\ UNCHANGED <<tree, listed, entry, edits, cutShort, cuts>>

-----------------------------------------------------------------------------
(* LocalDocumentBackend.publish *)

Managed == phase = "complete" /\ Barred /\ enroller = "idle"

\* isEnrolled, once; what follows does not look again.
BeginPublish(d) ==
  /\ pub[d] = "new"
  /\ pub' = [pub EXCEPT ![d] = IF phase = "none" THEN "legacy" ELSE "managed"]
  /\ UNCHANGED <<tree, phase, listed, entry, staged, acked, del, removed, cutShort, cuts>>

PublishManaged(d) ==
  /\ pub[d] = "managed" /\ pub' = [pub EXCEPT ![d] = "done"]
  /\ IF Managed THEN listed' = listed \cup {d} /\ acked' = acked \cup {d}
                ELSE UNCHANGED <<listed, acked>>
  /\ UNCHANGED <<tree, phase, entry, staged, del, removed, cutShort, cuts>>

\* The directories are made as needed, `documents` too, and the files written.
Stage(d) ==
  /\ pub[d] = "legacy"
  /\ LET dir == CASE documents \in Directory -> documents
                  [] documents = "none" -> IF evacuated THEN "new" ELSE "old"
                  [] OTHER -> "none"
     IN /\ pub' = [pub EXCEPT ![d] = IF dir = "none" THEN "done" ELSE "staged"]
        /\ staged' = [staged EXCEPT ![d] = dir]
        /\ documents' = (IF dir = "none" THEN documents ELSE dir)
  /\ UNCHANGED <<evacuated, held, odd, phase, listed, entry, acked, del, removed, cutShort, cuts>>

\* The rename goes by path: it finds the staged files only where they were put.
PublishLegacy(d) ==
  /\ pub[d] = "staged" /\ pub' = [pub EXCEPT ![d] = "done"]
  /\ IF documents = staged[d]
     THEN held' = [held EXCEPT ![documents] = @ \cup {d}] /\ acked' = acked \cup {d}
     ELSE UNCHANGED <<held, acked>>
  /\ UNCHANGED <<documents, evacuated, odd, phase, listed, entry, staged, del, removed, cutShort, cuts>>

-----------------------------------------------------------------------------
(* The deletion factory, and its worker for a directory of documents. *)

Deletes(q, from, to) == del[q].at = from /\ del' = [del EXCEPT ![q].at = to]

\* createDocumentDeleter: the directory is captured when the deleter is made.
Capture(q) ==
  /\ del[q].at = "new" /\ documents # "unwritten"
  /\ \E d \in Doc :
       del' = [del EXCEPT ![q] = [at |-> "ready", doc |-> d,
                                  dir |-> IF documents \in Directory THEN documents ELSE "none"]]
  /\ UNCHANGED <<tree, phase, listed, entry, pub, staged, acked, removed, cutShort, cuts>>

\* currentManagedStore: with a ledger only the managed deletion is possible.
DeleteManaged(q) ==
  /\ phase # "none" /\ del[q].at = "ready" /\ Deletes(q, "ready", "done")
  /\ LET d == del[q].doc IN
     IF Managed /\ d \in listed THEN listed' = listed \ {d} /\ removed' = removed \cup {d}
                                ELSE UNCHANGED <<listed, removed>>
  /\ UNCHANGED <<tree, phase, entry, pub, staged, acked, cutShort, cuts>>

\* The worker's first look at the directory it was given, and at the document.
InspectDocument(q) ==
  /\ phase = "none" /\ del[q].at = "ready"
  /\ IF documents \in Directory /\ del[q].dir \in {"none", documents} /\ del[q].doc \in held[documents]
     THEN del' = [del EXCEPT ![q].at = "inspected", ![q].dir = documents]
     ELSE Deletes(q, "ready", "done")
  /\ UNCHANGED <<tree, phase, listed, entry, pub, staged, acked, removed, cutShort, cuts>>

\* Nobody else is deleting the document: the lock is a file in .trash.
LockDocument(q) ==
  /\ del[q].at = "inspected"
  /\ \A other \in Deleter : del[other].doc = del[q].doc => del[other].at \notin {"locked", "killed"}
  /\ IF documents = del[q].dir /\ del[q].doc \in held[documents]
     THEN Deletes(q, "inspected", "locked") ELSE Deletes(q, "inspected", "done")
  /\ UNCHANGED <<tree, phase, listed, entry, pub, staged, acked, removed, cutShort, cuts>>

\* Mutant of StillThere: the worker is bound to the directory, not to its path.
FollowsDirectory(q) == del[q].doc \in held[del[q].dir]

StillThere(q) == documents = del[q].dir /\ del[q].doc \in held[del[q].dir]

\* The document is moved to .trash and purged; a purge that fails changes
\* the answer, not the deletion.
RemoveDocument(q) ==
  /\ del[q].at = "locked" /\ Deletes(q, "locked", "done")
  /\ IF StillThere(q)
     THEN /\ held' = [held EXCEPT ![del[q].dir] = @ \ {del[q].doc}]
          /\ removed' = removed \cup {del[q].doc}
     ELSE UNCHANGED <<held, removed>>
  /\ UNCHANGED <<documents, evacuated, odd, phase, listed, entry, pub, staged, acked, cutShort, cuts>>

-----------------------------------------------------------------------------
KillEnroller ==
  /\ enroller # "idle" /\ cuts < MaxCuts /\ cuts' = cuts + 1 /\ GivesUp
  /\ UNCHANGED <<tree, phase, listed, edits, cutShort>>

\* The lock of a deletion that was killed stays, for the user to remove.
KillDeleter(q) ==
  /\ del[q].at \in {"inspected", "locked"} /\ cuts < MaxCuts /\ cuts' = cuts + 1
  /\ del' = [del EXCEPT ![q].at = IF @ = "locked" THEN "killed" ELSE "done"]
  /\ UNCHANGED <<tree, phase, listed, entry, pub, staged, acked, removed, cutShort>>

EnrollNext ==
  \/ BeginEnroll \/ ResumeEnroll \/ Evacuate \/ EvacuationBlocked
  \/ RaiseBarrier \/ WriteBarrier \/ CommitBarrier \/ Enumerate
  \/ (\E d \in Doc : EnterDocument(d) \/ CandidateRefused(d))
  \/ CompleteEnroll \/ ForkHome \/ FinishFork
  \/ (\E d \in Doc : BeginPublish(d) \/ PublishManaged(d) \/ Stage(d) \/ PublishLegacy(d))
  \/ (\E q \in Deleter : Capture(q) \/ DeleteManaged(q) \/ InspectDocument(q)
                         \/ LockDocument(q) \/ RemoveDocument(q) \/ KillDeleter(q))
  \/ KillEnroller

EnrollSpec == EnrollInit /\ [][EnrollNext]_enrollVars

-----------------------------------------------------------------------------
Missing == {d \in acked : d \notin removed /\ d \notin listed}

\* A home whose enrollment completed, and was not cut short by a fork, lists
\* every document whose publication was ever reported and that nobody deleted:
\* whatever a command that had looked before the migration did during it.
EnrolledIsComplete == phase = "complete" /\ ~cutShort => Missing = {}

\* A deletion that was reported stays: the enrollment does not enter a document
\* that a viewer removed while it was running.
DeletedStaysDeleted ==
  /\ removed \cap listed = {}
  /\ documents \in Directory => removed \cap held[documents] = {}

\* What storage-interface.md says: unknown candidates and unsupported metadata
\* block completion.  A fork of a home whose enrollment they had blocked
\* completes it.
CandidatesBlockCompletion == phase = "complete" /\ Barred => odd \cap held.old = {}

\* What was reported before and during the migration is true of the enrolled home.
EnrollmentIsFaithful == EnrolledIsComplete /\ DeletedStaysDeleted
=============================================================================
