---------------------------- MODULE RecordReader ----------------------------
(***************************************************************************)
(* One read, without any lock, of a record that other processes replace    *)
(* and remove meanwhile: the ledger (sync-ledger-reader.ts), the worker's  *)
(* runtime.json (sync-worker-record-reader.ts), an entry of the catalog    *)
(* (inbox-catalog.ts), viewer.json (viewer-records.ts).                    *)
(*                                                                         *)
(* A lookup of the name and the attributes of what it found are two        *)
(* moments: a file may be seen that has no name any more.  Inode numbers   *)
(* of such files are given out again.  The files are private and regular.  *)
(***************************************************************************)
EXTENDS Naturals

CONSTANTS
  Kind,        \* the kinds of records whose reading is followed
  Inode,       \* inode numbers
  Extra        \* bound: changes of the record beyond the reader's attempts

ASSUME ReaderAssumption ==
  Kind \subseteq {"ledger", "worker", "catalog", "viewer"} /\ Extra \in Nat

VARIABLES
  kind,
  linked,      \* the file the name refers to: its version and inode, or NoFile
  changes,     \* how often the name changed since the read began
  absent,      \* the name was missing at some moment since
  stage,       \* what the reader does next
  found,       \* the file its first lookup found
  opened,      \* the file it has open
  doubted,     \* the file its search for a replacement started from
  atEnd,       \* the version that was linked when the last byte was read
  tries,
  answer

readerVars == <<kind, linked, changes, absent, stage, found, opened, doubted, atEnd, tries, answer>>

NoFile == [version |-> 0, inode |-> 0]

Attempts == [ledger |-> 4, worker |-> 4, catalog |-> 10, viewer |-> 4]

\* viewer.json is opened at once: O_NOFOLLOW spares the lookup.
FirstStage == IF kind = "viewer" THEN "open" ELSE "lookup"

ReaderInit ==
  /\ kind \in Kind
  /\ linked \in {NoFile} \cup [version : {1}, inode : Inode]
  /\ kind = "ledger" => linked # NoFile
  /\ absent = (linked = NoFile) /\ changes = 0
  /\ stage = FirstStage /\ tries = 1 /\ answer = "none"
  /\ found = NoFile /\ opened = NoFile /\ doubted = NoFile /\ atEnd = 0

-----------------------------------------------------------------------------
(* The other processes. *)

MayChange == /\ stage # "answered" /\ changes < Attempts[kind] + Extra
             /\ changes' = changes + 1

\* replaceLedger and writeAtomicPrivateJson: a rename onto the name.
Replace ==
  /\ MayChange
  /\ \E i \in Inode \ {linked.inode, opened.inode} : linked' = [version |-> changes + 2, inode |-> i]
  /\ UNCHANGED <<kind, absent, stage, found, opened, doubted, atEnd, tries, answer>>

\* The end of a worker, of a viewer, of a default.  Nothing removes a ledger.
RemoveRecord ==
  /\ MayChange /\ kind # "ledger" /\ linked # NoFile
  /\ linked' = NoFile /\ absent' = TRUE
  /\ UNCHANGED <<kind, stage, found, opened, doubted, atEnd, tries, answer>>

-----------------------------------------------------------------------------
(* The reader. *)

Unlinked(file)     == file # linked
SameInode(a, b)    == a.inode = b.inode
\* Files of one inode number may agree in what else is compared, or not.
SameMetadata(a, b) == IF a = b THEN {TRUE} ELSE BOOLEAN

Continue(next) == stage' = next /\ UNCHANGED <<tries, answer>>
Answers(value) == stage' = "answered" /\ answer' = value /\ UNCHANGED tries
Again == IF tries < Attempts[kind] THEN stage' = FirstStage /\ tries' = tries + 1 /\ UNCHANGED answer
         ELSE Answers("busy")

\* Mutant of Retry: what has no name any more is missing.
RetryAbsent == Answers("missing")

Retry == Again

Elsewhere == UNCHANGED <<kind, linked, changes, absent>>

Lookup ==
  /\ stage = "lookup"
  /\ found' = linked
  /\ IF linked # NoFile THEN Continue("attributes")
     ELSE Answers(IF kind = "ledger" THEN "error" ELSE "missing")
  /\ opened' = NoFile /\ doubted' = NoFile /\ atEnd' = 0    \* the last attempt closed its file
  /\ Elsewhere

Seek(file) == doubted' = file /\ Continue("replacement")

LookAttributes ==
  /\ stage = "attributes"
  /\ IF ~Unlinked(found) THEN Continue("open") /\ UNCHANGED doubted
     ELSE IF kind = "ledger" THEN Seek(found)
     ELSE Retry /\ UNCHANGED doubted
  /\ Elsewhere /\ UNCHANGED <<found, opened, atEnd>>

OpenRecord ==
  /\ stage = "open"
  /\ opened' = linked
  /\ \/ linked # NoFile /\ Continue("opened")
     \/ linked = NoFile /\ kind = "catalog" /\ Retry
     \/ linked = NoFile /\ kind # "catalog" /\ Answers(IF kind = "ledger" THEN "error" ELSE "missing")
  /\ Elsewhere /\ UNCHANGED <<found, doubted, atEnd>>

\* What fstat says of the open file, compared with the first lookup.
LookOpened ==
  /\ stage = "opened"
  /\ \/ kind = "viewer" /\ UNCHANGED doubted
        /\ IF Unlinked(opened) THEN Retry ELSE Continue("read")
     \/ kind = "catalog" /\ UNCHANGED doubted
        /\ IF Unlinked(opened) \/ ~SameInode(found, opened) THEN Retry ELSE Continue("read")
     \/ kind \in {"ledger", "worker"} /\ ~SameInode(found, opened)
        /\ IF kind = "ledger" THEN Seek(opened) ELSE Retry /\ UNCHANGED doubted
     \/ kind \in {"ledger", "worker"} /\ SameInode(found, opened)
        /\ \E same \in SameMetadata(found, opened) :
             IF ~same THEN Answers("error") /\ UNCHANGED doubted
             ELSE IF ~Unlinked(opened) THEN Continue("read") /\ UNCHANGED doubted
             ELSE IF kind = "ledger" THEN Seek(opened)
             ELSE Retry /\ UNCHANGED doubted
  /\ Elsewhere /\ UNCHANGED <<found, opened, atEnd>>

\* readBoundedFile: what is open is immutable.
ReadRecord ==
  /\ stage = "read"
  /\ atEnd' = linked.version
  /\ IF kind \in {"catalog", "viewer"} THEN Answers("bytes") ELSE Continue("completed")
  /\ Elsewhere /\ UNCHANGED <<found, opened, doubted>>

LastLook == ~Unlinked(opened)

LookCompleted ==
  /\ stage = "completed"
  /\ IF LastLook THEN Answers("bytes") /\ UNCHANGED doubted
     ELSE IF kind = "ledger" THEN Seek(opened)
     ELSE Retry /\ UNCHANGED doubted
  /\ Elsewhere /\ UNCHANGED <<found, opened, atEnd>>

\* hasSafeReplacement and hasSafeOpenedReplacement: another file justifies another attempt.
FindReplacement ==
  /\ stage = "replacement"
  /\ IF linked = NoFile THEN Answers("error")
     ELSE \E same \in SameMetadata(doubted, linked) :
            IF ~SameInode(doubted, linked) \/ (~SameInode(doubted, found) /\ same) THEN Retry
            ELSE Answers("error")
  /\ Elsewhere /\ UNCHANGED <<found, opened, doubted, atEnd>>

ReadStep == \/ Lookup \/ LookAttributes \/ OpenRecord \/ LookOpened
            \/ ReadRecord \/ LookCompleted \/ FindReplacement

ReaderNext == Replace \/ RemoveRecord \/ ReadStep

ReaderSpec == ReaderInit /\ [][ReaderNext]_readerVars

-----------------------------------------------------------------------------
\* The answer is one the record could have given while it was read.  "Missing" was
\* missing, a ledger or a worker's credential was still the current one when its last
\* byte was read, "busy" had a change for every attempt, and a failure the two changes
\* that can give an inode number out again.
AnswerIsOfItsTime ==
  /\ answer = "missing" => absent
  /\ answer = "bytes" /\ kind \in {"ledger", "worker"} => atEnd = opened.version
  /\ answer = "busy" => changes >= Attempts[kind]
  /\ answer = "error" => changes >= 2
=============================================================================
