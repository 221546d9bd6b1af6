--------------------------- MODULE DocumentRemoval ---------------------------
(***************************************************************************)
(* A deletion asked for in the browser, from the form to the files and     *)
(* back: the page gives up after its time (viewer-deletion-client.ts), the *)
(* reader server drains what it has begun before it is closed              *)
(* (viewer-http-server.ts), and its helper process, which is killed after  *)
(* its own time, moves the document to .trash under a lock, purges it and  *)
(* answers (document-deletion.ts, document-deletion-worker.ts).  Meanwhile *)
(* an enrollment may take the whole directory away.                        *)
(*                                                                         *)
(* A document identifier is never used again.                              *)
(***************************************************************************)
EXTENDS Naturals, FiniteSets

CONSTANTS
  Ask,          \* submissions of the form, in whatever tabs
  Paper,        \* documents
  NoAsk,        \* no holder
  MaxFails      \* bound: failing steps, kills, timeouts, helpers that do not start

ASSUME RemovalAssumption == NoAsk \notin Ask /\ MaxFails \in Nat

VARIABLES
  library,      \* documents in the library
  trash,        \* documents moved to .trash and not purged
  taken,        \* an enrollment has renamed the directory away
  underLedger,  \* the inbox is managed: a deletion is one commit
  lockOf,       \* Paper -> the ask whose helper has the document's lock file
  paper,        \* Ask -> the document, and
  handling,     \* Ask -> "unasked", "sent", "parent", "answered": the request at the server
  helper,       \* Ask -> the helper's next step, or "none" or "gone"
  reply,        \* Ask -> what the helper answered
  doomed,       \* the asks whose parent has recorded a failure
  shown,        \* Ask -> what the page says
  listener,     \* "open", "closing", "drained": the connections are over, "closed"
  fails

removalVars == <<library, trash, taken, underLedger, lockOf, paper, handling, helper, reply,
                 doomed, shown, listener, fails>>

shelves == <<library, trash, lockOf>>
around  == <<taken, underLedger, paper>>
request == <<handling, shown>>
process == <<helper, reply, doomed>>

RemovalInit ==
  /\ library = Paper /\ trash = {} /\ taken = FALSE /\ underLedger \in BOOLEAN
  /\ lockOf = [d \in Paper |-> NoAsk]
  /\ paper \in [Ask -> Paper]
  /\ handling = [a \in Ask |-> "unasked"] /\ shown = [a \in Ask |-> "nothing"]
  /\ helper = [a \in Ask |-> "none"] /\ reply = [a \in Ask |-> "none"] /\ doomed = {}
  /\ listener = "open" /\ fails = 0

Failure == fails < MaxFails /\ fails' = fails + 1

\* The path leads to the document.
InPlace(a) == paper[a] \in library /\ ~taken

-----------------------------------------------------------------------------
(* The page. *)

Says(a, what) == shown' = [shown EXCEPT ![a] = what]

Post(a) ==
  /\ handling[a] = "unasked" /\ handling' = [handling EXCEPT ![a] = "sent"]
  /\ Says(a, "waiting")
  /\ UNCHANGED <<shelves, around, process, listener, fails>>

\* The fetch is aborted; whatever it asked for goes on.
PageGivesUp(a) ==
  /\ shown[a] = "waiting" /\ Failure /\ Says(a, "unknown")
  /\ UNCHANGED <<shelves, around, handling, process, listener>>

-----------------------------------------------------------------------------
(* The server and the parent of the helper. *)

Answer(a, status) ==
  /\ handling' = [handling EXCEPT ![a] = "answered"]
  /\ IF shown[a] # "waiting" THEN UNCHANGED shown
     ELSE Says(a, CASE status = 204 -> "deleted" [] status = 200 -> "uncleaned"
                    [] status = 404 -> "absent"  [] OTHER -> "unknown")

\* A request that arrives while the server closes is turned away.
Arrive(a) ==
  /\ handling[a] = "sent"
  /\ IF listener # "open" THEN Answer(a, 503) /\ UNCHANGED <<library, process>>
     ELSE IF underLedger
     THEN /\ Answer(a, IF paper[a] \in library THEN 204 ELSE 404)
          /\ library' = library \ {paper[a]} /\ UNCHANGED process
     ELSE IF taken THEN Answer(a, 409) /\ UNCHANGED <<library, process>>
     ELSE /\ handling' = [handling EXCEPT ![a] = "parent"]
          /\ helper' = [helper EXCEPT ![a] = "request"]
          /\ UNCHANGED <<library, shown, reply, doomed>>
  /\ UNCHANGED <<trash, lockOf, around, listener, fails>>

\* The request never reaches an open server.
Lost(a) ==
  /\ handling[a] = "sent" /\ (listener \in {"drained", "closed"} \/ shown[a] # "waiting")
  /\ Answer(a, 503)
  /\ UNCHANGED <<shelves, around, process, listener, fails>>

\* The time is over, or the channel breaks: the helper is killed.
ParentKills(a) ==
  /\ handling[a] = "parent" /\ a \notin doomed /\ helper[a] # "gone" /\ Failure
  /\ doomed' = doomed \cup {a} /\ helper' = [helper EXCEPT ![a] = "gone"]
  /\ UNCHANGED <<shelves, around, request, reply, listener>>

\* Mutant of Outcome: a helper that leaves without a word found nothing.
SilenceIsAbsence(a) == IF a \in doomed THEN "error" ELSE IF reply[a] = "none" THEN "null" ELSE reply[a]

Outcome(a) == IF a \in doomed \/ reply[a] = "none" THEN "error" ELSE reply[a]

HelperClosed(a) ==
  /\ handling[a] = "parent" /\ helper[a] = "gone"
  /\ Answer(a, CASE Outcome(a) = "done" -> 204 [] Outcome(a) = "null" -> 404
                 [] Outcome(a) = "cleanup" -> 200 [] Outcome(a) = "identity" -> 409
                 [] OTHER -> 500)
  /\ UNCHANGED <<shelves, around, process, listener, fails>>

BeginReaderClose ==
  /\ listener = "open" /\ listener' = "closing"
  /\ UNCHANGED <<shelves, around, request, process, fails>>

\* The listener is closed when its connections are, also those the pages have left.
ConnectionsEnd ==
  /\ listener = "closing"
  /\ \A a \in Ask : handling[a] = "parent" => shown[a] # "waiting"
  /\ listener' = "drained"
  /\ UNCHANGED <<shelves, around, request, process, fails>>

MutationsSettled == \A a \in Ask : handling[a] # "parent"

ReaderClosed ==
  /\ listener = "drained" /\ MutationsSettled /\ listener' = "closed"
  /\ UNCHANGED <<shelves, around, request, process, fails>>

-----------------------------------------------------------------------------
(* The helper. *)

HelperStep(a, from, to) == helper[a] = from /\ helper' = [helper EXCEPT ![a] = to]
Replies(a, from, what) == HelperStep(a, from, "reply") /\ reply' = [reply EXCEPT ![a] = what]

Only(a) == UNCHANGED <<around, request, doomed, listener, fails>>

\* checkStorageIdentity, before each of the two looks that may find nothing.
CheckIdentity(a) ==
  /\ \E next \in {<<"request", "inspect">>, <<"lock", "look">>, <<"recheck", "missing?">>} :
       IF ~taken THEN HelperStep(a, next[1], next[2]) /\ UNCHANGED reply
       ELSE IF next[1] = "lock" THEN HelperStep(a, "lock", "recheck") /\ UNCHANGED reply
       ELSE Replies(a, next[1], "identity")
  /\ UNCHANGED shelves /\ Only(a)

InspectTree(a) ==
  /\ HelperStep(a, "inspect", IF InPlace(a) THEN "lock" ELSE "recheck")
  /\ UNCHANGED <<shelves, reply>> /\ Only(a)

\* acquireDocumentLock: the document first, then the lock file.
LookForIt(a) ==
  /\ IF InPlace(a) THEN HelperStep(a, "look", "take") /\ UNCHANGED reply
                   ELSE Replies(a, "look", "null")
  /\ UNCHANGED shelves /\ Only(a)

\* An owner that runs is waited for, up to a deadline; one that died is an error.
TakeLock(a) ==
  /\ LET owner == lockOf[paper[a]] IN
     IF taken THEN HelperStep(a, "take", "recheck") /\ UNCHANGED lockOf
     ELSE IF owner = NoAsk
     THEN HelperStep(a, "take", "locked") /\ lockOf' = [lockOf EXCEPT ![paper[a]] = a]
     ELSE /\ \/ helper[owner] # "gone" /\ HelperStep(a, "take", "lock")
             \/ HelperStep(a, "take", "recheck")
          /\ UNCHANGED lockOf
  /\ UNCHANGED <<library, trash, reply>> /\ Only(a)

\* releaseDocumentLock; in a directory that was taken away it stays.
LockGiven(a) == IF ~taken /\ lockOf[paper[a]] = a THEN [lockOf EXCEPT ![paper[a]] = NoAsk] ELSE lockOf

MoveToTrash(a) ==
  /\ IF InPlace(a)
     THEN /\ HelperStep(a, "locked", "moved")
          /\ library' = library \ {paper[a]} /\ trash' = trash \cup {paper[a]} /\ UNCHANGED lockOf
     ELSE HelperStep(a, "locked", "recheck") /\ lockOf' = LockGiven(a) /\ UNCHANGED <<library, trash>>
  /\ UNCHANGED reply /\ Only(a)

Purge(a) ==
  /\ IF ~taken
     THEN HelperStep(a, "moved", "purged") /\ trash' = trash \ {paper[a]} /\ UNCHANGED reply
     ELSE Replies(a, "moved", "cleanup") /\ UNCHANGED trash
  /\ UNCHANGED <<library, lockOf>> /\ Only(a)

GiveBackLock(a) ==
  /\ Replies(a, "purged", IF taken THEN "cleanup" ELSE "done") /\ lockOf' = LockGiven(a)
  /\ UNCHANGED <<library, trash>> /\ Only(a)

\* The catch block: what is not there needs no removal.
IsMissing(a) ==
  /\ Replies(a, "missing?", IF InPlace(a) THEN "error" ELSE "null")
  /\ UNCHANGED shelves /\ Only(a)

\* A file operation fails; once the document is moved, that changes only the answer.
HelperFails(a) ==
  /\ Failure
  /\ \/ \E s \in {"inspect", "look", "take", "locked"} : HelperStep(a, s, "recheck") /\ UNCHANGED reply
     \/ \E s \in {"moved", "purged"} : Replies(a, s, "cleanup")
  /\ lockOf' = IF helper[a] = "purged" THEN lockOf ELSE LockGiven(a)
  /\ UNCHANGED <<library, trash, around, request, doomed, listener>>

\* The answer is with the parent, and the helper exits.
HelperExits(a) ==
  /\ HelperStep(a, "reply", "gone")
  /\ UNCHANGED <<shelves, reply>> /\ Only(a)

HelperDies(a) ==
  /\ helper[a] \notin {"none", "reply", "gone"} /\ Failure
  /\ helper' = [helper EXCEPT ![a] = "gone"]
  /\ UNCHANGED <<shelves, around, request, reply, doomed, listener>>

EnrollmentTakes ==
  /\ ~underLedger /\ ~taken /\ taken' = TRUE
  /\ UNCHANGED <<shelves, underLedger, paper, request, process, listener, fails>>

RemovalNext ==
  \/ \E a \in Ask :
       \/ Post(a) \/ PageGivesUp(a) \/ Arrive(a) \/ Lost(a) \/ ParentKills(a) \/ HelperClosed(a)
       \/ CheckIdentity(a) \/ InspectTree(a) \/ LookForIt(a) \/ TakeLock(a) \/ MoveToTrash(a)
       \/ Purge(a) \/ GiveBackLock(a) \/ IsMissing(a) \/ HelperFails(a) \/ HelperExits(a)
       \/ HelperDies(a)
  \/ BeginReaderClose \/ ConnectionsEnd \/ ReaderClosed \/ EnrollmentTakes

RemovalSpec == RemovalInit /\ [][RemovalNext]_removalVars
-----------------------------------------------------------------------------
\* What a page says is so.  "Deleted": gone, to the last file, by this request alone;
\* "removed, not cleaned up": gone; "already absent": it is, or an enrollment took the
\* directory between the check of its identity and the look for the document.  And a
\* server that says it is closed leaves no helper behind that could still delete.
DeletionIsAsTold ==
  /\ \A a \in Ask :
       /\ shown[a] \in {"deleted", "uncleaned"} => paper[a] \notin library
       /\ shown[a] = "deleted" => paper[a] \notin trash
       /\ shown[a] = "absent" => paper[a] \notin library \/ taken
       /\ listener = "closed" => helper[a] \in {"none", "gone"}
  /\ \A a, b \in Ask : a # b /\ paper[a] = paper[b] =>
       ~({shown[a], shown[b]} \subseteq {"deleted", "uncleaned"})
=============================================================================
