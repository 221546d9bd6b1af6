---------------------------- MODULE MCSharedFiles ----------------------------
(***************************************************************************)
(* What processes share by file names alone, side by side: the store lock, *)
(* a record read without a lock while it is replaced, the catalog with its *)
(* portable locks, and the lock of viewer starts.  `share` names the one   *)
(* that is followed.                                                       *)
(*                                                                         *)
(* The lock has two process ids and the calls each makes: proc1 starts     *)
(* with call1, call2 and call3, of which call2 may miss its deadline,      *)
(* proc2 with call4.                                                       *)
(***************************************************************************)
EXTENDS StoreLock, RecordReader, InboxCatalog, StartLock

CONSTANTS proc1, proc2, call1, call2, call3, call4

VARIABLE share

SharedProcessOf == [c \in Call |-> IF c = call4 THEN proc2 ELSE proc1]

SharedInit ==
  /\ share \in {"lock", "record", "catalog", "start"}
  /\ Init /\ ReaderInit /\ CatalogInit /\ StartInit
  /\ share # "record" => kind = "ledger" /\ linked.inode = CHOOSE i \in Inode : TRUE
  /\ share # "catalog" => drawn = {}

Shares(name) == share = name /\ UNCHANGED share

SharedNext ==
  \/ Shares("lock") /\ Next /\ UNCHANGED <<readerVars, catalogVars, startVars>>
  \/ Shares("record") /\ ReaderNext /\ UNCHANGED <<vars, catalogVars, startVars>>
  \/ Shares("catalog") /\ CatalogNext /\ UNCHANGED <<vars, readerVars, startVars>>
  \/ Shares("start") /\ StartNext /\ UNCHANGED <<vars, readerVars, catalogVars>>
=============================================================================
