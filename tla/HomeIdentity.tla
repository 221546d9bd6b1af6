---------------------------- MODULE HomeIdentity ----------------------------
(***************************************************************************)
(* Which home signs as which inbox.  A managed home names its inbox in the *)
(* ledger, in the reader's instance-id and, if it is registered, in the    *)
(* catalog; it signs with the key of that inbox, and only where the ledger *)
(* was anchored.  A home may be copied at any moment with all it holds;    *)
(* `sync restore quarantine` and `sync fork` give a copy, or the home      *)
(* itself, an identity of its own, through several files, and may be       *)
(* killed between any two of them.                                         *)
(***************************************************************************)
EXTENDS Naturals, FiniteSets

CONSTANTS
  Home,         \* directories that may hold a managed home
  Original,     \* the one that was enrolled and registered
  Inbox,        \* inbox ids, each drawn once
  FirstInbox,   \* that of the original
  Unset,        \* no inbox, no home
  MaxStops      \* bound: maintenance commands and workers killed

ASSUME HomeIdentityAssumption ==
  Original \in Home /\ FirstInbox \in Inbox /\ Unset \notin Home \cup Inbox /\ MaxStops \in Nat

VARIABLES
  owner,        \* Home -> what its ledger says of the owner
  reader,       \* Home -> instance-id
  keys,         \* Home -> inboxes whose signing key it holds
  workerOf,     \* Home -> the inbox of the worker record, and whether that worker lives
  catalog,      \* the inbox that the catalog binds to the original
  transition,   \* identity-transition.json
  registrar,    \* the home whose maintenance holds the registration lock
  upkeep,       \* Home -> where its maintenance is
  chosen,       \* inbox ids drawn
  signers,      \* Inbox -> the homes that have signed for it
  stops

idVars == <<owner, reader, keys, workerOf, catalog, transition, registrar, upkeep,
            chosen, signers, stops>>

NoTransition == [home |-> Unset, old |-> Unset, new |-> Unset]
NoWorker     == [inbox |-> Unset, here |-> FALSE, alive |-> FALSE]
NoOwner      == [inbox |-> Unset, phase |-> "none", quarantined |-> FALSE, anchor |-> Unset,
                 known |-> {}]

Exists(h) == owner[h] # NoOwner

IdentityInit ==
  /\ owner = [h \in Home |-> IF h # Original THEN NoOwner ELSE
       [inbox |-> FirstInbox, phase |-> "complete", quarantined |-> FALSE, anchor |-> h,
        known |-> {FirstInbox}]]
  /\ reader = [h \in Home |-> IF h = Original THEN FirstInbox ELSE Unset]
  /\ keys = [h \in Home |-> IF h = Original THEN {FirstInbox} ELSE {}]
  /\ workerOf = [h \in Home |-> NoWorker]
  /\ catalog \in {FirstInbox, Unset} /\ transition = NoTransition /\ registrar = Unset
  /\ upkeep = [h \in Home |-> "idle"] /\ chosen = {FirstInbox}
  /\ signers = [i \in Inbox |-> {}] /\ stops = 0

\* Somebody copies the directory, as it is, to another place.
CopyHome(h, to) ==
  /\ Exists(h) /\ ~Exists(to)
  /\ owner' = [owner EXCEPT ![to] = owner[h]] /\ reader' = [reader EXCEPT ![to] = reader[h]]
  /\ keys' = [keys EXCEPT ![to] = keys[h]]
  /\ workerOf' = [workerOf EXCEPT ![to] =
       IF workerOf[h] = NoWorker THEN NoWorker ELSE [workerOf[h] EXCEPT !.here = FALSE, !.alive = FALSE]]
  /\ UNCHANGED <<catalog, transition, registrar, upkeep, chosen, signers, stops>>

-----------------------------------------------------------------------------
(* What a store checks before it changes anything, and before it signs. *)

Anchored(h) == owner[h].anchor = h

\* recoverLocked of an interrupted fork.  It fails in a home that is quarantined.
Resume(h) == [owner EXCEPT ![h].phase = "complete"]

RetiredKeys(h, o) == keys[h] \ (IF o.quarantined THEN o.known ELSE o.known \ {o.inbox})

\* The quarantine and the fork each hold the store lock from one end to the other.
StoreLocked(h) == upkeep[h] \in {"retiring", "retiring to fork", "keyed", "committed",
                                "replacing", "replaced"}

\* Any mutation by a process that has not recovered the store yet.
RecoverHome(h) ==
  /\ ~StoreLocked(h) /\ Exists(h) /\ Anchored(h)
  /\ owner[h].phase = "forking" => ~owner[h].quarantined
  /\ owner[h].phase = "complete" => reader[h] = owner[h].inbox
  /\ owner' = Resume(h) /\ reader' = [reader EXCEPT ![h] = owner[h].inbox]
  /\ keys' = [keys EXCEPT ![h] = RetiredKeys(h, owner[h])]
  /\ upkeep' = [upkeep EXCEPT ![h] = IF @ = "recovering" THEN "forked" ELSE @]
  /\ UNCHANGED <<workerOf, catalog, transition, registrar, chosen, signers, stops>>

InUse(h) ==
  /\ ~StoreLocked(h) /\ Exists(h) /\ Anchored(h)
  /\ owner[h].phase = "complete" /\ reader[h] = owner[h].inbox

\* Mutant of MaySign: quarantine is left to the workers.
QuarantineIgnored(h) == InUse(h) /\ owner[h].inbox \in keys[h]

MaySign(h) == InUse(h) /\ ~owner[h].quarantined /\ owner[h].inbox \in keys[h]

Sign(h) ==
  /\ MaySign(h) /\ signers' = [signers EXCEPT ![owner[h].inbox] = @ \cup {h}]
  /\ UNCHANGED <<owner, reader, keys, workerOf, catalog, transition, registrar, upkeep, chosen, stops>>

\* A fork is not awaited: it gives the exclusion of the workers back at once.
Excluded(h) == upkeep[h] \in {"quarantine", "retiring"} \/ (upkeep[h] = "forked" /\ registrar # h)

StartWorker(h) ==
  /\ ~Excluded(h) /\ InUse(h) /\ ~owner[h].quarantined /\ ~workerOf[h].alive
  /\ workerOf' = [workerOf EXCEPT ![h] = [inbox |-> owner[h].inbox, here |-> TRUE, alive |-> TRUE]]
  /\ UNCHANGED <<owner, reader, keys, catalog, transition, registrar, upkeep, chosen, signers, stops>>

-----------------------------------------------------------------------------
(* maintainSyncIdentity: quarantine, and fork. *)

To(h, from, to) == upkeep[h] = from /\ upkeep' = [upkeep EXCEPT ![h] = to]

\* The record of a worker of this home must name the inbox of the ledger.
WorkerUnambiguous(h) ==
  workerOf[h].here => Anchored(h) /\ workerOf[h].inbox = owner[h].inbox

\* Mutant of Recorded: an interrupted fork is known only by the old inbox.
OldOnly(h) == FALSE

\* The id that the user expects is that of the ledger, or the recorded fork's old one.
Recorded(h) == transition.home = h /\ transition.new = owner[h].inbox

\* Workers are stopped, and the locks taken under which the rest happens.
BeginUpkeep(h, action) ==
  /\ Exists(h) /\ WorkerUnambiguous(h) /\ To(h, "idle", action)
  /\ workerOf' = IF workerOf[h].alive THEN [workerOf EXCEPT ![h] = NoWorker] ELSE workerOf
  /\ UNCHANGED <<owner, reader, keys, catalog, transition, registrar, chosen, signers, stops>>

Quarantined(h) == [owner EXCEPT ![h].quarantined = TRUE, ![h].anchor = h]

CommitQuarantine(h) ==
  /\ \/ To(h, "quarantine", "retiring")
     \/ ~owner[h].quarantined /\ owner[h].inbox = transition.old /\ To(h, "transition", "retiring to fork")
  /\ owner' = Quarantined(h)
  /\ UNCHANGED <<reader, keys, workerOf, catalog, transition, registrar, chosen, signers, stops>>

RetireKeys(h) ==
  /\ \/ To(h, "retiring", "forked") \/ To(h, "retiring to fork", "transition")
     \/ To(h, "committed", "replacing")
  /\ keys' = [keys EXCEPT ![h] = RetiredKeys(h, owner[h])]
  /\ UNCHANGED <<owner, reader, workerOf, catalog, transition, registrar, chosen, signers, stops>>

\* withCatalogIdentityTransition: the recorded intent of this home, or a new one.
BeginTransition(h) ==
  /\ registrar = Unset /\ registrar' = h
  /\ \/ /\ transition.home = h /\ (Recorded(h) \/ transition.old = owner[h].inbox)
        /\ To(h, "fork", "transition") /\ UNCHANGED <<transition, chosen>>
     \/ \E i \in Inbox \ chosen :
          /\ transition = NoTransition
          /\ h = Original => catalog \in {Unset, owner[h].inbox}
          /\ transition' = [home |-> h, old |-> owner[h].inbox, new |-> i]
          /\ chosen' = chosen \cup {i} /\ To(h, "fork", "transition")
  /\ UNCHANGED <<owner, reader, keys, workerOf, catalog, signers, stops>>

\* Another transition is pending, or the binding is not what is expected.
TransitionRefused(h) ==
  /\ registrar = Unset /\ To(h, "fork", "idle")
  /\ IF transition = NoTransition THEN h = Original /\ catalog \notin {Unset, owner[h].inbox}
                                  ELSE transition.home # h \/ owner[h].inbox \notin {transition.old, transition.new}
  /\ UNCHANGED <<owner, reader, keys, workerOf, catalog, transition, registrar, chosen, signers, stops>>

\* A fork that had committed is recovered; one that had not is made.
ForkAgain(h) ==
  /\ owner[h].inbox = transition.new /\ To(h, "transition", "recovering")
  /\ UNCHANGED <<owner, reader, keys, workerOf, catalog, transition, registrar, chosen, signers, stops>>

CreateKey(h) ==
  /\ owner[h].quarantined /\ owner[h].inbox = transition.old /\ To(h, "transition", "keyed")
  /\ keys' = [keys EXCEPT ![h] = @ \cup {transition.new}]
  /\ UNCHANGED <<owner, reader, workerOf, catalog, transition, registrar, chosen, signers, stops>>

ForkedPhase == "forking"

CommitFork(h) ==
  /\ To(h, "keyed", "committed")
  /\ owner' = [owner EXCEPT ![h] =
       [inbox |-> transition.new, phase |-> ForkedPhase, quarantined |-> FALSE, anchor |-> h,
        known |-> @.known \cup {transition.new}]]
  /\ UNCHANGED <<reader, keys, workerOf, catalog, transition, registrar, chosen, signers, stops>>

ReplaceReader(h) ==
  /\ To(h, "replacing", "replaced") /\ reader' = [reader EXCEPT ![h] = owner[h].inbox]
  /\ UNCHANGED <<owner, keys, workerOf, catalog, transition, registrar, chosen, signers, stops>>

CompleteFork(h) ==
  /\ To(h, "replaced", "forked") /\ owner' = Resume(h)
  /\ UNCHANGED <<reader, keys, workerOf, catalog, transition, registrar, chosen, signers, stops>>

\* The runtime records go; a quarantine ends here.
FinishUpkeep(h) ==
  /\ To(h, "forked", IF registrar = h THEN "finished" ELSE "idle")
  /\ workerOf' = [workerOf EXCEPT ![h] = NoWorker]
  /\ UNCHANGED <<owner, reader, keys, catalog, transition, registrar, chosen, signers, stops>>

Rebound(h) == IF h = Original /\ catalog # Unset THEN transition.new ELSE catalog

\* complete(): compare and replace.
RebindCatalog(h) ==
  /\ h = Original /\ catalog # Unset => catalog \in {transition.old, transition.new}
  /\ reader[h] = transition.new /\ To(h, "finished", "rebound") /\ catalog' = Rebound(h)
  /\ UNCHANGED <<owner, reader, keys, workerOf, transition, registrar, chosen, signers, stops>>

EndTransition(h) ==
  /\ To(h, "rebound", "idle") /\ transition' = NoTransition /\ registrar' = Unset
  /\ UNCHANGED <<owner, reader, keys, workerOf, catalog, chosen, signers, stops>>

-----------------------------------------------------------------------------
KillUpkeep(h) ==
  /\ upkeep[h] # "idle" /\ stops < MaxStops /\ stops' = stops + 1
  /\ upkeep' = [upkeep EXCEPT ![h] = "idle"]
  /\ registrar' = IF registrar = h THEN Unset ELSE registrar
  /\ UNCHANGED <<owner, reader, keys, workerOf, catalog, transition, chosen, signers>>

KillWorker(h) ==
  /\ workerOf[h].alive /\ stops < MaxStops /\ stops' = stops + 1
  /\ workerOf' = [workerOf EXCEPT ![h].alive = FALSE]
  /\ UNCHANGED <<owner, reader, keys, catalog, transition, registrar, upkeep, chosen, signers>>

Upkeep(h) ==
  \/ BeginUpkeep(h, "fork") \/ BeginUpkeep(h, "quarantine")
  \/ CommitQuarantine(h) \/ RetireKeys(h)
  \/ BeginTransition(h) \/ TransitionRefused(h) \/ ForkAgain(h)
  \/ CreateKey(h) \/ CommitFork(h) \/ ReplaceReader(h) \/ CompleteFork(h)
  \/ FinishUpkeep(h) \/ RebindCatalog(h) \/ EndTransition(h)

IdentityNext == \E h \in Home :
  \/ (\E to \in Home : CopyHome(h, to))
  \/ RecoverHome(h) \/ Sign(h) \/ StartWorker(h) \/ KillWorker(h)
  \/ Upkeep(h) \/ KillUpkeep(h)

IdentitySpec == IdentityInit /\ [][IdentityNext]_idVars

-----------------------------------------------------------------------------
\* No two homes ever sign for the same inbox, whenever the copy was taken and
\* wherever a fork of either was interrupted.
OneSigner == \A i \in Inbox : Cardinality(signers[i]) <= 1

\* The files that name the inbox agree with the ledger, wherever a fork was
\* killed: the reader's, unless recovery is still to come; the catalog's, unless
\* the intent of a fork is recorded; and a home in use holds the key it signs
\* with and none of an inbox it has given up.
IdentityFollows ==
  /\ \A h \in Home : owner[h].phase = "complete" => reader[h] = owner[h].inbox
  /\ transition = NoTransition => catalog \in {Unset, owner[Original].inbox}
  /\ \A h \in Home :
       InUse(h) /\ ~owner[h].quarantined => keys[h] \cap owner[h].known = {owner[h].inbox}

\* An interrupted fork can be finished by the same command, unless the record
\* of a worker that died before it names the old inbox.
ForkCanFinish == \A h \in Home :
  transition.home = h /\ upkeep[h] = "idle" =>
    \/ workerOf[h].here /\ workerOf[h].inbox = transition.old
    \/ WorkerUnambiguous(h) /\ (owner[h].inbox = transition.old \/ Recorded(h))

\* Wherever a fork is killed, its files agree and it can be finished.
ForkIsSound == IdentityFollows /\ ForkCanFinish
=============================================================================
