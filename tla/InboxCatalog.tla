---------------------------- MODULE InboxCatalog ----------------------------
(***************************************************************************)
(* The inboxes of a user by name.  The catalog has a file per name, which  *)
(* binds it to a library's place and to the identity the library carries   *)
(* in its own instance-id; a reader of the catalog refuses all of it when  *)
(* two entries share a place or an identity.  Commands that write it hold  *)
(* the registration lock; whoever first needs the identity of a library    *)
(* draws it, under a lock beside the file.  Both are portable locks: the   *)
(* name is taken before the owner is written into it, and one that was     *)
(* never written is nobody's to remove.                                    *)
(*                                                                         *)
(* Commands that select an inbox read the whole catalog once, without the  *)
(* lock, and keep to what they have read: the choice may take the user a   *)
(* while, and the library is looked at only after it.                      *)
(*                                                                         *)
(* Libraries are copied by hand, and any command may be killed.            *)
(***************************************************************************)
EXTENDS Naturals, FiniteSets

CONSTANTS
  MaxOrders,    \* bound: commands, numbered in the order in which they begin
  Place,        \* directories that hold a library, or could
  AtFirst,      \* the one that does at first
  Title,        \* names in the catalog
  Ident,        \* identities, each drawn once
  Selecting,    \* bound: the commands that may also select an inbox, or set the default
  Registry,     \* the registration lock
  Blank,        \* no identity, no command, no name
  MaxAborts     \* bound: commands killed

ASSUME InboxCatalogAssumption ==
  /\ Registry \notin Place /\ AtFirst \in Place /\ Blank \notin Place \cup Title \cup Ident
  /\ Title # {} /\ Ident # {} /\ MaxOrders \in Nat /\ Selecting \subseteq 1..MaxOrders /\ MaxAborts \in Nat

Order == 1..MaxOrders

Kinds == {"register", "create", "serve", "fork"}

VARIABLES
  order,        \* Order -> where it is
  wish,         \* Order -> [kind, place, title, ident]: what it was asked and has read
  gate,         \* lock -> whose it is, and whether the owner is written in it
  entry,        \* Title -> [place, ident]
  stands,       \* Place -> "missing", "empty" or "library"
  ident,        \* Place -> instance-id
  scanned,      \* Order -> the entries it has read
  preferred,    \* default.json
  intent,       \* identity-transition.json
  drawn,        \* identities drawn
  aborts

choices     == <<scanned, preferred>>
catalogVars == <<order, wish, gate, entry, choices, stands, ident, intent, drawn, aborts>>

Ajar        == [of |-> 0, whole |-> TRUE]
NoEntry     == [place |-> Blank, ident |-> Blank]
NoIntent    == [title |-> Blank, place |-> Blank, old |-> Blank, new |-> Blank]
NoWish      == [kind |-> "none", place |-> Blank, title |-> Blank, ident |-> Blank]
NewIdent    == CHOOSE i \in Ident \ drawn : TRUE
NoEntries   == [t \in Title |-> NoEntry]
Entries     == {t \in Title : entry[t] # NoEntry}

CatalogInit ==
  /\ order = [c \in Order |-> "idle"] /\ wish = [c \in Order |-> NoWish]
  /\ gate = [l \in Place \cup {Registry} |-> Ajar]
  /\ entry = NoEntries /\ scanned = [c \in Order |-> NoEntries] /\ preferred = Blank
  /\ stands = [p \in Place |-> IF p = AtFirst THEN "library" ELSE "missing"]
  /\ drawn \in {{}, {CHOOSE i \in Ident : TRUE}}
  /\ ident = [p \in Place |-> IF p = AtFirst /\ drawn # {} THEN CHOOSE i \in drawn : TRUE ELSE Blank]
  /\ intent = NoIntent /\ aborts = 0

Passes(c, from, to) == order[c] = from /\ order' = [order EXCEPT ![c] = to]
Here(c) == wish[c].place
Is(c, kind) == wish[c].kind = kind

\* acquirePortableOwnership: create the name, or take it from a dead owner.
OpenGate(c, l) ==
  /\ gate[l].whole /\ gate[l].of \in {0} \cup {d \in Order : order[d] = "dead"}
  /\ gate' = [gate EXCEPT ![l].of = c]

GateAfter(c, l) == IF gate[l].of = c THEN [gate EXCEPT ![l] = Ajar] ELSE gate

Forgets(c) == wish' = [wish EXCEPT ![c] = NoWish]

\* Whoever is done, or fails, has given the registration lock back.
Ends(c, from, to) == Passes(c, from, to) /\ gate' = GateAfter(c, Registry) /\ Forgets(c)

-----------------------------------------------------------------------------
Begun(c) == \A d \in 1..(c - 1) : order[d] # "idle"

\* A library is looked at before the lock is asked for.
Ask(c) ==
  /\ Begun(c)
  /\ \E k \in Kinds, p \in Place, t \in Title :
    /\ k \in {"serve", "register", "fork"} => stands[p] = "library"
    /\ k = "fork" => ident[p] # Blank
    /\ k \in {"serve", "fork"} \/ c = 1 => t = CHOOSE u \in Title : TRUE
    /\ wish' = [wish EXCEPT ![c] = [kind |-> k, place |-> p, title |-> t, ident |-> ident[p]]]
    /\ Passes(c, "idle", IF k = "serve" THEN "naming" ELSE "asking")
    /\ UNCHANGED <<choices, gate, entry, stands, ident, intent, drawn, aborts>>

EnterCatalog(c) ==
  /\ \/ Passes(c, "asking", "holding") /\ OpenGate(c, Registry) /\ UNCHANGED wish
     \/ Ends(c, "asking", "failed")
  /\ UNCHANGED <<choices, entry, stands, ident, intent, drawn, aborts>>

Unregistered(t, p) == entry[t] = NoEntry /\ \A u \in Entries : entry[u].place # p

BeginRegister(c) ==
  /\ order[c] = "holding" /\ Is(c, "register")
  /\ IF ~Unregistered(wish[c].title, Here(c)) THEN Ends(c, "holding", "failed")
     ELSE /\ UNCHANGED <<gate, wish>>
          /\ Passes(c, "holding", IF wish[c].ident = Blank THEN "naming" ELSE "named")
  /\ UNCHANGED <<choices, entry, stands, ident, intent, drawn, aborts>>

\* The place must be empty; two directories make it a library.
BeginCreate(c) ==
  /\ order[c] = "holding" /\ Is(c, "create")
  /\ IF Unregistered(wish[c].title, Here(c)) /\ stands[Here(c)] # "library"
     THEN Passes(c, "holding", "making") /\ UNCHANGED <<gate, wish>>
     ELSE Ends(c, "holding", "failed")
  /\ UNCHANGED <<choices, entry, stands, ident, intent, drawn, aborts>>

MakeLibrary(c) ==
  /\ order[c] = "making"
  /\ IF stands[Here(c)] = "missing"
     THEN stands' = [stands EXCEPT ![Here(c)] = "empty"] /\ UNCHANGED order
     ELSE stands' = [stands EXCEPT ![Here(c)] = "library"] /\ Passes(c, "making", "naming")
  /\ UNCHANGED <<choices, wish, gate, entry, ident, intent, drawn, aborts>>

-----------------------------------------------------------------------------
(* getInboxInstanceId *)

ReadIdent(c) ==
  /\ order[c] = "naming"
  /\ IF ident[Here(c)] = Blank
     THEN Passes(c, "naming", "queueing") /\ UNCHANGED wish
     ELSE \/ Is(c, "serve") /\ Passes(c, "naming", "done") /\ Forgets(c)
          \/ ~Is(c, "serve") /\ Passes(c, "naming", "named")
             /\ wish' = [wish EXCEPT ![c].ident = ident[Here(c)]]
  /\ UNCHANGED <<choices, gate, entry, stands, ident, intent, drawn, aborts>>

LockIdent(c) ==
  /\ order[c] = "queueing"
  /\ \/ Passes(c, "queueing", "drawing") /\ OpenGate(c, Here(c)) /\ UNCHANGED wish
     \/ Ends(c, "queueing", "failed")
  /\ UNCHANGED <<choices, entry, stands, ident, intent, drawn, aborts>>

\* Mutant of SecondLookAt: the look before the lock is trusted.
FirstLookOnly(p) == TRUE

SecondLookAt(p) == ident[p] = Blank

\* Written aside and renamed, unless somebody has done so since.
DrawIdent(c) ==
  /\ order[c] = "drawing"
  /\ \/ /\ SecondLookAt(Here(c)) /\ Ident # drawn
        /\ ident' = [ident EXCEPT ![Here(c)] = NewIdent] /\ drawn' = drawn \cup {NewIdent}
     \/ ~SecondLookAt(Here(c)) /\ UNCHANGED <<ident, drawn>>
  /\ Passes(c, "drawing", "naming") /\ gate' = GateAfter(c, Here(c))
  /\ UNCHANGED <<choices, wish, entry, stands, intent, aborts>>

-----------------------------------------------------------------------------
\* Mutant of SameLibrary: the look before the lock is enough.
AsInspected(c) == TRUE

\* inspectRegisteredInbox, once more under the lock; createInbox has no need of it.
SameLibrary(c) == Is(c, "register") => ident[Here(c)] = wish[c].ident

NewToCatalog(c) == \A t \in Entries : entry[t].ident # wish[c].ident

CheckEntry(c) ==
  /\ order[c] = "named"
  /\ IF NewToCatalog(c) /\ SameLibrary(c) THEN Passes(c, "named", "publishing") /\ UNCHANGED <<gate, wish>>
                                          ELSE Ends(c, "named", "failed")
  /\ UNCHANGED <<choices, entry, stands, ident, intent, drawn, aborts>>

PublishEntry(c) ==
  /\ Ends(c, "publishing", "done")
  /\ entry' = [entry EXCEPT ![wish[c].title] = [place |-> Here(c), ident |-> wish[c].ident]]
  /\ UNCHANGED <<choices, stands, ident, intent, drawn, aborts>>

-----------------------------------------------------------------------------
(* withCatalogIdentityTransition *)

BoundTo(p) == {t \in Entries : entry[t].place = p}

BeginFork(c) ==
  /\ order[c] = "holding" /\ Is(c, "fork")
  /\ LET p == Here(c)  old == wish[c].ident IN
     \/ /\ intent.place = p /\ old \in {intent.old, intent.new}
        /\ Passes(c, "holding", "forking") /\ UNCHANGED <<gate, wish, intent, drawn>>
     \/ /\ intent = NoIntent /\ Ident # drawn /\ \A t \in BoundTo(p) : entry[t].ident = old
        /\ intent' = [place |-> p, old |-> old, new |-> NewIdent,
                      title |-> IF BoundTo(p) = {} THEN Blank ELSE CHOOSE t \in BoundTo(p) : TRUE]
        /\ drawn' = drawn \cup {NewIdent} /\ Passes(c, "holding", "forking") /\ UNCHANGED <<gate, wish>>
     \/ /\ IF intent = NoIntent THEN \E t \in BoundTo(p) : entry[t].ident # old
                                ELSE intent.place # p \/ old \notin {intent.old, intent.new}
        /\ Ends(c, "holding", "failed") /\ UNCHANGED <<intent, drawn>>
  /\ UNCHANGED <<choices, entry, stands, ident, aborts>>

\* The store forks or recovers, which ends with the identity replaced, or it fails.
ForkLibrary(c) ==
  /\ order[c] = "forking"
  /\ \/ /\ ident[Here(c)] \in {intent.old, intent.new} /\ Passes(c, "forking", "comparing")
        /\ ident' = [ident EXCEPT ![Here(c)] = intent.new] /\ UNCHANGED <<gate, wish>>
     \/ Ends(c, "forking", "failed") /\ UNCHANGED ident
  /\ UNCHANGED <<choices, entry, stands, intent, drawn, aborts>>

Comparable(x) ==
  /\ x.title # Blank => entry[x.title].place = x.place /\ entry[x.title].ident \in {x.old, x.new}
  /\ \A t \in Entries \ {x.title} : entry[t].place # x.place /\ entry[t].ident # x.new

CompareEntries(c) ==
  /\ order[c] = "comparing"
  /\ IF Comparable(intent) THEN Passes(c, "comparing", "rebinding") /\ UNCHANGED <<gate, wish>>
                           ELSE Ends(c, "comparing", "failed")
  /\ UNCHANGED <<choices, entry, stands, ident, intent, drawn, aborts>>

Rebind(c) ==
  /\ Passes(c, "rebinding", "closing intent")
  /\ entry' = IF intent.title = Blank THEN entry
              ELSE [entry EXCEPT ![intent.title].ident = intent.new]
  /\ UNCHANGED <<choices, wish, gate, stands, ident, intent, drawn, aborts>>

CloseIntent(c) ==
  /\ Ends(c, "closing intent", "done") /\ intent' = NoIntent
  /\ UNCHANGED <<choices, entry, stands, ident, drawn, aborts>>

-----------------------------------------------------------------------------
(* resolveInboxSelection, setDefaultInbox *)

\* Without a lock, one file after the other: each name is read once.
ScanCatalog(c) ==
  /\ c \in Selecting /\ Begun(c) /\ Passes(c, "idle", "choosing")
  /\ scanned' = [scanned EXCEPT ![c] = entry]
  /\ UNCHANGED <<wish, gate, entry, preferred, stands, ident, intent, drawn, aborts>>

Selected(kind, t, e) == [kind |-> kind, place |-> e.place, title |-> t, ident |-> e.ident]

\* By name, be it given, chosen from the list or the default; or by place, which
\* is then the name of what was registered there.
ChooseNamed(c) ==
  /\ order[c] = "choosing"
  /\ \E t \in Title :
       \/ scanned[c][t] # NoEntry /\ Passes(c, "choosing", "inspecting")
          /\ wish' = [wish EXCEPT ![c] = Selected("select", t, scanned[c][t])]
       \/ scanned[c][t] = NoEntry /\ Passes(c, "choosing", "failed") /\ UNCHANGED wish
  /\ scanned' = [scanned EXCEPT ![c] = NoEntries]
  /\ UNCHANGED <<gate, entry, preferred, stands, ident, intent, drawn, aborts>>

ListedElsewhere(c, i) == i # Blank /\ \E t \in Title : scanned[c][t].ident = i

ChoosePlace(c) ==
  /\ order[c] = "choosing"
  /\ \E p \in Place :
       /\ \A t \in Title : scanned[c][t].place # p
       /\ IF ListedElsewhere(c, ident[p]) THEN Passes(c, "choosing", "failed") /\ UNCHANGED wish
          ELSE Passes(c, "choosing", "done")
               /\ wish' = [wish EXCEPT ![c] = Selected("select", Blank, [place |-> p, ident |-> ident[p]])]
  /\ scanned' = [scanned EXCEPT ![c] = NoEntries]
  /\ UNCHANGED <<gate, entry, preferred, stands, ident, intent, drawn, aborts>>

LookUp(c) ==
  /\ c \in Selecting /\ Begun(c)
  /\ \E t \in Title :
       \/ entry[t] # NoEntry /\ Passes(c, "idle", "inspecting")
          /\ wish' = [wish EXCEPT ![c] = Selected("prefer", t, entry[t])]
       \/ entry[t] = NoEntry /\ Passes(c, "idle", "failed") /\ UNCHANGED wish
  /\ UNCHANGED <<gate, entry, choices, stands, ident, intent, drawn, aborts>>

\* The library must still carry the identity under which it was listed.
Inspect(c) ==
  /\ order[c] = "inspecting"
  /\ \/ /\ ident[Here(c)] = wish[c].ident /\ UNCHANGED wish
        /\ Passes(c, "inspecting", IF Is(c, "select") THEN "done" ELSE "preferring")
     \/ ident[Here(c)] # wish[c].ident /\ Passes(c, "inspecting", "failed") /\ Forgets(c)
  /\ UNCHANGED <<gate, entry, choices, stands, ident, intent, drawn, aborts>>

PreferInbox(c) ==
  /\ order[c] = "preferring" /\ Passes(c, "preferring", "done") /\ preferred' = wish[c].title
  /\ UNCHANGED <<wish, gate, entry, scanned, stands, ident, intent, drawn, aborts>>

PreferNone ==
  /\ preferred # Blank /\ preferred' = Blank
  /\ UNCHANGED <<order, wish, gate, entry, scanned, stands, ident, intent, drawn, aborts>>

-----------------------------------------------------------------------------
\* Somebody copies a library to a place that holds none.
CopyLibrary(p, q) ==
  /\ stands[p] = "library" /\ stands[q] # "library"
  /\ stands' = [stands EXCEPT ![q] = "library"] /\ ident' = [ident EXCEPT ![q] = ident[p]]
  /\ UNCHANGED <<choices, order, wish, gate, entry, intent, drawn, aborts>>

\* Killed, perhaps before it had written itself into the lock it had just made.
Abort(c) ==
  /\ order[c] \notin {"idle", "done", "failed", "dead"} /\ aborts < MaxAborts /\ aborts' = aborts + 1
  /\ order' = [order EXCEPT ![c] = "dead"] /\ Forgets(c)
  /\ \/ UNCHANGED gate
     \/ order[c] = "holding" /\ gate' = [gate EXCEPT ![Registry].whole = FALSE]
     \/ order[c] = "drawing" /\ gate' = [gate EXCEPT ![Here(c)].whole = FALSE]
  /\ UNCHANGED <<choices, entry, stands, ident, intent, drawn>>

CatalogStep(c) ==
  \/ Ask(c) \/ EnterCatalog(c) \/ BeginRegister(c) \/ BeginCreate(c) \/ MakeLibrary(c)
  \/ ReadIdent(c) \/ LockIdent(c) \/ DrawIdent(c)
  \/ CheckEntry(c) \/ PublishEntry(c)
  \/ BeginFork(c) \/ ForkLibrary(c) \/ CompareEntries(c) \/ Rebind(c) \/ CloseIntent(c)
  \/ ScanCatalog(c) \/ ChooseNamed(c) \/ ChoosePlace(c) \/ LookUp(c) \/ Inspect(c) \/ PreferInbox(c)

CatalogNext ==
  \/ \E c \in Order : CatalogStep(c) \/ Abort(c)
  \/ \E p, q \in Place : CopyLibrary(p, q)
  \/ PreferNone

CatalogSpec == CatalogInit /\ [][CatalogNext]_catalogVars
-----------------------------------------------------------------------------
\* The catalog can be read, and says what is there: no two names share a place
\* or an identity, the identity in an entry is that of the library at its place,
\* unless a fork of that library has still to be finished, and a name still means
\* the place it meant to whoever selected it or made it the default.
CatalogHolds ==
  /\ \A t, u \in Entries :
       t # u => entry[t].place # entry[u].place /\ entry[t].ident # entry[u].ident
  /\ \A t \in Entries : LET p == entry[t].place IN intent.place # p => ident[p] = entry[t].ident
  /\ preferred \in Entries \cup {Blank}
  /\ \A c \in Order : Is(c, "select") /\ order[c] = "done" /\ wish[c].title # Blank =>
       entry[wish[c].title].place = Here(c)

\* A library has one identity from the first time anybody asked for it until it
\* is forked, however many ask at once and whoever is killed while drawing it.
IdentityAgreed ==
  [][\A p \in Place : ident[p] # Blank => ident'[p] \in {ident[p], intent.new}]_catalogVars
=============================================================================
