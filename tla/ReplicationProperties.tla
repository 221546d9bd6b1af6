----------------------- MODULE ReplicationProperties -----------------------
(***************************************************************************)
(* What the machine of Replication must never do, and what it must         *)
(* eventually do.  Each property names the code whose mistake it would     *)
(* catch.                                                                  *)
(***************************************************************************)
EXTENDS Replication

\* Type invariant.
TypeOK == ledger \in [Home -> LedgerType] /\ wire \subseteq Message

\* Whatever sequence of operations a home went through, the ledger it commits
\* passes the cross-checks of `parseLedger`: a commit that fails them throws,
\* and a ledger on disk that fails them would lock its owner out for good.
LedgersParse == \A h \in Home : Parses(ledger[h])

\* A live copy is a member of a route only after the terminal inventory of that
\* very revision, and every document the inventory named deleted is deleted
\* here: reconnecting cannot resurrect what was deleted meanwhile
\* (`completeInventory`, `applyLocked`).
NothingResurrected ==
  \A h \in Home, r \in Route, d \in Doc :
    LET L == ledger[h] IN
    /\ L.history[r].cut[d].state = "deleted" => L.rec[d].state = "deleted"
    /\ L.rec[d].from[r].state = "attached" => L.history[r].revision = L.route[r].revision

\* The source believes a route active only if the destination, while it is still
\* at that revision, has completed its terminal inventory (`activateOutbound`).
ActiveAtBothEnds ==
  \A g, h \in Home, r \in Route :
    /\ ledger[g].inbox = Src[r] /\ ledger[g].route[r].state = "active"
    /\ ledger[h].inbox = Dst[r] /\ ledger[h].route[r].revision = ledger[g].route[r].revision
    => /\ ledger[h].route[r].state = "active"
       /\ ledger[h].history[r].revision = ledger[h].route[r].revision

\* An obligation is confirmed only when the destination holds that state or a
\* later one, with its body when it was committed (`acknowledge`): nobody is
\* told "delivered" of a document that is not there.
ConfirmedIsHeld ==
  \A g, h \in Home, r \in Route, d \in Doc :
    LET e == CurrentEntry(ledger[g], r, d)  held == ledger[h].rec[d] IN
    e.disposition = "confirmed" /\ ledger[g].inbox = Src[r] /\ ledger[h].inbox = Dst[r]
    => /\ held.state # "absent" /\ held.version >= e.signed.version
       /\ e.signed.state = "deleted" => held.state = "deleted"
       /\ e.outcome = "committed" /\ "lose-body" \notin Disruption[h] => held.body

\* A home owes every state it may send to every live outbound route, at the
\* route's current revision and the record's current fingerprint: no operation
\* forgets to queue (`queueLedgerState` and its callers).
EveryStateOwed ==
  \A h \in Home, r \in Route, d \in Doc :
    LET L == ledger[h]  e == CurrentEntry(L, r, d) IN
    Sender(h, r) /\ Present(L, d) /\ Granted(r, Origin[d])
    => e.disposition \in {"pending", "blocked", "confirmed"} /\ e.signed = Fingerprint(L.rec[d])

\* An obligation waits for trusted history only while that history is missing:
\* whatever establishes it also releases every obligation that waited.
NoStrandedWait ==
  \A h \in Home, r \in Route, d \in Doc :
    Sender(h, r) /\ CurrentEntry(ledger[h], r, d).history
    => ~CanForward(ledger[h], r, d, FALSE)

\* A full-reconciliation checkpoint covers only states that are held, at that
\* version or later (`completeReconciliation`): item 100 does not vouch for
\* item 99.
FullIsHeld ==
  \A h \in Home, r \in Route, d \in Doc :
    LET L == ledger[h]  s == L.full[r].cut[d] IN
    s.state # "absent" => Present(L, d) /\ L.rec[d].version >= s.version

\* No two states of one document are signed at the same version, wherever the
\* copies are (`allocateVersion`, `fork`).
SignedOnce ==
  \A g, h \in Home, d \in Doc :
    /\ Present(ledger[g], d) /\ Present(ledger[h], d)
    /\ ledger[g].rec[d].version = ledger[h].rec[d].version
    => ledger[g].rec[d].state = ledger[h].rec[d].state

\* A tombstone dominates: no step at any home, whatever it received late or
\* twice, takes a deleted document back or lowers its version.
TombstoneFinal ==
  [][\A h \in Home, d \in Doc :
       ledger[h].rec[d].state = "deleted" =>
         /\ ledger'[h].rec[d].state = "deleted"
         /\ ledger'[h].rec[d].version >= ledger[h].rec[d].version]_vars

\* The machine implements the abstract history: only owners sign, other homes
\* adopt what exists, and no copy goes back.
History == INSTANCE OriginHistory WITH
  identity <- [h \in Home |-> ledger[h].inbox],
  copy     <- [h \in Home |-> [d \in Doc |-> ledger[h].rec[d].state]]
ImplementsHistory == History!Spec
=============================================================================
