------------------------------- MODULE MCRelay -------------------------------
(***************************************************************************)
(* Three homes.  Inbox a, in HomeA, publishes to b, and b redistributes    *)
(* what it imported from a, together with its own: to z over bz or, when   *)
(* HomeA found itself restored from a copy and goes on as inbox f, back to *)
(* HomeA over bf.  A route of b may forward terminal history of a only     *)
(* while b trusts the history of a.                                        *)
(***************************************************************************)
EXTENDS ReplicationProperties

CONSTANTS a, b, z, f, ab, bz, bf, HomeA, HomeB, HomeZ,
          AtOrigin, AtRelay, AtEnd   \* the disturbances at each home

RelayOrigin       == [d \in Doc |-> a]
RelaySrc          == [r \in Route |-> IF r = ab THEN a ELSE b]
RelayDst          == [r \in Route |-> CASE r = ab -> b [] r = bz -> z [] OTHER -> f]
RelayScope        == [r \in Route |-> IF r = ab THEN {a} ELSE {a, b}]
RelayRedistribute == [r \in Route |-> IF r = ab THEN {} ELSE {a}]
RelayInboxOf      == [h \in Home |-> CASE h = HomeA -> a [] h = HomeB -> b [] OTHER -> z]
RelayDisruption   ==
  [h \in Home |-> CASE h = HomeA -> AtOrigin [] h = HomeB -> AtRelay [] OTHER -> AtEnd]

-----------------------------------------------------------------------------
(* Bounds, stated of what a step leads to.  Either z is connected and       *)
(* nobody is quarantined, with one pass at a time and two versions, and one *)
(* of the two routes is detached and connected again; or an identity is     *)
(* quarantined and forked, with two passes at a time from then on, three    *)
(* versions and the first revision of each route (a quarantine raises it).  *)

Unused(r) == \A h \in Home : ~Configured(ledger[h], r)

Relaying ==
  /\ Unused(bf) /\ Cardinality(wire) <= 1
  /\ \E r \in {ab, bz} : \A h \in Home : ledger[h].route[r].revision <= 1
  /\ \A h \in Home : ~ledger[h].quarantined /\ ledger[h].inbox = InboxOf[h] /\ ledger[h].next <= 3

Forking ==
  /\ Unused(bz)
  /\ ledger[HomeA].incarnation = 1 => Cardinality(wire) <= 1
  /\ \A h \in Home, r \in Route :
       /\ ledger[h].route[r].state # "detached"
       /\ ledger[h].route[r].revision <= (IF ledger[h].quarantined THEN 2 ELSE 1)

RelayingOrForking == Relaying' \/ Forking'
=============================================================================
