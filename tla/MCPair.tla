------------------------------- MODULE MCPair -------------------------------
(***************************************************************************)
(* Two homes and one route: inbox a, in HomeA, publishes to inbox b.       *)
(***************************************************************************)
EXTENDS ReplicationProperties, TLC

CONSTANTS a, b, ab, HomeA, HomeB,
          AtSource, AtDestination   \* the disturbances at each end

PairOrigin       == [d \in Doc |-> a]
PairSrc          == [r \in Route |-> a]
PairDst          == [r \in Route |-> b]
PairScope        == [r \in Route |-> {a}]
PairRedistribute == [r \in Route |-> {}]
PairInboxOf      == [h \in Home |-> IF h = HomeA THEN a ELSE b]
PairDisruption   == [h \in Home |-> IF h = HomeA THEN AtSource ELSE AtDestination]

\* Bound of PairRevisions: the last revision is not reached with every document
\* present somewhere.
Crowded == \A d \in Doc : \E h \in Home : Present(ledger[h], d)

RevisionsNext ==
  Next /\ (Crowded' => \A h \in Home, r \in Route : ledger'[h].route[r].revision < MaxRevision)

\* The documents differ in nothing but their name.
DocSymmetry == Permutations(Doc)
=============================================================================
