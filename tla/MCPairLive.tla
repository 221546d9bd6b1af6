----------------------------- MODULE MCPairLive -----------------------------
(***************************************************************************)
(* Two homes and one route: inbox a, in HomeA, publishes to inbox b.       *)
(***************************************************************************)
EXTENDS ReplicationLive

CONSTANTS a, b, ab, HomeA, HomeB,
          AtSource, AtDestination   \* the disturbances at each end

PairOrigin       == [d \in Doc |-> a]
PairSrc          == [r \in Route |-> a]
PairDst          == [r \in Route |-> b]
PairScope        == [r \in Route |-> {a}]
PairRedistribute == [r \in Route |-> {}]
PairInboxOf      == [h \in Home |-> IF h = HomeA THEN a ELSE b]
PairDisruption   == [h \in Home |-> IF h = HomeA THEN AtSource ELSE AtDestination]
=============================================================================
