INIT Init
NEXT RevisionsNext
SYMMETRY DocSymmetry
CONSTANTS
  a = a
  b = b
  ab = ab
  HomeA = HomeA
  HomeB = HomeB
  AtSource = {"reconfigure", "detach", "pull"}
  AtDestination = {"reconfigure", "detach"}
  Inbox = {a, b}
  Doc = {d1, d2}
  Route = {ab}
  Home = {HomeA, HomeB}
  Origin <- PairOrigin
  Src <- PairSrc
  Dst <- PairDst
  Scope <- PairScope
  Redistribute <- PairRedistribute
  Delegated <- PairRedistribute
  InboxOf <- PairInboxOf
  Disruption <- PairDisruption
  MaxRevision = 3
  MaxVersion = 2
  MaxPasses = 1
INVARIANTS LedgersParse NothingResurrected ActiveAtBothEnds FullIsHeld
CHECK_DEADLOCK FALSE
