SPECIFICATION LiveSpec
CONSTANTS
  a = a
  b = b
  ab = ab
  HomeA = HomeA
  HomeB = HomeB
  AtSource = {"reconfigure"}
  AtDestination = {"reconfigure", "suppress", "lose-body"}
  Inbox = {a, b}
  Doc = {d1}
  Route = {ab}
  Home = {HomeA, HomeB}
  Origin <- PairOrigin
  Src <- PairSrc
  Dst <- PairDst
  Scope <- PairScope
  Redistribute <- PairRedistribute
  Delegated <- PairRedistribute
  InboxOf <- PairInboxOf
  Disruption <- PairDisruption
  MaxRevision = 2
  MaxVersion = 2
  MaxPasses = 1
  MaxLosses = 0

PROPERTIES CopyRepaired
CHECK_DEADLOCK FALSE
