SPECIFICATION LiveSpec
CONSTANTS
  a = a
  b = b
  ab = ab
  HomeA = HomeA
  HomeB = HomeB
  AtSource = {"fail", "crash"}
  AtDestination = {"lose-body", "suppress"}
  Inbox = {a, b}
  Doc = {d1}
  Route = {ab}
  Home = {HomeA, HomeB}
  Origin <- PairOrigin
  Src <- PairSrc
  Dst <- PairDst
  Scope <- PairScope
  Redistribute <- PairRedistribute
  Delegated <- PairRedistribute
  InboxOf <- PairInboxOf
  Disruption <- PairDisruption
  MaxRevision = 1
  MaxVersion = 2
  MaxPasses = 1
  MaxLosses = 1

PROPERTIES DeletionReaches CopyRepaired
