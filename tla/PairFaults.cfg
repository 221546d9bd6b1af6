SPECIFICATION Spec
CONSTANTS
  a = a
  b = b
  ab = ab
  HomeA = HomeA
  HomeB = HomeB
  AtSource = {"crash", "fail"}
  AtDestination = {"suppress", "lose-body"}
  Inbox = {a, b}
  Doc = {d1}
  Route = {ab}
  Home = {HomeA, HomeB}
  Origin <- PairOrigin
  Src <- PairSrc
  Dst <- PairDst
  Scope <- PairScope
  Redistribute <- PairRedistribute
  Delegated <- PairRedistribute
  InboxOf <- PairInboxOf
  Disruption <- PairDisruption
  MaxRevision = 1
  MaxVersion = 2
  MaxPasses = 2
INVARIANTS TypeOK EveryStateOwed ConfirmedIsHeld
PROPERTIES TombstoneFinal
