SPECIFICATION Spec
ACTION_CONSTRAINT RelayingOrForking
CONSTANTS
  a = a
  b = b
  z = z
  f = f
  ab = ab
  bz = bz
  bf = bf
  HomeA = HomeA
  HomeB = HomeB
  HomeZ = HomeZ
  AtOrigin = {"restore"}
  AtRelay = {"detach", "audit"}
  AtEnd = {}
  Inbox = {a, b, z, f}
  Doc = {d1}
  Route = {ab, bz, bf}
  Home = {HomeA, HomeB, HomeZ}
  Origin <- RelayOrigin
  Src <- RelaySrc
  Dst <- RelayDst
  Scope <- RelayScope
  Redistribute <- RelayRedistribute
  Delegated <- RelayRedistribute
  InboxOf <- RelayInboxOf
  Disruption <- RelayDisruption
  MaxRevision = 2
  MaxVersion = 3
  MaxPasses = 2
INVARIANTS NoStrandedWait SignedOnce
PROPERTIES ImplementsHistory
CHECK_DEADLOCK FALSE
