INIT SharedInit
NEXT SharedNext
CONSTANTS
  proc1 = proc1
  proc2 = proc2
  call1 = call1
  call2 = call2
  call3 = call3
  call4 = call4
  None = None
  Process = {proc1, proc2}
  Call = {call1, call2, call3, call4}
  ProcessOf <- SharedProcessOf
  KnowsStart = TRUE
  Impatient = {call2}
  MaxLives = 2
  Kind = {"ledger", "worker", "catalog", "viewer"}
  Inode = {1, 2, 3}
  Extra = 0
  MaxOrders = 3
  Place = {place1, place2}
  AtFirst = place1
  Title = {title1, title2}
  Ident = {ident1, ident2, ident3}
  Selecting = {3}
  Registry = Registry
  Blank = Blank
  MaxAborts = 1
  Starter = {starter1, starter2, starter3, starter4}
  Nameless = Nameless
  MaxKills = 2
INVARIANTS OneHolder OneAtATime AnswerIsOfItsTime CatalogHolds OneStarter
PROPERTIES NeverStolen IdentityAgreed
CHECK_DEADLOCK FALSE
