INIT Init
NEXT Next
CONSTANTS
  start1 = start1
  start2 = start2
  child1 = child1
  child2 = child2
  ensure1 = ensure1
  viewer1 = viewer1
  Starter = {start1, start2}
  ChildOf <- Spawns
  Standing = {stand1}
  Stopper = {stop1}
  Keeper = {keep1}
  Nobody = Nobody
  MaxKills = 1
  Ensurer = {ensure1}
  ViewerOf <- Views
  Foreground = {viewer2}
  Closer = {close1}
  Curator = {curate1}
  NoOne = NoOne
  Foreign = Foreign
  MaxDeaths = 1
  MaxTrouble = 1
  Handler = {hand1, hand2}
  Session = {sess1, sess2}
  Transfer = {trans1}
  Unnamed = Unnamed
  MaxSessions = 1
  MaxTransfers = 1
  MaxBodies = 1
  Pages = 1
  MaxRevision = 2
  MaxSlips = 1
  Doc = {doc1, doc2, doc3}
  Early = {doc1, doc2}
  Deleter = {del1}
  NoDoc = NoDoc
  BatchSize = 1
  MaxCuts = 2
  Home = {home1, home2}
  Original = home1
  Inbox = {inbox1, inbox2, inbox3}
  FirstInbox = inbox1
  Unset = Unset
  MaxStops = 1
  Cmd = {cmd1, cmd2, cmd3}
  OpId = {op1, op2}
  NoCmd = NoCmd
  NoOp = NoOp
  First = First
  MaxCrashes = 1
  MaxOutages = 1
  User = {user1, user2}
  SyncWorker = {user1}
  Ours = {ours1}
  Theirs = {theirs1}
  Name = {file1, file2}
  Nothing = Nothing
  MaxReserved = 2
  MaxFaults = 1
  MaxRestarts = 1
  Way = {way1, way2}
  MaxTurns = 2
  Settings = {setting1, setting2}
  Undefined = Undefined
  MaxMishaps = 3
  Ask = {ask1, ask2}
  Paper = {paper1}
  NoAsk = NoAsk
  MaxFails = 2
INVARIANTS
  WorkersExclude ViewerIsAccounted SessionsAccounted EnrollmentIsFaithful
  OneSigner ForkIsSound MutationAlone SiteFollowsRecords StoreSurvives StagesOwned
  ExitIsTrue ServiceIsAsTold DeletionIsAsTold
PROPERTIES ForeignRouteKept BodyIsEarned
CHECK_DEADLOCK FALSE
