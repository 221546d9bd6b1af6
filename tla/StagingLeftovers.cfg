SPECIFICATION StoreSpec
CONSTANTS
  User = {user1, user2}
  SyncWorker = {user1}
  Ours = {ours1}
  Theirs = {theirs1}
  Name = {file1, file2}
  Nothing = Nothing
  MaxReserved = 2
  MaxFaults = 1
  MaxRestarts = 0
INVARIANTS LeftoversHarmless
CHECK_DEADLOCK FALSE
