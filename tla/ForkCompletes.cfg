SPECIFICATION EnrollSpec
CONSTANTS
  Doc = {doc1, doc2, doc3}
  Early = {doc1, doc2}
  Deleter = {del1}
  NoDoc = NoDoc
  BatchSize = 1
  MaxCuts = 2
INVARIANT CandidatesBlockCompletion
CHECK_DEADLOCK FALSE
