SPECIFICATION Spec
CONSTANTS
  Words = {"p", "a"}
  NoWord = ""
  Documents <- SomeDocuments
  MaxEdits = 2
CHECK_DEADLOCK FALSE
INVARIANTS FirstCandidateWins HasTargetExact
