SPECIFICATION Spec
CONSTANTS
  None = None
  Empty = Empty
  Choices <- MCChoices
  MaxRuns = 2
  MaxTroubles = 2
  MaxResets = 1
  MaxOthers = 1
INVARIANTS
  TypeOK
  FailuresAreExplained
  GreenMeansTested
  RunsShareTheAccount
CONSTRAINT TwoAtMost
CHECK_DEADLOCK FALSE
