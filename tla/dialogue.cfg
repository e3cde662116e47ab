SPECIFICATION DialogueSpec
CONSTANTS
  Key = {k1, k2}
  NoKey = NoKey
  Worker = {w1}
  MaxRuns = 4
  MaxPosts = 2
  MaxFaults = 2
  MaxAttempts = 2
  MaxQuestions = 1
INVARIANTS LanesExclusive OneRoundPerKey
PROPERTIES DelayedEnds RetryIsInert StopHolds DelayedVerdictCurrent
CHECK_DEADLOCK FALSE
