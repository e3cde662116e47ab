SPECIFICATION HistorySpec
CONSTANTS
  q1 = q1
  q2 = q2
  Query = {q1, q2}
  Batch <- Batches
  Slot = {"changes", "onset"}
  Attempts = 4
  Decisions = 3
  MaxQuestions = 1
  MaxCrashes = 1
  MaxLag = 2
INVARIANTS PaidOnce RereadHasBasis PromptsStandUnlessLost
PROPERTIES InvestigationEnds LastCallTerminalUnlessLost
CHECK_DEADLOCK FALSE
