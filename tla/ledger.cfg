SPECIFICATION Spec
CONSTANTS
  Worker = {w1, w2}
  NoWorker = NoWorker
  MaxRuns = 1
  MaxAttempts = 1
  MaxFaults = 1
  MaxDrift = 1
  MaxControls = 1
SYMMETRY WorkerSymmetry
CONSTRAINT Representative
INVARIANTS IInv AtMostOnePatch RejectedNeverWrites ConfirmedWasApplied
PROPERTIES AppliedOnApprovedBase
CHECK_DEADLOCK FALSE
