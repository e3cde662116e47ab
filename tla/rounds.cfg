SPECIFICATION Spec
CONSTANTS
  Worker = {w1, w2}
  NoWorker = NoWorker
  MaxRuns = 2
  MaxAttempts = 1
  MaxFaults = 0
  MaxDrift = 0
  MaxControls = 2
SYMMETRY WorkerSymmetry
CONSTRAINT Representative
INVARIANTS TypeOK OpenWriteBlocksRound OneActiveRun RoundHasOneRequest
PROPERTIES HistoryFrozen KeepsPromise
CHECK_DEADLOCK FALSE
