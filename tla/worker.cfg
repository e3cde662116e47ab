SPECIFICATION DurableSpec
CONSTANTS
  Worker = {w1, w2}
  NoWorker = NoWorker
  MaxRuns = 1
  MaxAttempts = 2
  MaxFaults = 1
  MaxDrift = 0
  MaxControls = 1
SYMMETRY WorkerSymmetry
INVARIANTS TerminalWriteSettled SucceededIsEarned WaitingIsResumable
PROPERTIES CheckpointNeverRegresses ImplementsProtocol
