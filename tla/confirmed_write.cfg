SPECIFICATION FairDurableSpec
CONSTANTS
  Worker = {w1}
  NoWorker = NoWorker
  MaxRuns = 1
  MaxAttempts = 2
  MaxFaults = 1
  MaxDrift = 0
  MaxControls = 0
PROPERTIES ConfirmedWriteIsVerified
