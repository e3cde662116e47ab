SPECIFICATION FairDurableSpec
CONSTANTS
  Worker = {w1}
  NoWorker = NoWorker
  MaxRuns = 2
  MaxAttempts = 1
  MaxFaults = 1
  MaxDrift = 0
  MaxControls = 1
PROPERTIES SelectedInvestigateStarts
