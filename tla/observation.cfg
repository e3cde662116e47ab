SPECIFICATION WindowSpec
CONSTANTS
  Proc = {a, b}
  Target = {t1, t2}
  NoTarget = NoTarget
  Required = 2
  MaxSamples = 3
  Interval = 1
  TotalTime = 3
  ResourceTime = 2
  BusinessTime = 2
  MaxNow = 4
  MaxStarts = 3
INVARIANTS PassedIsStable
PROPERTIES VerdictIsFinal WindowConcludes
CHECK_DEADLOCK FALSE
