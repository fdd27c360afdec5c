SPECIFICATION Spec
CONSTANTS
  w1 = w1
  w2 = w2
  r1 = r1
  r2 = r2
  Workers <- OneWorker
  Direct <- DirectR1
  Members <- ListR2
  UsesTemplate = FALSE
  ServiceStatuses <- OnlyCancel
  MaxFaults = 2
  MaxCount = 6
PROPERTY SkippedStaysUnsent
CHECK_DEADLOCK FALSE
