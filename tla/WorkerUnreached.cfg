\* One worker, whose sends fail on both channels: the retry takes the FAILED entries for done.
SPECIFICATION Spec
CONSTANTS
  w1 = w1
  w2 = w2
  r1 = r1
  r2 = r2
  Workers <- OneWorker
  Direct <- DirectR1
  Members <- ListR2
  UsesTemplate = FALSE
  ServiceStatuses <- NoServiceWrites
  MaxFaults = 2
  MaxCount = 6
INVARIANT AckMeansReached
CHECK_DEADLOCK FALSE
