\* One notification, two concurrent handlers of any kind, next to its publisher.
SPECIFICATION Spec
CONSTANTS
  n1 = n1
  n2 = n2
  n3 = n3
  k1 = k1
  k2 = k2
  Requests <- OneRequest
  Queue <- TwoQueues
  Template <- OneTemplate
  Templated <- OneRequest
  Calls <- TwoCalls
  Operations <- EveryOperation
  PatchStatuses <- OnlySent
  MaxFaults = 2
SYMMETRY CallSymmetry
CHECK_DEADLOCK FALSE
INVARIANTS
  NotFoundIsFinal
  RefusalIsTrue
  CacheAgrees
PROPERTIES
  RegistryHolds
