\* Three POSTs at the same time, of two priorities, on queues that discard repetitions or not.
SPECIFICATION FairSpec
CONSTANTS
  n1 = n1
  n2 = n2
  n3 = n3
  k1 = k1
  k2 = k2
  Requests <- ThreeRequests
  Queue <- TwoQueues
  Template <- OneTemplate
  Templated <- TwoRequests
  Calls <- NoCalls
  Operations <- NoOperation
  PatchStatuses <- OnlySent
  MaxFaults = 1
INVARIANTS
  AcceptedOrRepeated
  QueuedIsPublished
  RepeatsDetected
PROPERTIES
  SavedIsQueued
CHECK_DEADLOCK FALSE
