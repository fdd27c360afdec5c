\* Two workers on a queue of either kind: on SQS the visibility timeout may expire under an
\* attempt, on RabbitMQ the message returns only when the worker that has it dies.
SPECIFICATION FairSpec
CONSTANTS
  w1 = w1
  w2 = w2
  r1 = r1
  r2 = r2
  Workers <- TwoWorkers
  Direct <- DirectR1
  Members <- ListR2
  UsesTemplate = TRUE
  ServiceStatuses <- LateQueuedAndCancel
  MaxFaults = 3
  MaxCount = 5
INVARIANTS
  AckMeansLogged
  UnreachedIsTold
  SentEntryIsTrue
  DuplicatesNeedFaults
PROPERTIES
  
  SentReportAccountsForAll
  EventuallyRemoved
