\* Two handlers of any kind over one notification, which uses the template. A report of
\* both recipients is larger than a batch.
SPECIFICATION Spec
CONSTANTS
  n1 = n1
  u1 = u1
  u2 = u2
  c1 = c1
  c2 = c2
  Ids <- OneId
  Templated <- OneId
  Recipients <- TwoRecipients
  Clients <- TwoClients
  BatchMax = 1
  MaxCalls = 3
  MaxFaults = 2
SYMMETRY Symmetry
CHECK_DEADLOCK FALSE
INVARIANTS
  LogTellsStatus
  ToldIsLatest
PROPERTIES
  RegistryHolds
