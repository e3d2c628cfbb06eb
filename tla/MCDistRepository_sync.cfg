SPECIFICATION FairSpec
CONSTANTS
  Origins = {x, y}
  OACIds = {k1, k2}
  ACLs = {acl}
  Extras = {e0, e1}
  DefaultExtras = e0
  None = None
  DeletionEnabled = TRUE
  MaxChanges = 3
  MaxConsole = 1
  MaxFaults = 1
INVARIANTS TypeOK SuccessMeansConfigured
PROPERTIES ExtrasPreserved KeepsLifecycle EventuallyConfigured
CHECK_DEADLOCK FALSE
