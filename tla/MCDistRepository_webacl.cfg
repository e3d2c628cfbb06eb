SPECIFICATION SafetySpec
CONSTANTS
  Origins = {x}
  OACIds = {k1}
  ACLs = {acl}
  Extras = {e0, e1}
  DefaultExtras = e0
  None = None
  DeletionEnabled = TRUE
  MaxChanges = 2
  MaxConsole = 1
  MaxFaults = 0
PROPERTIES WebACLNotRemoved
CHECK_DEADLOCK FALSE
