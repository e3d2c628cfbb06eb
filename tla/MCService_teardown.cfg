SPECIFICATION FairSpec
CONSTANTS
  i1 = i1
  i2 = i2
  g1 = g1
  g2 = g2
  a = a
  b = b
  None = None
  Owner = Owner
  OwnerValues = {Owner}
  ForeignValues = {}
  Ingresses = {i1, i2}
  Groups = {g1}
  Hosts = {a}
  DistIds = {d1, d2}
  Targets = {d1, d2}
  Specs <- Fixed
  DeletionEnabled = TRUE
  IPv6Enabled = TRUE
  CreateAlias = FALSE
  IsCreateBlocked = FALSE
  CreateAllowList = {}
  Faulty = {"distribution", "cdnstatus"}
  MaxEdits = 1
  MaxFaults = 1
  MaxCrashes = 1
PROPERTIES EventuallyServed DeletionCompletes
CHECK_DEADLOCK FALSE
