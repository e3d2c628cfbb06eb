SPECIFICATION FairSpec
CONSTANTS
  i1 = i1
  i2 = i2
  g1 = g1
  g2 = g2
  a = a
  b = b
  None = None
  Owner = Owner
  OwnerValues = {Owner}
  ForeignValues = {}
  Ingresses = {i1, i2}
  Groups = {g1}
  Hosts = {a}
  DistIds = {d1}
  Targets = {d1}
  Specs <- Mended
  DeletionEnabled = FALSE
  IPv6Enabled = TRUE
  CreateAlias = TRUE
  IsCreateBlocked = TRUE
  CreateAllowList = {i1}
  Faulty = {"distribution", "alias", "ingress", "cdnstatus"}
  MaxEdits = 1
  MaxFaults = 1
  MaxCrashes = 0
PROPERTIES EventuallyServed DeletionCompletes
CHECK_DEADLOCK FALSE
