SPECIFICATION SafetySpec
CONSTANTS
  i1 = i1
  i2 = i2
  g1 = g1
  g2 = g2
  a = a
  b = b
  None = None
  Owner = Owner
  OwnerValues = {Owner}
  ForeignValues = {}
  Ingresses = {i1, i2}
  Groups = {g1, g2}
  Hosts = {a, b}
  DistIds = {d1, d2, d3}
  Targets = {d1, d2, d3}
  Specs <- Moving
  DeletionEnabled = FALSE
  IPv6Enabled = TRUE
  CreateAlias = TRUE
  IsCreateBlocked = FALSE
  CreateAllowList = {}
  Faulty = {"class", "list", "distribution", "alias", "ingress", "cdnstatus"}
  MaxEdits = 1
  MaxFaults = 1
  MaxCrashes = 0
INVARIANTS QuiescentServed
PROPERTIES NothingDeletedWhenDisabled
CHECK_DEADLOCK FALSE
