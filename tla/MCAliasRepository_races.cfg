SPECIFICATION Spec
CONSTANTS
  c1 = c1
  c2 = c2
  o1 = o1
  o2 = o2
  t1 = t1
  t2 = t2
  a = a
  b = b
  None = None
  Hosts = {a, b}
  Targets = {t1, t2, t3}
  OwnerValues = {o1, o2}
  ForeignValues = {f}
  Controllers = {c1, c2}
  OwnerOf <- Owners
  TargetOf <- Addresses
  IPv6 <- Redeployed
  FailedUpdates = TRUE
  AddressEdits = TRUE
  MaxEdits = 1
INVARIANTS TypeOK OneOwner AddressHasOwner
PROPERTY IPv6LosesOwner
SYMMETRY Symmetry
