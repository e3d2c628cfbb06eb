SPECIFICATION Spec
CONSTANTS
  n1 = n1
  n2 = n2
  n3 = n3
  lb = lb
  s3 = s3
  a1 = a1
  a2 = a2
  acl1 = acl1
  acl2 = acl2
  p1 = p1
  p2 = p2
  None = None
  Names = {n1, n2, n3}
  Groups <- MergeGroups
  Hosts = {lb, s3}
  DefaultHost = s3
  DefaultTimeout = 30
  Timeouts = {30, 60}
  Policies = {p1, p2}
  DefaultPolicies <- PoliciesByAccess
  Headers = {lb}
  HostTemplate = HostTemplate
  ARNs = {a1, a2}
  ACLs = {acl1, acl2}
  Patterns <- Tree
  Domains <- TwoDomains
  TagKeys = {"owned", "group", "team"}
  TagValues = {"true", "this", "x", "y"}
  CustomTags <- NoTags
  TLSEnabled = TRUE
  Listings <- OnePage
  Requests <- MoreRequests
INVARIANTS FunctionsKept RefusedForAReason CertificateCoversAll RoutedAsIngress
PROPERTIES SameAgain
