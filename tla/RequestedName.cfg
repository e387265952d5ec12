SPECIFICATION ASpec
CONSTANTS
  alice = alice
  bob = bob
  k1 = k1
  r1 = r1
  d1 = d1
  None = None
  Any = Any
  NonResource = NonResource
  Callers = {alice, bob}
  Keys = {k1}
  KeyOf <- MCKeyOf
  OwnerOf <- MCOwnerOf
  ApproversOf <- MCApproversOf
  Names = {1}
  LegacyNames = {}
  Requesters = {r1}
  Deciders = {d1}
  ValidFor = 1
  RetainFor = 2
  ApprovalTimeout = 1
  MaxTime = 2
  MaxFaults = 0
  Users = {alice}
  Clusters = {"prod"}
  ClusterOf <- MCClusterOf
  GroupOf <- MCGroupOf
  TenantOf <- MCTenantOf
  NoTenant = "NoTenant"
  Prefixes = {"oidc:"}
  NoPrefix = "NoPrefix"
  Authenticated = "system:authenticated"
  Attributes <- MCAttributes
  Permits <- MCPermitsFirst
  Policies <- MCPolicies
  Globs <- MCGlobs
INVARIANTS AllowsWhatRBACAllows
