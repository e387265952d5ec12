SPECIFICATION Spec
CONSTANTS
  k1 = k1
  alice = alice
  bob = bob
  r1 = r1
  r2 = r2
  d1 = d1
  d2 = d2
  None = None
  Callers = {alice, bob}
  Keys = {k1}
  KeyOf <- MCKeyOf
  OwnerOf <- MCOwnerOf
  ApproversOf <- MCApproversOf
  Names = {1, 2}
  LegacyNames = {}
  Requesters = {r1, r2}
  Deciders = {d1}
  ValidFor = 1
  RetainFor = 4
  ApprovalTimeout = 1
  MaxTime = 4
  MaxFaults = 0
SYMMETRY HandlerSymmetry
INVARIANT GrantsOnlyWhenApproved
