SPECIFICATION RSpec
CONSTANTS
    k1 = k1
    alice = alice
    bob = bob
    r1 = r1
    r2 = r2
    d1 = d1
    None = None
    NoObject = NoObject
    Callers = {alice, bob}
    Keys = {k1}
    KeyOf <- MCKeyOf
    OwnerOf <- MCOwnerOf
    ApproversOf <- MCApproversOf
    ClusterOf <- MCClusterOf
    GroupOf <- MCGroupOf
    Names = {1}
    LegacyNames = {}
    Requesters = {r1}
    Deciders = {d1}
    ValidFor = 1
    RetainFor = 1
    ApprovalTimeout = 1
    MaxTime = 2
    MaxFaults = 0
    Escalations = {1, 2}
    EscalationSpecs <- MCEscalationSpecs
    ConfigSpecs <- MCConfigSpecs
    ConfigSlots <- MCConfigSlots
    FirstSpecs <- RefsOnly
    FirstConfigs <- MCFirstConfigs
    Contained <- MCContained
    OIDCPrefixes = {"oidc:"}
    TokenGroups <- MCTokenGroups
    ClusterGroups <- MCClusterGroups
    HubCluster = "hub"
    DomainOf <- MCDomainOf
    Indexed = FALSE
    MaxEdits = 0
    MaxFailures = 0
INVARIANTS
    RetentionIsExposed
