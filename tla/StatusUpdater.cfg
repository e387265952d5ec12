SPECIFICATION Spec
CONSTANTS
    Escalations = {1, 2}
    Groups = {"g1", "g2"}
    Accounts = {"alice", "nameless"}
    Identities = {"alice"}
    IdentityOf <- MCIdentityOf
    Blank = Blank
    None = None
    Unknown = Unknown
    Configured = TRUE
    FirstGroups <- MCFirstGroups
    FirstMembers <- MCFirstMembers
    TTL = 1
    MaxChanges = 2
    MaxFaults = 1
INVARIANTS
    TypeOK
    CacheLagIsBounded
    MembersWereTold
PROPERTIES
    EventuallySynced
