SPECIFICATION Spec
CONSTANTS
    Configs <- TwoConfigs
    Secrets <- TwoSecrets
    NoRef = NoRef
    None = None
    MaxChanges = 5
    MaxFaults = 2
INVARIANTS
    TypeOK
    EventsTellOfAccepted
PROPERTIES
    CheckerKeepsSpecs
    EventuallyReported
