SPECIFICATION Spec
CONSTANTS
    Configs <- TwoConfigs
    Secrets <- TwoSecrets
    NoRef = NoRef
    None = None
    MaxChanges = 3
    MaxFaults = 1
INVARIANTS
    PhaseIsStored
