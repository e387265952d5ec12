SPECIFICATION Spec
CONSTANTS
    Namespaces <- MCNamespaces
    Names = {"n1", "n2"}
    Secrets = {"s1", "s2"}
    Limits = {"low"}
    Credentials = {"old", "new"}
    Kubeconfigs <- MCKubeconfigs
    Callers = {c1, c2}
    None = None
    FirstConfigs <- MCFirstConfigs
    FirstSecrets <- MCFirstSecrets
    MaxChanges = 1
SYMMETRY Symmetric
INVARIANTS
    TypeOK
    CachedWasStored
    InvalidatedIsCurrent
