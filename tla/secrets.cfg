CONSTANTS
    dev = dev  prod = prod  a = a  b = b  bad = bad
    Requests = {1, 2}
    System = System
    Keys = {a, b, bad}
    BadKeys = {bad}
    Values = {1, 2}
    Faults = TRUE
    None = None
    EnvOrder <- MCEnvOrder
    Starts <- MCStarts
SPECIFICATION Spec
PROPERTIES WritesKept SyncedIsTrue SecretsSync PodsCatchUp
