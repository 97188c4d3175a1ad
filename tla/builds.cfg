CONSTANTS
    b1 = b1  b2 = b2
    staging = staging  prod = prod  c1 = c1  c2 = c2
    build_app = build_app  plain = plain  with_port = with_port
    BuildIds = {b1, b2}
    Envs = {staging, prod}
    Commits = {c1, c2}
    Names = {build_app}
    JobName <- MCJobName
    Shas = {c1, c2}
    Sha <- MCSha
    Repositories = {plain, with_port}
    Ported = {with_port}
    Own <- MCOwn
    Inputs <- OneEach
    MaxFaults = 1
    None = None
SPECIFICATION FairSpec
INVARIANTS OnlyBuilt JobsShared
PROPERTIES BuildEnds
CHECK_DEADLOCK FALSE
