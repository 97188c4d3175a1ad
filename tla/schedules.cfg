CONSTANTS
    s1 = s1  s2 = s2  s3 = s3
    Rows = {s1, s2, s3}
    At <- MCAt
    Workers = {w1, w2}
    MaxTime = 1
    MaxFaults = 1
    None = None
SPECIFICATION FairSpec
INVARIANTS OncePerReplica CompletedDeployed CancelHolds InScheduledOrder
PROPERTIES DueRuns
