CONSTANTS
    Clients = {c1}
    Shards = {s1, s2, s3}
    DataShards = 2
    Values = {v1, v2, v3}
    None = None
    Mixed = Mixed
    MaxOps = 3
    MaxFailures = 1
SPECIFICATION Spec
INVARIANT NeverMixed
CHECK_DEADLOCK FALSE
