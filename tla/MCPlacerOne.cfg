\* One client, chunks of two sizes: objects one after the other, their chunks concurrently.
CONSTANTS
    k1 = k1
    k2 = k2
    k3 = k3
    k4 = k4
    c1 = c1
    c2 = c2
    Nil = Nil
    Keys <- FourKeys
    Clients <- OneClient
    NumChunks = 2
    DataShards = 1
    NumInstances = 3
    SliceSize = 2
    Capacity = 4
    Overhead = 1
    Sizes <- TwoSizes
    Modulus = 16
    ShardsMayFail = FALSE
    MaxOps = 4
SPECIFICATION OneSpec
INVARIANTS TypeOK ListExact Accounting NotCrowded StoreExact
PROPERTIES SetsFinish
