\* Two clients whose objects interleave chunk by chunk.
CONSTANTS
    k1 = k1
    k2 = k2
    k3 = k3
    k4 = k4
    c1 = c1
    c2 = c2
    Nil = Nil
    Keys <- FourKeys
    Clients <- TwoClients
    NumChunks = 2
    DataShards = 1
    NumInstances = 2
    SliceSize = 2
    Capacity = 4
    Overhead = 1
    Sizes <- UniformSize
    Modulus = 16
    ShardsMayFail = FALSE
    MaxOps = 3
SPECIFICATION TwoSpec
SYMMETRY KeyClientSymmetry
INVARIANTS LockInv ClockInBounds PosExact
PROPERTIES PlacementStable EvictedNotPlaced
