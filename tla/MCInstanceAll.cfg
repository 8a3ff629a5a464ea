\* A SET and a GET, two containers, a ping that times out although the lambda runs.
CONSTANTS
    None = None
    set = set
    get = get
    Conns = {c1, c2}
    Requests <- SetAndGet
    Streams <- OnlySet
    Triggers = {t1, t2}
    MAX_RETRY = 2
    MaxQueue = 1
    MaxInvocations = 2
    MaxTimeouts = 1
SPECIFICATION Spec
INVARIANTS TypeOK NeverNil Aligned Tracked
SYMMETRY Symmetry
