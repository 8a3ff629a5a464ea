\* One GET: it is answered, and executed once at most.  No symmetry: a property is temporal.
CONSTANTS
    None = None
    set = set
    get = get
    Conns = {c1, c2}
    Requests <- OnlyGet
    Streams = {}
    Triggers = {t1}
    MAX_RETRY = 2
    MaxQueue = 1
    MaxInvocations = 2
    MaxTimeouts = 1
SPECIFICATION FairSpec
PROPERTIES RequestAnswered AtMostOnce
