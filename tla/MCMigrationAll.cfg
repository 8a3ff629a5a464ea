CONSTANTS
    Lambdas = {a, b}
    First = a
    Keys = {k1, k2}
    Values = {v1, v2}
    None = None
    Absent = Absent
    Deleted = Deleted
    MaxMigrations = 2
    MaxRequests = 3
    MaxFailures = 1
SPECIFICATION FairSpec
INVARIANTS TypeOK SourceQuiet
PROPERTIES EndMeansCopied Implements MigrationEnds
CHECK_DEADLOCK FALSE
