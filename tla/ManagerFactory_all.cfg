\* Two workers, two keys, each worker calls three times.
CONSTANTS
    Workers = {w1, w2}
    Keys = {k1, k2}
    None = None
    MaxCalls = 3
SPECIFICATION FairSpec
CHECK_DEADLOCK FALSE
INVARIANTS
    TypeOK
    ManagerMatchesKey
    DuplicatesBounded
    NoMapRace
PROPERTY CallsReturn
