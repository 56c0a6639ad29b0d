\* One deletion that AWS fails.
CONSTANTS
    Builds = {b1, b2}
    Vals = {a}
    Default = a
    UserTags = {t1}
    AckTags = {}
    AwsTags = {}
    NIL = NIL
    Allowed <- OneFailure
SPECIFICATION Spec
CHECK_DEADLOCK FALSE
INVARIANT NoOrphan
