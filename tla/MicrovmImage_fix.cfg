\* One failed build and one edit, under fairness.
CONSTANTS
    Builds = {b1, b2}
    Vals = {a}
    Default = a
    UserTags = {t1}
    AckTags = {}
    AwsTags = {}
    NIL = NIL
    Allowed <- OneFailure
SPECIFICATION FairSpec
CHECK_DEADLOCK FALSE
PROPERTY FixIsBuilt
