\* Any two disturbances.
CONSTANTS
    Builds = {b1, b2}
    Vals = {a, b}
    Default = a
    UserTags = {t1, t2}
    AckTags = {ack}
    AwsTags = {aws}
    NIL = NIL
    Allowed <- AnyTwo
SPECIFICATION Spec
CHECK_DEADLOCK FALSE
INVARIANTS
    TypeOK
    FinalizerGuardsImage
    RebuildHasCause
    AwsTagsKept
    SyncedMatchesSpec
PROPERTY KeepsPromise
