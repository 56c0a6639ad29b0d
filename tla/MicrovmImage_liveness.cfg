\* Edits, failed calls and builds, changes from outside, under fairness.
CONSTANTS
    Builds = {b1, b2}
    Vals = {a}
    Default = a
    UserTags = {t1}
    AckTags = {}
    AwsTags = {aws}
    NIL = NIL
    Allowed <- Survivable
SPECIFICATION FairSpec
CHECK_DEADLOCK FALSE
PROPERTIES
    DeletionCompletes
    DriftCorrected
