\* Every field, with up to three changes or lost answers.
CONSTANTS
    Texts = {t1, t2}
    Minors = {m1, m2}
    Patches = {p1, p2}
    Min32 <- Lowest
    Max32 = 1
    NIL = NIL
    Empty = Empty
    None = None
    AdoptsEmpty = {"cpuConfigurations"}
    MaxCauses = 3
    MaxRebuilds = 2
SPECIFICATION Spec
INVARIANTS
    Honoured
    NoPerpetualDrift
PROPERTIES
    RebuildKeepsField
