\* Adoption of images whose logging is disabled.
CONSTANTS
    Texts = {t1, t2}
    Minors = {m1, m2}
    Patches = {p1, p2}
    Min32 <- Lowest
    Max32 = 1
    NIL = NIL
    Empty = Empty
    None = None
    AdoptsEmpty = {"logging"}
    MaxCauses = 3
    MaxRebuilds = 2
SPECIFICATION Spec
PROPERTIES
    RebuildKeepsField
