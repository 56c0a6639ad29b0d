\* The role becomes ready, then one disturbance.
CONSTANTS
    RoleARNs = {r1, r2}
    ImageARNs = {i1, i2}
    VMs = {vm1}
    NIL = NIL
    Missing = Missing
    Allowed <- RoleAndTwo
SPECIFICATION Spec
SYMMETRY ARNSymmetry
CHECK_DEADLOCK FALSE
INVARIANTS
    TypeOK
    InvalidNotCreated
    AdoptedNotBuilt
PROPERTIES
    CreatedFromReady
    StoredSpecStaysValid
