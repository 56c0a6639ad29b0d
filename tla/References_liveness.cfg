\* The role changes and one disturbance, under fairness.
CONSTANTS
    RoleARNs = {r1}
    ImageARNs = {i1}
    VMs = {vm1}
    NIL = NIL
    Missing = Missing
    Allowed <- Survivable
SPECIFICATION FairSpec
CHECK_DEADLOCK FALSE
PROPERTIES
    DeletionCompletes
    ChainStarts
