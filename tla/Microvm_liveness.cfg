\* An edit and its revert, a failed call and a suspension, under fairness.
CONSTANTS
    VMs = {vm1}
    Vals = {a, b}
    Payloads = {}
    Default = a
    NIL = NIL
    LateStates <- AllStates
    Allowed <- Survivable
SPECIFICATION FairSpec
CHECK_DEADLOCK FALSE
PROPERTIES
    DeletionCompletes
    EditReported
    RevertClears
