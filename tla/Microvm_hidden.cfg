\* One edit of a spec field.
CONSTANTS
    VMs = {vm1, vm2}
    Vals = {a, b}
    Payloads = {p, q}
    Default = a
    NIL = NIL
    LateStates <- AllStates
    Allowed <- OneEdit
SPECIFICATION Spec
CHECK_DEADLOCK FALSE
INVARIANT EveryEditReported
