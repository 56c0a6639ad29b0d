\* Any two disturbances of different kinds, two VMs.
CONSTANTS
    VMs = {vm1, vm2}
    Vals = {a, b}
    Payloads = {}
    Default = a
    NIL = NIL
    LateStates <- AllStates
    Allowed <- AnyTwo
SPECIFICATION Spec
SYMMETRY VMSymmetry
CHECK_DEADLOCK FALSE
INVARIANTS
    TypeOK
    FinalizerGuardsVM
    SingleVM
    NeverAbandons
    TerminalHasCause
    TerminalExcludesRecoverable
    SyncedMatchesSpec
PROPERTIES
    RecordedVMKept
    KeepsPromise
