\* One document, three executions racing for it, every fault, up to five chunks.
CONSTANTS
    Docs = {d1}
    Workers = {w1, w2, w3}
    None = none
    MaxChunks = 5
    Slices = 2
SPECIFICATION Spec
SYMMETRY Symmetry
INVARIANTS
    TypeOK
    SingleClaim
    ReadyIsComplete
PROPERTIES
    EarlyCancelIsFinal
    SettledStaysSettled
    ProgressIsMonotone
    SeenCancelIsFinal
    ExecutionAdvances
    LifecycleSpec
