\* The rows a search may return while a document is stored; no faults are needed.
CONSTANTS
    Docs = {d1}
    Workers = {w1}
    None = none
    MaxChunks = 1
    Slices = 1
SPECIFICATION FaultFreeSpec
INVARIANTS
    RetrievedOnlyFromReady
