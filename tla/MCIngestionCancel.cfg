\* The final update against a cancel; no faults are needed.
CONSTANTS
    Docs = {d1}
    Workers = {w1}
    None = none
    MaxChunks = 1
    Slices = 1
SPECIFICATION FaultFreeSpec
INVARIANTS
    CanceledIsNeverReady
