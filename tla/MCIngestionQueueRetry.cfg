\* One upload, received again after its first failure.
CONSTANTS
    Docs = {d1}
    Workers = {w1}
    None = none
    MaxChunks = 0
    Slices = 1
    Messages = {m1, m2}
    TestMessage = m1
    TestEvent = test
    BatchSize = 2
    MaxReceives = 2
SPECIFICATION QueueSpec
INVARIANTS
    FailureIsRetriedOrDead
