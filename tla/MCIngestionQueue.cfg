\* One document uploaded up to twice and S3's test event, batches of two, two
\* receives, one invocation at a time.
CONSTANTS
    Docs = {d1}
    Workers = {w1}
    None = none
    MaxChunks = 0
    Slices = 1
    Messages = {m1, m2, m3}
    TestMessage = m1
    TestEvent = test
    BatchSize = 2
    MaxReceives = 2
SPECIFICATION QueueSpec
INVARIANTS
    QueueTypeOK
    PendingIsQueued
PROPERTIES
    EveryMessageLeaves
    DeliveriesAdvance
