\* One document of up to one chunk, two requests, two threads of the local server
\* beside one execution of the deployed Lambda, and up to one fault.
CONSTANTS
    Docs = {d1}
    Workers = {w1, t1, t2}
    LocalThreads = {t1, t2}
    Requests = {r1, r2}
    None = none
    MaxChunks = 1
    Slices = 1
    MaxFaults = 1
SPECIFICATION LocalSpec
INVARIANTS
    LockIsHeld
    OneThreadPerDocument
    ProcessingIsDriven
PROPERTIES
    RequestsEnd
    EventuallySettled
