\* Three uploads, each with up to two polls, and the list.
CONSTANTS
    Uploads = {u1, u2, u3}
    None = none
    Listed = {u1}
    Effect = effect
    MaxPolls = 2
SPECIFICATION HookSpec
INVARIANTS
    BusyIsDriven
    OnePoller
    AskedStops
    OneRefresh
PROPERTIES
    UploadsEnd
    CallsAdvance
    NotShownOpenForEver
CHECK_DEADLOCK FALSE
