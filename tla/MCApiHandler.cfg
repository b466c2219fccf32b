\* Two owners, three requests that create, ask, upload and cancel in any order,
\* two environments the settings accept and one they refuse.
CONSTANTS
    Owners = {alice, bob}
    Requests = {r1, r2, r3}
    None = none
    Gateway = "local"
    Names <- MCNames
    Environments <- MCEnvironments
    TopK = 1
SPECIFICATION ApiSpec
INVARIANTS
    ApiTypeOK
    MessagesHaveRoots
    AnswersMatchTables
    OwnedIsServed
    KeysAreRecognised
PROPERTIES
    ChatStoreSpec
SYMMETRY Symmetric
CHECK_DEADLOCK FALSE
