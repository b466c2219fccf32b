\* Two owners, two requests behind the deployed HTTP API.
CONSTANTS
    Owners = {alice, bob}
    Requests = {r1, r2}
    None = none
    Gateway = "deployed"
    Names <- MCNames
    Environments <- DeployedEnvironments
    TopK = 1
SPECIFICATION ApiSpec
INVARIANTS
    OwnedIsServed
SYMMETRY Symmetric
CHECK_DEADLOCK FALSE
