\* One build: does every client the provider registers end up used?
CONSTANTS
    Build = {bA}
    MaxClients = 2
    MaxSleeps <- MCMaxSleeps
    DeployTries = 2
    IsPR = FALSE
    GatewayBranch = "none"
SPECIFICATION Spec
CHECK_DEADLOCK FALSE
INVARIANT NoOrphanClient
