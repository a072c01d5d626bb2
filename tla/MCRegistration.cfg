\* Two concurrent builds of a feature gateway branch: every build ends, and
\* the proxy is deployed only with a registered client's credentials, and
\* the pipeline implements the abstract ClientRegistry.
\* The builds really stop, so the final states are not deadlocks.
CONSTANTS
    Build = {bA, bB}
    MaxClients = 3
    MaxSleeps <- MCMaxSleeps
    DeployTries = 2
    IsPR = FALSE
    GatewayBranch = "feature"
SPECIFICATION Spec
CHECK_DEADLOCK FALSE
INVARIANT TypeOK
INVARIANT DeployedWithRegisteredClient
PROPERTY BuildTerminates
PROPERTY RegistrationRefinesRegistry
