SPECIFICATION DeploySpec
CONSTANTS
    Deployment = {"d1", "d2"}
    MaxFaults = 1
INVARIANTS
    TokenRenewed
CHECK_DEADLOCK FALSE
