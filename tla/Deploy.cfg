SPECIFICATION DeploySpec
CONSTANTS
    Deployment = {"d1", "d2"}
    MaxFaults = 1
INVARIANTS
    DeployTypeOK
    KeysMatch
    WebhookHasBackend
    DeployedWhenDone

    
CHECK_DEADLOCK FALSE
