SPECIFICATION MCSpec
CONSTANTS
    Deployer = {"d1", "d2"}
    Place <- MCPlace
    Own = "grafana"
    Url = {"u1", "u2"}
    MaxFaults = 0
PROPERTIES
    ExistingIsReused
CHECK_DEADLOCK FALSE
