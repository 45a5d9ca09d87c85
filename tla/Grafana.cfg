SPECIFICATION MCSpec
CONSTANTS
    Deployer = {"d1", "d2"}
    Place <- MCPlace
    Own = "grafana"
    Url = {"u1", "u2"}
    MaxFaults = 1
INVARIANTS
    GrafanaTypeOK
    EntriesResolve
    OneGrafana
    ProvisionedWhenDone
PROPERTIES
    UsersWorkKept
    InstallCompletes
CHECK_DEADLOCK FALSE
