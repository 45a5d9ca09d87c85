SPECIFICATION Spec
CONSTANTS
    Token = {"t1"}
    InitialVMs <- AllVMs
    MaxDisturbances = 1
PROPERTIES
    ReadyIsVerified
CHECK_DEADLOCK FALSE
