SPECIFICATION Spec
CONSTANTS
    Token = {"t1"}
    InitialVMs <- AllVMs
    MaxDisturbances = 1
PROPERTIES
    WritesCease
CHECK_DEADLOCK FALSE
