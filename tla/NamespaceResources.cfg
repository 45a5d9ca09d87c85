SPECIFICATION MCSpec
CONSTANTS
    Linux = {"l"}
    Windows = {"w"}
    Address = {"a1", "a2"}
    Version = {"k1"}
    Field = {"id_rsa.pub", "key"}
    MaxDisturbances = 1
INVARIANTS
    ResourcesTypeOK
    SecretUsable
PROPERTIES
    
    ScrapedAtOwnAddress
CHECK_DEADLOCK FALSE
