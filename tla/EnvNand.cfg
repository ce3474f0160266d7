SPECIFICATION Spec
CONSTANTS
    Values = {v0, v1, v2}
    DefaultEnv = v0
    MaxSerial = 255
    FailingOps = {}
INVARIANTS
    TypeOK
    Durability
    ConsecutiveSerials
PROPERTIES
    ImplementsStore
