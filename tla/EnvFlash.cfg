SPECIFICATION Spec
CONSTANTS
    Values = {v0, v1, v2}
    DefaultEnv = v0
    FailingOps <- HandledFailures
    TornFlagBytes = {}
    SharedSector = TRUE
INVARIANTS
    TypeOK
    Durability
    ChoiceIsSettled
PROPERTIES
    ImplementsStore
