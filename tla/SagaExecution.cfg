CONSTANTS
    Sagas = {"order", "travel"}
    MaxUnclear = 2

SPECIFICATION FairSpec

INVARIANTS
    TypeOK
    AllOrNothing
    InputsPresent

PROPERTIES
    OnlyDeadLetterQueueBlocks
    EventuallyEnds

CHECK_DEADLOCK FALSE
