CONSTANTS
    InitiateLock = 12
    ParticipateLock = 6
    Delay = 1
    Hashes = {"S", "other"}
    MaxTime = 15
SPECIFICATION FairSpec
INVARIANTS TypeOK InitiatorSafe ParticipantSafe
PROPERTIES SwapCompletes ContractEnds
CHECK_DEADLOCK FALSE
