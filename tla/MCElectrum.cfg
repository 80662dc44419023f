CONSTANTS
    Outputs = {o1}
    Amount = 1
    Needed = 2
    MaxHead = 3
    MaxUndo = 1
    MaxId = 7
    MaxFailed = 2
SPECIFICATION FairSpec
INVARIANTS TypeOK AnswersAreFresh PublishedIsTaken
PROPERTIES LockedIsDeep CompleteIsMined EveryCallEnds
CHECK_DEADLOCK FALSE
