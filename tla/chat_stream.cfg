SPECIFICATION FairSpec
CONSTANTS
    Answers <- MCAnswers
    MaxTurns = 2
    MaxThreads = 2
    MaxReloads = 1
INVARIANTS
    TypeOK
    ShownIsAPrefix
    SilenceMeansComplete
    ScreenIsRemembered
PROPERTIES
    StreamingEnds
CHECK_DEADLOCK FALSE
