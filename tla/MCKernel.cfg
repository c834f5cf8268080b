SPECIFICATION KFairSpec
CONSTANTS
    MaxTasks = 3
    SwitchTick = 2
    Boot = Boot
    NoTask = NoTask
    Junk = Junk
INVARIANTS
    OnlyTheCutKeepLocks
    ErrorsBelong
PROPERTIES
    LostLocksStayLost
    EveryTaskRuns
    ExitTakesEffect
    CallsEnd
