SPECIFICATION Spec
CONSTANTS
    MaxTasks = 4
    SwitchTick = 2
    Boot = Boot
    NoTask = NoTask
    Junk = Junk
INVARIANTS
    OwnContext
    LockFollowsRunning
    ListExact
    IndexInList
    IInv
PROPERTIES
    SwitchesResumeUserCode
