SPECIFICATION Spec
CONSTANTS
    Junk = Junk
    Archives <- SmallArchive
    BlockSize = 2
    MaxDirty = 1
    p1 = p1
    TaskIds = {p1}
    FirstTask = p1
    Program <- Init_
    Interpreters <- OneLoader
    Paths <- FilePaths
    FlagSets <- FileFlags
    Counts = {2}
    Seeks <- FileSeeks
    Lines = {1, 2}
    Fds = {3}
    MaxFds = 4
    MaxNodes = 11
    MaxSize = 4
INVARIANTS
    GentleIsSafe
    RoomForAll
    OwnErrors
    NumberIsSlot
