SPECIFICATION Spec
CONSTANTS
    Junk = Junk
    p1 = p1
    TaskIds = {p1}
    FirstTask = p1
    Archives <- SmallArchive
    BlockSize = 2
    MaxDirty = 0
    Program <- Init_
    Interpreters = {}
    Paths <- TwoPaths
    FlagSets <- PlainFlags
    Counts = {}
    Seeks = {}
    Lines = {}
    Fds = {3, 4}
    MaxFds = 5
    MaxNodes = 11
    MaxSize = 6
INVARIANTS
    ClosedThatFile
