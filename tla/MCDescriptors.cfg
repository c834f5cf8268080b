SPECIFICATION Spec
CONSTANTS
    Junk = Junk
    p1 = p1
    p2 = p2
    TaskIds = {p1, p2}
    FirstTask = p1
    Archives <- SmallArchive
    BlockSize = 2
    MaxDirty = 0
    Program <- Init_
    Interpreters = {}
    Paths <- TwoPaths
    FlagSets <- PlainFlags
    Counts = {}
    Seeks = {}
    Lines = {}
    Fds = {0, 3}
    MaxFds = 4
    MaxNodes = 11
    MaxSize = 6
INVARIANTS
    GentleIsRight
