SPECIFICATION Spec
CONSTANTS
    Junk = Junk
    Archives <- BootArchives
    BlockSize = 2
    MaxDirty = 1
    p1 = p1
    TaskIds = {p1}
    FirstTask = p1
    Program <- Init_
    Interpreters = {}
    Paths <- BootPaths
    FlagSets <- BootFlags
    Counts = {}
    Seeks = {}
    Lines = {}
    Fds = {}
    MaxFds = 5
    MaxNodes = 18
    MaxSize = 4
INVARIANTS
    TreeExact
    ArchiveRead
    MountsApart
    PathsLead
