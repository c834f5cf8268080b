SPECIFICATION Spec
CONSTANTS
    Fan = 8
    PageSize = 80
    Top = 62
    IoBase = 2048
    KernelBase = 4032
    Loader = Loader
    MaxTasks = 3
    Memories <- MemoryMaps
    IoPages = 56
    KernelPages = 52
    StackPages = 2
    StackTop = 2040
    AllocBase = 64
    LdBase = 512
    Programs <- ElfFiles
    InitPath = "/bin/init"
    InitArgs <- PathArgs
    Calls <- Execs
    JunkPages = {1980}
    Sizes = {81}
    Hints = {5, 2047}
    MaxRegions = 2
    Boot = Boot
INVARIANTS
    KernelShared
    FramesApart
    ImageInPlace
    RegionsFresh
    StackAligned
    ArgsInPlace
    FaultsOnlyHighUp
PROPERTIES
    IsAddressSpaces
