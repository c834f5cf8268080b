SPECIFICATION Spec
CONSTANTS
    PageSize = 2
    ByteBits = 2
    MemoryMaps <- AllMaps
    Requests = {1, 2, 3, 5}
    AddressLimit = 16
INVARIANTS
    TypeOK
    HeldAreUsable
    BitsExact
    DataKept
    StrayOnlyAtTheEdge
PROPERTIES
    RefusedWhenNoneLeft
    FreshUntilFree
CONSTRAINT
    Followed
