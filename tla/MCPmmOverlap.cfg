SPECIFICATION Spec
CONSTANTS
    PageSize = 2
    ByteBits = 2
    MemoryMaps <- Regular
    Requests = {1, 2}
    AddressLimit = 16
INVARIANTS
    OneOwner
