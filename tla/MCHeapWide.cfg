SPECIFICATION Spec
CONSTANTS
    TagSize = 4
    PageSize = 16
    PageCount = 2
    MinExp = 3
    MaxExp = 7
    MaxComplete = 1
    Sizes = {2, 10, 40, 64, 112, 128, 192}
    LastPage = 5
INVARIANTS
    PayloadWhole
