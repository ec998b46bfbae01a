SPECIFICATION BatchSpec
CONSTANTS
    MaxBlocks = 5
    Slots = {0, 1, 2, 3, 4, 5}
INVARIANTS
    BlocksInPlace
    OnePreadPerRun
PROPERTIES
    ReadEnds
