SPECIFICATION Spec
CONSTANTS
    Fanout = 2
    Pages <- MCPages
    Frames <- MCFrames
    FlagSets <- MCFlagSets
    TableFrames = {1, 2, 3, 4, 5, 6, 7}
    AddressLimit = 1048576
ACTION_CONSTRAINT LowestFreeFirst
INVARIANTS TypeOK TreeShape
PROPERTIES MapTakesEffect PageMapSpec
