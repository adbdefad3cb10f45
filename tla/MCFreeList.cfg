SPECIFICATION Spec
CONSTANTS
    Unavailable <- MCUnavailable
    FirstBase = 1
    SizeMax = 127
    Requests = {0, 1, 2, 3, 5}
    TestRequests <- MCTestRequests
    free_region_max_size = 2
INVARIANTS
    BlocksDisjoint
    ListComplete
    WordsAccounted
PROPERTIES
    CorruptionCauses
    HeapSpec
