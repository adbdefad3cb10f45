SPECIFICATION Spec
CONSTANTS
    pageSize = 2
    AddressMax = 23
    InitialTree <- MCInitialTree
    FreeFrames <- MCFreeFrames
    m_maxSize = 8
    RegionBases <- MCRegionBases
    HeapAddresses <- MCHeapAddresses
    Blocks <- MCBlocks
    eoiRegister = 1
    apicAddress = 16
    apicFrame = 8
    read_vpage = 4
    write_vpage = 6
    MaxTables = 1
INVARIANTS TypeOK FaultsNestOnce HeapFramesExclusive WritesKept
PROPERTIES AccessServed
