SPECIFICATION Spec
CONSTANTS
    MemoryMap <- MCMemoryMap
    TotalFrames = 10
    PointersPerFrame = 2
    BootFrames = 1
INVARIANTS TypeOK ExclusiveFrames StorageIsPrivate NoFrameLost
PROPERTIES BootEnds PoolSpec
