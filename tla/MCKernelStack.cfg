SPECIFICATION StackSpec
CONSTANTS
    MemoryMap <- MCMemoryMap
    TotalFrames = 9
    PointersPerFrame = 2
    BootFrames = 1
    LimineStack = {6}
    LimineResponses = {7}
    kernel_stack_start = {8}
INVARIANT ReclaimIsSafe
