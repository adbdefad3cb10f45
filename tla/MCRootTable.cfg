SPECIFICATION Spec
CONSTANTS
    Machines <- MCMachines
    lapicId = 0
    maxIoApics = 2
    MaxPresses = 3
PROPERTY ListedMadtFound
