SPECIFICATION Spec
CONSTANTS
    unitA = unitA
    unitB = unitB
    TableSectors = 5
    PerSector = 8
    FirstAlloc = 5
    LastCluster = 11
    Slots = 6
    Units = 2
    Root = 2
    NameLen <- MCNameLen
    Inputs <- MCInputs
    ReadLens = {1, 3}
    Paths <- MCPaths
    Drives = {1, 2}
    FirstDisk <- MCFirstDisk
    DiskName <- MCDiskName
    MaxSteps = 5
    MaxFds = 2
INVARIANTS TypeOK ChainsApart ReadsBack DotDotLeadsBack ListingWhole
PROPERTIES NothingLeaks BootSettles WritesWithinChain DescriptorsKeepTheirFile
CHECK_DEADLOCK FALSE
