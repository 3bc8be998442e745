SPECIFICATION LayoutSpec
CONSTANTS
    Files <- MCFiles
    BinLists <- MCBinLists
    MaxBlocks = 2
INVARIANTS
    NoStaleCell
    WritesItsRegion
    NoFeatureOverwritten
