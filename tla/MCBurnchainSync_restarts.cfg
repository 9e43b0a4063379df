SPECIFICATION Spec
CONSTANTS
    Blocks <- MCBlocks
    Parent <- MCParent
    Height <- MCHeight
    Root = 4
    CycleLength = 5
    MaxRestarts = 1
    CrashPoints <- AllPhases
    QuietPhases <- Nowhere
INVARIANTS
    SnapshotsContiguous
    CoordinatorTipIsCanonical
    HeadersCoverDatabase
