SPECIFICATION Spec
CONSTANTS
    Blocks <- MCBlocks
    Parent <- MCParent
    Height <- MCHeight
    Root = 4
    CycleLength = 5
    MaxRestarts = 0
    CrashPoints <- Nowhere
    QuietPhases <- Nowhere
INVARIANTS
    ReorgsAreNoticed
