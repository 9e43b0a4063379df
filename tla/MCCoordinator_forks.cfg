SPECIFICATION FairSpec
CONSTANTS
    Blocks <- MCBlocks
    Parent <- MCParent
    Height <- MCHeight
    Root = 1
    First = "first"
    None = None
    ParentHash <- MCParentHash
    Elections <- MCElections
    MaxInvalid = 1
    MaxCrashes = 1
INVARIANTS
    TipCoversFork
    
    AcceptedInBoth
    FilesMatchRows
    DrainsReady
CHECK_DEADLOCK FALSE
PROPERTIES
    WinnersAccepted
