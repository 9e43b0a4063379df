SPECIFICATION FairSpec
CONSTANTS
    h1 = h1
    h2 = h2
    Blocks <- MCBlocks
    Parent <- MCParent
    Height <- MCHeight
    Root = 3
    Handlers <- MCHandlers
    InOrder = TRUE
INVARIANTS
    TipReadIsCurrent
    OnlyDuplicatesFail
PROPERTIES
    PushTerminates
