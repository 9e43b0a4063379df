SPECIFICATION Spec
CONSTANTS
    h1 = h1
    h2 = h2
    Blocks <- MCBlocks
    Parent <- MCParent
    Height <- MCHeight
    Root = 3
    Handlers <- MCHandlers
    InOrder = FALSE
SYMMETRY Symmetry
INVARIANTS
    CanonicalMarks
PROPERTIES
    ImplementsCanonicalChain
