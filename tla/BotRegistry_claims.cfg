SPECIFICATION Spec
CONSTANTS
    dragon = dragon
    opbot = opbot
    c1 = c1
    h1 = h1
    h2 = h2
    Nicks = {dragon, opbot}
    Commands = {c1}
    Calls = {h1, h2}
    Overlap = FALSE
    MaxTokens = 3
    MaxPipe = 2
    MaxDrops = 0
    MayLag = FALSE
SYMMETRY Symmetry
INVARIANT ClaimsAreKept
CHECK_DEADLOCK FALSE
