SPECIFICATION FairSpec
CONSTANTS
    dragon = dragon
    opbot = opbot
    c1 = c1
    h1 = h1
    h2 = h2
    Nicks = {dragon, opbot}
    Commands = {}
    Calls = {h1, h2}
    Overlap = FALSE
    MaxTokens = 2
    MaxPipe = 1
    MaxDrops = 1
    MayLag = TRUE
INVARIANTS TypeOK OneForwarderEach HubShowsTheBots
PROPERTIES BotsReturn StaleForwardersEnd
CHECK_DEADLOCK FALSE
