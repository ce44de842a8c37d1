SPECIFICATION FairSpec
CONSTANTS
    opchat = opchat
    botloop = botloop
    api = api
    Cap = 2
    Senders = {}
    UserReaders = {}
    BotReaders = {}
    Kinds <- ChatOnly
    MaxBatch = 3
    WireCap = 1
    InitialDelay = 5
    MaxDelay = 5
    MaxCommands = 3
PROPERTY RunsForever
CHECK_DEADLOCK FALSE
