SPECIFICATION FairSpec
CONSTANTS
    opchat = opchat
    botloop = botloop
    api = api
    Cap = 1
    Senders = {opchat, botloop}
    UserReaders = {opchat}
    BotReaders = {botloop}
    Kinds <- EveryKind
    MaxBatch = 2
    WireCap = 1
    InitialDelay = 1
    MaxDelay = 2
    MaxCommands = 3
INVARIANTS TypeOK SessionAnnounced
PROPERTIES PipeSpec WedgeIsForever StopsAreKnown LossNoticed NoSenderStarves ChannelDrains
CHECK_DEADLOCK FALSE
