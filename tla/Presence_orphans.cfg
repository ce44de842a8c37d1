SPECIFICATION FairSpec
CONSTANTS
    ann = ann
    bob = bob
    op = op
    api = api
    Nicks = {ann}
    ChatMods = {}
    RestMods = {}
    MaxInbox = 1
    MaxKicks = 1
    MaxLogins = 1
    MaxBans = 0
    MaxFaults = 1
PROPERTY OrphansClosed
CHECK_DEADLOCK FALSE
