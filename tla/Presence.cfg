SPECIFICATION FairSpec
CONSTANTS
    ann = ann
    bob = bob
    op = op
    api = api
    Nicks = {ann}
    ChatMods = {op}
    RestMods = {op}
    MaxInbox = 1
    MaxKicks = 1
    MaxLogins = 2
    MaxBans = 1
    MaxFaults = 1
INVARIANTS TypeOK UsersMirror SessionsFollow
PROPERTIES BansEnforced GhostsLeave
CHECK_DEADLOCK FALSE
