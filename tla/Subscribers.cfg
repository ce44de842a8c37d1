SPECIFICATION FairSpec
CONSTANTS
    c1 = c1
    c2 = c2
    r1 = r1
    r2 = r2
    s1 = s1
    ann = ann
    bob = bob
    chat = chat
    rest = rest
    Uses <- EachAlone
    Kinds <- AllKinds
    Capacity = 1
    MaxEvents = 2
    Clients = {c1, c2}
    Filters <- TwoFilters
    MaxConnections = 1
    ValidKinds = {"chat"}
    Creators = {r1, r2}
    MaxWebhooks = 1
    MaxRetries = 1
    MaxIds = 2
    MaxHookFaults = 1
    Subscriptions <- WaysToBots
    Streams = {s1}
    BotCapacity = 1
    MaxTokens = 2
    Watchers = {ann, bob}
    MaxChanges = 3
    MaxWatchFaults = 1
    People = {ann, bob}
    Outsider = chat
    MaxOpTurns = 3
    NewTopics = {"t1", "t2"}
    Setters = {chat, rest}
    NoTopicYet = "t0"
    MaxTopicSets = 2
INVARIANTS TypeOK LimitsHold StreamsComplete NothingTwice NoticesTrue
PROPERTIES LeftoversEnd
CHECK_DEADLOCK FALSE
