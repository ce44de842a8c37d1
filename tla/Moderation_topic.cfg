SPECIFICATION FairSpec
CONSTANTS
    ann = ann
    op = op
    dragon = dragon
    p1 = p1
    p2 = p2
    t1 = t1
    none = none
    rest = rest
    processor = processor
    Nicks = {ann, op, dragon}
    Reserved = {dragon}
    Ops = {op}
    Passwords = {p1, p2}
    NoPassword = none
    RegTypes = {3}
    Permissions = {0, 2}
    Topics = {t1}
    NoTopic = none
    RestCalls = {rest}
    MaxRequests = 2
    MaxFaults = 1
PROPERTY TopicSurvives
CHECK_DEADLOCK FALSE
