SPECIFICATION Spec
CONSTANTS
    web = web
    cli = cli
    bot = bot
    Keys = {web, cli, bot}
    Full = 4
    Cost = 2
    StaleAfter = 5
    EvictAbove = 1
    MaxTime = 7
SYMMETRY Symmetry
INVARIANTS TypeOK BurstBounded MapBounded
PROPERTY BucketSpec
