SPECIFICATION FairSpec
CONSTANTS
    ann = ann
    Nicks = {ann}
    MaxTells = 2
    MaxBacklog = 2
    MaxPipe = 2
    MaxFaults = 2
INVARIANTS TypeOK MarkedMeansSent SentAgainOnlyAfterFaults InOrder
PROPERTY TellsArrive
