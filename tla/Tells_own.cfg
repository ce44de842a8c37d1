SPECIFICATION Spec
CONSTANTS
    ann = ann
    Nicks = {ann}
    MaxTells = 2
    MaxBacklog = 2
    MaxPipe = 2
    MaxFaults = 0
INVARIANT OwnTellWaits
