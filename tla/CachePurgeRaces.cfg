INIT Init
NEXT Next
CONSTANTS
    Clients = {c1, c2}
    Downloads = {d1, d2}
    Nobody = Nobody
    MaxFaults = 0
    MaxPurges = 1
INVARIANT
    ReadyMeansDownloaded
CHECK_DEADLOCK FALSE
