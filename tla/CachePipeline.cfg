\* Two concurrent requests, a purge, and one call, request, deletion or agent that breaks.
SPECIFICATION Spec
CONSTANTS
    Clients = {c1, c2}
    Downloads = {d1, d2}
    Nobody = Nobody
    MaxFaults = 1
    MaxPurges = 1
INVARIANTS
    TypeOK
    ReadyRowHasFiles
PROPERTIES
    DownloadsSettle
CHECK_DEADLOCK FALSE
