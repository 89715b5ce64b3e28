\* All faults.  Three connections, so that a draining can be announced again
\* after the first one, on an old connection; two losses in a row of one of
\* them at a time.
SPECIFICATION FairSpec
INVARIANTS
    TypeOK
    OneLiveSender
    TimersMatch
PROPERTIES
    WaitsGrow
    UploadedOrDead
CONSTANTS
    MaxConns = 3
    MaxWire = 2
    MaxLosses = 2
    MaxLost = 1
    Deltas = {100, 1000}
    Faults = {"refuse", "tlsFail", "drop", "cut", "badKey", "odd", "redrain"}
