\* Progress of upstream messages while the window is open, over restarts and
\* reconnects of the BAL.
SPECIFICATION UpstreamSpec
PROPERTIES
    UpstreamDelivered
CONSTANTS
    MaxSeqId = 2
    DownIds = {}
    UpIds = {u1, u2}
    RcptIds = {r1}
    Groups = {}
    BalSession = bal
    Stranger = stranger
    StrangerIds = {}
    MAX_PENDING_MESSAGES = 3
    Faults = {"crash", "balDrop"}
    MaxCopies = 1
    MaxTimers = 1
    IntMax = 100
