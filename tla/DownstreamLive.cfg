\* Downstream messages that wait for a slot or behind their group, over
\* restarts, nacks and answers that are dropped.
SPECIFICATION DownstreamSpec
PROPERTIES
    DownstreamResolved
CONSTANTS
    MaxSeqId = 4
    DownIds = {d1, d2}
    UpIds = {}
    RcptIds = {}
    Groups = {g1}
    BalSession = bal
    Stranger = stranger
    StrangerIds = {}
    MAX_PENDING_MESSAGES = 1
    Faults = {"crash", "nack", "split"}
    MaxCopies = 1
    MaxTimers = 1
    IntMax = 100
