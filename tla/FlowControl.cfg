\* Three downstream messages, a window of one, no fault at all.
SPECIFICATION Spec
INVARIANTS
    FlowControl
CONSTANTS
    MaxSeqId = 6
    DownIds = {d1, d2, d3}
    UpIds = {}
    RcptIds = {}
    Groups = {}
    BalSession = bal
    Stranger = stranger
    StrangerIds = {}
    MAX_PENDING_MESSAGES = 1
    Faults = {}
    MaxCopies = 1
    MaxTimers = 1
    IntMax = 100
CHECK_DEADLOCK FALSE
