\* Three downstream messages, in a group or not, below the window; no restart.
SPECIFICATION Spec
INVARIANTS
    StrictGroupOrder
    OutcomesReported
CONSTANTS
    MaxSeqId = 6
    DownIds = {d1, d2, d3}
    UpIds = {}
    RcptIds = {}
    Groups = {g1}
    BalSession = bal
    Stranger = stranger
    StrangerIds = {}
    MAX_PENDING_MESSAGES = 9
    Faults = {"fcmDrop", "nack", "split"}
    MaxCopies = 1
    MaxTimers = 1
    IntMax = 100
SYMMETRY IdSymmetry
