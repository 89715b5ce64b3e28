\* An upstream message for a BAL that comes and goes: crashes, lost acks,
\* messages that come in two reads and statements that fail.
SPECIFICATION Spec
INVARIANTS
    AckedUpstreamIsKept
    QueuesArePendingRows
PROPERTIES
    DeliveredWasReceived
CONSTANTS
    MaxSeqId = 3
    DownIds = {}
    UpIds = {u1}
    RcptIds = {}
    Groups = {}
    BalSession = bal
    Stranger = stranger
    StrangerIds = {}
    MAX_PENDING_MESSAGES = 1
    Faults = {"crash", "fcmDrop", "dbFail", "balDrop", "split"}
    MaxCopies = 1
    MaxTimers = 1
    IntMax = 2
