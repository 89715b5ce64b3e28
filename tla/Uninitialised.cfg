\* An FCM id that is used twice, statements and loads that fail and retry
\* limits that read as exhausted after a restart.
SPECIFICATION Spec
INVARIANTS
    ManagersSound
CONSTANTS
    MaxSeqId = 4
    DownIds = {d1}
    UpIds = {}
    RcptIds = {}
    Groups = {g1}
    BalSession = bal
    Stranger = stranger
    StrangerIds = {}
    MAX_PENDING_MESSAGES = 1
    Faults = {"crash", "uninit", "nack", "dupIds", "dbFail", "loadFail"}
    MaxCopies = 1
    MaxTimers = 1
    IntMax = 100
