\* Two downstream messages and a window of one: crashes, nacks, answers that
\* are dropped and statements that fail.
SPECIFICATION Spec
INVARIANTS
    TypeOK
    QueuesArePendingRows
    FcmCountNeverOver
    ReportsAreTrue
PROPERTIES
    TableIsLedger
CONSTANTS
    MaxSeqId = 4
    DownIds = {d1, d2}
    UpIds = {}
    RcptIds = {}
    Groups = {g1}
    BalSession = bal
    Stranger = stranger
    StrangerIds = {}
    MAX_PENDING_MESSAGES = 1
    Faults = {"crash", "dbFail", "nack", "uninit", "split", "noLogon"}
    MaxCopies = 1
    MaxTimers = 1
    IntMax = 100
SYMMETRY IdSymmetry
