\* A logon while the daemon still holds an open connection of the session.
SPECIFICATION FairSpec
PROPERTIES
    HeldIsForwarded
CONSTANTS
    Conns = {c1, c2, c3}
    Fds = {3, 4}
    Sessions = {s1}
    Unknown = unknown
    NoConn = NoConn
    NoSession = NoSession
    Faults = {"takeover"}
