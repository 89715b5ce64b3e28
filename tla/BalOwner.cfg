\* Clients that close before they connect again: the session table is an
\* owner of connections.  Three names, so that one can be closed and still
\* referenced while a second is open and a third connects.
SPECIFICATION Spec
INVARIANTS
    TypeOK
PROPERTIES
    SessionIsOwned
CONSTANTS
    Conns = {c1, c2, c3}
    Fds = {3, 4}
    Sessions = {s1}
    Unknown = unknown
    NoConn = NoConn
    NoSession = NoSession
    Faults = {}
