---------------------------- MODULE BalSession -----------------------------
(***************************************************************************)
(* The connections of the business application layer (BAL) to the daemon:  *)
(* accepting them, logging on, the logon timeout, and their end            *)
(* (src/application.cpp, src/balsession.cpp).                              *)
(*                                                                         *)
(* A connection is a socket and the BALConn object that owns it.  BALConn  *)
(* is reference counted: the map of connections that have not logged on,   *)
(* the session and the callback of the logon timer hold it.  When nobody   *)
(* does, the event loop destroys the socket, and a socket that is          *)
(* destroyed while it is open emits disconnected() like any other.         *)
(***************************************************************************)
EXTENDS Integers

CONSTANTS
    Conns,      \* bound: names for the connections that exist at one time
    Fds,        \* socket descriptors; the system gives a free one to a socket
    Sessions,   \* the sessions of config.ini, the keys of __balSessionMap
    Unknown,    \* a session id that is not in config.ini
    NoConn, NoSession,
    Faults      \* which of BalFaults the clients may commit

\* "takeover": a client logs on while the daemon still holds an open
\* connection for the session (the other end of that one may be gone without
\* the daemon knowing).  "earlyClose": a connection ends before it logs on.
BalFaults == {"takeover", "earlyClose"}

ASSUME BalAssumption ==
    /\ Fds \subseteq Nat
    /\ NoConn \notin Conns
    /\ Unknown \notin Sessions
    /\ NoSession \notin Sessions \cup {Unknown}
    /\ Faults \subseteq BalFaults

VARIABLES
    sock,       \* [Conns -> "none": no such socket, "open", "closed"]
    fd,         \* socketDescriptor(), -1 once the socket is not open
    sid,        \* the socket's property "session_id"
    blocked,    \* connections whose socket has its signals blocked
    timer,      \* logon timer: "none", "armed", "cancelled" (its context is
                \* deleted, the callback is kept until the 10 s are over)
    mapU,       \* __balSessionMapU: descriptor to connection
    conn,       \* BALSession::__balConn
    state,      \* BALSession::__state
    resend,     \* sessions with a resend timer (1 s after a logon)
    held        \* sessions with upstream messages not written to the client

vars == <<sock, fd, sid, blocked, timer, mapU, conn, state, resend, held>>
sockets == <<sock, fd, sid, blocked>>
queues == <<resend, held>>

TypeOK ==
    /\ sock \in [Conns -> {"none", "open", "closed"}]
    /\ fd \in [Conns -> Fds \cup {-1}]
    /\ sid \in [Conns -> Sessions \cup {NoSession}]
    /\ blocked \subseteq Conns
    /\ timer \in [Conns -> {"none", "armed", "cancelled"}]
    /\ mapU \in [Fds -> Conns \cup {NoConn}]
    /\ conn \in [Sessions -> Conns \cup {NoConn}]
    /\ state \in [Sessions -> {"UNAUTHENTICATED", "AUTHENTICATED"}]
    /\ resend \subseteq Sessions
    /\ held \subseteq Sessions

Init ==
    /\ sock = [c \in Conns |-> "none"]
    /\ fd = [c \in Conns |-> -1]
    /\ sid = [c \in Conns |-> NoSession]
    /\ blocked = {}
    /\ timer = [c \in Conns |-> "none"]
    /\ mapU = [n \in Fds |-> NoConn]
    /\ conn = [s \in Sessions |-> NoConn]
    /\ state = [s \in Sessions |-> "UNAUTHENTICATED"]
    /\ resend = {}
    /\ held = {}
-----------------------------------------------------------------------------
IsOpen(c) == c \in Conns /\ sock[c] = "open"

Waiting(c) == \E n \in Fds : mapU[n] = c

\* writeMessage: the session has to be AUTHENTICATED, and write() gives -1 on
\* a socket that is not open; both throw.
CanWrite(s) == state[s] = "AUTHENTICATED" /\ IsOpen(conn[s])

\* Somebody holds the BALConn.
Referenced(c) ==
    Waiting(c) \/ timer[c] # "none" \/ \E s \in Sessions : conn[s] = c

\* Mutant: the logon timer is left running.
deleteTimerContext_none(c) == timer

\* The timer's context is deleted: the callback will not run.
deleteTimerContext(c) == [timer EXCEPT ![c] = IF @ = "armed" THEN "cancelled" ELSE @]

erase(n) == [mapU EXCEPT ![n] = NoConn]
-----------------------------------------------------------------------------
(***************************************************************************)
(* The handlers.                                                           *)
(***************************************************************************)

\* emplace() does not replace an entry that is there.
handleNewBALConnection(c, n) ==
    /\ sock[c] = "none"
    /\ \A d \in Conns : fd[d] # n
    /\ sock' = [sock EXCEPT ![c] = "open"]
    /\ fd' = [fd EXCEPT ![c] = n]
    /\ timer' = [timer EXCEPT ![c] = "armed"]
    /\ mapU' = [mapU EXCEPT ![n] = IF @ = NoConn THEN c ELSE @]
    /\ UNCHANGED <<sid, blocked, conn, state, queues>>

\* Mutant: a connection whose time is over stays in the map.
handleBalAuthenticationTimeout_keepsEntry(c) ==
    /\ blocked' = blocked \cup {c}
    /\ UNCHANGED mapU

\* The callback erases the entry of the descriptor the socket has now; a
\* socket that is closed has none.
handleBalAuthenticationTimeout(c) ==
    /\ blocked' = blocked \cup {c}
    /\ mapU' = IF fd[c] \in Fds THEN erase(fd[c]) ELSE mapU

\* The logon timer is over; the callback and its reference go.
logonTimerEnds(c) ==
    /\ timer[c] # "none"
    /\ timer' = [timer EXCEPT ![c] = "none"]
    /\ IF timer[c] = "armed" THEN handleBalAuthenticationTimeout(c)
                             ELSE UNCHANGED <<blocked, mapU>>
    /\ UNCHANGED <<sock, fd, sid, conn, state, queues>>

\* Mutant: what is held is not sent after a logon.
accept_noResend(b, s) ==
    /\ conn' = [conn EXCEPT ![s] = b]
    /\ sid' = [sid EXCEPT ![b] = s]
    /\ state' = [state EXCEPT ![s] = "AUTHENTICATED"]
    /\ UNCHANGED resend

\* The session is given the connection the map has for the descriptor, and
\* the reply is written to it; when that throws, no resend timer is started.
\* Two timers of one session are one here: the second to fire finds what the
\* first one left, or the later connection.
accept(b, s) ==
    /\ conn' = [conn EXCEPT ![s] = b]
    /\ sid' = [sid EXCEPT ![b] = s]
    /\ state' = [state EXCEPT ![s] = "AUTHENTICATED"]
    /\ resend' = IF IsOpen(b) THEN resend \cup {s} ELSE resend

\* Mutant: the session id is not looked up.
handleBalLogonRequest_unchecked(c, s) ==
    /\ IsOpen(c) /\ c \notin blocked /\ mapU[fd[c]] # NoConn
    /\ timer' = deleteTimerContext(mapU[fd[c]])
    /\ mapU' = erase(fd[c])
    /\ accept(mapU[fd[c]], s)
    /\ UNCHANGED <<sock, fd, blocked, held>>

\* A LOGON message arrives on c.  A descriptor that is not in the map means a
\* second logon on one connection: nothing happens.
handleBalLogonRequest(c, s) ==
    LET b == mapU[fd[c]]
    IN  /\ IsOpen(c) /\ c \notin blocked
        /\ b # NoConn
        /\ s \in Sessions /\ IsOpen(conn[s]) => "takeover" \in Faults
        /\ timer' = deleteTimerContext(b)
        /\ mapU' = erase(fd[c])
        /\ IF s \in Sessions
           THEN accept(b, s)
           ELSE UNCHANGED <<conn, sid, state, resend>>
        /\ UNCHANGED <<sock, fd, blocked, held>>

\* Mutant: the session stays AUTHENTICATED.
handleBALSocketDisconnected_keepsState(c, desc) == UNCHANGED <<timer, mapU, state>>

\* Case I is a connection that has not logged on, case II one that has.
\* getConn() returns a copy: resetting it leaves the session's connection.
handleBALSocketDisconnected(c, desc) ==
    IF desc \in Fds /\ mapU[desc] # NoConn
    THEN /\ timer' = deleteTimerContext(mapU[desc])
         /\ mapU' = erase(desc)
         /\ UNCHANGED state
    ELSE /\ state' = [s \in Sessions |->
                        IF sid[c] = s THEN "UNAUTHENTICATED" ELSE state[s]]
         /\ UNCHANGED <<timer, mapU>>

\* The socket c is not open any more.  Its slot runs unless its signals are
\* blocked, and by then socketDescriptor() is -1.
disconnects(c) ==
    /\ fd' = [fd EXCEPT ![c] = -1]
    /\ IF c \in blocked THEN UNCHANGED <<timer, mapU, state>>
                        ELSE handleBALSocketDisconnected(c, -1)

\* Bound: a connection that ends early keeps its entry, and its name here; it
\* does so only while another name is free.
RoomToLeak == \E d \in Conns : sock[d] = "none"

\* A connection ends: the client closes it, or it breaks.
peerCloses(c) ==
    /\ IsOpen(c)
    /\ Waiting(c) => "earlyClose" \in Faults /\ RoomToLeak
    /\ sock' = [sock EXCEPT ![c] = "closed"]
    /\ disconnects(c)
    /\ UNCHANGED <<sid, blocked, conn, queues>>

\* Mutant: ~BALConn leaves a socket that is open to itself.
destroy_closed(c) ==
    /\ sock[c] = "closed" /\ ~Referenced(c)
    /\ sock' = [sock EXCEPT ![c] = "none"]
    /\ sid' = [sid EXCEPT ![c] = NoSession]
    /\ blocked' = blocked \ {c}
    /\ UNCHANGED <<fd, timer, mapU, state, conn, queues>>

\* ~BALConn has called deleteLater(): the event loop destroys the socket.
destroy(c) ==
    /\ sock[c] # "none" /\ ~Referenced(c)
    /\ sock' = [sock EXCEPT ![c] = "none"]
    /\ sid' = [sid EXCEPT ![c] = NoSession]
    /\ blocked' = blocked \ {c}
    /\ IF IsOpen(c) THEN disconnects(c) ELSE UNCHANGED <<fd, timer, mapU, state>>
    /\ UNCHANGED <<conn, queues>>

\* An upstream message for s: written, or kept for the next resend.
forwardMsg(s) ==
    /\ held' = IF CanWrite(s) THEN held ELSE held \cup {s}
    /\ UNCHANGED <<sockets, timer, mapU, conn, state, resend>>

\* The resend timer of a logon: what is held is written, if that is possible.
resendPendingUpstreamMessages(s) ==
    /\ s \in resend
    /\ resend' = resend \ {s}
    /\ held' = IF CanWrite(s) THEN held \ {s} ELSE held
    /\ UNCHANGED <<sockets, timer, mapU, conn, state>>
-----------------------------------------------------------------------------
\* Which name a new connection gets does not matter.
freeName == CHOOSE c \in Conns : (\E d \in Conns : sock[d] = "none") => sock[c] = "none"

ConnNext ==
    \E c \in Conns :
        \/ c = freeName /\ \E n \in Fds : handleNewBALConnection(c, n)
        \/ \E s \in Sessions \cup {Unknown} : handleBalLogonRequest(c, s)
        \/ logonTimerEnds(c)
        \/ peerCloses(c)
        \/ destroy(c)

SessionNext ==
    \E s \in Sessions : forwardMsg(s) \/ resendPendingUpstreamMessages(s)

Next == ConnNext \/ SessionNext

Spec == Init /\ [][Next]_vars

\* A client of s that has no connection connects.
clientConnects(s) ==
    /\ \A c \in Conns : ~(IsOpen(c) /\ sid[c] = s)
    /\ \E n \in Fds : handleNewBALConnection(freeName, n)

\* The event loop runs timers and destroys what is to be deleted; a client
\* without a connection connects, and logs on before its time is over, if it
\* gets the chance again and again.
Fairness ==
    /\ \A c \in Conns : WF_vars(logonTimerEnds(c)) /\ WF_vars(destroy(c))
    /\ \A s \in Sessions :
        /\ WF_vars(resendPendingUpstreamMessages(s))
        /\ SF_vars(clientConnects(s))
        /\ SF_vars(\E c \in Conns : handleBalLogonRequest(c, s))

FairSpec == Spec /\ Fairness
-----------------------------------------------------------------------------
(***************************************************************************)
(* Properties.                                                             *)
(***************************************************************************)

\* A client that has been accepted is not cut off or ignored: while its
\* connection is open, no logon timeout can reach it any more and its
\* signals arrive, so that the daemon will notice its end
\* (handleBalLogonRequest against handleBalAuthenticationTimeout).
AcceptedIsSafe ==
    \A s \in Sessions : IsOpen(conn[s]) =>
        /\ conn[s] \notin blocked
        /\ timer[conn[s]] # "armed"
        /\ sid[conn[s]] = s
        /\ ~Waiting(conn[s])

\* An open connection is found in the map only under its own descriptor, and
\* while there is an entry under its descriptor its own logon timeout is ahead
\* of it.  The entry may be the stale one of a dead connection that had the
\* descriptor before, which emplace() keeps: a LOGON is then credited to the
\* dead connection and cancels that one's timer, but never the timer of a
\* connection that is open, so that its client is cut off in time and not
\* kept unserved (handleNewBALConnection, handleBalLogonRequest,
\* handleBalAuthenticationTimeout).
EntryTimesOut ==
    /\ \A n \in Fds : IsOpen(mapU[n]) => fd[mapU[n]] = n
    /\ \A c \in Conns : IsOpen(c) /\ mapU[fd[c]] # NoConn =>
          timer[c] = "armed" /\ c \notin blocked

OwnerOf(s) == IF state[s] = "AUTHENTICATED" THEN conn[s] ELSE NoConn

Owner == INSTANCE SessionOwner WITH
    open <- {c \in Conns : sock[c] = "open"},
    owner <- [s \in Sessions |-> OwnerOf(s)]

\* The session table implements SessionOwner: a session is AUTHENTICATED
\* exactly while the connection that logged on last is open.
SessionIsOwned == Owner!Spec

\* The daemon does not keep a connection it will not serve: one that is open
\* ends or becomes the connection of a session.
NoOrphan ==
    \A c \in Conns :
        IsOpen(c) ~> (~IsOpen(c) \/ \E s \in Sessions : conn[s] = c)

\* The daemon holds an open connection for s and treats s as disconnected.
Stranded(s) == IsOpen(conn[s]) /\ state[s] # "AUTHENTICATED"

\* Once connections stay open, upstream messages that were held while the
\* client was down are written to it, or the session is stranded: over logons
\* that race the timeout, connections that end before they log on, stale
\* entries of the map and replies that cannot be written
\* (handleBalLogonRequest, resendPendingUpstreamMessages).
HeldOrStranded ==
    <>[][\A c \in Conns : ~peerCloses(c)]_vars =>
        \A s \in Sessions : s \in held ~> s \notin held \/ Stranded(s)

\* Once connections stay open, upstream messages that were held while the
\* client was down are written to it (resendPendingUpstreamMessages).
HeldIsForwarded ==
    <>[][\A c \in Conns : ~peerCloses(c)]_vars =>
        \A s \in Sessions : s \in held ~> s \notin held
=============================================================================
