-------------------------- MODULE BalSessionProofs --------------------------
(***************************************************************************)
(* For every number of connections, descriptors and sessions: a logon and  *)
(* its timeout exclude each other whatever faults clients commit, and      *)
(* without faults the session table implements SessionOwner.               *)
(***************************************************************************)
EXTENDS BalSession, TLAPS

\* A socket has a descriptor exactly while it is open, and shares it with no
\* other one.
DescriptorInv ==
    /\ \A c \in Conns : fd[c] \in Fds <=> sock[c] = "open"
    /\ \A c, d \in Conns : fd[c] \in Fds /\ fd[c] = fd[d] => c = d

\* What does not exist has left nothing behind.
NoneInv ==
    \A c \in Conns : sock[c] = "none" =>
        /\ timer[c] = "none"
        /\ c \notin blocked
        /\ \A n \in Fds : mapU[n] # c
        /\ \A s \in Sessions : conn[s] # c

\* A connection has one entry in the map of those that have not logged on, or
\* belongs to one session, which is the one its property names.
OnePlaceInv ==
    /\ \A n, m \in Fds : mapU[n] \in Conns /\ mapU[n] = mapU[m] => n = m
    /\ \A n \in Fds, s \in Sessions : mapU[n] \in Conns => mapU[n] # conn[s]
    /\ \A s \in Sessions : conn[s] \in Conns => sid[conn[s]] = s

IInv ==
    /\ TypeOK
    /\ DescriptorInv
    /\ NoneInv
    /\ OnePlaceInv
    /\ AcceptedIsSafe
    /\ EntryTimesOut

-----------------------------------------------------------------------------
\* A connection is accepted under a descriptor that no open one has.
LEMMA NewConnectionStep ==
    ASSUME IInv, NEW c \in Conns, NEW n \in Fds, handleNewBALConnection(c, n)
    PROVE  IInv'
<1> USE DEF IInv, TypeOK, DescriptorInv, NoneInv, OnePlaceInv, AcceptedIsSafe,
            EntryTimesOut, IsOpen, Waiting
<1>1. TypeOK'
  BY BalAssumption DEF handleNewBALConnection, queues
<1>2. DescriptorInv'
  BY BalAssumption DEF handleNewBALConnection, queues
<1>3. NoneInv'
  BY BalAssumption DEF handleNewBALConnection, queues
<1>4. OnePlaceInv'
  BY BalAssumption DEF handleNewBALConnection, queues
<1>5. AcceptedIsSafe'
  BY BalAssumption DEF handleNewBALConnection, queues
<1>6. EntryTimesOut'
  BY BalAssumption DEF handleNewBALConnection, queues
<1> QED
  BY <1>1, <1>2, <1>3, <1>4, <1>5, <1>6

\* The timeout of a connection erases its own entry, or one that is stale.
LEMMA TimerEndsStep ==
    ASSUME IInv, NEW c \in Conns, logonTimerEnds(c)
    PROVE  IInv'
<1> USE DEF IInv, TypeOK, DescriptorInv, NoneInv, OnePlaceInv, AcceptedIsSafe,
            EntryTimesOut, IsOpen, Waiting
<1>1. TypeOK'
  BY BalAssumption DEF logonTimerEnds, handleBalAuthenticationTimeout, erase, queues
<1>2. DescriptorInv'
  BY BalAssumption DEF logonTimerEnds, handleBalAuthenticationTimeout, erase, queues
<1>3. NoneInv'
  BY BalAssumption DEF logonTimerEnds, handleBalAuthenticationTimeout, erase, queues
<1>4. OnePlaceInv'
  BY BalAssumption DEF logonTimerEnds, handleBalAuthenticationTimeout, erase, queues
<1>5. AcceptedIsSafe'
  BY BalAssumption DEF logonTimerEnds, handleBalAuthenticationTimeout, erase, queues
<1>6. EntryTimesOut'
  <2>1. \A n \in Fds : mapU'[n] = mapU[n] \/ mapU'[n] = NoConn
    BY DEF logonTimerEnds, handleBalAuthenticationTimeout, erase
  <2>2. \A d \in Conns : IsOpen(d) => fd[d] \in Fds
    BY DEF IsOpen
  <2>3. IsOpen(c) => mapU[fd[c]] = NoConn \/ mapU'[fd[c]] = NoConn
    BY <2>2 DEF logonTimerEnds, handleBalAuthenticationTimeout, erase
  <2>4. /\ UNCHANGED <<sock, fd>>
        /\ \A d \in Conns : d # c => timer'[d] = timer[d] /\ (d \in blocked' => d \in blocked)
    BY DEF logonTimerEnds, handleBalAuthenticationTimeout
  <2>5. \A n \in Fds : IsOpen(mapU[n])' => fd'[mapU'[n]] = n
    BY <2>1, <2>4, BalAssumption
  <2>6. ASSUME NEW d \in Conns, IsOpen(d)', mapU'[fd'[d]] # NoConn
        PROVE  timer'[d] = "armed" /\ d \notin blocked'
    <3>1. fd[d] \in Fds /\ IsOpen(d) /\ mapU[fd[d]] # NoConn /\ mapU'[fd[d]] # NoConn
      BY <2>1, <2>2, <2>4, <2>6
    <3>2. d # c
      BY <2>3, <3>1
    <3>3. QED
      BY <2>4, <3>1, <3>2
  <2>7. QED
    BY <2>5, <2>6
<1> QED
  BY <1>1, <1>2, <1>3, <1>4, <1>5, <1>6

\* The entry that a LOGON message finds is that of the connection it came on,
\* or of one that is closed; no session has that connection.
LEMMA LogonFinds ==
    ASSUME IInv, NEW c \in Conns, IsOpen(c), mapU[fd[c]] # NoConn
    PROVE  /\ fd[c] \in Fds /\ mapU[fd[c]] \in Conns
           /\ sock[mapU[fd[c]]] # "none"
           /\ sock[mapU[fd[c]]] = "open" =>
                mapU[fd[c]] \notin blocked /\ mapU[fd[c]] = c
           /\ \A m \in Fds : m # fd[c] => mapU[m] # mapU[fd[c]]
           /\ \A t \in Sessions : conn[t] # mapU[fd[c]]
BY DEF IInv, TypeOK, DescriptorInv, NoneInv, OnePlaceInv, EntryTimesOut, IsOpen

\* A logon takes the entry and the timer of the connection it accepts.
LEMMA LogonStep ==
    ASSUME IInv, NEW c \in Conns, NEW s \in Sessions \cup {Unknown},
           handleBalLogonRequest(c, s)
    PROVE  IInv'
<1> DEFINE n == fd[c]
           b == mapU[fd[c]]
<1>1. /\ n \in Fds /\ b \in Conns
      /\ sock[b] # "none"
      /\ sock[b] = "open" => b \notin blocked /\ b = c
      /\ \A m \in Fds : m # n => mapU[m] # b
      /\ \A t \in Sessions : conn[t] # b
      /\ fd[c] = n
  BY LogonFinds DEF handleBalLogonRequest
<1>2. /\ timer' = [timer EXCEPT ![b] = IF @ = "armed" THEN "cancelled" ELSE @]
      /\ mapU' = [mapU EXCEPT ![n] = NoConn]
      /\ UNCHANGED <<sock, fd, blocked, held>>
  BY DEF handleBalLogonRequest, deleteTimerContext, erase
<1>3. s \in Sessions =>
        /\ conn' = [conn EXCEPT ![s] = b]
        /\ sid' = [sid EXCEPT ![b] = s]
        /\ state' = [state EXCEPT ![s] = "AUTHENTICATED"]
        /\ resend' \in {resend, resend \cup {s}}
  BY DEF handleBalLogonRequest, accept
<1>4. s \notin Sessions => UNCHANGED <<conn, sid, state, resend>>
  BY DEF handleBalLogonRequest
<1> HIDE DEF n, b
<1> USE DEF IInv, TypeOK, DescriptorInv, NoneInv, OnePlaceInv, AcceptedIsSafe,
            EntryTimesOut, IsOpen, Waiting
<1>5. TypeOK'
  BY <1>1, <1>2, <1>3, <1>4, BalAssumption
<1>6. DescriptorInv'
  BY <1>1, <1>2, <1>3, <1>4, BalAssumption
<1>7. NoneInv'
  BY <1>1, <1>2, <1>3, <1>4, BalAssumption
<1>8. OnePlaceInv'
  BY <1>1, <1>2, <1>3, <1>4, BalAssumption
<1>9. AcceptedIsSafe'
  BY <1>1, <1>2, <1>3, <1>4, BalAssumption
<1>10. EntryTimesOut'
  <2>1. \A m \in Fds : mapU'[m] = IF m = n THEN NoConn ELSE mapU[m]
    BY <1>2
  <2>2. \A d \in Conns : IsOpen(d) /\ d # c => fd[d] # n /\ timer'[d] = timer[d]
    BY <1>1, <1>2
  <2>3. \A d \in Conns : IsOpen(d) => fd[d] \in Fds
    BY DEF IsOpen
  <2>4. QED
    BY <1>1, <1>2, <2>1, <2>2, <2>3, BalAssumption
<1> QED
  BY <1>5, <1>6, <1>7, <1>8, <1>9, <1>10

\* A connection that ends keeps its entry, which is stale from then on.
LEMMA ClosesStep ==
    ASSUME IInv, NEW c \in Conns, peerCloses(c)
    PROVE  IInv'
<1> USE DEF IInv, TypeOK, DescriptorInv, NoneInv, OnePlaceInv, AcceptedIsSafe,
            EntryTimesOut, IsOpen, Waiting
<1>1. TypeOK'
  BY BalAssumption DEF peerCloses, disconnects, handleBALSocketDisconnected, queues
<1>2. DescriptorInv'
  BY BalAssumption DEF peerCloses, disconnects, handleBALSocketDisconnected, queues
<1>3. NoneInv'
  BY BalAssumption DEF peerCloses, disconnects, handleBALSocketDisconnected, queues
<1>4. OnePlaceInv'
  BY BalAssumption DEF peerCloses, disconnects, handleBALSocketDisconnected, queues
<1>5. AcceptedIsSafe'
  BY BalAssumption DEF peerCloses, disconnects, handleBALSocketDisconnected, queues
<1>6. EntryTimesOut'
  BY BalAssumption DEF peerCloses, disconnects, handleBALSocketDisconnected, queues
<1> QED
  BY <1>1, <1>2, <1>3, <1>4, <1>5, <1>6

\* Nobody refers to a connection that is destroyed.
LEMMA DestroyStep ==
    ASSUME IInv, NEW c \in Conns, destroy(c)
    PROVE  IInv'
<1> USE DEF IInv, TypeOK, DescriptorInv, NoneInv, OnePlaceInv, AcceptedIsSafe,
            EntryTimesOut, IsOpen, Waiting
<1>1. TypeOK'
  BY BalAssumption DEF destroy, Referenced, disconnects, handleBALSocketDisconnected, queues
<1>2. DescriptorInv'
  BY BalAssumption DEF destroy, Referenced, disconnects, handleBALSocketDisconnected, queues
<1>3. NoneInv'
  BY BalAssumption DEF destroy, Referenced, disconnects, handleBALSocketDisconnected, queues
<1>4. OnePlaceInv'
  BY BalAssumption DEF destroy, Referenced, disconnects, handleBALSocketDisconnected, queues
<1>5. AcceptedIsSafe'
  BY BalAssumption DEF destroy, Referenced, disconnects, handleBALSocketDisconnected, queues
<1>6. EntryTimesOut'
  BY BalAssumption DEF destroy, Referenced, disconnects, handleBALSocketDisconnected, queues
<1> QED
  BY <1>1, <1>2, <1>3, <1>4, <1>5, <1>6

\* Messages do not touch connections.
LEMMA MessageStep ==
    ASSUME IInv, NEW s \in Sessions,
           forwardMsg(s) \/ resendPendingUpstreamMessages(s)
    PROVE  IInv'
<1>1. UNCHANGED <<sock, fd, sid, blocked, timer, mapU, conn, state>>
  BY DEF forwardMsg, resendPendingUpstreamMessages, sockets
<1>2. resend' \subseteq Sessions /\ held' \subseteq Sessions
  BY DEF forwardMsg, resendPendingUpstreamMessages, IInv, TypeOK
<1>3. QED
  BY <1>1, <1>2 DEF IInv, TypeOK, DescriptorInv, NoneInv, OnePlaceInv,
                    AcceptedIsSafe, EntryTimesOut, IsOpen, Waiting

LEMMA NextStep ==
    ASSUME IInv, [Next]_vars
    PROVE  IInv'
<1>1. CASE ConnNext
  BY <1>1, NewConnectionStep, LogonStep, TimerEndsStep, ClosesStep, DestroyStep
     DEF ConnNext
<1>2. CASE SessionNext
  BY <1>2, MessageStep DEF SessionNext
<1>3. CASE UNCHANGED vars
  BY <1>3 DEF vars, IInv, TypeOK, DescriptorInv, NoneInv, OnePlaceInv,
              AcceptedIsSafe, EntryTimesOut, IsOpen, Waiting
<1>4. QED
  BY <1>1, <1>2, <1>3 DEF Next

LEMMA Invariant == Spec => []IInv
<1>1. Init => IInv
  BY BalAssumption DEF Init, IInv, TypeOK, DescriptorInv, NoneInv, OnePlaceInv,
                       AcceptedIsSafe, EntryTimesOut, IsOpen, Waiting
<1>2. QED
  BY <1>1, NextStep, PTL DEF Spec

\* Descriptors, entries, sessions and timers keep their types: in particular a
\* session only ever gets a connection that is in the map, and a socket only
\* the id of a session of config.ini (handleBalLogonRequest).
THEOREM ConnectionTypes == Spec => []TypeOK
BY Invariant, PTL DEF IInv

\* Once handleBalLogonRequest has accepted a connection, the logon timeout
\* cannot block its signals, however the two race and whatever stale entries
\* the map has.
THEOREM AcceptedStaysSafe == Spec => []AcceptedIsSafe
BY Invariant, PTL DEF IInv

\* Behind every entry of the map there is a timeout: an open connection whose
\* descriptor has an entry, its own or the stale one that a dead connection
\* left under the same descriptor, has its own logon timer running, however
\* often descriptors are used again (handleNewBALConnection,
\* handleBalLogonRequest, handleBalAuthenticationTimeout).
THEOREM EntriesTimeOut == Spec => []EntryTimesOut
BY Invariant, PTL DEF IInv
-----------------------------------------------------------------------------
(***************************************************************************)
(* The refinement of SessionOwner, when clients commit no faults.          *)
(***************************************************************************)

\* Only an open connection waits; a session is AUTHENTICATED exactly while its
\* connection is open; an open socket with a session id belongs to it, and
\* the next one starts without.
OwnerInv ==
    /\ \A n \in Fds : mapU[n] \in Conns => sock[mapU[n]] = "open"
    /\ \A s \in Sessions : state[s] = "AUTHENTICATED" <=> IsOpen(conn[s])
    /\ \A c \in Conns : sock[c] = "open" /\ sid[c] \in Sessions => conn[sid[c]] = c
    /\ \A c \in Conns : sock[c] = "none" => sid[c] = NoSession

\* What a step shows of the connections.
OwnerStep ==
    LET open == {c \in Conns : sock[c] = "open"}
        owner == [s \in Sessions |-> OwnerOf(s)]
    IN  [Owner!Next]_<<open, owner>>

LEMMA NewConnectionOwner ==
    ASSUME IInv, OwnerInv, NEW c \in Conns, NEW n \in Fds,
           handleNewBALConnection(c, n)
    PROVE  OwnerInv' /\ OwnerStep
<1>1. OwnerInv'
  BY BalAssumption DEF OwnerInv, handleNewBALConnection, queues, IInv, TypeOK,
                       DescriptorInv, NoneInv, IsOpen
<1>2. Owner!Connect(c)
  BY DEF Owner!Connect, handleNewBALConnection, queues, OwnerOf, IInv, TypeOK
<1>3. QED
  BY <1>1, <1>2 DEF OwnerStep, Owner!Next

\* Without faults the connection a logon finds is the one it came on.
LEMMA LogonOwner ==
    ASSUME Faults = {}, IInv, OwnerInv, NEW c \in Conns,
           NEW s \in Sessions \cup {Unknown}, handleBalLogonRequest(c, s)
    PROVE  OwnerInv' /\ OwnerStep
<1>1. /\ fd[c] \in Fds /\ mapU[fd[c]] = c /\ sock[c] = "open"
      /\ \A t \in Sessions : conn[t] # c
  BY LogonFinds DEF handleBalLogonRequest, OwnerInv, IsOpen
<1>2. mapU' = [mapU EXCEPT ![fd[c]] = NoConn] /\ UNCHANGED <<sock, fd>>
  BY DEF handleBalLogonRequest, erase
<1>3. CASE s \in Sessions
  <2>1. /\ conn' = [conn EXCEPT ![s] = c]
        /\ sid' = [sid EXCEPT ![c] = s]
        /\ state' = [state EXCEPT ![s] = "AUTHENTICATED"]
        /\ ~IsOpen(conn[s])
    BY <1>1, <1>3 DEF handleBalLogonRequest, accept
  <2>2. OwnerInv'
    BY <1>1, <1>2, <1>3, <2>1, BalAssumption DEF OwnerInv, IInv, TypeOK, IsOpen
  <2>3. Owner!Logon(c, s)
    <3>1. [t \in Sessions |-> OwnerOf(t)]' =
            [[t \in Sessions |-> OwnerOf(t)] EXCEPT ![s] = c]
      BY <1>3, <2>1 DEF OwnerOf, IInv, TypeOK
    <3>2. \A t \in Sessions : OwnerOf(t) # c
      BY <1>1, BalAssumption DEF OwnerOf
    <3>3. QED
      BY <1>1, <1>2, <1>3, <3>1, <3>2 DEF Owner!Logon
  <2>4. QED
    BY <1>3, <2>2, <2>3 DEF OwnerStep, Owner!Next
<1>4. CASE s \notin Sessions
  <2>1. UNCHANGED <<conn, sid, state>>
    BY <1>4 DEF handleBalLogonRequest
  <2>2. OwnerInv'
    BY <1>1, <1>2, <2>1, BalAssumption DEF OwnerInv, IInv, TypeOK, IsOpen
  <2>3. QED
    BY <1>2, <2>1, <2>2 DEF OwnerStep, OwnerOf
<1>5. QED
  BY <1>3, <1>4

LEMMA TimerEndsOwner ==
    ASSUME IInv, OwnerInv, NEW c \in Conns, logonTimerEnds(c)
    PROVE  OwnerInv' /\ OwnerStep
<1>1. UNCHANGED <<sock, sid, conn, state>>
  BY DEF logonTimerEnds
<1>2. \A n \in Fds : mapU'[n] \in {mapU[n], NoConn}
  BY DEF logonTimerEnds, handleBalAuthenticationTimeout, erase, IInv, TypeOK
<1>3. OwnerInv'
  BY <1>1, <1>2, BalAssumption DEF OwnerInv, IsOpen
<1>4. QED
  BY <1>1, <1>3 DEF OwnerStep, OwnerOf

\* The slot of disconnected() takes the session from the connection that ends,
\* and from no other.
LEMMA ClosesOwner ==
    ASSUME Faults = {}, IInv, OwnerInv, NEW c \in Conns, peerCloses(c)
    PROVE  OwnerInv' /\ OwnerStep
<1>1. /\ sock[c] = "open" /\ sock' = [sock EXCEPT ![c] = "closed"]
      /\ UNCHANGED <<sid, mapU, conn>>
      /\ \A n \in Fds : mapU[n] # c
  BY BalAssumption DEF peerCloses, disconnects, handleBALSocketDisconnected,
                       IsOpen, Waiting, queues
<1>2. \A s \in Sessions : conn[s] = c => sid[c] = s /\ c \notin blocked
  BY <1>1 DEF IInv, AcceptedIsSafe, IsOpen
<1>3. state' = [s \in Sessions |->
                 IF conn[s] = c THEN "UNAUTHENTICATED" ELSE state[s]]
  BY <1>1, <1>2, BalAssumption DEF peerCloses, disconnects,
     handleBALSocketDisconnected, OwnerInv, IInv, TypeOK
<1>4. OwnerInv'
  BY <1>1, <1>2, <1>3, BalAssumption DEF OwnerInv, IInv, TypeOK, IsOpen
<1>5. Owner!Close(c)
  <2>1. {d \in Conns : sock[d] = "open"}' = {d \in Conns : sock[d] = "open"} \ {c}
    BY <1>1 DEF IInv, TypeOK
  <2>2. \A s \in Sessions : OwnerOf(s)' = IF OwnerOf(s) = c THEN NoConn ELSE OwnerOf(s)
    BY <1>1, <1>3, BalAssumption DEF OwnerOf, OwnerInv, IsOpen
  <2>3. QED
    BY <1>1, <2>1, <2>2 DEF Owner!Close
<1>6. QED
  BY <1>4, <1>5 DEF OwnerStep, Owner!Next

LEMMA DestroyOwner ==
    ASSUME IInv, OwnerInv, NEW c \in Conns, destroy(c)
    PROVE  OwnerInv' /\ OwnerStep
<1>1. /\ sock' = [sock EXCEPT ![c] = "none"]
      /\ sid' = [sid EXCEPT ![c] = NoSession]
      /\ UNCHANGED <<mapU, conn>>
      /\ \A n \in Fds : mapU[n] # c
      /\ \A s \in Sessions : conn[s] # c
  BY BalAssumption DEF destroy, Referenced, Waiting, disconnects,
                       handleBALSocketDisconnected, queues
<1>2. state' = state
  BY <1>1, BalAssumption DEF destroy, disconnects, handleBALSocketDisconnected,
                             OwnerInv, IInv, TypeOK, IsOpen
<1>3. OwnerInv'
  BY <1>1, <1>2, BalAssumption DEF OwnerInv, IInv, TypeOK, IsOpen
<1>4. UNCHANGED [s \in Sessions |-> OwnerOf(s)]
  BY <1>1, <1>2 DEF OwnerOf
<1>5. CASE sock[c] = "open"
  <2>1. {d \in Conns : sock[d] = "open"}' = {d \in Conns : sock[d] = "open"} \ {c}
    BY <1>1 DEF IInv, TypeOK
  <2>2. \A s \in Sessions : OwnerOf(s) # c
    BY <1>1, BalAssumption DEF OwnerOf
  <2>3. Owner!Close(c)
    BY <1>4, <1>5, <2>1, <2>2 DEF Owner!Close
  <2>4. QED
    BY <1>3, <2>3 DEF OwnerStep, Owner!Next
<1>6. CASE sock[c] # "open"
  <2>1. {d \in Conns : sock[d] = "open"}' = {d \in Conns : sock[d] = "open"}
    BY <1>1, <1>6 DEF IInv, TypeOK
  <2>2. QED
    BY <1>3, <1>4, <2>1 DEF OwnerStep
<1>7. QED
  BY <1>5, <1>6

LEMMA NextOwner ==
    ASSUME Faults = {}, IInv, OwnerInv, [Next]_vars
    PROVE  OwnerInv' /\ OwnerStep
<1>1. CASE ConnNext
  BY <1>1, NewConnectionOwner, LogonOwner, TimerEndsOwner, ClosesOwner, DestroyOwner
     DEF ConnNext
<1>2. ASSUME UNCHANGED <<sock, sid, mapU, conn, state>>
      PROVE  OwnerInv' /\ OwnerStep
  BY <1>2 DEF OwnerInv, OwnerStep, OwnerOf, IsOpen
<1>3. CASE SessionNext
  BY <1>2, <1>3 DEF SessionNext, forwardMsg, resendPendingUpstreamMessages, sockets
<1>4. CASE UNCHANGED vars
  BY <1>2, <1>4 DEF vars
<1>5. QED
  BY <1>1, <1>3, <1>4 DEF Next

\* When clients log on again only after their connection has closed, and close
\* it only after a logon, the session table does what SessionOwner says: a
\* session is AUTHENTICATED exactly while the connection that logged on last is
\* open, over timeouts, unknown sessions and sockets that are destroyed late.
THEOREM TableOwnsSessions ==
    ASSUME Faults = {}
    PROVE  Spec => SessionIsOwned
<1>1. Init => OwnerInv
  BY BalAssumption DEF Init, OwnerInv, IsOpen
<1>2. Init => Owner!Init
  BY DEF Init, Owner!Init, OwnerOf
<1>3. IInv /\ OwnerInv /\ [Next]_vars => OwnerInv' /\ OwnerStep
  BY NextOwner
<1>4. QED
  BY <1>1, <1>2, <1>3, Invariant, PTL DEF Spec, SessionIsOwned, Owner!Spec, OwnerStep
=============================================================================
