------------------------ MODULE FcmConnectionProofs -------------------------
(***************************************************************************)
(* For every number of connections and whatever faults there are: uploads  *)
(* go out on exactly one connection, which is not draining, and no timer   *)
(* of a handshake meets the next one.                                      *)
(***************************************************************************)
EXTENDS FcmConnection, TLAPS

\* Connections are made in order, and only older ones drain.
OrderInv ==
    /\ senders = {last}
    /\ \A i \in draining : i < last
    /\ \A i \in Ids : i > last => sock[i] = "none" /\ timers[i] = {}

\* Only an open connection has a session, is bound, or has stanzas to read.
OpenInv ==
    \A i \in Ids : sock[i] # "open" =>
        state[i] # "AUTHENTICATED" /\ i \notin bound /\ wire[i] = <<>>

\* Draining is announced once at a time, and there is room for a connection.
DrainingInv ==
    \A i \in Ids : \A k \in 1 .. Len(wire[i]) :
        wire[i][k] = "CONNECTION_DRAINING" =>
            /\ last < MaxConns
            /\ \A j \in Ids : \A m \in 1 .. Len(wire[j]) :
                 wire[j][m] = "CONNECTION_DRAINING" => j = i /\ m = k

\* A handshake is at one place: one stanza to read, or one timer to fire, or,
\* once there is a session, nothing.
HandshakeInv ==
    \A i \in Ids :
        /\ \A t, u \in timers[i] \cap HandshakeTimers : t = u
        /\ \A k \in 1 .. Len(wire[i]) : wire[i][k] \in Handshake =>
             /\ timers[i] \cap HandshakeTimers = {}
             /\ state[i] # "AUTHENTICATED"
             /\ \A m \in 1 .. Len(wire[i]) : wire[i][m] \in Handshake => m = k

\* No timer is left when an attempt to connect is under way.
TimersInv ==
    /\ TimersMatch
    /\ \A i \in Ids : sock[i] = "connecting" => timers[i] = {}

IInv ==
    /\ TypeOK
    /\ OrderInv
    /\ OpenInv
    /\ DrainingInv
    /\ HandshakeInv
    /\ TimersInv
-----------------------------------------------------------------------------
(***************************************************************************)
(* What is on the wire.                                                    *)
(***************************************************************************)

\* The first d stanzas of i are taken from the wire.
Dropped(i, d) ==
    /\ wire' \in [Ids -> Seq(Stanzas)]
    /\ \A j \in Ids : j # i => wire'[j] = wire[j]
    /\ Len(wire'[i]) = Len(wire[i]) - d
    /\ \A m \in 1 .. Len(wire'[i]) : wire'[i][m] = wire[i][m + d]

LEMMA ConsumedDrops ==
    ASSUME TypeOK, NEW i \in Ids, wire[i] # <<>>, consumed(i)
    PROVE  Dropped(i, 1)
<1> DEFINE w == wire[i]
<1>1. /\ Tail(w) \in Seq(Stanzas) /\ Len(Tail(w)) = Len(w) - 1
      /\ \A m \in 1 .. Len(Tail(w)) : Tail(w)[m] = w[m + 1]
  BY DEF TypeOK
<1>2. QED
  BY <1>1 DEF TypeOK, consumed, Dropped

LEMMA SwallowDrops ==
    ASSUME TypeOK, NEW i \in Ids, swallow(i, wire[i])
    PROVE  \E d \in Nat : Dropped(i, d)
<1> DEFINE w == wire[i]
<1>1. w \in Seq(Stanzas) /\ Len(w) \in Nat
  BY DEF TypeOK
<1>2. PICK k \in 1 .. Len(w) + 1 : wire' = [wire EXCEPT ![i] = SubSeq(w, k, Len(w))]
  BY DEF swallow
<1>3. /\ SubSeq(w, k, Len(w)) \in Seq(Stanzas)
      /\ Len(SubSeq(w, k, Len(w))) = Len(w) - (k - 1)
      /\ \A m \in 1 .. Len(w) - (k - 1) : SubSeq(w, k, Len(w))[m] = w[m + (k - 1)]
  BY <1>1
<1>4. Dropped(i, k - 1)
  BY <1>1, <1>2, <1>3 DEF Dropped, TypeOK
<1>5. QED
  BY <1>4

\* The same behind the stanza that is handled.
LEMMA SwallowTailDrops ==
    ASSUME TypeOK, NEW i \in Ids, wire[i] # <<>>, swallow(i, Tail(wire[i]))
    PROVE  \E d \in Nat \ {0} : Dropped(i, d)
<1> DEFINE w == wire[i]
           v == Tail(wire[i])
<1>1. /\ w \in Seq(Stanzas) /\ v \in Seq(Stanzas) /\ Len(w) \in Nat
      /\ Len(v) = Len(w) - 1 /\ Len(v) \in Nat
      /\ \A m \in 1 .. Len(v) : v[m] = w[m + 1]
  BY DEF TypeOK
<1>2. PICK k \in 1 .. Len(v) + 1 : wire' = [wire EXCEPT ![i] = SubSeq(v, k, Len(v))]
  BY DEF swallow
<1> HIDE DEF v
<1>3. /\ SubSeq(v, k, Len(v)) \in Seq(Stanzas)
      /\ Len(SubSeq(v, k, Len(v))) = Len(v) - (k - 1)
      /\ \A m \in 1 .. Len(v) - (k - 1) : SubSeq(v, k, Len(v))[m] = v[m + (k - 1)]
  BY <1>1
<1>4. ASSUME NEW m \in 1 .. Len(v) - (k - 1)
      PROVE  SubSeq(v, k, Len(v))[m] = w[m + k]
  <2>1. m + (k - 1) \in 1 .. Len(v) /\ (m + (k - 1)) + 1 = m + k
    BY <1>1
  <2>2. v[m + (k - 1)] = w[m + k]
    BY <1>1, <2>1
  <2>3. QED
    BY <1>3, <2>2
<1>5. Dropped(i, k)
  BY <1>1, <1>2, <1>3, <1>4 DEF Dropped, TypeOK
<1>6. QED
  BY <1>5

\* Where stanza m of connection j was before.
At(i, d, j, m) == IF j = i THEN m + d ELSE m

LEMMA DroppedOrigin ==
    ASSUME TypeOK, NEW i \in Ids, NEW d \in Nat, Dropped(i, d)
    PROVE  /\ \A j \in Ids : \A m \in 1 .. Len(wire'[j]) :
                /\ At(i, d, j, m) \in 1 .. Len(wire[j])
                /\ wire'[j][m] = wire[j][At(i, d, j, m)]
           /\ \A j \in Ids : \A m, n \in 1 .. Len(wire'[j]) :
                At(i, d, j, m) = At(i, d, j, n) => m = n
           /\ d > 0 => \A m \in 1 .. Len(wire'[i]) : At(i, d, i, m) # 1
           /\ wire[i] # <<>> => Head(wire[i]) = wire[i][1] /\ 1 \in 1 .. Len(wire[i])
<1>1. \A j \in Ids : Len(wire[j]) \in Nat /\ Len(wire'[j]) \in Nat
  BY DEF TypeOK, Dropped
<1>2. \A j \in Ids : \A m \in 1 .. Len(wire'[j]) :
        /\ At(i, d, j, m) \in 1 .. Len(wire[j])
        /\ wire'[j][m] = wire[j][At(i, d, j, m)]
  BY <1>1 DEF Dropped, At
<1>3. wire[i] # <<>> => Head(wire[i]) = wire[i][1] /\ 1 \in 1 .. Len(wire[i])
  BY <1>1 DEF TypeOK
<1>4. QED
  BY <1>1, <1>2, <1>3 DEF At

LEMMA DroppedDraining ==
    ASSUME TypeOK, DrainingInv, NEW i \in Ids, NEW d \in Nat, Dropped(i, d)
    PROVE  /\ UNCHANGED last => DrainingInv'
           /\ d > 0 /\ wire[i] # <<>> /\ Head(wire[i]) = "CONNECTION_DRAINING" =>
                \A j \in Ids : \A m \in 1 .. Len(wire'[j]) :
                    wire'[j][m] # "CONNECTION_DRAINING"
<1>1. ASSUME NEW j \in Ids, NEW k \in 1 .. Len(wire'[j]),
             wire'[j][k] = "CONNECTION_DRAINING"
      PROVE  last < MaxConns
  <2> DEFINE x == At(i, d, j, k)
  <2>1. x \in 1 .. Len(wire[j]) /\ wire[j][x] = "CONNECTION_DRAINING"
    BY <1>1, DroppedOrigin
  <2>2. QED
    BY <2>1 DEF DrainingInv
<1>2. ASSUME NEW j \in Ids, NEW k \in 1 .. Len(wire'[j]),
             NEW l \in Ids, NEW m \in 1 .. Len(wire'[l]),
             wire'[j][k] = "CONNECTION_DRAINING",
             wire'[l][m] = "CONNECTION_DRAINING"
      PROVE  l = j /\ m = k
  <2> DEFINE x == At(i, d, j, k)
             y == At(i, d, l, m)
  <2>1. /\ x \in 1 .. Len(wire[j]) /\ wire[j][x] = "CONNECTION_DRAINING"
        /\ y \in 1 .. Len(wire[l]) /\ wire[l][y] = "CONNECTION_DRAINING"
    BY <1>2, DroppedOrigin
  <2>2. l = j /\ y = x
    BY <2>1 DEF DrainingInv
  <2>3. QED
    BY <2>2, DroppedOrigin
<1>3. UNCHANGED last => DrainingInv'
  BY <1>1, <1>2 DEF DrainingInv
<1>4. ASSUME d > 0, wire[i] # <<>>, Head(wire[i]) = "CONNECTION_DRAINING",
             NEW j \in Ids, NEW m \in 1 .. Len(wire'[j])
      PROVE  wire'[j][m] # "CONNECTION_DRAINING"
  <2> DEFINE y == At(i, d, j, m)
  <2>1. /\ y \in 1 .. Len(wire[j]) /\ wire'[j][m] = wire[j][y]
        /\ j = i => y # 1
    BY <1>4, DroppedOrigin
  <2>2. 1 \in 1 .. Len(wire[i]) /\ wire[i][1] = "CONNECTION_DRAINING"
    BY <1>4, DroppedOrigin
  <2>3. QED
    BY <2>1, <2>2 DEF DrainingInv
<1>5. QED
  BY <1>3, <1>4

LEMMA DroppedHandshake ==
    ASSUME TypeOK, HandshakeInv, NEW i \in Ids, NEW d \in Nat, Dropped(i, d)
    PROVE  /\ UNCHANGED <<timers, state>> => HandshakeInv'
           /\ d > 0 /\ wire[i] # <<>> /\ Head(wire[i]) \in Handshake =>
                \A m \in 1 .. Len(wire'[i]) : wire'[i][m] \notin Handshake
<1>1. ASSUME NEW j \in Ids, NEW k \in 1 .. Len(wire'[j]), wire'[j][k] \in Handshake
      PROVE  /\ timers[j] \cap HandshakeTimers = {}
             /\ state[j] # "AUTHENTICATED"
             /\ \A m \in 1 .. Len(wire'[j]) : wire'[j][m] \in Handshake => m = k
  <2> DEFINE x == At(i, d, j, k)
  <2>1. x \in 1 .. Len(wire[j]) /\ wire[j][x] \in Handshake
    BY <1>1, DroppedOrigin
  <2>2. timers[j] \cap HandshakeTimers = {} /\ state[j] # "AUTHENTICATED"
    BY <2>1 DEF HandshakeInv
  <2>3. ASSUME NEW m \in 1 .. Len(wire'[j]), wire'[j][m] \in Handshake
        PROVE  m = k
    <3> DEFINE y == At(i, d, j, m)
    <3>1. y \in 1 .. Len(wire[j]) /\ wire[j][y] \in Handshake
      BY <2>3, DroppedOrigin
    <3>2. y = x
      BY <2>1, <3>1 DEF HandshakeInv
    <3>3. QED
      BY <3>2, DroppedOrigin
  <2>4. QED
    BY <2>2, <2>3
<1>2. UNCHANGED <<timers, state>> => HandshakeInv'
  BY <1>1 DEF HandshakeInv
<1>3. ASSUME d > 0, wire[i] # <<>>, Head(wire[i]) \in Handshake,
             NEW m \in 1 .. Len(wire'[i])
      PROVE  wire'[i][m] \notin Handshake
  <2> DEFINE y == At(i, d, i, m)
  <2>1. y \in 1 .. Len(wire[i]) /\ wire'[i][m] = wire[i][y] /\ y # 1
    BY <1>3, DroppedOrigin
  <2>2. 1 \in 1 .. Len(wire[i]) /\ wire[i][1] \in Handshake
    BY <1>3, DroppedOrigin
  <2>3. QED
    BY <2>1, <2>2 DEF HandshakeInv
<1>4. QED
  BY <1>2, <1>3
-----------------------------------------------------------------------------
(***************************************************************************)
(* The steps.                                                              *)
(***************************************************************************)

LEMMA BackoffType ==
    ASSUME NEW b \in Backoff
    PROVE  next(b) \in Backoff /\ reset(b) \in Backoff
<1>1. counted(b) \in Backoff
  <2>1. [b EXCEPT !.retry = 0, !.seedVal = 2] \in Backoff
    BY DEF Backoff
  <2>2. [b EXCEPT !.retry = @ + 1] \in Backoff
    BY DEF Backoff
  <2>3. QED
    BY <2>1, <2>2 DEF counted
<1>2. next(b) \in Backoff
  BY <1>1 DEF Backoff, next
<1>3. reset(b) \in Backoff
  BY DEF Backoff, reset
<1>4. QED
  BY <1>2, <1>3

LEMMA EndsReadType ==
    ASSUME TypeOK, NEW i \in Ids, endsRead(i)
    PROVE  reader' \in [Ids -> {"ok", "inside", "broken"}]
BY DEF TypeOK, endsRead

\* A stanza is read that changes nothing but the parser.
LEMMA DropStep ==
    ASSUME IInv, NEW i \in Ids, NEW d \in Nat, Dropped(i, d), sock[i] = "open",
           UNCHANGED <<last, sock, state, draining, timers, expBoff, senders, bound>>,
           reader' \in [Ids -> {"ok", "inside", "broken"}], unsent' \in BOOLEAN
    PROVE  IInv'
<1>1. TypeOK'
  BY DEF IInv, TypeOK, Dropped
<1>2. OrderInv'
  BY DEF IInv, OrderInv
<1>3. OpenInv'
  BY DEF IInv, OpenInv, Dropped
<1>4. DrainingInv'
  BY DroppedDraining DEF IInv
<1>5. HandshakeInv'
  BY DroppedHandshake DEF IInv
<1>6. TimersInv'
  BY DEF IInv, TimersInv, TimersMatch, Up
<1>7. QED
  BY <1>1, <1>2, <1>3, <1>4, <1>5, <1>6 DEF IInv

\* The timer of the reconnect ends: by then the others have.
LEMMA ConnectStep ==
    ASSUME IInv, NEW i \in Ids, connectToFirebase(i)
    PROVE  IInv'
<1>1. TypeOK'
  BY DEF connectToFirebase, reconnectIsDue, setSock, IInv, TypeOK
<1>2. OrderInv'
  BY DEF connectToFirebase, reconnectIsDue, setSock, IInv, TypeOK, OrderInv, TimersInv,
         TimersMatch
<1>3. OpenInv'
  BY DEF connectToFirebase, reconnectIsDue, setSock, IInv, TypeOK, OpenInv, TimersInv,
         TimersMatch
<1>4. DrainingInv'
  BY DEF connectToFirebase, reconnectIsDue, setSock, IInv, DrainingInv
<1>5. HandshakeInv'
  BY DEF connectToFirebase, reconnectIsDue, setSock, IInv, TypeOK, HandshakeInv
<1>6. TimersInv'
  BY DEF connectToFirebase, reconnectIsDue, setSock, IInv, TypeOK, TimersInv, TimersMatch,
         OpenInv, Up, Timers
<1>7. QED
  BY <1>1, <1>2, <1>3, <1>4, <1>5, <1>6 DEF IInv

LEMMA EncryptedStep ==
    ASSUME IInv, NEW i \in Ids, socketEncrypted(i)
    PROVE  IInv'
<1>1. /\ wire' = [wire EXCEPT ![i] = <<"mechanisms">>]
      /\ <<"mechanisms">> \in Seq(Stanzas) /\ Len(<<"mechanisms">>) = 1
      /\ <<"mechanisms">>[1] = "mechanisms"
  BY DEF socketEncrypted, Stanzas, Handshake
<1>2. TypeOK'
  BY <1>1 DEF socketEncrypted, setSock, IInv, TypeOK
<1>3. OrderInv'
  BY <1>1 DEF socketEncrypted, setSock, IInv, TypeOK, OrderInv
<1>4. OpenInv'
  BY <1>1 DEF socketEncrypted, setSock, IInv, TypeOK, OpenInv
<1>5. DrainingInv'
  BY <1>1 DEF socketEncrypted, setSock, IInv, TypeOK, DrainingInv
<1>6. HandshakeInv'
  BY <1>1
     DEF socketEncrypted, setSock, IInv, TypeOK, HandshakeInv, TimersInv, TimersMatch,
         OpenInv
<1>7. TimersInv'
  BY <1>1 DEF socketEncrypted, setSock, IInv, TypeOK, TimersInv, TimersMatch, OpenInv, Up
<1>8. QED
  BY <1>2, <1>3, <1>4, <1>5, <1>6, <1>7 DEF IInv

LEMMA RefusedStep ==
    ASSUME IInv, NEW i \in Ids, attemptRefused(i)
    PROVE  IInv'
<1>1. TypeOK'
  BY DEF attemptRefused, setSock, IInv, TypeOK
<1>2. OrderInv'
  BY DEF attemptRefused, setSock, IInv, TypeOK, OrderInv
<1>3. OpenInv'
  BY DEF attemptRefused, setSock, IInv, TypeOK, OpenInv
<1>4. DrainingInv'
  BY DEF attemptRefused, setSock, IInv, DrainingInv
<1>5. HandshakeInv'
  BY DEF attemptRefused, setSock, IInv, HandshakeInv
<1>6. TimersInv'
  BY DEF attemptRefused, setSock, IInv, TypeOK, TimersInv, TimersMatch, OpenInv, Up
<1>7. QED
  BY <1>1, <1>2, <1>3, <1>4, <1>5, <1>6 DEF IInv

\* A connection is lost, in whatever state of its handshake it is.
LEMMA DisconnectedStep ==
    ASSUME IInv, NEW i \in Ids, sock[i] \in {"connecting", "open"},
           handleDisconnected(i),
           reader' \in [Ids -> {"ok", "inside", "broken"}], unsent' \in BOOLEAN
    PROVE  IInv'
<1>1. /\ wire' = [wire EXCEPT ![i] = <<>>]
      /\ <<>> \in Seq(Stanzas) /\ Len(<<>>) = 0
  BY DEF handleDisconnected
<1>2. /\ expBoff' \in [Ids -> Backoff]
      /\ timers' \in [Ids -> SUBSET Timers]
  <2>1. next(expBoff[i]) \in Backoff
    BY BackoffType DEF IInv, TypeOK
  <2>2. CASE i \in draining
    BY <2>2 DEF handleDisconnected, IInv, TypeOK
  <2>3. CASE i \notin draining
    <3>1. /\ expBoff' = [expBoff EXCEPT ![i] = next(expBoff[i])]
          /\ timers' = [timers EXCEPT ![i] = @ \cup {"connectToFirebase"}]
      BY <2>3 DEF handleDisconnected, addTimer
    <3>2. QED
      BY <2>1, <3>1 DEF IInv, TypeOK, Timers
  <2>4. QED
    BY <2>2, <2>3
<1>3. TypeOK'
  BY <1>1, <1>2 DEF handleDisconnected, setSock, addTimer, IInv, TypeOK
<1>4. OrderInv'
  BY <1>1 DEF handleDisconnected, setSock, addTimer, IInv, TypeOK, OrderInv
<1>5. OpenInv'
  BY <1>1 DEF handleDisconnected, setSock, addTimer, IInv, TypeOK, OpenInv
<1>6. DrainingInv'
  BY <1>1 DEF handleDisconnected, setSock, addTimer, IInv, TypeOK, DrainingInv
<1>7. HandshakeInv'
  BY <1>1
     DEF handleDisconnected, setSock, addTimer, IInv, TypeOK, HandshakeInv, HandshakeTimers,
         Timers
<1>8. TimersInv'
  BY <1>1
     DEF handleDisconnected, setSock, addTimer, IInv, TypeOK, TimersInv, TimersMatch, Up
<1>9. QED
  BY <1>3, <1>4, <1>5, <1>6, <1>7, <1>8 DEF IInv

\* The handshake moves from a stanza to a timer.
LEMMA StartsTimerStep ==
    ASSUME IInv, NEW i \in Ids, NEW stanza \in Handshake, NEW t \in HandshakeTimers,
           startsTimer(i, stanza, t)
    PROVE  IInv'
<1>1. /\ sock[i] = "open" /\ wire[i] # <<>> /\ Head(wire[i]) \in Handshake
      /\ Dropped(i, 1)
  BY ConsumedDrops DEF startsTimer, parse, IInv
<1>2. timers[i] \cap HandshakeTimers = {} /\ state[i] # "AUTHENTICATED"
  BY <1>1, DroppedOrigin DEF IInv, HandshakeInv
<1>3. \A m \in 1 .. Len(wire'[i]) : wire'[i][m] \notin Handshake
  BY <1>1, DroppedHandshake DEF IInv
<1>4. /\ timers' = [timers EXCEPT ![i] = @ \cup {t}]
      /\ UNCHANGED <<last, sock, state, draining, expBoff, senders, bound, unsent>>
      /\ reader' \in [Ids -> {"ok", "inside", "broken"}]
  BY EndsReadType DEF startsTimer, addTimer, IInv
<1>5. \A j \in Ids : j # i => wire'[j] = wire[j] /\ timers'[j] = timers[j]
  BY <1>1, <1>4 DEF Dropped, IInv, TypeOK
<1>6. timers'[i] = timers[i] \cup {t} /\ t # "connectToFirebase"
  BY <1>4 DEF IInv, TypeOK, HandshakeTimers
<1>7. TypeOK'
  BY <1>1, <1>4 DEF IInv, TypeOK, Dropped, Timers
<1>8. OrderInv'
  BY <1>1, <1>4, <1>5 DEF IInv, OrderInv
<1>9. OpenInv'
  BY <1>1, <1>4, <1>5 DEF IInv, OpenInv
<1>10. DrainingInv'
  BY <1>1, <1>4, DroppedDraining DEF IInv
<1>11. HandshakeInv'
  BY <1>2, <1>3, <1>4, <1>5, <1>6 DEF IInv, HandshakeInv
<1>12. TimersInv'
  BY <1>1, <1>2, <1>4, <1>5, <1>6 DEF IInv, TimersInv, TimersMatch, Up
<1>13. QED
  BY <1>7, <1>8, <1>9, <1>10, <1>11, <1>12 DEF IInv

\* The session is established: the handshake is over and no timer is left.
LEMMA ReadJidStep ==
    ASSUME IInv, NEW i \in Ids, readJid(i)
    PROVE  IInv'
<1>1. /\ sock[i] = "open" /\ wire[i] # <<>> /\ Head(wire[i]) \in Handshake
      /\ swallow(i, Tail(wire[i]))
  BY DEF readJid, parse, Handshake
<1>2. PICK d \in Nat \ {0} : Dropped(i, d)
  BY <1>1, SwallowTailDrops DEF IInv
<1>3. d \in Nat /\ d > 0
  BY <1>2
<1>4. timers[i] \cap HandshakeTimers = {}
  BY <1>1, <1>2, <1>3, DroppedOrigin DEF IInv, HandshakeInv
<1>5. timers[i] = {}
  BY <1>1, <1>4 DEF IInv, TypeOK, TimersInv, TimersMatch, Timers
<1>6. \A m \in 1 .. Len(wire'[i]) : wire'[i][m] \notin Handshake
  BY <1>1, <1>2, <1>3, DroppedHandshake DEF IInv
<1>7. /\ state' = [state EXCEPT ![i] = "AUTHENTICATED"]
      /\ expBoff' = [expBoff EXCEPT ![i] = reset(expBoff[i])]
      /\ unsent' \in BOOLEAN
      /\ UNCHANGED <<last, sock, draining, timers, senders, bound>>
      /\ reader' \in [Ids -> {"ok", "inside", "broken"}]
  BY EndsReadType DEF readJid, IInv, TypeOK
<1>8. expBoff' \in [Ids -> Backoff]
  BY <1>7, BackoffType DEF IInv, TypeOK
<1>9. \A j \in Ids : j # i => wire'[j] = wire[j] /\ state'[j] = state[j]
  BY <1>2, <1>7 DEF Dropped, IInv, TypeOK
<1>10. TypeOK'
  BY <1>2, <1>7, <1>8 DEF IInv, TypeOK, Dropped
<1>11. OrderInv'
  BY <1>7 DEF IInv, OrderInv
<1>12. OpenInv'
  BY <1>1, <1>7, <1>9 DEF IInv, OpenInv
<1>13. DrainingInv'
  BY <1>2, <1>3, <1>7, DroppedDraining DEF IInv
<1>14. HandshakeInv'
  BY <1>6, <1>7, <1>9 DEF IInv, HandshakeInv
<1>15. TimersInv'
  BY <1>5, <1>7, <1>9 DEF IInv, TimersInv, TimersMatch, Up
<1>16. QED
  BY <1>10, <1>11, <1>12, <1>13, <1>14, <1>15 DEF IInv

\* Draining starts: the announcement is used up, and there is room for the
\* new connection, which nothing has touched yet.
LEMMA ControlStep ==
    ASSUME IInv, NEW i \in Ids, handleControlMessage(i)
    PROVE  IInv'
<1>1. /\ sock[i] = "open" /\ wire[i] # <<>> /\ Head(wire[i]) = "CONNECTION_DRAINING"
      /\ Dropped(i, 1)
  BY ConsumedDrops DEF handleControlMessage, parse, IInv
<1>2. last < MaxConns
  BY <1>1, DroppedOrigin DEF IInv, DrainingInv
<1>3. /\ last \in Ids /\ last + 1 \in Ids /\ i <= last
      /\ sock[last + 1] = "none" /\ timers[last + 1] = {}
  BY <1>1, <1>2, FcmAssumption DEF IInv, TypeOK, OrderInv, Ids
<1>4. /\ senders' = (senders \ {last}) \cup {last + 1}
      /\ last' = last + 1
      /\ sock' = [sock EXCEPT ![last + 1] = "connecting"]
      /\ draining' = draining \cup {i}
      /\ UNCHANGED <<state, timers, expBoff, bound, unsent>>
      /\ reader' \in [Ids -> {"ok", "inside", "broken"}]
  BY EndsReadType
     DEF handleControlMessage, handleFcmConnectionDrainingStarted, setSock, IInv
<1>5. \A j \in Ids : \A m \in 1 .. Len(wire'[j]) : wire'[j][m] # "CONNECTION_DRAINING"
  BY <1>1, DroppedDraining DEF IInv
<1>6. \A j \in Ids : j # i => wire'[j] = wire[j]
  BY <1>1 DEF Dropped
<1>7. TypeOK'
  BY <1>1, <1>3, <1>4 DEF IInv, TypeOK, Dropped
<1>8. OrderInv'
  BY <1>3, <1>4, FcmAssumption DEF IInv, TypeOK, OrderInv, Ids
<1>9. OpenInv'
  BY <1>1, <1>3, <1>4, <1>6 DEF IInv, TypeOK, OpenInv
<1>10. DrainingInv'
  BY <1>5 DEF DrainingInv
<1>11. HandshakeInv'
  BY <1>1, <1>4, DroppedHandshake DEF IInv
<1>12. TimersInv'
  BY <1>1, <1>3, <1>4 DEF IInv, TypeOK, TimersInv, TimersMatch, OpenInv, Up
<1>13. QED
  BY <1>7, <1>8, <1>9, <1>10, <1>11, <1>12 DEF IInv

\* The handshake moves from a timer to a stanza, or ends with its connection.
LEMMA WritesStep ==
    ASSUME IInv, NEW i \in Ids, NEW t \in HandshakeTimers, NEW answer \in Handshake,
           writes(i, t, answer),
           bound' = bound \/ (sock[i] = "open" /\ bound' = bound \cup {i})
    PROVE  IInv'
<1> DEFINE w == wire[i]
<1>1. /\ t \in timers[i]
      /\ timers' = [timers EXCEPT ![i] = @ \ {t}]
      /\ wire' = [wire EXCEPT ![i] = IF sock[i] = "open" THEN Append(w, answer) ELSE w]
      /\ UNCHANGED <<last, sock, state, draining, expBoff, reader, senders, unsent>>
  BY DEF writes
<1>2. /\ \A k \in 1 .. Len(w) : w[k] \notin Handshake
      /\ timers'[i] \cap HandshakeTimers = {}
      /\ \A j \in Ids : j # i => wire'[j] = wire[j] /\ timers'[j] = timers[j]
  BY <1>1 DEF IInv, TypeOK, HandshakeInv
<1>3. sock[i] # "connecting" /\ sock[i] # "none" => state[i] # "AUTHENTICATED"
  BY <1>1 DEF IInv, OpenInv, TimersInv, TimersMatch, Up
<1>4. /\ w \in Seq(Stanzas) /\ Len(w) \in Nat /\ answer \in Stanzas
      /\ answer # "CONNECTION_DRAINING"
  BY DEF IInv, TypeOK, Stanzas, Handshake
<1>5. /\ Append(w, answer) \in Seq(Stanzas) /\ Len(Append(w, answer)) = Len(w) + 1
      /\ \A k \in 1 .. Len(w) : Append(w, answer)[k] = w[k]
      /\ Append(w, answer)[Len(w) + 1] = answer
  BY <1>4
<1>6. \A k \in 1 .. Len(wire'[i]) :
        \/ k \in 1 .. Len(w) /\ wire'[i][k] = w[k]
        \/ sock[i] = "open" /\ k = Len(w) + 1 /\ wire'[i][k] = answer
  <2>1. wire'[i] = IF sock[i] = "open" THEN Append(w, answer) ELSE w
    BY <1>1 DEF IInv, TypeOK
  <2> HIDE DEF w
  <2>2. \A k \in 1 .. Len(w) + 1 : k \in 1 .. Len(w) \/ k = Len(w) + 1
    BY <1>4
  <2>3. QED
    BY <1>5, <2>1, <2>2
<1> HIDE DEF w
<1>7. TypeOK'
  BY <1>1, <1>4, <1>5 DEF IInv, TypeOK, w
<1>8. OrderInv'
  BY <1>1, <1>2 DEF IInv, TypeOK, OrderInv
<1>9. OpenInv'
  BY <1>1, <1>2 DEF IInv, TypeOK, OpenInv, w
<1>10. DrainingInv'
  BY <1>1, <1>2, <1>4, <1>6 DEF IInv, DrainingInv, w
<1>11. HandshakeInv'
  BY <1>1, <1>2, <1>3, <1>6 DEF IInv, HandshakeInv
<1>12. TimersInv'
  BY <1>1, <1>2 DEF IInv, TypeOK, TimersInv, TimersMatch, HandshakeTimers, Up
<1>13. QED
  BY <1>7, <1>8, <1>9, <1>10, <1>11, <1>12 DEF IInv

\* FCM sends a message, or announces draining when nothing is announced.
LEMMA FcmSendsStep ==
    ASSUME IInv, NEW i \in Ids, NEW stanza \in Stanzas \ Handshake, fcmSends(i, stanza)
    PROVE  IInv'
<1> DEFINE w == wire[i]
<1>1. /\ sock[i] = "open"
      /\ wire' = [wire EXCEPT ![i] = Append(w, stanza)]
      /\ UNCHANGED <<last, sock, state, draining, timers, expBoff, reader, senders,
                     bound, unsent>>
  BY DEF fcmSends, IInv, OpenInv
<1>2. \A j \in Ids : DOMAIN wire[j] = 1 .. Len(wire[j]) /\ Len(wire[j]) \in Nat
  BY DEF IInv, TypeOK
<1>3. stanza = "CONNECTION_DRAINING" =>
        /\ last < MaxConns
        /\ \A j \in Ids : \A m \in 1 .. Len(wire[j]) : wire[j][m] # "CONNECTION_DRAINING"
  BY <1>2 DEF fcmSends, Announced
<1>4. /\ Append(w, stanza) \in Seq(Stanzas) /\ Len(Append(w, stanza)) = Len(w) + 1
      /\ \A k \in 1 .. Len(w) : Append(w, stanza)[k] = w[k]
      /\ Append(w, stanza)[Len(w) + 1] = stanza
  BY DEF IInv, TypeOK
<1>5. /\ \A j \in Ids : j # i => wire'[j] = wire[j]
      /\ \A k \in 1 .. Len(wire'[i]) :
           \/ k \in 1 .. Len(w) /\ wire'[i][k] = w[k]
           \/ k = Len(w) + 1 /\ wire'[i][k] = stanza
  <2>1. wire'[i] = Append(w, stanza) /\ \A j \in Ids : j # i => wire'[j] = wire[j]
    BY <1>1 DEF IInv, TypeOK
  <2>2. Len(w) \in Nat
    BY <1>2
  <2> HIDE DEF w
  <2>3. \A k \in 1 .. Len(w) + 1 : k \in 1 .. Len(w) \/ k = Len(w) + 1
    BY <2>2
  <2>4. QED
    BY <1>4, <2>1, <2>3
<1> HIDE DEF w
<1>6. TypeOK'
  BY <1>1, <1>4 DEF IInv, TypeOK
<1>7. OrderInv'
  BY <1>1 DEF IInv, OrderInv
<1>8. OpenInv'
  BY <1>1, <1>5 DEF IInv, OpenInv
<1>9. DrainingInv'
  BY <1>1, <1>3, <1>5 DEF IInv, DrainingInv, w
<1>10. HandshakeInv'
  BY <1>1, <1>5 DEF IInv, HandshakeInv, w
<1>11. TimersInv'
  BY <1>1 DEF IInv, TimersInv, TimersMatch, Up
<1>12. QED
  BY <1>6, <1>7, <1>8, <1>9, <1>10, <1>11 DEF IInv

LEMMA ReadStep ==
    ASSUME IInv, NEW i \in Ids, handleReadyRead(i)
    PROVE  IInv'
<1>1. reader \in [Ids -> {"ok", "inside", "broken"}] /\ unsent \in BOOLEAN /\ TypeOK
  BY DEF IInv, TypeOK
<1>2. CASE readMechanisms(i)
  BY <1>2, StartsTimerStep DEF readMechanisms, Handshake, HandshakeTimers
<1>3. CASE handleSaslSuccess(i)
  BY <1>3, StartsTimerStep DEF handleSaslSuccess, Handshake, HandshakeTimers
<1>4. CASE handleSaslFailure(i)
  <2>1. PICK d \in Nat \ {0} : Dropped(i, d)
    BY <1>1, <1>4, SwallowTailDrops DEF handleSaslFailure, parse
  <2>2. QED
    BY <1>1, <1>4, <2>1, EndsReadType, DropStep DEF handleSaslFailure, parse
<1>5. CASE readBind(i)
  BY <1>5, StartsTimerStep DEF readBind, Handshake, HandshakeTimers
<1>6. CASE readJid(i)
  BY <1>6, ReadJidStep
<1>7. CASE handleFcmMessage(i)
  <2>1. Dropped(i, 1)
    BY <1>1, <1>7, ConsumedDrops DEF handleFcmMessage, parse
  <2>2. QED
    BY <1>1, <1>7, <2>1, EndsReadType, DropStep DEF handleFcmMessage, parse
<1>8. CASE handleControlMessage(i)
  BY <1>8, ControlStep
<1>9. CASE leavesElement(i)
  <2>1. Dropped(i, 1) /\ sock[i] = "open"
    BY <1>1, <1>9, ConsumedDrops DEF leavesElement, parse
  <2>2. reader' \in [Ids -> {"ok", "inside", "broken"}]
    BY <1>1, <1>9 DEF leavesElement
  <2>3. QED
    BY <1>1, <1>9, <2>1, <2>2, DropStep DEF leavesElement
<1>10. CASE readRest(i)
  <2>1. PICK d \in Nat : Dropped(i, d)
    BY <1>1, <1>10, SwallowDrops DEF readRest
  <2>2. reader' \in [Ids -> {"ok", "inside", "broken"}]
    BY <1>1, <1>10 DEF readRest
  <2>3. QED
    BY <1>1, <1>10, <2>1, <2>2, DropStep DEF readRest
<1>11. QED
  BY <1>2, <1>3, <1>4, <1>5, <1>6, <1>7, <1>8, <1>9, <1>10 DEF handleReadyRead

LEMMA TimerStep ==
    ASSUME IInv, NEW i \in Ids, TimerEnds(i)
    PROVE  IInv'
<1>1. CASE connectToFirebase(i)
  BY <1>1, ConnectStep
<1>2. CASE sendAuthenticationInfo(i)
  <2>1. PICK answer \in Handshake : writes(i, "sendAuthenticationInfo", answer)
    BY <1>2 DEF sendAuthenticationInfo, Handshake
  <2>2. QED
    BY <1>2, <2>1, WritesStep DEF sendAuthenticationInfo, HandshakeTimers
<1>3. CASE startNewStream(i)
  BY <1>3, WritesStep DEF startNewStream, Handshake, HandshakeTimers
<1>4. CASE sendIQBind(i)
  BY <1>4, WritesStep DEF sendIQBind, Handshake, HandshakeTimers
<1>5. QED
  BY <1>1, <1>2, <1>3, <1>4 DEF TimerEnds

LEMMA BreakStep ==
    ASSUME IInv, NEW i \in Ids, tlsFails(i) \/ connectionBreaks(i)
    PROVE  IInv'
<1>1. reader \in [Ids -> {"ok", "inside", "broken"}] /\ unsent \in BOOLEAN
  BY DEF IInv, TypeOK
<1>2. CASE tlsFails(i)
  BY <1>1, <1>2, DisconnectedStep DEF tlsFails
<1>3. CASE connectionBreaks(i)
  <2>1. PICK r \in {"ok", "broken"} :
          reader' = [reader EXCEPT ![i] = IF @ = "broken" THEN @ ELSE r]
    BY <1>3 DEF connectionBreaks
  <2>2. reader' \in [Ids -> {"ok", "inside", "broken"}]
    BY <1>1, <2>1
  <2>3. unsent' \in BOOLEAN
    BY <1>3 DEF connectionBreaks
  <2>4. QED
    BY <1>3, <2>2, <2>3, DisconnectedStep DEF connectionBreaks
<1>4. QED
  BY <1>2, <1>3

\* Every step, and a stutter.
LEMMA NextStep ==
    ASSUME IInv, [Next]_vars
    PROVE  IInv'
<1>1. ASSUME UNCHANGED <<last, sock, state, draining, timers, expBoff, reader, senders,
                         wire, bound>>,
             unsent' \in BOOLEAN
      PROVE  IInv'
  BY <1>1
     DEF IInv, TypeOK, OrderInv, OpenInv, DrainingInv, HandshakeInv, TimersInv, TimersMatch,
         Up
<1>2. CASE UNCHANGED vars
  BY <1>1, <1>2 DEF vars, IInv, TypeOK
<1>3. CASE handleSendMessage
  BY <1>1, <1>3 DEF handleSendMessage
<1>4. ASSUME NEW i \in Ids, ConnNext(i)
      PROVE  IInv'
  BY <1>4, EncryptedStep, RefusedStep, BreakStep, TimerStep, ReadStep, FcmSendsStep
     DEF ConnNext, Attempt
<1>5. QED
  BY <1>2, <1>3, <1>4 DEF Next

LEMMA Invariant == Spec => []IInv
<1>1. Init => IInv
  <2> SUFFICES ASSUME Init PROVE IInv
    OBVIOUS
  <2>1. newBackoff(NO_MAX_RETRY) \in Backoff
    BY DEF newBackoff, Backoff
  <2>2. 1 \in Ids /\ \A i \in Ids : i \in Nat /\ i >= 1
    BY FcmAssumption DEF Ids
  <2>3. /\ \A i \in Ids : wire[i] = <<>> /\ Len(wire[i]) = 0
        /\ wire \in [Ids -> Seq(Stanzas)]
    BY DEF Init
  <2>4. TypeOK
    BY <2>1, <2>2, <2>3 DEF Init, TypeOK
  <2>5. OrderInv /\ OpenInv
    BY <2>2, <2>3 DEF Init, OrderInv, OpenInv
  <2>6. DrainingInv /\ HandshakeInv
    BY <2>3 DEF Init, DrainingInv, HandshakeInv
  <2>7. TimersInv
    BY DEF Init, TimersInv, TimersMatch, Up
  <2>8. QED
    BY <2>4, <2>5, <2>6, <2>7 DEF IInv
<1>2. IInv /\ [Next]_vars => IInv'
  BY NextStep
<1>3. QED
  BY <1>1, <1>2, PTL DEF Spec
-----------------------------------------------------------------------------
(***************************************************************************)
(* The theorems.                                                           *)
(***************************************************************************)

\* Every connection keeps its types through handshakes, losses and draining;
\* in particular the connection that handleFcmConnectionDrainingStarted makes
\* is always a new one.
THEOREM LinkTypes == Spec => []TypeOK
<1>1. IInv => TypeOK
  BY DEF IInv
<1>2. QED
  BY <1>1, Invariant, PTL

\* handleFcmConnectionDrainingStarted unsubscribes the newest connection,
\* whichever announced the draining: still exactly one connection sends, and
\* it is not one that drains.
THEOREM SendsOnOne == Spec => []OneLiveSender
<1>1. IInv => OneLiveSender
  <2> SUFFICES ASSUME IInv PROVE OneLiveSender
    OBVIOUS
  <2>1. senders = {last} /\ last \notin draining
    BY FcmAssumption DEF IInv, TypeOK, OrderInv, Ids
  <2>2. \A i \in Ids : state[i] = "AUTHENTICATED" => sock[i] = "open"
    BY DEF IInv, OpenInv
  <2>3. QED
    BY <2>1, <2>2 DEF OneLiveSender
<1>2. QED
  BY <1>1, Invariant, PTL

\* handleDisconnected starts a timer that never meets an attempt to connect,
\* and no timer that parseXml started is left when it ends: the connection
\* has one step of one handshake under way.
THEOREM OneHandshake == Spec => []TimersMatch
<1>1. IInv => TimersMatch
  BY DEF IInv, TimersInv
<1>2. QED
  BY <1>1, Invariant, PTL
-----------------------------------------------------------------------------
(***************************************************************************)
(* The waits.                                                              *)
(***************************************************************************)

\* The delays have no retry limit, and are within what an int holds.
BackoffInv ==
    \A i \in Ids :
        /\ expBoff[i].maxRetry = NO_MAX_RETRY
        /\ expBoff[i].seedVal \in 2 .. 2 + MaxLosses

\* What a step does to the backoff of a connection and to its reconnect timer.
Backs(i) ==
    \/ /\ expBoff'[i] \in {expBoff[i], reset(expBoff[i])}
       /\ "connectToFirebase" \notin timers'[i] \ timers[i]
    \/ expBoff'[i] = next(expBoff[i]) /\ MayLose(i)

LEMMA BackoffStep ==
    ASSUME TypeOK, [Next]_vars, NEW i \in Ids
    PROVE  Backs(i)
<1>1. CASE UNCHANGED <<expBoff, timers>>
  BY <1>1 DEF Backs
<1>2. ASSUME NEW j \in Ids, handleDisconnected(j), MayLose(j)
      PROVE  Backs(i)
  <2>1. CASE j \in draining
    BY <1>1, <1>2, <2>1 DEF handleDisconnected
  <2>2. CASE j \notin draining
    BY <1>2, <2>2 DEF handleDisconnected, addTimer, Backs, TypeOK
  <2>3. QED
    BY <2>1, <2>2
<1>3. ASSUME NEW j \in Ids, UNCHANGED expBoff,
             timers' = [timers EXCEPT ![j] = timers'[j]],
             "connectToFirebase" \notin timers'[j] \ timers[j]
      PROVE  Backs(i)
  BY <1>3 DEF Backs, TypeOK
<1>4. ASSUME NEW j \in Ids, Attempt(j)
      PROVE  Backs(i)
  BY <1>1, <1>2, <1>4 DEF Attempt, socketEncrypted, attemptRefused, tlsFails
<1>5. ASSUME NEW j \in Ids, TimerEnds(j)
      PROVE  Backs(i)
  <2>1. UNCHANGED expBoff /\ \E S : timers' = [timers EXCEPT ![j] = timers[j] \ S]
    <3>1. CASE connectToFirebase(j)
      <4>1. timers[j] \ timers[j] = {}
        OBVIOUS
      <4>2. QED
        BY <3>1, <4>1 DEF connectToFirebase
    <3>2. ASSUME NEW t, NEW answer, writes(j, t, answer)
          PROVE  UNCHANGED expBoff /\ \E S : timers' = [timers EXCEPT ![j] = timers[j] \ S]
      BY <3>2 DEF writes
    <3>3. QED
      BY <1>5, <3>1, <3>2 DEF TimerEnds, sendAuthenticationInfo, startNewStream, sendIQBind
  <2>2. timers'[i] \subseteq timers[i]
    BY <2>1 DEF TypeOK
  <2>3. QED
    BY <2>1, <2>2 DEF Backs
<1>6. ASSUME NEW j \in Ids, handleReadyRead(j)
      PROVE  Backs(i)
  <2>1. ASSUME NEW stanza, NEW t \in HandshakeTimers, startsTimer(j, stanza, t)
        PROVE  Backs(i)
    BY <2>1 DEF startsTimer, addTimer, HandshakeTimers, Backs, TypeOK
  <2>2. CASE readJid(j)
    BY <2>2 DEF readJid, Backs, TypeOK
  <2>3. QED
    BY <1>1, <1>6, <2>1, <2>2
       DEF handleReadyRead, readMechanisms, handleSaslSuccess, readBind, HandshakeTimers,
           handleSaslFailure, handleFcmMessage, handleControlMessage, leavesElement, readRest
<1>7. ASSUME NEW j \in Ids, connectionBreaks(j)
      PROVE  Backs(i)
  BY <1>2, <1>7 DEF connectionBreaks
<1>8. QED
  BY <1>1, <1>4, <1>5, <1>6, <1>7 DEF Next, ConnNext, fcmSends, handleSendMessage, vars

LEMMA BackoffBounded == Spec => []BackoffInv
<1>1. Init => BackoffInv
  BY FcmAssumption DEF Init, BackoffInv, newBackoff, MaxSeedVal
<1>2. TypeOK /\ BackoffInv /\ [Next]_vars => BackoffInv'
  <2> SUFFICES ASSUME TypeOK, BackoffInv, [Next]_vars, NEW i \in Ids
               PROVE  /\ expBoff'[i].maxRetry = NO_MAX_RETRY
                      /\ expBoff'[i].seedVal \in 2 .. 2 + MaxLosses
    BY DEF BackoffInv
  <2> DEFINE b == expBoff[i]
  <2>1. b \in Backoff /\ b.maxRetry = NO_MAX_RETRY /\ b.seedVal \in 2 .. 2 + MaxLosses
    BY DEF TypeOK, BackoffInv
  <2>2. expBoff'[i] \in {b, reset(b)} \/ (expBoff'[i] = next(b) /\ b.seedVal < 2 + MaxLosses)
    BY BackoffStep DEF Backs, MayLose
  <2> HIDE DEF b
  <2>3. next(b).maxRetry = NO_MAX_RETRY /\ next(b).seedVal = b.seedVal + 1
    BY <2>1 DEF next, counted, Backoff
  <2>4. reset(b).maxRetry = NO_MAX_RETRY /\ reset(b).seedVal = 2
    BY <2>1 DEF reset, Backoff
  <2>5. QED
    BY <2>1, <2>2, <2>3, <2>4, FcmAssumption DEF MaxSeedVal
<1>3. QED
  BY <1>1, <1>2, LinkTypes, PTL DEF Spec

\* Powers of two as far as the exponent goes.
LEMMA PowersOfTwo ==
    /\ 2 ^ 2 = 4 /\ 2 ^ 3 = 8 /\ 2 ^ 4 = 16 /\ 2 ^ 5 = 32
    /\ 2 ^ 6 = 64 /\ 2 ^ 7 = 128 /\ 2 ^ 8 = 256 /\ 2 ^ 9 = 512
    /\ 2 ^ 10 = 1024 /\ 2 ^ 11 = 2048 /\ 2 ^ 12 = 4096 /\ 2 ^ 13 = 8192
    /\ 2 ^ 14 = 16384 /\ 2 ^ 15 = 32768 /\ 2 ^ 16 = 65536 /\ 2 ^ 17 = 131072
    /\ 2 ^ 18 = 262144 /\ 2 ^ 19 = 524288 /\ 2 ^ 20 = 1048576 /\ 2 ^ 21 = 2097152
    /\ 2 ^ 22 = 4194304 /\ 2 ^ 23 = 8388608
OBVIOUS

LEMMA PowersDouble ==
    ASSUME NEW k \in 2 .. MaxSeedVal
    PROVE  2 ^ k \in Nat /\ 2 ^ k >= 4 /\ 2 ^ (k + 1) = 2 * 2 ^ k
<1>1. k \in {2, 3, 4, 5, 6, 7, 8, 9, 10, 11, 12, 13, 14, 15, 16, 17, 18, 19, 20, 21, 22}
  BY DEF MaxSeedVal
<1>2. CASE k = 2
  BY <1>2, PowersOfTwo
<1>3. CASE k = 3
  BY <1>3, PowersOfTwo
<1>4. CASE k = 4
  BY <1>4, PowersOfTwo
<1>5. CASE k = 5
  BY <1>5, PowersOfTwo
<1>6. CASE k = 6
  BY <1>6, PowersOfTwo
<1>7. CASE k = 7
  BY <1>7, PowersOfTwo
<1>8. CASE k = 8
  BY <1>8, PowersOfTwo
<1>9. CASE k = 9
  BY <1>9, PowersOfTwo
<1>10. CASE k = 10
  BY <1>10, PowersOfTwo
<1>11. CASE k = 11
  BY <1>11, PowersOfTwo
<1>12. CASE k = 12
  BY <1>12, PowersOfTwo
<1>13. CASE k = 13
  BY <1>13, PowersOfTwo
<1>14. CASE k = 14
  BY <1>14, PowersOfTwo
<1>15. CASE k = 15
  BY <1>15, PowersOfTwo
<1>16. CASE k = 16
  BY <1>16, PowersOfTwo
<1>17. CASE k = 17
  BY <1>17, PowersOfTwo
<1>18. CASE k = 18
  BY <1>18, PowersOfTwo
<1>19. CASE k = 19
  BY <1>19, PowersOfTwo
<1>20. CASE k = 20
  BY <1>20, PowersOfTwo
<1>21. CASE k = 21
  BY <1>21, PowersOfTwo
<1>22. CASE k = 22
  BY <1>22, PowersOfTwo
<1>23. QED
  BY <1>1, <1>2, <1>3, <1>4, <1>5, <1>6, <1>7, <1>8, <1>9, <1>10, <1>11, <1>12,
     <1>13, <1>14, <1>15, <1>16, <1>17, <1>18, <1>19, <1>20, <1>21, <1>22

\* The wait grows with the exponent by more than the random part.
LEMMA DelayGrows ==
    ASSUME NEW b \in Backoff, b.maxRetry = NO_MAX_RETRY, b.seedVal \in 2 .. MaxSeedVal - 1,
           NEW d \in Deltas, NEW e \in Deltas
    PROVE  delay(next(b), d) > delay(b, e)
<1> DEFINE k == b.seedVal
           p == 2 ^ k
<1>1. counted(b).seedVal = k
  BY DEF counted, Backoff
<1>2. counted(next(b)).seedVal = k + 1
  BY DEF counted, next, Backoff
<1>3. k \in 2 .. MaxSeedVal /\ p \in Nat /\ p >= 4 /\ 2 ^ (k + 1) = 2 * p
  <2>1. k \in 2 .. MaxSeedVal
    BY DEF MaxSeedVal
  <2>2. QED
    BY <2>1, PowersDouble
<1>4. d \in 100 .. 1000 /\ e \in 100 .. 1000
  BY DeltasAssumption
<1>5. delay(b, e) = ((p - 1) \div 2) * 1000 + e
  BY <1>1 DEF delay
<1>6. delay(next(b), d) = ((2 * p - 1) \div 2) * 1000 + d
  BY <1>2, <1>3 DEF delay
<1> HIDE DEF p, k
<1>7. (2 * p - 1) \div 2 >= ((p - 1) \div 2) + 2
  BY <1>3
<1>8. (2 * p - 1) \div 2 \in Nat /\ (p - 1) \div 2 \in Nat
  BY <1>3
<1>9. QED
  BY <1>4, <1>5, <1>6, <1>7, <1>8

\* ExponentialBackoff::next as handleDisconnected uses it: without a session
\* between two losses the second wait is longer than the first, whatever the
\* random parts are, for every number of connections and of losses for which
\* the delay fits an int.
THEOREM WaitsAlwaysGrow == Spec => WaitsGrow
<1> DEFINE Grows == \A i \in Ids, d, e \in Deltas :
                       "connectToFirebase" \in timers'[i] \ timers[i] =>
                           delay(expBoff'[i], d) > delay(expBoff[i], e)
<1>1. TypeOK /\ BackoffInv /\ [Next]_vars => [Grows]_vars
  <2> SUFFICES ASSUME TypeOK, BackoffInv, [Next]_vars, NEW i \in Ids,
                      NEW d \in Deltas, NEW e \in Deltas,
                      "connectToFirebase" \in timers'[i] \ timers[i]
               PROVE  delay(expBoff'[i], d) > delay(expBoff[i], e)
    OBVIOUS
  <2>1. expBoff'[i] = next(expBoff[i]) /\ expBoff[i].seedVal < 2 + MaxLosses
    BY BackoffStep DEF Backs, MayLose
  <2>2. /\ expBoff[i] \in Backoff /\ expBoff[i].maxRetry = NO_MAX_RETRY
        /\ expBoff[i].seedVal \in 2 .. MaxSeedVal - 1
    <3>1. MaxLosses \in 1 .. 20 /\ MaxSeedVal = 22
      BY FcmAssumption DEF MaxSeedVal
    <3>2. expBoff[i].seedVal \in 2 .. 2 + MaxLosses
      BY DEF BackoffInv
    <3>3. expBoff[i].seedVal \in 2 .. MaxSeedVal - 1
      BY <2>1, <3>1, <3>2
    <3>4. QED
      BY <3>3 DEF TypeOK, BackoffInv
  <2>3. QED
    BY <2>1, <2>2, DelayGrows
<1>2. QED
  BY <1>1, LinkTypes, BackoffBounded, PTL DEF Spec, WaitsGrow
=============================================================================
