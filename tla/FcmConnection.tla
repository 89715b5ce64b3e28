--------------------------- MODULE FcmConnection ---------------------------
(***************************************************************************)
(* The daemon's connections to Firebase Cloud Messaging (FCM): the XMPP    *)
(* handshake, reconnecting, and connection draining                        *)
(* (src/fcmconnection.cpp, and the slots of src/application.cpp that       *)
(* create a connection and choose the one to send on).                     *)
(*                                                                         *)
(* Connections are numbered in the order of their creation; none is ever   *)
(* removed from __fcmConnectionsMap.  FCM answers each step of a handshake *)
(* as soon as it is written; the answer is read some time later.  A read   *)
(* takes one stanza and, where the parser stops early, any number of those *)
(* behind it: how the stream is cut into reads is not known.               *)
(***************************************************************************)
EXTENDS ExponentialBackoff, Sequences, FiniteSets

CONSTANTS
    MaxConns,   \* bound: connections ever created
    MaxWire,    \* bound: stanzas of one connection that are not read yet
    MaxLosses,  \* bound: losses of one connection without a session between
    MaxLost,    \* bound: connections lost and without a session since
    Faults      \* which of FcmFaults may happen

\* "refuse": an attempt to connect fails before there is a connection.
\* "tlsFail": it fails afterwards.  "drop": a connection is lost.  "cut": it
\* is lost inside a tag.  "badKey": FCM refuses the credentials.  "odd": a
\* stanza comes in two reads, or is one the daemon does not know.
\* "redrain": FCM announces the draining of a connection again.
FcmFaults == {"refuse", "tlsFail", "drop", "cut", "badKey", "odd", "redrain"}

ASSUME FcmAssumption ==
    /\ MaxConns \in Nat \ {0}
    /\ MaxWire \in Nat \ {0}
    /\ MaxLosses \in 1 .. MaxSeedVal - 2
    /\ MaxLost \in Nat \ {0}
    /\ Faults \subseteq FcmFaults

Ids == 1 .. MaxConns

Handshake == {"mechanisms", "success", "failure", "bindFeature", "iqResult"}
Stanzas == Handshake \cup {"message", "CONNECTION_DRAINING"}

\* The one shot timers of a connection, by the slot they call.
HandshakeTimers == {"sendAuthenticationInfo", "startNewStream", "sendIQBind"}
Timers == HandshakeTimers \cup {"connectToFirebase"}

VARIABLES
    last,       \* the newest connection, the last of __fcmConnectionsMap
    sock,       \* "none", "connecting", "open" (encrypted), "closed" (lost),
                \* "failed" (the attempt failed: there was no connection)
    state,      \* __state
    draining,   \* connections with __connectionDrainingInProgress
    timers,     \* [Ids -> SUBSET Timers]
    expBoff,    \* __expBoff
    reader,     \* __fcmReader: "ok", "inside" (an element it did not read to
                \* the end), "broken" (a parse error, which is for ever)
    senders,    \* connections whose slot gets Application::sendMessage
    wire,       \* stanzas FCM has sent that are not read
    bound,      \* connections FCM has bound: it sends messages on them
    unsent      \* a downstream message is queued that FCM has not received

vars == <<last, sock, state, draining, timers, expBoff, reader, senders,
          wire, bound, unsent>>

TypeOK ==
    /\ last \in Ids
    /\ sock \in [Ids -> {"none", "connecting", "open", "closed", "failed"}]
    /\ state \in [Ids -> {"UNKNOWN", "AUTHENTICATED"}]
    /\ draining \subseteq Ids
    /\ timers \in [Ids -> SUBSET Timers]
    /\ expBoff \in [Ids -> Backoff]
    /\ reader \in [Ids -> {"ok", "inside", "broken"}]
    /\ senders \subseteq Ids
    /\ wire \in [Ids -> Seq(Stanzas)]
    /\ bound \subseteq Ids
    /\ unsent \in BOOLEAN

\* The state after Application::start: the first connection is on its way.
Init ==
    /\ last = 1
    /\ sock = [i \in Ids |-> IF i = 1 THEN "connecting" ELSE "none"]
    /\ state = [i \in Ids |-> "UNKNOWN"]
    /\ draining = {}
    /\ timers = [i \in Ids |-> {}]
    /\ expBoff = [i \in Ids |-> newBackoff(NO_MAX_RETRY)]
    /\ reader = [i \in Ids |-> "ok"]
    /\ senders = {1}
    /\ wire = [i \in Ids |-> <<>>]
    /\ bound = {}
    /\ unsent \in BOOLEAN
-----------------------------------------------------------------------------
Up(i) == sock[i] = "open" /\ state[i] = "AUTHENTICATED"

\* What sendMessage emits is written by every subscribed connection, in
\* whatever state it is; FCM takes it where a session is established.
Reaches(st) == \E i \in senders : st[i] = "AUTHENTICATED"

setSock(i, v) == sock' = [sock EXCEPT ![i] = v]

addTimer(i, t) == timers' = [timers EXCEPT ![i] = @ \cup {t}]

\* The rest of a read is taken from the wire without being handled:
\* handleOtherElement goes on to the end of what has been read.
swallow(i, s) ==
    \E k \in 1 .. Len(s) + 1 : wire' = [wire EXCEPT ![i] = SubSeq(s, k, Len(s))]
-----------------------------------------------------------------------------
(***************************************************************************)
(* Connecting, and losing a connection.                                    *)
(***************************************************************************)

\* External: timers fire in the order in which they are due.  Those of the
\* handshake take 10 ms and were started before the connection was lost, the
\* reconnect takes more than a second.
reconnectIsDue(i) ==
    /\ "connectToFirebase" \in timers[i]
    /\ timers[i] \cap HandshakeTimers = {}

connectToFirebase(i) ==
    /\ reconnectIsDue(i)
    /\ timers' = [timers EXCEPT ![i] = {}]
    /\ setSock(i, "connecting")
    /\ UNCHANGED <<last, state, draining, expBoff, reader, senders, wire,
                   bound, unsent>>

\* The stream is opened, and FCM offers the ways to authenticate.  Each time
\* readyRead() is connected once more: handleReadyRead runs once for every
\* time the connection was made, and only the first call finds bytes to read.
socketEncrypted(i) ==
    /\ sock[i] = "connecting"
    /\ setSock(i, "open")
    /\ wire' = [wire EXCEPT ![i] = <<"mechanisms">>]
    /\ UNCHANGED <<last, state, draining, timers, expBoff, reader,
                   senders, bound, unsent>>

\* An attempt that fails emits error(), to which nothing is connected.
attemptRefused(i) ==
    /\ "refuse" \in Faults
    /\ sock[i] = "connecting"
    /\ setSock(i, "failed")
    /\ UNCHANGED <<last, state, draining, timers, expBoff, reader,
                   senders, wire, bound, unsent>>

\* Bound: losses without a session between them, of one connection and of
\* different ones.
Lost == {i \in Ids : expBoff[i].seedVal > 2}
MayLose(i) ==
    /\ expBoff[i].seedVal < 2 + MaxLosses
    /\ Cardinality(Lost \cup {i}) <= MaxLost

\* Mutant: a connection that has drained is opened again.
handleDisconnected_always(i) ==
    /\ setSock(i, "closed")
    /\ state' = [state EXCEPT ![i] = "UNKNOWN"]
    /\ addTimer(i, "connectToFirebase")
    /\ expBoff' = [expBoff EXCEPT ![i] = next(@)]
    /\ wire' = [wire EXCEPT ![i] = <<>>]
    /\ bound' = bound \ {i}
    /\ UNCHANGED <<last, draining, senders>>

\* connectionLost and connectionDrainingCompleted are only printed, or ignored.
handleDisconnected(i) ==
    /\ setSock(i, "closed")
    /\ state' = [state EXCEPT ![i] = "UNKNOWN"]
    /\ IF i \in draining
       THEN UNCHANGED <<timers, expBoff>>
       ELSE /\ addTimer(i, "connectToFirebase")
            /\ expBoff' = [expBoff EXCEPT ![i] = next(@)]
    /\ wire' = [wire EXCEPT ![i] = <<>>]
    /\ bound' = bound \ {i}
    /\ UNCHANGED <<last, draining, senders>>

tlsFails(i) ==
    /\ "tlsFail" \in Faults
    /\ sock[i] = "connecting" /\ MayLose(i)
    /\ handleDisconnected(i)
    /\ UNCHANGED <<reader, unsent>>

\* Uploads that FCM has not answered may be lost with the connection, unless
\* the session of a newer connection is established, at which they were sent
\* again.  FCM closes a connection that is draining.  The parser is never
\* reset: a tag that was cut makes everything after it malformed, if there is
\* anything after it.
connectionBreaks(i) ==
    /\ sock[i] = "open" /\ MayLose(i)
    /\ i \in draining \/ "drop" \in Faults
    /\ handleDisconnected(i)
    /\ \E r \in IF "cut" \in Faults /\ i \notin draining THEN {"ok", "broken"} ELSE {"ok"} :
        reader' = [reader EXCEPT ![i] = IF @ = "broken" THEN @ ELSE r]
    /\ \E lost \in IF i # last /\ Up(last) THEN {FALSE} ELSE BOOLEAN :
        unsent' = (unsent \/ lost)
-----------------------------------------------------------------------------
(***************************************************************************)
(* Reading: parseXml and the handlers of the stanzas.                      *)
(***************************************************************************)

parse(i, stanza) ==
    /\ sock[i] = "open" /\ reader[i] = "ok"
    /\ wire[i] # <<>> /\ Head(wire[i]) = stanza

consumed(i) == wire' = [wire EXCEPT ![i] = Tail(@)]

\* Bound: one connection at a time is inside an element.
MayLeave == "odd" \in Faults /\ \A j \in Ids : reader[j] # "inside"

\* A stanza that is handled is read to its end, or its last tags come in the
\* next read.
endsRead(i) ==
    \/ UNCHANGED reader
    \/ MayLeave /\ reader' = [reader EXCEPT ![i] = "inside"]

\* A step of the handshake is answered by a timer of 10 ms, which is started
\* whether the element was complete or not.
startsTimer(i, stanza, t) ==
    /\ parse(i, stanza)
    /\ consumed(i)
    /\ addTimer(i, t)
    /\ endsRead(i)
    /\ UNCHANGED <<last, sock, state, draining, expBoff, senders, bound,
                   unsent>>

readMechanisms(i) == startsTimer(i, "mechanisms", "sendAuthenticationInfo")

handleSaslSuccess(i) == startsTimer(i, "success", "startNewStream")

readBind(i) == startsTimer(i, "bindFeature", "sendIQBind")

\* Reported and no more: the connection stays as it is.
handleSaslFailure(i) ==
    /\ parse(i, "failure")
    /\ swallow(i, Tail(wire[i]))
    /\ endsRead(i)
    /\ UNCHANGED <<last, sock, state, draining, timers, expBoff, senders,
                   bound, unsent>>

\* Mutant: nothing is sent when the session is established.
readJid_noResend(i) ==
    /\ parse(i, "iqResult")
    /\ state' = [state EXCEPT ![i] = "AUTHENTICATED"]
    /\ expBoff' = [expBoff EXCEPT ![i] = reset(@)]
    /\ swallow(i, Tail(wire[i]))
    /\ endsRead(i)
    /\ UNCHANGED <<last, sock, draining, timers, senders, bound, unsent>>

\* The result of the bind.  handleFcmSessionEstablished sends everything that
\* is queued.  readJid leaves its text to the loops around it, which end, so
\* that what came in the same read is lost.
readJid(i) ==
    LET st == [state EXCEPT ![i] = "AUTHENTICATED"]
    IN  /\ parse(i, "iqResult")
        /\ state' = st
        /\ expBoff' = [expBoff EXCEPT ![i] = reset(@)]
        /\ unsent' = (unsent /\ ~Reaches(st))
        /\ swallow(i, Tail(wire[i]))
        /\ endsRead(i)
        /\ UNCHANGED <<last, sock, draining, timers, senders, bound>>

\* An ack, a nack, a receipt or an upstream message: see module Application.
handleFcmMessage(i) ==
    /\ parse(i, "message")
    /\ consumed(i)
    /\ endsRead(i)
    /\ UNCHANGED <<last, sock, state, draining, timers, expBoff, senders,
                   bound, unsent>>

\* Mutant: the connection that announced the draining is unsubscribed.
handleFcmConnectionDrainingStarted_byId(id) ==
    /\ senders' = (senders \ {id}) \cup {last + 1}
    /\ last' = last + 1
    /\ setSock(last + 1, "connecting")

\* The newest connection is unsubscribed from sendMessage, whichever announced
\* the draining, and a new one is made.
handleFcmConnectionDrainingStarted(id) ==
    /\ senders' = (senders \ {last}) \cup {last + 1}
    /\ last' = last + 1
    /\ setSock(last + 1, "connecting")

handleControlMessage(i) ==
    /\ parse(i, "CONNECTION_DRAINING")
    /\ consumed(i)
    /\ draining' = draining \cup {i}
    /\ handleFcmConnectionDrainingStarted(i)
    /\ endsRead(i)
    /\ UNCHANGED <<state, timers, expBoff, bound, unsent>>

\* A stanza that is not handled, nor read to its end: handleStartElement
\* throws, a message is not complete (its JSON does not parse, and it is
\* dropped), or the tag that the handler of the stanza looks for comes in the
\* next read, where handleStartElement throws because it does not know it
\* (mechanisms and bind in the features, jid in the result of the bind).
leavesElement(i) ==
    /\ MayLeave
    /\ \E stanza \in Stanzas \ {"success", "failure"} : parse(i, stanza)
    /\ consumed(i)
    /\ reader' = [reader EXCEPT ![i] = "inside"]
    /\ UNCHANGED <<last, sock, state, draining, timers, expBoff, senders,
                   bound, unsent>>

\* The end of that element ends the loop of parseXml, and the rest of the
\* read is lost.
readRest(i) ==
    /\ sock[i] = "open" /\ reader[i] = "inside"
    /\ reader' = [reader EXCEPT ![i] = "ok"]
    /\ swallow(i, wire[i])
    /\ UNCHANGED <<last, sock, state, draining, timers, expBoff, senders,
                   bound, unsent>>

handleReadyRead(i) ==
    \/ readMechanisms(i)
    \/ handleSaslSuccess(i)
    \/ handleSaslFailure(i)
    \/ readBind(i)
    \/ readJid(i)
    \/ handleFcmMessage(i)
    \/ handleControlMessage(i)
    \/ leavesElement(i)
    \/ readRest(i)
-----------------------------------------------------------------------------
(***************************************************************************)
(* Writing.                                                                *)
(***************************************************************************)

\* A timer of the handshake: what the slot writes is answered if the
\* connection is still there.
writes(i, t, answer) ==
    /\ t \in timers[i]
    /\ timers' = [timers EXCEPT ![i] = @ \ {t}]
    /\ wire' = [wire EXCEPT ![i] = IF sock[i] = "open" THEN Append(@, answer) ELSE @]
    /\ UNCHANGED <<last, sock, state, draining, expBoff, reader, senders,
                   unsent>>

sendAuthenticationInfo(i) ==
    /\ \E answer \in {"success"} \cup (IF "badKey" \in Faults THEN {"failure"} ELSE {}) :
        writes(i, "sendAuthenticationInfo", answer)
    /\ UNCHANGED bound

startNewStream(i) ==
    /\ writes(i, "startNewStream", "bindFeature")
    /\ UNCHANGED bound

sendIQBind(i) ==
    /\ writes(i, "sendIQBind", "iqResult")
    /\ bound' = IF sock[i] = "open" THEN bound \cup {i} ELSE bound

\* Application::uploadToFcm emits sendMessage.
handleSendMessage ==
    /\ unsent' = (unsent \/ ~Reaches(state))
    /\ UNCHANGED <<last, sock, state, draining, timers, expBoff, reader,
                   senders, wire, bound>>

\* FCM sends on a connection that is bound.
Announced == {i \in Ids : \E k \in DOMAIN wire[i] : wire[i][k] = "CONNECTION_DRAINING"}

fcmSends(i, stanza) ==
    /\ i \in bound /\ Len(wire[i]) < MaxWire
    /\ stanza = "CONNECTION_DRAINING" =>
        /\ last < MaxConns /\ Announced = {}
        /\ i \in draining => "redrain" \in Faults
    /\ wire' = [wire EXCEPT ![i] = Append(@, stanza)]
    /\ UNCHANGED <<last, sock, state, draining, timers, expBoff, reader,
                   senders, bound, unsent>>
-----------------------------------------------------------------------------
Attempt(i) == socketEncrypted(i) \/ attemptRefused(i) \/ tlsFails(i)

TimerEnds(i) ==
    connectToFirebase(i) \/ sendAuthenticationInfo(i) \/ startNewStream(i) \/ sendIQBind(i)

ConnNext(i) ==
    \/ Attempt(i)
    \/ TimerEnds(i)
    \/ handleReadyRead(i)
    \/ connectionBreaks(i)
    \/ \E stanza \in Stanzas \ Handshake : fcmSends(i, stanza)

Next == handleSendMessage \/ \E i \in Ids : ConnNext(i)

Spec == Init /\ [][Next]_vars

\* The event loop runs timers and reads what has come; an attempt to connect
\* ends.
Fairness ==
    \A i \in Ids :
        /\ WF_vars(Attempt(i))
        /\ WF_vars(TimerEnds(i))
        /\ WF_vars(handleReadyRead(i))

FairSpec == Spec /\ Fairness
-----------------------------------------------------------------------------
(***************************************************************************)
(* Properties.                                                             *)
(***************************************************************************)

\* What is uploaded is written once and on a connection that lives: exactly
\* the newest connection is subscribed to sendMessage, it is not draining, so
\* that its loss leads to a reconnect, and a session is established on it
\* only while its socket is open (handleFcmConnectionDrainingStarted).
OneLiveSender ==
    /\ senders = {last}
    /\ last \notin draining
    /\ \A i \in Ids : state[i] = "AUTHENTICATED" => sock[i] = "open"

\* Timers agree with the connection: the reconnect timer runs exactly while a
\* connection is lost and has not drained, so that no attempt is made on top
\* of another, and no timer of a handshake is left to write into a session
\* that is established, of this connection or of an earlier one
\* (handleDisconnected, readMechanisms, handleSaslSuccess, readBind).
TimersMatch ==
    \A i \in Ids :
        /\ "connectToFirebase" \in timers[i] <=> sock[i] = "closed" /\ i \notin draining
        /\ Up(i) => timers[i] = {}

\* Without a session between them, the wait after a loss is longer than the
\* wait after the loss before it, whatever the random parts
\* (ExponentialBackoff::next as handleDisconnected uses it).
WaitsGrow ==
    [][\A i \in Ids, d, e \in Deltas :
        "connectToFirebase" \in timers'[i] \ timers[i] =>
            delay(expBoff'[i], d) > delay(expBoff[i], e)]_vars

\* The handshake of i cannot go on: the attempt failed, the parser is in
\* error, or a step of it is missing, because FCM has refused the credentials
\* or the daemon has lost the stanza it has to answer.
Dead(i) ==
    \/ sock[i] = "failed"
    \/ reader[i] = "broken"
    \/ /\ sock[i] = "open" /\ ~Up(i) /\ timers[i] = {}
       /\ \A k \in DOMAIN wire[i] : wire[i][k] \notin Handshake

Steady == <>[][\A i \in Ids : ~connectionBreaks(i) /\ ~tlsFails(i)]_vars

\* Once connections hold, a queued message reaches FCM, over losses in any
\* state of the handshake, draining, stanzas that come in two reads and
\* stanzas that the parser swallows, unless a connection is dead.
UploadedOrDead ==
    Steady => (unsent ~> ~unsent \/ \E i \in Ids \ draining : Dead(i))

\* Once connections hold, a queued message reaches FCM.
Uploaded == Steady => (unsent ~> ~unsent)
=============================================================================
