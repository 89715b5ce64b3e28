# A TLA+ model of the GIMMM daemon

GIMMM sits between Firebase Cloud Messaging (FCM), which it reaches over XMPP,
and a business application layer process (BAL), which connects to it over TCP.
It stores every message in a Sqlite table, forwards it, and keeps it until the
other side has acknowledged it. This directory models that core, checks it with
TLC and proves part of it with TLAPS.

## Inventory of the system

| Part | State | Operations | Correct when |
|---|---|---|---|
| `Message` (message.h, .cpp) | type, ids, sessions, state, retry counters | two constructors, `getNextRetryTimeout` | a message without a limit is retried for ever |
| `MessageManager`, `Group` (messagemanager.h, .cpp) | queue, FCM id index, group queues, pending count | add, remove, find, `canSendMessage`, `canSendMessageOnReconnect`, `getNext` | the indexes agree with the queue; the window and the group rule are kept |
| `DbConnection` (dbconnection.cpp) | table `messages`, last sequence id | `saveMsg`, `updateMsgState`, `initSequenceId`, `loadPendingMessages` | ids are not reused, outcomes are final, a restart loads what was queued |
| `Application`, messages (application.cpp) | the managers of FCM and of the BAL, timers | one handler per message kind, two resend loops, retry timers | nothing acked is lost, every outcome is reported, every message is resolved in the end |
| `Application`, BAL connections; `BALSession`, `BALConn` | sessions, connections that have not logged on, reference counts | accept, logon, logon timeout, disconnect | a session belongs to the connection that logged on last, while that is open; a logon and its timeout do not both happen; no connection is kept unserved |
| `FcmConnection` (fcmconnection.cpp); the slots of `Application` that create and choose connections | XMPP session state, parser, timers, draining | handshake, reading, reconnect with backoff, draining | a lost connection is replaced; exactly one live connection is sent on |
| `ExponentialBackoff` | retry number, exponent, limit | `next`, `reset` | delays grow until a reset |
| main, signals, config | - | start, shutdown | - |
| sqlite | vendored | - | - |

Messages flow in two directions. A *downstream* message comes from the BAL, is
saved, queued in the manager of session "fcm" and uploaded; FCM answers with an
ack or a nack, and the daemon saves a report for the BAL. An *upstream* message
or a receipt comes from FCM, is saved, (the upstream message) acked to FCM, queued
in the manager of the BAL's session and written to the BAL, which acks it by
sequence id. Everything runs in one Qt event loop; what interleaves are events:
socket data, lost connections, timers (retry, logon), and the death of the
process.

What is hard here: an exception, or the death of the process, between two steps
of a handler; a crash after which only the table is left; acks and answers
that get lost with their connection and messages that come twice because of it;
retry timers that fire for messages that have been resolved since; sockets that
are destroyed some events after they were given up, under descriptors that are
used again; a stream that is cut into reads anywhere; redundant
state (object, row, index, count) that has to agree; and progress, which depends
on somebody looking at the queue again. `PROJECT.json` lists each of these under
"hazards" with its line.

## Modules

| Module | Models |
|---|---|
| `Message` | message objects and their constructors |
| `MessageManager` | `MessageManager` and `Group`, as operators on a record |
| `DbConnection` | the table, its statements, loading a manager |
| `Application` | the messages of the daemon with their environment, FCM and one BAL |
| `DeliveryLedger` | the abstract specification of the table |
| `BalSession` | the connections of the BAL: accepting, logging on, timing out, ending |
| `SessionOwner` | the abstract specification of the session table |
| `ExponentialBackoff` | the delays, as operators on a record |
| `FcmConnection` | the connections to FCM: handshake, reconnecting, draining |
| `MCApplication` | instances for TLC; the symmetry set |
| `ApplicationProofs` | type correctness and the soundness of the managers |
| `TableProofs` | the table against the queues, and against `DeliveryLedger` |
| `WindowProofs` | the count of the FCM manager against its queue |
| `DeliveryProofs` | what a step does to one row; delivery, acks to FCM, reports |
| `GroupOrderProofs` | the order of a group |
| `BalSessionProofs` | logons and timeouts; the refinement of `SessionOwner` |
| `FcmConnectionProofs` | one connection sends; timers and handshakes; growing waits |

`Application` takes a session with FCM and a session of the BAL as something that
is up or down. `FcmConnection` and `BalSession` look inside these: they model the
connections, and of the messages only whether some are waiting (`unsent`, `held`).
`FcmConnection` extends `ExponentialBackoff`. "Fairness" says how the two
views fit together.

### State of Application

| Variable | Code |
|---|---|
| `sequenceId`, `db` | `DbConnection::__sequenceId`, table `messages`; a row in state UNKNOWN does not exist |
| `obj` | the `Message` objects, shared by queues, groups and timers |
| `fcmMgr`, `balMgr` | `__fcmMsgManager`, the manager of the session in `__balSessionMap` |
| `fcmUp`, `balAuth` | session with FCM established; BAL session AUTHENTICATED |
| `fcmSplit` | `FcmConnection` has dropped a message of FCM on the present connection |
| `fcmInbox` | copies of each FCM id that FCM has received and not answered |
| `fcmOutbox` | an upstream message or receipt is "ready" to be handed over, "sent" (and will be sent again on the next connection) or "done" |
| `fcmTimers`, `balTimers`, `logonTimers` | `QTimer::singleShot` callbacks that are due |
| `balInbox` | sequence ids the BAL has and will ack |
| `loop` | the resend loop that runs, with the ids it has still to visit |

### Actions of Application

A handler runs to its end before the next event, so it is one action, with its
exceptions as disjuncts. The exceptions are those of the database (`dbFail`), of
lookups that find nothing, and of a BAL session that does not exist. The two
resend loops visit a whole queue; they are one action per iteration, and while
one runs no other handler does (`Idle`), only the link to FCM may break. An
exception in the downstream loop is caught by `FcmConnection::handleReadyRead`
and ends the loop; in the upstream loop nobody catches it and the process
terminates, after which only `start` is possible. Removing a message inside the
range-for over the same map is undefined behaviour: `afterErase` lets the loop go
on with any part of what was left, or the process die.

`start` is a crash between two events, or a restart after one inside a handler.
Sqlite commits every statement by itself, so a handler of several statements can end
between two of them: `fails` stands for a statement that throws (`dbFail`) or for a
process that dies before it (`crash`), `dies` for the latter alone, and `ends` lets
the process die after what the handler did. A process that has died only restarts;
what it had in memory is not used again. So a crash between the UPDATE of an outcome
(application.cpp:457) and the INSERT of its report (:488) is part of every run with
`crash`. `Loaded` drops the group id as the load callback does, and an object that
was loaded has an undefined retry limit: `uninit` lets the limit test go either way.

The environment is modelled by what the code relies on. FCM answers an upload with
an ack or a nack; when a connection is lost, it forgets the uploads it has not
answered and hands over again the upstream messages that were not acked. A receipt
is handed over once. `messageDropped` is the message that `FcmConnection` drops with
the connection up: its JSON comes in two reads and does not parse
(fcmconnection.cpp:471), or `handleOtherElement` goes over it. FCM has given its
answer then, and nothing uploads the message again before the next connection. A BAL
acks what it has received, on this connection or a later one, and uses an FCM id
once unless `dupIds` is among the faults.

### Abstractions and bounds

Payloads, logging, timestamps and delays are left out: a timer that is due may
fire at any time. There is one BAL session, as in `readConfigFile`. Ids are model
values. `MaxSeqId` bounds the sequence ids; so that the bound does not cut off an
answer, a new message is admitted only while every queued downstream message
still has an id left for its report (`RoomFor`). Counts of copies and of timers
saturate at `MaxCopies` and `MaxTimers`: a further copy of an upload, or a further
timer of one message, changes nothing the daemon sees but the number of
repetitions. `IntMax` stands for 2^31 - 1: `toInt` turns a greater sequence id in
an ack into 0, so beyond it acks resolve nothing. `Upstream` goes beyond it, to
show that such an ack does no harm (`DeliveredWasReceived`: it never resolves another
message); the other runs stay below. Messages whose category is "fcm" and
what is written to FCM during a handshake (treated as lost) are left out.
`Faults` chooses what may go wrong in a run.

### BalSession

| Variable | Code |
|---|---|
| `sock`, `fd` | state and `socketDescriptor()` of the `QTcpSocket` of a connection |
| `sid`, `blocked` | its property "session_id"; `blockSignals` |
| `timer` | the 10 s logon timer with its callback, which holds the `BALConn` |
| `mapU` | `__balSessionMapU` |
| `conn`, `state` | `BALSession::__balConn`, `__state` |
| `resend` | the timer that calls `resendPendingUpstreamMessages` 1 s after a logon |
| `held` | the session has messages that were not written |

One action per slot, and `destroy` for the event loop that runs `deleteLater()`. A
`BALConn` is destroyed when the map, the session and the timer's callback have let
go of it (`Referenced`). What the model takes from Qt: in the slot of `disconnected()`
the descriptor is already -1; a socket that is destroyed while it is open emits
`disconnected()`; a single-shot timer whose context is deleted does not call, but
keeps its callback until it is due; a descriptor is free for a new socket as soon
as the old one is closed.

Because the descriptor is -1, case I of `handleBALSocketDisconnected` is never taken:
a connection that ends before it logs on keeps its entry until its timeout, which
cannot find it either, so that the entry stays until a later connection gets the
same descriptor. `emplace` then keeps the old entry, and the logon of the new
connection gives the session the dead one. `BalFaulty` shows that the daemon
recovers from this, because the new connection times out and its client connects
again.

Bounds: `Conns` is the number of connections that exist at one time. A connection
that ends early is held by its stale entry, so it may end so only while another
name is free (`RoomToLeak`). Two resend timers of one session are one.

### FcmConnection

| Variable | Code |
|---|---|
| `last`, `senders` | the last entry of `__fcmConnectionsMap`; connections with the slot of `Application::sendMessage` |
| `sock` | the `QSslSocket`: connecting, open, closed after a connection, failed without one |
| `state`, `draining`, `expBoff` | `__state`, `__connectionDrainingInProgress`, `__expBoff` |
| `timers` | single-shot timers by the slot they call |
| `reader` | `__fcmReader`: between stanzas, inside one, or in error |
| `wire`, `bound` | what FCM has sent and the daemon has not read; whether FCM has bound the stream |
| `unsent` | a downstream message is queued that FCM has not received |

Reading takes one stanza per action. Where the parser stops early (after the bind
result, whose text `readJid` does not read, after a SASL failure, and after an
element that was left half read) `handleOtherElement` goes through the rest of the
read without handling it: `swallow` lets it take any number of the stanzas that
follow. Every stanza may come in two reads. If the handler had what it needs, it has
run, and only the last tags come later (`endsRead`). If not, the stanza is lost
(`leavesElement`): a message does not parse as JSON, and in a stanza of the
handshake the tag the handler looks for (`mechanisms`, `bind`, `jid`) comes in the
second read, where nobody knows it. The parser is never reset, so a connection that
breaks inside a tag leaves it in error for all later connections of the same object.
FCM's stream header is taken to come without an XML declaration, as its
documentation shows; with one, every second stream would be malformed. What the
model takes from Qt: an attempt that fails before there is a connection emits
`error()` and not `disconnected()`; one that fails in TLS emits `disconnected()`;
and timers fire in the order in which they are due, so that the 10 ms timers of a
handshake come before the reconnect, which takes more than a second
(`reconnectIsDue`). `socketEncrypted` connects `readyRead()` again at each
reconnect, so that `handleReadyRead` runs several times for one read; the later
calls find nothing to read, and the model has one.

A message that is written on a connection without a session is lost; when a session
is established everything queued is sent again (`Application` has the details).
Bounds: `MaxConns` connections ever, `MaxWire` stanzas that are not read,
`MaxLosses` losses of one connection without a session between them, `MaxLost`
connections that are lost and without a session since, and one connection at a time
inside an element (`MayLeave`). `FcmAssumption` keeps the delay inside an `int`:
from an exponent of 23 on (22 losses in a row, some 50 days of waiting) `r * 1000`
overflows.

## Runs

Passing runs (module `MCApplication`, `BalSession` or `FcmConnection`):

| Run | Shows |
|---|---|
| `DownstreamCrash` | types; the queues are what a restart would load (`QueuesArePendingRows`); the count never exceeds what is pending (`FcmCountNeverOver`); no report to the BAL is false (`ReportsAreTrue`); the table implements `DeliveryLedger`. Crashes between and inside handlers, nacks, dropped answers, failing statements, undefined retry limits |
| `Upstream` | an upstream message acked to FCM is delivered or queued (`AckedUpstreamIsKept`), and `QueuesArePendingRows` for the BAL's queue; a row becomes DELIVERED only for a message the BAL has (`DeliveredWasReceived`). Crashes between and inside handlers, failing statements, lost acks, dropped messages, a BAL that comes and goes and acks late |
| `Uninitialised` | the indexes of the managers stay sound (`ManagersSound`) with a group, reused ids, failing statements and loads, and undefined retry limits |
| `Groups` | a group goes out in order, below the window and without a restart (`StrictGroupOrder`), and each outcome has a later row that reports it to the sender (`OutcomesReported`). Nacks, lost connections and dropped answers. With `crash` or `dbFail` a report can be lost: the outcome is stored before the report is |
| `DownstreamLive` | every downstream message is resolved (`DownstreamResolved`), also when it waits for a slot of the window or behind its group, once daemon and connection stay up and no answer is dropped on that connection. Crashes (which lose the connection too), nacks and dropped answers before that |
| `UpstreamLive` | every upstream message is delivered (`UpstreamDelivered`), once daemon and BAL stay up and the count of the BAL's manager leaves a slot open. Crashes, also inside handlers, and a BAL that comes and goes |
| `BalOwner` | with clients that connect again when their connection has closed, the session table implements `SessionOwner` (`SessionIsOwned`), over logons that race the timeout and unknown sessions |
| `BalFaulty` | with connections that end early, and second logons: a session's open connection is past its timeout and heard (`AcceptedIsSafe`); an open connection is in the map only under its own descriptor, and while there is any entry under it, its own or a stale one, its timeout is ahead (`EntryTimesOut`); no connection stays open unserved (`NoOrphan`); what is held is written, or the session is stranded by a second logon (`HeldOrStranded`) |
| `FcmLink` | under all faults: uploads go out on exactly one connection, the newest, which will be replaced when it is lost (`OneLiveSender`); reconnect timers run exactly when they should and no timer of a handshake is left in a session (`TimersMatch`); waits grow (`WaitsGrow`); what is queued reaches FCM unless a connection is dead (`UploadedOrDead`) |

Two messages and a window of one are enough for a message to wait for a slot, a
message to wait behind its group, and a retry to race an answer; `Groups` uses
three, so that the next message to send is a choice. One upstream message is enough
in `Upstream`, since FCM sends it again, under new sequence ids, whenever its ack is
lost. `QueuesArePendingRows` and `AckedUpstreamIsKept` on the upstream side are
checked without `uninit`; with it they fail, see below. The progress runs are
checked without `uninit` too, which lets a message be given up without the peer.
Three names of connections and two descriptors let one connection be closed and
still held, a second be open and a third connect under the descriptor of the first.
Three connections to FCM are enough for draining to be announced a second time on an
old one, and two losses without a session
between them are enough for a wait to be compared with the next; that two connections
wait at a time is left to the proofs (`MaxLost`). Deadlock is checked except
in the runs that end with all ids used up.

Runs that TLC refutes, each a disagreement of the code with what a comment or
the repository's README says (`PROJECT.json`, "findings"):

| Run | Disagreement |
|---|---|
| `FlowControl` | the message sent when a slot opens is not counted, so more than the limit are unanswered |
| `BalTakeover` | a second logon replaces an open connection; when the old socket is destroyed, the slot marks the session, which has a new connection, UNAUTHENTICATED, and nothing is forwarded any more. Without second logons `HeldIsForwarded` holds |
| `FcmRefused` | when an attempt to connect is refused, the first one or one after a loss, there is no further attempt |

Further disagreements that the model shows, with the change to a configuration
that makes TLC find them:

* A restart drops group ids (dbconnection.cpp:98) and a group goes out at once:
  `Groups.cfg` with "crash" among the faults.
* With the window full a reconnect starts a retry timer per message, which ignores
  the group (application.cpp:1363): `Groups.cfg` with `MAX_PENDING_MESSAGES = 1`.
* After a logon messages are counted whose ack does not give the slot back
  (application.cpp:1293), until the window stays closed. `UpstreamDelivered` has the
  open slot as a premise. A crash between the INSERT of an upstream message and its
  UPDATE has the same effect after the restart.
* A message loaded after a restart may be given up at its first retry, because
  the default constructor leaves the retry counters uninitialised (message.cpp:5):
  `Upstream.cfg` with three `UpIds`, `MaxSeqId = 4` and the faults "crash" and "uninit".
* A crash between the outcome of a message and its report (application.cpp:457, 488)
  leaves an outcome that is never reported: `Groups.cfg` with "crash" among the faults.
* An answer that comes in two reads is dropped and its message stays PENDING_ACK, with
  its slot, while the connection is up (fcmconnection.cpp:471).
* The report of a failed upload is stored as PENDING_ACK and not queued, and what
  is written instead of it carries no sequence id (application.cpp:800): it
  stays PENDING_ACK for ever.

### Fairness

`DownstreamFairness` and `UpstreamFairness` assume that the event loop runs (a
running loop goes on, due timers fire: weak fairness for the loops, strong for
timers, because a running loop disables them), that `FcmConnection` and the BAL
connect again after a loss, that FCM acks an id that is uploaded again and again,
and that the BAL acks what it receives. The last two are assumptions on the peers.
The premises of the two properties are what the code does not provide: that the
connection stays up in the end (`fcmUp`, `balAuth`); that the process does (`Alive`:
nothing in the code starts it again, so no fairness is assumed of `start`); for
`DownstreamResolved`, that `FcmConnection` drops no answer on the last connection
(`~ fcmSplit`: such a message waits for the next connection); and for
`UpstreamDelivered`, that the count of the BAL's manager, which drifts upwards, leaves
a slot open. That `FcmConnection` reconnects and that the BAL's session comes back
is what the two other modules look at.

`BalSession!Fairness`: due timers fire and what is to be deleted is destroyed (weak),
and a client that has no connection connects, and logs on in time, if it has the
chance again and again (strong; the client's part). A client that has an open
connection is not assumed to do anything, which is what strands it in
`BalTakeover`. `HeldIsForwarded` and `HeldOrStranded` are about behaviours in which
connections stay open in the end.

`FcmConnection!Fairness`: attempts to connect end, due timers fire, what has come is
read. Nothing is assumed of FCM but that it answers the steps of a handshake on a
connection that stands. `Uploaded` and `UploadedOrDead` are about behaviours in which
established connections hold in the end (`Steady`); attempts may still be refused.

So the assumption of `Application` that a session with FCM is established again
holds except for a refused attempt, a parser in error, refused credentials, and a
stanza of the handshake that was lost because it came in two reads (`Dead`); and the
one that the BAL is logged on again holds except after a second logon.

## Proofs

`ApplicationProofs` proves, for every value of the constants,

* `TypeCorrect`: `Spec => []TypeOK`. `TypeOK` is inductive. Each action has a
  lemma; the operators of `MessageManager` and `DbConnection` have lemmas of their
  own (`AddType`, `RemoveType`, `LoadType`, ...).
* `IndexesAgree`: `Spec => []ManagersSound`, under all faults. `ManagersSound` is
  inductive relative to `TypeOK`: besides the agreement of the indexes it says
  that no queued id is greater than `sequenceId`, which is what makes the id of a
  new message fresh, so that writing its object does not disturb the indexes of
  either manager.

`TableProofs` proves

* `QueuesAreDurable`: `Spec => []QueuesArePendingRows`, if neither `uninit` nor
  `loadFail` is among the faults. When the query of the pending rows fails, the
  daemon goes on with a part of its queue, and the property is false.
* `TableImplementsLedger`: `Spec => TableIsLedger`, the refinement of
  `DeliveryLedger` with `LedgerOf(db)` for the ledger, if `uninit` is not among
  the faults. (With it, giving up removes by FCM id; when two messages share an
  id the wrong one leaves the queue, and a row that has failed may be delivered
  later. Without shared ids TLC finds no violation: run `DownstreamCrash`.)

Neither property is inductive. `TableInv` adds that no row is above `sequenceId`
(so that an insert overwrites nothing, and is fresh to the ledger), that the
object of a queued message is not resolved and has the source of its row (so that
a report never goes back to FCM, and a resend loop never drops a message as being
in a bad state), and that a running resend loop only has queued messages left (so
that marking one does not revive a resolved row). The steps are then compositions
of a few moves on table and queues, each with a lemma: an id is skipped, a row is
inserted, a queued message is resolved, or marked (`SkipQueued`, `InsertQueued`,
`ResolveQueued`, `MarkQueued`), and the same for the ledger (`InsertLedger`,
`ResolveLedger`, `MarkLedger`); `MovesImplement` turns such a move into a step of
`DeliveryLedger`.

`WindowProofs` proves `WindowNotBlocked`: `Spec => []FcmCountNeverOver`, under all
faults. `FcmCountNeverOver` is inductive relative to `TypeOK` and `ManagersSound`: a
new message is counted only when its object is marked in the same step, objects of
queued messages never change, and a removal gives back exactly the slot of a marked
message. It can only err downwards (the message that `sendNextPendingDownstreamMessage`
uploads is not counted, which is what `FlowControl` shows).

`DeliveryProofs` rests on one lemma about every step under all faults, `NextRows`: a
row is inserted under `sequenceId + 1`, or keeps its type, ids and sessions and
changes its state in one of four ways (`OldRow`), each with its reason: the BAL has
the message, it is queued for FCM, which has answered it, a running resend loop
writes it, or it is given up.
From it follow

* `OnlyReceivedIsDelivered`: `Spec => DeliveredWasReceived`, under all faults, with
  the invariant that what is queued for FCM is addressed to FCM (`FcmRows`).
* `AckedIsKept`: `Spec => []AckedUpstreamIsKept`, if neither `uninit` nor `loadFail`
  is among the faults. `UpstreamKept` says it of the rows alone; that a pending row
  is queued comes from `TableInv`. With `loadFail` it is false: the daemon goes on
  without the row.
* `ReportsStayTrue`: `Spec => []ReportsAreTrue`, if `uninit` is not among the faults.
  It holds wherever the process dies in a handler and whichever statement fails,
  because the outcome is stored before its report and is final (`TableInv`: a resolved
  row is not queued). `ReportInv` adds that what is queued for FCM is a downstream
  message and that the object a report is made from has the FCM id of its row. The
  converse, `OutcomesReported`, is false with `crash` and with `dbFail`; it is only
  model-checked, without them.

`GroupOrderProofs` proves

* `GroupsInOrder`: `Spec /\ []WindowOpen => []StrictGroupOrder` for faults among
  `fcmDrop`, `balDrop`, `split`, `nack` and `noLogon` (`NoRestart`). The other
  faults are excluded because a restart drops the groups (`crash`, and `dbFail`,
  which ends the process in the upstream resend loop), because a pending message may
  miss from the queue (`loadFail`, `uninit`), or because an answer may be for
  another message (`dupIds`). `WindowOpen` is needed because a resend loop that
  finds the window full starts a timer that does not ask for the group. Run `Groups`
  checks an instance in which it always holds.

`StrictGroupOrder` is not inductive: a timer may upload a message later. `GroupInv`
says the same of messages that have a timer (`Sent`), and adds that rows and objects
agree on FCM id and group (`RowsAgree`), that FCM ids are unique (`OneId`) and that
what is on its way or has a timer was saved (`OnlySaved`), so that an id on the wire
leads back to one message. Every handler either repeats what was sent before or
sends the first queued message of a group (`SendsInOrder`); as every pending row is
queued, the earlier ones are resolved.

`BalSessionProofs` proves, for any number of connections, descriptors and sessions,

* `ConnectionTypes`, `AcceptedStaysSafe` and `EntriesTimeOut`: `Spec => []TypeOK`,
  `Spec => []AcceptedIsSafe` and `Spec => []EntryTimesOut`, under all faults. The
  inductive invariant adds that descriptors are unique and a socket has one exactly
  while it is open (`DescriptorInv`), that a connection that does not exist is
  named nowhere (`NoneInv`), and that a connection is in the map once or belongs to
  one session (`OnePlaceInv`). The last is what a logon keeps when it gives the
  session the connection of a stale entry.
* `TableOwnsSessions`: `Spec => SessionIsOwned`, the refinement of `SessionOwner`,
  if `Faults = {}`. `OwnerInv` adds that without early ends the map has open
  connections only, so that a logon finds the connection it came on, and that a
  socket with a session id is the session's own, so that the slot of
  `disconnected()` ends the right session. Run `BalTakeover` shows that the
  condition is needed.

`FcmConnectionProofs` proves, for any number of connections and under all faults,
`LinkTypes`, `SendsOnOne` and `OneHandshake`: `Spec => []TypeOK`, `Spec =>
[]OneLiveSender` and `Spec => []TimersMatch`, and `WaitsAlwaysGrow`: `Spec =>
WaitsGrow`. The inductive invariant has five more parts: connections are made in
order and only older ones drain (`OrderInv`); a session, a bound stream and unread
stanzas exist on open sockets only (`OpenInv`); draining is announced once at a
time, with room for a new connection (`DrainingInv`, which follows the bound in
`fcmSends`); and a handshake is at one place, a stanza or a timer (`HandshakeInv`),
which is why no timer is left when the session is established; and none is left when
an attempt starts (`TimersInv`, which rests on `reconnectIsDue`). How the parser
takes stanzas from the wire is put into one notion, `Dropped`, with lemmas on what
it does to the invariants. `WaitsAlwaysGrow` needs that the exponent of the backoff
stays below 23 (`BackoffInv`), and compares the powers of two one exponent at a
time.

The proofs use the assumptions `MessageAssumption`, `MaxPendingAssumption`,
`ApplicationAssumption`, `BalAssumption` and `FcmAssumption`: ids of different kinds
differ, reserved names are not ids, and bounds are positive. Only model-checked are
liveness (`DownstreamResolved`, `UpstreamDelivered`, `NoOrphan`, `HeldOrStranded`,
`UploadedOrDead`), which is outside TLAPS's reach under fairness,
`OutcomesReported`, and what `First` and the loops compute on concrete queues. The
inductive invariants were checked with TLC on the instances of the runs before they
were proved.

## Plan

All components with state of their own are modelled, and every safety property of
a passing run but `OutcomesReported` is stated by a theorem. What is left:

1. `QueuesArePendingRows` for the FCM queue and `TableIsLedger` with `uninit` but
   without `dupIds`, where TLC finds no violation.
2. `OutcomesReported` without `crash` and `dbFail`.
3. The safety facts behind `DownstreamResolved`: a pending message is on its way, has
   a timer, or waits for one that is.

## Not modelled

Config.ini and start-up, signals and shutdown (to the table a crash
like any other), logging macros, the unit tests, and sqlite, which is vendored
and modelled by how `DbConnection` uses it.
`BALSession::disconnectFromHost` has no caller, and the destructor of `FcmConnection`
runs only when the daemon ends. Of `FcmConnection` and `BalSession` the contents of
messages are left out, which `Application` has. On a draining connection the acks of
upstream messages go out on the newest connection (the README of the repository lists
it as an open issue); whether FCM accepts them there is not part of the model.

The map covers about half of the daemon's own lines (src/*.cpp, src/*.h); the rest
is mostly comments, printing, and the parts named here. Nearly all lines under src/
are those of the vendored sqlite.
