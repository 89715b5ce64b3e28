---------------------------- MODULE Application ----------------------------
(***************************************************************************)
(* The GIMMM daemon (src/application.cpp) between Firebase Cloud Messaging *)
(* (FCM) and one business application layer process (BAL).                 *)
(*                                                                         *)
(* Downstream messages come from the BAL, are saved, queued in the manager *)
(* of session "fcm" and uploaded to FCM, which answers each upload with an *)
(* ack or a nack.  Upstream messages, receipts, and the daemon's reports   *)
(* on downstream messages are saved, queued in the manager of the BAL's    *)
(* session and written to the BAL, which acks each by sequence id.         *)
(*                                                                         *)
(* The daemon is one Qt event loop: a handler runs to its end before the   *)
(* next event, so a handler is one action.  The two resend loops go        *)
(* through a whole queue and are one action per iteration; "loop" says     *)
(* which of them is running, and every other handler waits until it ends.  *)
(***************************************************************************)
EXTENDS DbConnection, FiniteSets

CONSTANTS
    StrangerIds,\* messages from FCM whose category is not in config.ini
    Faults,     \* which of AllFaults the environment may commit
    MaxCopies,  \* bound: copies of one FCM id that await an answer
    MaxTimers,  \* bound: retry timers of one message, and logon timers
    IntMax      \* the greatest number QJsonValue::toInt returns

\* "crash": the process dies, between two handlers or inside one, and is
\* started again.  "fcmDrop", "balDrop": a connection is lost.  "split": FCM
\* sends a message that FcmConnection drops.  "dbFail": an INSERT or UPDATE
\* fails.  "loadFail": the SELECT of the pending rows fails.  "nack": FCM
\* answers with a nack.
\* "uninit": an uninitialised retry counter may read as exhausted.  "dupIds":
\* the BAL uses an FCM id again.  "noLogon": a BAL sends a downstream message
\* on a connection that has not logged on.
AllFaults ==
    {"crash", "fcmDrop", "balDrop", "split", "dbFail", "loadFail", "nack",
     "uninit", "dupIds", "noLogon"}

ASSUME ApplicationAssumption ==
    /\ StrangerIds \subseteq UpIds \cup RcptIds
    /\ Faults \subseteq AllFaults
    /\ MaxCopies \in Nat \ {0}
    /\ MaxTimers \in Nat \ {0}
    /\ IntMax \in Nat

VARIABLES
    sequenceId, \* DbConnection::__sequenceId, the last id handed out
    db,         \* the table "messages", the only state that survives a crash
    obj,        \* the message objects, by sequence id
    fcmMgr,     \* __fcmMsgManager
    balMgr,     \* the message manager of the BAL's session
    fcmUp,      \* a session with FCM is established
    fcmSplit,   \* a message of FCM has been dropped on the present connection
    fcmInbox,   \* how many copies of an FCM id wait for FCM's answer
    fcmOutbox,  \* what becomes of the messages FCM has for the daemon
    fcmTimers,  \* how many timers will upload a message again
    balAuth,    \* the BAL's session is AUTHENTICATED
    balInbox,   \* sequence ids the BAL has received and not acked yet
    balTimers,  \* how many timers will forward a message again
    logonTimers,\* how many 1 s timers will start resendPendingUpstreamMessages
    loop        \* the resend loop that is running and what it has left to do

store     == <<sequenceId, db>>
fcmSide   == <<fcmUp, fcmSplit, fcmInbox, fcmOutbox, fcmTimers>>
balSide   == <<balAuth, balInbox, balTimers, logonTimers>>
vars      == <<sequenceId, db, obj, fcmMgr, balMgr, fcmSide, balSide, loop>>

Nothing(kind) == [kind |-> kind, todo |-> {}]

TypeOK ==
    /\ sequenceId \in 0 .. MaxSeqId
    /\ db \in Table
    /\ obj \in Table
    /\ fcmMgr \in Manager
    /\ balMgr \in Manager
    /\ fcmUp \in BOOLEAN
    /\ fcmSplit \in BOOLEAN
    /\ fcmInbox \in [DownIds -> 0 .. MaxCopies]
    /\ fcmOutbox \in [UpIds \cup RcptIds -> {"ready", "sent", "done"}]
    /\ fcmTimers \in [SeqIds -> 0 .. MaxTimers]
    /\ balAuth \in BOOLEAN
    /\ balInbox \in SUBSET SeqIds
    /\ balTimers \in [SeqIds -> 0 .. MaxTimers]
    /\ logonTimers \in 0 .. MaxTimers
    /\ loop \in [kind : {"idle", "down", "up", "terminated"}, todo : SUBSET SeqIds]

Init ==
    /\ sequenceId = 0
    /\ db = EmptyTable
    /\ obj = EmptyTable
    /\ fcmMgr = EmptyManager
    /\ balMgr = EmptyManager
    /\ fcmUp = FALSE
    /\ fcmSplit = FALSE
    /\ fcmInbox = [f \in DownIds |-> 0]
    /\ fcmOutbox = [u \in UpIds \cup RcptIds |-> "ready"]
    /\ fcmTimers = [s \in SeqIds |-> 0]
    /\ balAuth = FALSE
    /\ balInbox = {}
    /\ balTimers = [s \in SeqIds |-> 0]
    /\ logonTimers = 0
    /\ loop = Nothing("idle")

Idle == loop.kind = "idle"

\* Bounds.  An answer needs one more sequence id; a new message is admitted
\* only while every queued downstream message can still get its answer.
Room == sequenceId < MaxSeqId
RoomFor(n) == Cardinality(fcmMgr.messages) + n <= MaxSeqId - sequenceId

\* A counter that stops at its bound.
upTo(max, n) == IF n < max THEN n + 1 ELSE n

-----------------------------------------------------------------------------
(* Sending.  What is written while the peer is away is lost.               *)

\* emit sendMessage(...) for the messages of S.
uploadToFcm(inbox, o, S) ==
    IF fcmUp
    THEN [f \in DownIds |-> IF \E s \in S : o[s].fcmId = f
                            THEN upTo(MaxCopies, inbox[f]) ELSE inbox[f]]
    ELSE inbox

\* BALSession::writeMessage, which refuses when the session is not logged on.
writeMessage(S) == IF balAuth THEN balInbox \cup S ELSE balInbox

\* FCM forgets the uploads it has not answered and will send again what the
\* daemon has not acked.
linkLost ==
    /\ fcmUp' = FALSE
    /\ fcmSplit' = FALSE
    /\ fcmInbox' = [f \in DownIds |-> 0]
    /\ fcmOutbox' = [u \in UpIds \cup RcptIds |->
                        IF fcmOutbox[u] = "sent" THEN "ready" ELSE fcmOutbox[u]]

-----------------------------------------------------------------------------
(***************************************************************************)
(* Sqlite commits every statement by itself, so that a handler of several  *)
(* can end between two of them: a statement fails and throws, or the       *)
(* process dies before it.  What the dead process had in memory does not   *)
(* matter, start loads all of it from the table.                           *)
(***************************************************************************)
dies == "crash" \in Faults /\ loop' = Nothing("terminated")

ends == UNCHANGED loop \/ dies

fails == "dbFail" \in Faults \/ dies

(* The tail of every handler that has something for the BAL: save message  *)
(* m under a new sequence id in table d, queue it and forward it.          *)

\* saveMsg is not carried out: the id is used up and nothing else happens.
saveFails(d) ==
    /\ fails
    /\ sequenceId' = sequenceId + 1
    /\ db' = d
    /\ UNCHANGED <<obj, balMgr, balInbox>>

\* saveMsg, then forwardMsgToBalsession.
saveAndForward(d, m) ==
    LET a    == sequenceId + 1
        o    == [obj EXCEPT ![a] = m]
        mm   == addMessage(balMgr, o, a)
        code == canSendMessage(mm, o, a)
    IN  /\ sequenceId' = a
        /\ \/ /\ m.tgt # BalSession     \* findBalMessageManager throws
              /\ db' = saveMsg(d, a, m)
              /\ UNCHANGED <<obj, balMgr, balInbox>>
           \/ /\ m.tgt = BalSession     \* queued; updateMsgState may fail
              /\ code # 0 \/ fails
              /\ db' = saveMsg(d, a, m)
              /\ obj' = o
              /\ balMgr' = mm
              /\ UNCHANGED balInbox
           \/ /\ m.tgt = BalSession
              /\ code = 0
              /\ db' = updateMsgState(saveMsg(d, a, m), a, "PENDING_ACK")
              /\ obj' = [obj EXCEPT ![a] = [m EXCEPT !.state = "PENDING_ACK"]]
              /\ balMgr' = incrementPendingAckCount(mm)
              /\ balInbox' = writeMessage({a})

\* Mutant: the report is saved without its target.
notifyDownstreamUploadFailure_noTarget(d, s) ==
    LET report == [DefaultMessage EXCEPT
                      !.type = "DOWNSTREAM_REJECT", !.fcmId = obj[s].fcmId,
                      !.state = "PENDING_ACK"]
    IN  /\ sequenceId' = sequenceId + 1
        /\ \/ db' = saveMsg(d, sequenceId + 1, report)
           \/ fails /\ db' = d

(***************************************************************************)
(* The report of a failed upload is saved as a pending row, but it is not  *)
(* queued, and what is written to the BAL is the payload of the failed     *)
(* message s instead of the report: no report enters balInbox here.        *)
(***************************************************************************)
notifyDownstreamUploadFailure(d, s) ==
    LET a      == sequenceId + 1
        report == [DefaultMessage EXCEPT
                      !.type = "DOWNSTREAM_REJECT", !.fcmId = obj[s].fcmId,
                      !.tgt = obj[s].src, !.state = "PENDING_ACK"]
    IN  /\ sequenceId' = a
        /\ \/ db' = saveMsg(d, a, report)
           \/ fails /\ db' = d

-----------------------------------------------------------------------------
(* Messages from the BAL.                                                  *)

\* A downstream message with FCM id f for group g, from session src.
handleBalDownstreamUploadRequest(f, g, src) ==
    LET a    == sequenceId + 1
        m    == NewMessage("DOWNSTREAM", f, g, src, FCM)
        o    == [obj EXCEPT ![a] = m]
        mm   == addMessage(fcmMgr, o, a)
        code == canSendMessage(mm, o, a)
    IN  /\ Idle
        /\ Room /\ RoomFor(2)
        /\ \/ src = BalSession /\ balAuth
           \/ src = NoSession /\ "noLogon" \in Faults
        /\ \/ "dupIds" \in Faults
           \/ \A s \in SeqIds : db[s].type = "DOWNSTREAM" => db[s].fcmId # f
        /\ ends
        /\ sequenceId' = a
        /\ \/ /\ fails                  \* saveMsg
              /\ UNCHANGED <<db, obj, fcmMgr, fcmInbox>>
           \/ /\ code # 0 \/ fails      \* updateMsgState
              /\ db' = saveMsg(db, a, m)
              /\ obj' = o
              /\ fcmMgr' = mm
              /\ UNCHANGED fcmInbox
           \/ /\ code = 0
              /\ db' = updateMsgState(saveMsg(db, a, m), a, "PENDING_ACK")
              /\ obj' = [obj EXCEPT ![a] = [m EXCEPT !.state = "PENDING_ACK"]]
              /\ fcmMgr' = incrementPendingAckCount(mm)
              /\ fcmInbox' = uploadToFcm(fcmInbox, o, {a})
        /\ UNCHANGED <<balMgr, fcmUp, fcmSplit, fcmOutbox, fcmTimers, balSide>>

(***************************************************************************)
(* The sequence id that handleBALmsg reads from an ack for s: toInt turns  *)
(* an id beyond IntMax into 0, which no message has.                       *)
(***************************************************************************)

\* Mutant: a greater id is read as the greatest int.
ackedId_saturated(s) == IF s <= IntMax THEN s ELSE IntMax

ackedId(s) == IF s <= IntMax THEN s ELSE 0

\* The BAL acks s.  The next message is written without marking it.
handleBalAckMsg(s) ==
    LET seqid == ackedId(s)
        mm    == removeMessage(balMgr, obj, seqid)
    IN  /\ Idle /\ balAuth
        /\ s \in balInbox
        /\ \/ /\ seqid \notin balMgr.messages \/ "dbFail" \in Faults
              /\ balInbox' = balInbox \ {s}
              /\ UNCHANGED <<db, balMgr>>
           \/ /\ seqid \in balMgr.messages
              /\ db' = updateMsgState(db, seqid, "DELIVERED")
              /\ balMgr' = mm
              /\ balInbox' = (balInbox \ {s}) \cup getNext(mm, obj)
        /\ UNCHANGED <<sequenceId, obj, fcmMgr, fcmSide, balAuth, balTimers,
                       logonTimers, loop>>

\* Mutant: nothing is scheduled for what was queued before the logon.
handleBalLogonRequest_noResend ==
    /\ Idle /\ ~ balAuth
    /\ balAuth' = TRUE
    /\ UNCHANGED <<store, obj, fcmMgr, balMgr, fcmSide, balInbox, balTimers,
                   logonTimers, loop>>

handleBalLogonRequest ==
    /\ Idle /\ ~ balAuth
    /\ logonTimers < MaxTimers
    /\ balAuth' = TRUE
    /\ logonTimers' = logonTimers + 1
    /\ UNCHANGED <<store, obj, fcmMgr, balMgr, fcmSide, balInbox, balTimers, loop>>

\* What was on its way to the BAL is lost; what it has received it may still
\* ack on its next connection.
handleBALSocketDisconnected ==
    /\ "balDrop" \in Faults
    /\ Idle /\ balAuth
    /\ balAuth' = FALSE
    /\ \E kept \in SUBSET balInbox : balInbox' = kept
    /\ UNCHANGED <<store, obj, fcmMgr, balMgr, fcmSide, balTimers, logonTimers, loop>>

-----------------------------------------------------------------------------
(* Messages from FCM.                                                      *)

category(u) == IF u \in StrangerIds THEN Stranger ELSE BalSession

\* Mutant: the ack is sent before the save.
handleFcmNewUpstreamMessage_ackFirst(u) ==
    /\ Idle /\ fcmUp
    /\ fcmOutbox[u] = "ready"
    /\ Room /\ RoomFor(1)
    /\ ends
    /\ fcmOutbox' = [fcmOutbox EXCEPT ![u] = "done"]
    /\ \/ saveFails(db)
       \/ saveAndForward(db, NewMessage("UPSTREAM", u, NoGroup, FCM, category(u)))
    /\ UNCHANGED <<fcmMgr, fcmUp, fcmSplit, fcmInbox, fcmTimers, balAuth,
                   balTimers, logonTimers>>

\* The ack is sent after the save and before the forwarding; it is lost when
\* the connection is, or when the process dies before it.
handleFcmNewUpstreamMessage(u) ==
    /\ Idle /\ fcmUp
    /\ fcmOutbox[u] = "ready"
    /\ Room /\ RoomFor(1)
    /\ ends
    /\ \/ /\ saveFails(db)
          /\ fcmOutbox' = [fcmOutbox EXCEPT ![u] = "sent"]
          /\ UNCHANGED <<fcmUp, fcmSplit, fcmInbox>>
       \/ /\ saveAndForward(db, NewMessage("UPSTREAM", u, NoGroup, FCM, category(u)))
          /\ \/ /\ fcmOutbox' = [fcmOutbox EXCEPT ![u] = "done"]
                /\ UNCHANGED <<fcmUp, fcmSplit, fcmInbox>>
             \/ /\ "fcmDrop" \in Faults \/ dies
                /\ linkLost
    /\ UNCHANGED <<fcmMgr, fcmTimers, balAuth, balTimers, logonTimers>>

\* A receipt is made with the default constructor and never acked to FCM.
handleFcmReceiptMessage(r) ==
    /\ Idle /\ fcmUp
    /\ fcmOutbox[r] = "ready"
    /\ Room /\ RoomFor(1)
    /\ ends
    /\ fcmOutbox' = [fcmOutbox EXCEPT ![r] = "done"]
    /\ \/ saveFails(db)
       \/ saveAndForward(db, [DefaultMessage EXCEPT
                                 !.type = "DOWNSTREAM_RECEIPT", !.fcmId = r,
                                 !.src = FCM, !.tgt = category(r), !.state = "NEW"])
    /\ UNCHANGED <<fcmMgr, fcmUp, fcmSplit, fcmInbox, fcmTimers, balAuth,
                   balTimers, logonTimers>>

answered(f) == [fcmInbox EXCEPT ![f] = @ - 1]

\* Mutant: the message has left the queue when updateMsgState throws.
ignoreAnswer_removesFirst(f) ==
    LET s == findMessageWithFcmMsgId(fcmMgr, f)
    IN  /\ s = 0 \/ "dbFail" \in Faults
        /\ fcmInbox' = answered(f)
        /\ fcmMgr' = IF s = 0 THEN fcmMgr ELSE removeMessage(fcmMgr, obj, s)
        /\ UNCHANGED <<store, obj, balMgr, balInbox>>

\* The answer is for no queued message, or updateMsgState throws.
ignoreAnswer(f) ==
    /\ findMessageWithFcmMsgId(fcmMgr, f) = 0 \/ "dbFail" \in Faults
    /\ fcmInbox' = answered(f)
    /\ UNCHANGED <<store, obj, fcmMgr, balMgr, balInbox>>

\* Mutant: the open slot is not used.
removeAndSendNext_noNext(f, s) ==
    /\ fcmMgr' = removeMessage(fcmMgr, obj, s)
    /\ fcmInbox' = answered(f)

\* Message s leaves the queue and sendNextPendingDownstreamMessage uploads the
\* next one, without marking it as pending.
removeAndSendNext(f, s) ==
    LET mm == removeMessage(fcmMgr, obj, s)
    IN  /\ fcmMgr' = mm
        /\ fcmInbox' = uploadToFcm(answered(f), obj, getNext(mm, obj))

\* Mutant: the report is saved before the outcome, which a crash then loses.
handleFcmAckMessage_reportFirst(f) ==
    LET s     == findMessageWithFcmMsgId(fcmMgr, f)
        early == IF "crash" \in Faults THEN {db} ELSE {}
    IN  /\ Idle /\ fcmUp
        /\ fcmInbox[f] > 0 /\ s # 0 /\ Room
        /\ ends
        /\ removeAndSendNext(f, s)
        /\ \E d \in {updateMsgState(db, s, "DELIVERED")} \cup early :
              saveAndForward(d, NewMessage("DOWNSTREAM_ACK", f, NoGroup,
                                           FCM, obj[s].src))
        /\ UNCHANGED <<fcmUp, fcmSplit, fcmOutbox, fcmTimers, balAuth, balTimers,
                       logonTimers>>

handleFcmAckMessage(f) ==
    LET s == findMessageWithFcmMsgId(fcmMgr, f)
        d == updateMsgState(db, s, "DELIVERED")
    IN  /\ Idle /\ fcmUp
        /\ fcmInbox[f] > 0
        /\ ends
        /\ \/ ignoreAnswer(f)
           \/ /\ s # 0 /\ Room
              /\ removeAndSendNext(f, s)
              /\ \/ saveFails(d)
                 \/ saveAndForward(d, NewMessage("DOWNSTREAM_ACK", f, NoGroup,
                                                 FCM, obj[s].src))
        /\ UNCHANGED <<fcmUp, fcmSplit, fcmOutbox, fcmTimers, balAuth, balTimers,
                       logonTimers>>

-----------------------------------------------------------------------------
(* retryDownstreamWithExponentialBackoff: a timer, or the end of it.       *)

retryLater(timers, s) == [timers EXCEPT ![s] = upTo(MaxTimers, @)]

startDownstreamRetry(s) ==
    /\ FALSE \in retryLimitReached(obj[s])
    /\ fcmTimers' = retryLater(fcmTimers, s)
    /\ UNCHANGED <<store, fcmMgr>>

MayGiveUp(s) == "uninit" \in Faults /\ TRUE \in retryLimitReached(obj[s])

\* The message that leaves the queue is the one its FCM id leads to.
giveUpDownstream(s) ==
    LET victim == findMessageWithFcmMsgId(fcmMgr, obj[s].fcmId)
    IN  /\ MayGiveUp(s)
        /\ victim # 0 /\ Room
        /\ fcmMgr' = removeMessage(fcmMgr, obj, victim)
        /\ notifyDownstreamUploadFailure(updateMsgState(db, s, "DELIVERY_FAILED"), s)
        /\ UNCHANGED fcmTimers

\* updateMsgState throws, or no entry is left for the FCM id of s.
giveUpDownstreamThrows(s) ==
    /\ MayGiveUp(s)
    /\ \/ /\ "dbFail" \in Faults
          /\ UNCHANGED db
       \/ /\ findMessageWithFcmMsgId(fcmMgr, obj[s].fcmId) = 0
          /\ db' = updateMsgState(db, s, "DELIVERY_FAILED")
    /\ UNCHANGED <<sequenceId, fcmMgr, fcmTimers>>

\* retryable: one of the five errors that a later upload may cure.
handleFcmNackMessage(f, retryable) ==
    LET s == findMessageWithFcmMsgId(fcmMgr, f)
    IN  /\ "nack" \in Faults
        /\ Idle /\ fcmUp
        /\ fcmInbox[f] > 0
        /\ ends
        /\ \/ /\ s = 0 \/ ~ retryable
              /\ ignoreAnswer(f)
              /\ UNCHANGED fcmTimers
           \/ /\ s # 0 /\ retryable
              /\ fcmInbox' = answered(f)
              /\ \/ startDownstreamRetry(s)
                 \/ giveUpDownstream(s)
                 \/ giveUpDownstreamThrows(s)
           \/ /\ s # 0 /\ ~ retryable /\ Room
              /\ removeAndSendNext(f, s)
              /\ notifyDownstreamUploadFailure(
                     updateMsgState(db, s, "DELIVERY_FAILED"), s)
              /\ UNCHANGED fcmTimers
        /\ UNCHANGED <<obj, balMgr, fcmUp, fcmSplit, fcmOutbox, balSide>>

(***************************************************************************)
(* FcmConnection finds no JSON in a message that comes in two reads, or it *)
(* reads a message as the rest of another one: no handler is called, and   *)
(* the connection stays up.  FCM sends an upstream message again on the    *)
(* next connection; an answer or a receipt it has given once.              *)
(***************************************************************************)
messageDropped ==
    /\ "split" \in Faults
    /\ Idle /\ fcmUp
    /\ \/ \E f \in DownIds :
             /\ fcmInbox[f] > 0
             /\ fcmInbox' = answered(f)
             /\ UNCHANGED fcmOutbox
       \/ \E u \in UpIds \cup RcptIds :
             /\ fcmOutbox[u] = "ready"
             /\ fcmOutbox' = [fcmOutbox EXCEPT ![u] =
                                 IF u \in UpIds THEN "sent" ELSE "done"]
             /\ UNCHANGED fcmInbox
    /\ fcmSplit' = TRUE
    /\ UNCHANGED <<store, obj, fcmMgr, balMgr, fcmUp, fcmTimers, balSide, loop>>

\* The timer uploads its message whatever has become of it since.
downstreamRetryTimeout(s) ==
    /\ Idle
    /\ fcmTimers[s] > 0
    /\ fcmTimers' = [fcmTimers EXCEPT ![s] = @ - 1]
    /\ fcmInbox' = uploadToFcm(fcmInbox, obj, {s})
    /\ UNCHANGED <<store, obj, fcmMgr, balMgr, fcmUp, fcmSplit, fcmOutbox,
                   balSide, loop>>

-----------------------------------------------------------------------------
(* The resend loops.  Each walks through its queue in sequence id order.   *)

startLoop(kind, queue) ==
    IF queue = {} THEN Nothing("idle") ELSE [kind |-> kind, todo |-> queue]

isNext(s) == s \in loop.todo /\ \A t \in loop.todo : s <= t

\* Erasing the message of the current iteration invalidates the iterator of
\* the loop: the loop may go on with any of the rest, or the process dies.
afterErase(kind, rest) ==
    \/ \E todo \in SUBSET rest : loop' = startLoop(kind, todo)
    \/ loop' = Nothing("terminated")

handleFcmSessionEstablished ==
    /\ Idle /\ ~ fcmUp
    /\ fcmUp' = TRUE
    /\ loop' = startLoop("down", fcmMgr.messages)
    /\ UNCHANGED <<store, obj, fcmMgr, balMgr, fcmSplit, fcmInbox, fcmOutbox,
                   fcmTimers, balSide>>

handleFcmConnectionLost ==
    /\ "fcmDrop" \in Faults
    /\ fcmUp
    /\ linkLost
    /\ UNCHANGED <<store, obj, fcmMgr, balMgr, fcmTimers, balSide, loop>>

\* One iteration.  What it resends it neither marks nor counts.  An exception
\* ends the loop; FcmConnection::handleReadyRead catches it.
resendAllPendingDownstreamMessages(s) ==
    LET code == IF obj[s].type # "DOWNSTREAM" THEN 1    \* skipped
                ELSE canSendMessageOnReconnect(fcmMgr, obj, s)
        rest == loop.todo \ {s}
        gone == fcmMgr.messages \ fcmMgr'.messages
    IN  /\ loop.kind = "down"
        /\ isNext(s)
        /\ \/ /\ code # 2
              /\ fcmInbox' = IF code = 0 THEN uploadToFcm(fcmInbox, obj, {s}) ELSE fcmInbox
              /\ loop' = startLoop("down", rest)
              /\ UNCHANGED <<store, fcmMgr, fcmTimers>>
           \/ /\ code = 2
              /\ UNCHANGED fcmInbox
              /\ \/ startDownstreamRetry(s) /\ loop' = startLoop("down", rest)
                 \/ /\ giveUpDownstream(s)
                    /\ \/ dies
                       \/ IF s \in gone THEN afterErase("down", rest)
                          ELSE loop' = startLoop("down", rest \ gone)
                 \/ giveUpDownstreamThrows(s) /\ loop' = Nothing("idle")
        /\ UNCHANGED <<obj, balMgr, fcmUp, fcmSplit, fcmOutbox, balSide>>

\* The timer that a logon started, whether or not the BAL is still there.
logonTimeout ==
    /\ Idle
    /\ logonTimers > 0
    /\ logonTimers' = logonTimers - 1
    /\ loop' = startLoop("up", balMgr.messages)
    /\ UNCHANGED <<store, obj, fcmMgr, balMgr, fcmSide, balAuth, balInbox, balTimers>>

(* retryUpstreamWithExponentialBackoff *)
startUpstreamRetry(s) ==
    /\ FALSE \in retryLimitReached(obj[s])
    /\ balTimers' = retryLater(balTimers, s)
    /\ UNCHANGED <<db, balMgr>>

giveUpUpstream(s) ==
    LET victim == findMessageWithFcmMsgId(balMgr, obj[s].fcmId)
    IN  /\ MayGiveUp(s)
        /\ victim # 0
        /\ db' = updateMsgState(db, s, "DELIVERY_FAILED")
        /\ balMgr' = removeMessage(balMgr, obj, victim)
        /\ UNCHANGED balTimers

giveUpUpstreamThrows(s) ==
    /\ MayGiveUp(s)
    /\ \/ /\ "dbFail" \in Faults
          /\ UNCHANGED db
       \/ /\ findMessageWithFcmMsgId(balMgr, obj[s].fcmId) = 0
          /\ db' = updateMsgState(db, s, "DELIVERY_FAILED")
    /\ UNCHANGED <<balMgr, balTimers>>

UpstreamTypes ==
    {"UPSTREAM", "DOWNSTREAM_ACK", "DOWNSTREAM_REJECT", "DOWNSTREAM_RECEIPT"}

\* The manager after an iteration that found code (not 2).  A message that is
\* sent for the first time is counted, but its object stays in state NEW.
resent(mm, s, code) ==
    IF code = 0 /\ obj[s].state # "PENDING_ACK" THEN incrementPendingAckCount(mm)
    ELSE IF code = 1 THEN removeMessage(mm, obj, s)
    ELSE mm

\* One iteration.  Nobody catches an exception in this timer callback.
resendPendingUpstreamMessages(s) ==
    LET code  == IF obj[s].type \notin UpstreamTypes THEN 3    \* skipped
                 ELSE canSendMessageOnReconnect(balMgr, obj, s)
        first == code = 0 /\ obj[s].state # "PENDING_ACK"
        rest  == loop.todo \ {s}
        gone  == balMgr.messages \ balMgr'.messages
    IN  /\ loop.kind = "up"
        /\ isNext(s)
        /\ \/ /\ code # 2
              /\ db' = IF first THEN updateMsgState(db, s, "PENDING_ACK") ELSE db
              /\ balMgr' = resent(balMgr, s, code)
              /\ balInbox' = IF code = 0 THEN writeMessage({s}) ELSE balInbox
              /\ IF s \in gone THEN afterErase("up", rest)
                 ELSE loop' = startLoop("up", rest)
              /\ UNCHANGED balTimers
           \/ /\ first /\ "dbFail" \in Faults
              /\ loop' = Nothing("terminated")
              /\ UNCHANGED <<db, balMgr, balInbox, balTimers>>
           \/ /\ code = 2
              /\ UNCHANGED balInbox
              /\ \/ startUpstreamRetry(s) /\ loop' = startLoop("up", rest)
                 \/ /\ giveUpUpstream(s)
                    /\ IF s \in gone THEN afterErase("up", rest)
                       ELSE loop' = startLoop("up", rest \ gone)
                 \/ giveUpUpstreamThrows(s) /\ loop' = Nothing("terminated")
        /\ UNCHANGED <<sequenceId, obj, fcmMgr, fcmSide, balAuth, logonTimers>>

upstreamRetryTimeout(s) ==
    /\ Idle
    /\ balTimers[s] > 0
    /\ balTimers' = [balTimers EXCEPT ![s] = @ - 1]
    /\ balInbox' = writeMessage({s})
    /\ UNCHANGED <<store, obj, fcmMgr, balMgr, fcmSide, balAuth, logonTimers, loop>>

-----------------------------------------------------------------------------
\* The rows that a query for the pending rows reads.  When it fails the error
\* is printed, and the daemon goes on with the rows read so far.
Read(rows) == IF "loadFail" \in Faults THEN SUBSET rows ELSE {rows}

\* The process dies, or has died, and is started again: all but the table is
\* lost, and the managers are loaded from it.
start ==
    /\ "crash" \in Faults \/ loop.kind = "terminated"
    /\ \E n \in 0 .. MaxSeqId : initSequenceId(db, n) /\ sequenceId' = n
    /\ obj' = Loaded(db)
    /\ \E index \in {"idx_source_session", "idx_state"} :
          /\ \E queue \in Read(Pending(db, FCM)) :
                fcmMgr' = loadPendingMessages(db, queue, index)
          /\ \E queue \in Read(Pending(db, BalSession)) :
                balMgr' = loadPendingMessages(db, queue, index)
    /\ linkLost
    /\ fcmTimers' = [s \in SeqIds |-> 0]
    /\ balAuth' = FALSE
    /\ \E kept \in SUBSET balInbox : balInbox' = kept
    /\ balTimers' = [s \in SeqIds |-> 0]
    /\ logonTimers' = 0
    /\ loop' = Nothing("idle")
    /\ UNCHANGED db

BalNext ==
    \/ \E f \in DownIds, g \in Groups \cup {NoGroup}, src \in {BalSession, NoSession} :
          handleBalDownstreamUploadRequest(f, g, src)
    \/ \E s \in SeqIds : handleBalAckMsg(s)
    \/ handleBalLogonRequest
    \/ handleBALSocketDisconnected

FcmNext ==
    \/ \E u \in UpIds : handleFcmNewUpstreamMessage(u)
    \/ \E r \in RcptIds : handleFcmReceiptMessage(r)
    \/ \E f \in DownIds : handleFcmAckMessage(f)
    \/ \E f \in DownIds, retryable \in BOOLEAN : handleFcmNackMessage(f, retryable)
    \/ messageDropped
    \/ handleFcmSessionEstablished
    \/ handleFcmConnectionLost

TimerNext ==
    \/ \E s \in SeqIds : downstreamRetryTimeout(s)
    \/ \E s \in SeqIds : upstreamRetryTimeout(s)
    \/ \E s \in SeqIds : resendAllPendingDownstreamMessages(s)
    \/ \E s \in SeqIds : resendPendingUpstreamMessages(s)
    \/ logonTimeout

Next == BalNext \/ FcmNext \/ TimerNext \/ start

Spec == Init /\ [][Next]_vars

(***************************************************************************)
(* Fairness.  The event loop runs: a running resend loop goes on, and due  *)
(* timers fire once the loop is idle again.  FcmConnection, and the BAL,   *)
(* connect again after a loss.  FCM in the end acks an id that is uploaded *)
(* again and again, and the BAL acks what it receives.                     *)
(***************************************************************************)
DownstreamFairness ==
    /\ WF_vars(\E s \in SeqIds : resendAllPendingDownstreamMessages(s))
    /\ WF_vars(\E s \in SeqIds : resendPendingUpstreamMessages(s))
    /\ SF_vars(\E s \in SeqIds : downstreamRetryTimeout(s))
    /\ WF_vars(handleFcmSessionEstablished)
    /\ \A f \in DownIds : SF_vars(handleFcmAckMessage(f))

UpstreamFairness ==
    /\ WF_vars(\E s \in SeqIds : resendAllPendingDownstreamMessages(s))
    /\ WF_vars(\E s \in SeqIds : resendPendingUpstreamMessages(s))
    /\ SF_vars(\E s \in SeqIds : upstreamRetryTimeout(s))
    /\ SF_vars(logonTimeout)
    /\ WF_vars(handleBalLogonRequest)
    /\ \A s \in SeqIds : SF_vars(handleBalAckMsg(s))

DownstreamSpec == Spec /\ DownstreamFairness

UpstreamSpec == Spec /\ UpstreamFairness

-----------------------------------------------------------------------------
(* Safety.                                                                 *)

\* The three indexes of a manager agree with its queue, so that findGroup and
\* findMessage (messagemanager.cpp) never throw halfway through a removal.
Sound(mm, o, last) ==
    /\ \A s \in mm.messages : s <= last
    /\ \A g \in Groups : mm.groups[g] = {s \in mm.messages : o[s].gid = g}
    /\ \A f \in MsgIds :
          mm.sequenceIdMap[f] # 0 => /\ mm.sequenceIdMap[f] \in mm.messages
                                     /\ o[mm.sequenceIdMap[f]].fcmId = f

ManagersSound == Sound(fcmMgr, obj, sequenceId) /\ Sound(balMgr, obj, sequenceId)

\* What a restart would load is what is queued now: no handler, failed
\* statement or crash loses a pending message or revives a resolved one.
\* (Reports of failed uploads are saved without being queued.)
QueuesArePendingRows ==
    /\ fcmMgr.messages = Pending(db, FCM)
    /\ balMgr.messages \subseteq Pending(db, BalSession)
    /\ \A s \in Pending(db, BalSession) \ balMgr.messages :
          db[s].type = "DOWNSTREAM_REJECT"

\* An upstream message that the daemon has acked to FCM, so that FCM will not
\* send it again, has been delivered to the BAL or is queued for it.
AckedUpstreamIsKept ==
    \A u \in UpIds \ StrangerIds :
        fcmOutbox[u] = "done" =>
            \E s \in SeqIds :
                /\ db[s].type = "UPSTREAM" /\ db[s].fcmId = u
                /\ db[s].state = "DELIVERED" \/ s \in balMgr.messages

\* Nothing for the BAL is taken as delivered that the BAL has not received: an
\* ack that comes late, twice or with an id too large for handleBALmsg never
\* resolves another message.
DeliveredWasReceived ==
    [][\A s \in SeqIds :
        /\ db[s].tgt = BalSession
        /\ db[s].state \in LiveStates /\ db'[s].state = "DELIVERED"
        => s \in balInbox]_vars

\* While the process lives and no statement fails, every downstream message
\* that FCM has taken or refused has a row that reports so to the session it
\* came from, whatever answers FCM repeats, drops or gives late.
OutcomesReported ==
    \A s \in SeqIds :
        /\ db[s].type = "DOWNSTREAM" /\ db[s].state \in {"DELIVERED", "DELIVERY_FAILED"}
        => \E a \in SeqIds :
              /\ s < a
              /\ db[a].fcmId = db[s].fcmId /\ db[a].tgt = db[s].src
              /\ db[a].type = IF db[s].state = "DELIVERED"
                              THEN "DOWNSTREAM_ACK" ELSE "DOWNSTREAM_REJECT"

Outcome(report) == IF report = "DOWNSTREAM_ACK" THEN "DELIVERED" ELSE "DELIVERY_FAILED"

\* A report to the BAL is never false: the row of the message it is about
\* holds the reported outcome, for good, wherever the process dies in
\* handleFcmAckMessage, handleFcmNackMessage or a give-up, and whichever of
\* their statements fails.
ReportsAreTrue ==
    \A a \in SeqIds :
        db[a].type \in {"DOWNSTREAM_ACK", "DOWNSTREAM_REJECT"} =>
            \E s \in SeqIds :
                /\ s < a
                /\ db[s].type = "DOWNSTREAM" /\ db[s].state = Outcome(db[a].type)
                /\ db[s].fcmId = db[a].fcmId /\ db[s].src = db[a].tgt

\* The window of the FCM manager is never blocked by messages that are gone:
\* what is counted as pending is queued and pending.
FcmCountNeverOver ==
    fcmMgr.pendingAckCount
        <= Cardinality({s \in fcmMgr.messages : obj[s].state = "PENDING_ACK"})

OnWire(s) == db[s].type = "DOWNSTREAM" /\ db[s].fcmId \in DownIds /\ fcmInbox[db[s].fcmId] > 0

\* README: "Support message grouping for strict order messaging".  While a
\* message is on its way to FCM, every earlier one of its group is resolved.
StrictGroupOrder ==
    \A s, t \in SeqIds :
        /\ s < t
        /\ db[s].type = "DOWNSTREAM" /\ db[s].gid # NoGroup /\ db[s].gid = db[t].gid
        /\ db[t].state \in LiveStates /\ OnWire(t)
        => db[s].state \notin LiveStates

\* handleBalDownstreamUploadRequest: when the count of messages without an
\* answer reaches the limit, "the app server should stop sending".
FlowControl ==
    Cardinality({f \in DownIds : fcmInbox[f] > 0}) <= MAX_PENDING_MESSAGES

\* What a row says of its message.
LedgerOf(d) ==
    [s \in SeqIds |-> IF d[s].state = "UNKNOWN" THEN "none"
                      ELSE IF d[s].state \in LiveStates THEN "live"
                      ELSE IF d[s].state = "DELIVERED" THEN "delivered" ELSE "failed"]

Ledger == INSTANCE DeliveryLedger WITH Ids <- SeqIds, ledger <- LedgerOf(db)

\* Sequence ids are not used twice and outcomes are final, over all crashes.
TableIsLedger == Ledger!Spec

-----------------------------------------------------------------------------
(* Liveness.                                                               *)

Unresolved(s, type) == db[s].type = type /\ db[s].state \in LiveStates

Alive == loop.kind # "terminated"

\* Once the daemon and its connection to FCM stay up, and FcmConnection drops
\* no answer on that last connection, FCM takes or refuses every downstream
\* message that was ever accepted.
DownstreamResolved ==
    <>[](Alive /\ fcmUp /\ ~ fcmSplit) =>
        \A s \in SeqIds :
            Unresolved(s, "DOWNSTREAM") ~> ~ Unresolved(s, "DOWNSTREAM")

\* README: "Hold on to all upstream messages if BAL client connection is down
\* and forward to it after a successfull reconnect".  Once the daemon and the
\* BAL stay up, and the count of the BAL's manager leaves a slot open.
UpstreamDelivered ==
    <>[](Alive /\ balAuth /\ balMgr.pendingAckCount < MAX_PENDING_MESSAGES) =>
        \A s \in SeqIds :
            Unresolved(s, "UPSTREAM") /\ db[s].tgt = BalSession
                ~> ~ Unresolved(s, "UPSTREAM")
=============================================================================
