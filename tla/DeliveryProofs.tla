--------------------------- MODULE DeliveryProofs ---------------------------
(***************************************************************************)
(* What becomes of one message, for all instances: what is taken as        *)
(* delivered was received, what was acked to FCM is kept, and what is      *)
(* reported of a downstream message is true.  All three follow from what   *)
(* one step can do to one row of the table, RowStep.                       *)
(***************************************************************************)
EXTENDS TableProofs, WindowProofs

-----------------------------------------------------------------------------
(* What a step may do to the row of message s.                             *)

\* A row never changes its type, its ids or its sessions.
Kept(d, e, s) ==
    /\ e[s].type = d[s].type /\ e[s].fcmId = d[s].fcmId /\ e[s].gid = d[s].gid
    /\ e[s].src = d[s].src /\ e[s].tgt = d[s].tgt

\* The step resolves the queued message s and inserts the report in row a.
ReportOf(a, s) ==
    /\ Kept(db, db', s) /\ db'[s].state = Outcome(db'[a].type)
    /\ db'[a].fcmId = obj[s].fcmId /\ db'[a].tgt = obj[s].src

\* The row is inserted by this step.
NewRow(s) ==
    /\ s = sequenceId + 1
    /\ db'[s].state \in LiveStates
    /\ \/ db'[s].type = "DOWNSTREAM" /\ db'[s].tgt = FCM
       \/ db'[s].type \in {"UPSTREAM", "DOWNSTREAM_RECEIPT"} /\ db'[s].tgt # FCM
       \/ /\ db'[s].type \in {"DOWNSTREAM_ACK", "DOWNSTREAM_REJECT"}
          /\ "uninit" \in Faults \/ \E t \in fcmMgr.messages : ReportOf(s, t)

OldRow(s) ==
    /\ Kept(db, db', s)
    /\ \/ db'[s].state = db[s].state
       \/ db'[s].state = "PENDING_ACK" /\ loop.kind = "up" /\ s \in loop.todo
       \/ db'[s].state = "DELIVERED" /\ s \in balMgr.messages \cap balInbox
       \/ db'[s].state \in {"DELIVERED", "DELIVERY_FAILED"} /\ s \in fcmMgr.messages
       \/ db'[s].state = "DELIVERY_FAILED" /\ "uninit" \in Faults

RowStep == \A s \in SeqIds : NewRow(s) \/ OldRow(s)

\* What a step may add to the queue for FCM.
QueueStep ==
    \A s \in fcmMgr'.messages :
        \/ s \in fcmMgr.messages /\ obj'[s] = obj[s]
        \/ db'[s].tgt = FCM /\ obj'[s].fcmId = db'[s].fcmId

-----------------------------------------------------------------------------
(* The parts of the handlers.                                              *)

LEMMA SameRows ==
    ASSUME db' = db
    PROVE  RowStep
BY DEF RowStep, OldRow, Kept

\* The rows of a table e that is d with a new row.
LEMMA InsertRows ==
    ASSUME NEW d \in Table, NEW a \in SeqIds, NEW m \in Message, m.state \in LiveStates,
           NEW e, \/ e = saveMsg(d, a, m)
                  \/ e = updateMsgState(saveMsg(d, a, m), a, "PENDING_ACK")
    PROVE  /\ e[a].state \in LiveStates
           /\ e[a].type = m.type /\ e[a].fcmId = m.fcmId /\ e[a].gid = m.gid
           /\ e[a].src = m.src /\ e[a].tgt = m.tgt
           /\ \A s \in SeqIds : s # a => e[s] = d[s]
<1>1. PICK row \in Message :
         /\ Inserted(e, d, a, row)
         /\ row.type = m.type /\ row.fcmId = m.fcmId /\ row.gid = m.gid
         /\ row.src = m.src /\ row.tgt = m.tgt
         /\ row.state \in LiveStates
  BY SaveInserts
<1>2. QED
  BY <1>1 DEF Inserted

\* A handler saves m for the BAL in table d.
LEMMA SaveForwardRows ==
    ASSUME TypeOK, Room, NEW d \in Table, NEW m \in Message, m.state = "NEW",
           saveFails(d) \/ saveAndForward(d, m)
    PROVE  \/ db' = d
           \/ /\ sequenceId + 1 \in SeqIds
              /\ db'[sequenceId + 1].state \in LiveStates
              /\ db'[sequenceId + 1].type = m.type
              /\ db'[sequenceId + 1].fcmId = m.fcmId
              /\ db'[sequenceId + 1].tgt = m.tgt
              /\ \A s \in SeqIds : s # sequenceId + 1 => db'[s] = d[s]
<1> DEFINE a == sequenceId + 1
<1>1. a \in SeqIds /\ m.state \in LiveStates
  BY NextIdType DEF LiveStates
<1>2. CASE saveFails(d)
  BY <1>2 DEF saveFails
<1>3. CASE saveAndForward(d, m)
  <2>1. \/ db' = saveMsg(d, a, m)
        \/ db' = updateMsgState(saveMsg(d, a, m), a, "PENDING_ACK")
    BY <1>3 DEF saveAndForward
  <2> HIDE DEF a
  <2>2. QED
    BY <1>1, <2>1, InsertRows DEF a
<1>4. QED
  BY <1>2, <1>3

\* The same for the report of a failed upload.
LEMMA NotifyRows ==
    ASSUME TypeOK, Room, NEW d \in Table, NEW s \in SeqIds,
           notifyDownstreamUploadFailure(d, s)
    PROVE  \/ db' = d
           \/ /\ sequenceId + 1 \in SeqIds
              /\ db'[sequenceId + 1].state \in LiveStates
              /\ db'[sequenceId + 1].type = "DOWNSTREAM_REJECT"
              /\ db'[sequenceId + 1].fcmId = obj[s].fcmId
              /\ db'[sequenceId + 1].tgt = obj[s].src
              /\ \A t \in SeqIds : t # sequenceId + 1 => db'[t] = d[t]
<1> DEFINE a == sequenceId + 1
           report == [DefaultMessage EXCEPT
                         !.type = "DOWNSTREAM_REJECT", !.fcmId = obj[s].fcmId,
                         !.tgt = obj[s].src, !.state = "PENDING_ACK"]
<1>1. a \in SeqIds
  BY NextIdType
<1>2. /\ report \in Message /\ report.tgt = obj[s].src /\ report.fcmId = obj[s].fcmId
      /\ report.type = "DOWNSTREAM_REJECT" /\ report.state \in LiveStates
  BY DEF TypeOK, Table, Message, DefaultMessage, MessageType, MessageState, Sessions,
         LiveStates
<1>3. \/ db' = d
      \/ db' = saveMsg(d, a, report)
  BY DEF notifyDownstreamUploadFailure
<1> HIDE DEF a, report
<1>4. QED
  BY <1>1, <1>2, <1>3, InsertRows DEF a

\* A queued message is resolved; unless the handler ends early, its report is
\* inserted in the same step.
LEMMA ResolveRows ==
    ASSUME TypeOK, ManagersSound, NEW s \in fcmMgr.messages,
           NEW st \in {"DELIVERED", "DELIVERY_FAILED"}, NEW type \in MessageType,
           type = IF st = "DELIVERED" THEN "DOWNSTREAM_ACK" ELSE "DOWNSTREAM_REJECT",
           \/ db' = updateMsgState(db, s, st)
           \/ /\ sequenceId + 1 \in SeqIds
              /\ db'[sequenceId + 1].state \in LiveStates
              /\ db'[sequenceId + 1].type = type
              /\ db'[sequenceId + 1].fcmId = obj[s].fcmId
              /\ db'[sequenceId + 1].tgt = obj[s].src
              /\ \A t \in SeqIds : t # sequenceId + 1 => db'[t] = updateMsgState(db, s, st)[t]
    PROVE  RowStep
<1> DEFINE a == sequenceId + 1
           d == updateMsgState(db, s, st)
<1>1. s \in SeqIds /\ s # a
  BY NewIdNotQueued
<1>2. \A t \in SeqIds :
         /\ d[t].type = db[t].type /\ d[t].fcmId = db[t].fcmId /\ d[t].gid = db[t].gid
         /\ d[t].src = db[t].src /\ d[t].tgt = db[t].tgt
         /\ d[t].state = IF t = s THEN st ELSE db[t].state
  BY <1>1, UpdateRow DEF TypeOK, MessageState
<1> HIDE DEF d, a
<1>3. ASSUME NEW t \in SeqIds, db'[t] = d[t] PROVE OldRow(t)
  BY <1>2, <1>3 DEF OldRow, Kept
<1>4. ASSUME NEW t \in SeqIds, db'[t] # d[t] PROVE NewRow(t)
  <2>1. /\ t = a /\ db'[a].state \in LiveStates /\ db'[a].type = type
        /\ db'[a].fcmId = obj[s].fcmId /\ db'[a].tgt = obj[s].src
        /\ db'[s] = d[s]
    BY <1>1, <1>4 DEF a, d
  <2>2. ReportOf(a, s)
    BY <1>1, <1>2, <2>1 DEF ReportOf, Kept, Outcome
  <2>3. QED
    BY <2>1, <2>2 DEF NewRow, a
<1>5. QED
  BY <1>3, <1>4 DEF RowStep

-----------------------------------------------------------------------------
(* The handlers.                                                           *)

LEMMA RequestRows ==
    ASSUME TypeOK, ManagersSound, NEW f \in DownIds, NEW g \in Groups \cup {NoGroup},
           NEW src \in {BalSession, NoSession},
           handleBalDownstreamUploadRequest(f, g, src)
    PROVE  RowStep /\ QueueStep
<1> DEFINE a == sequenceId + 1
           m == NewMessage("DOWNSTREAM", f, g, src, FCM)
           o == [obj EXCEPT ![a] = m]
           p == [obj EXCEPT ![a] = [m EXCEPT !.state = "PENDING_ACK"]]
           mm == addMessage(fcmMgr, o, a)
<1>1. a \in SeqIds
  BY NextIdType DEF handleBalDownstreamUploadRequest
<1>2. /\ m \in Message /\ m.state \in LiveStates /\ m.type = "DOWNSTREAM"
      /\ m.tgt = FCM /\ m.fcmId = f
  <2>1. m \in Message
    BY NewMessageType, DownIdsType DEF MessageType, Sessions
  <2>2. QED
    BY <2>1 DEF NewMessage, LiveStates
<1> HIDE DEF m
<1>3. /\ \A s \in SeqIds : s # a => o[s] = obj[s] /\ p[s] = obj[s]
      /\ o[a].fcmId = f /\ p[a].fcmId = f
  BY <1>1, <1>2 DEF TypeOK, Table, Message
<1>4. /\ mm.messages = fcmMgr.messages \cup {a}
      /\ incrementPendingAckCount(mm).messages = fcmMgr.messages \cup {a}
  BY DEF addMessage, incrementPendingAckCount
<1>5. \A s \in fcmMgr.messages : s \in SeqIds /\ s # a
  BY NewIdNotQueued
<1> HIDE DEF o, p, mm, a
<1>6. \/ UNCHANGED <<db, obj, fcmMgr>>
      \/ /\ \/ db' = saveMsg(db, a, m)
            \/ db' = updateMsgState(saveMsg(db, a, m), a, "PENDING_ACK")
         /\ obj' = o \/ obj' = p
         /\ fcmMgr'.messages = fcmMgr.messages \cup {a}
  BY <1>4 DEF handleBalDownstreamUploadRequest, m, o, p, mm, a
<1>7. CASE UNCHANGED <<db, obj, fcmMgr>>
  BY <1>7, SameRows DEF QueueStep
<1>8. CASE ~ UNCHANGED <<db, obj, fcmMgr>>
  <2>1. /\ db'[a].state \in LiveStates /\ db'[a].fcmId = f /\ db'[a].tgt = FCM
        /\ db'[a].type = "DOWNSTREAM"
        /\ \A s \in SeqIds : s # a => db'[s] = db[s]
    <3>1. db \in Table
      BY DEF TypeOK
    <3>2. QED
      BY <1>1, <1>2, <1>6, <1>8, <3>1, InsertRows
  <2>2. RowStep
    BY <2>1 DEF RowStep, NewRow, OldRow, Kept, a
  <2>3. QueueStep
    BY <1>3, <1>5, <1>6, <1>8, <2>1 DEF QueueStep
  <2>4. QED
    BY <2>2, <2>3
<1>9. QED
  BY <1>7, <1>8

LEMMA BalAckRows ==
    ASSUME TypeOK, NEW s \in SeqIds, handleBalAckMsg(s)
    PROVE  RowStep /\ QueueStep
<1>1. obj' = obj /\ fcmMgr' = fcmMgr
  BY DEF handleBalAckMsg
<1>2. QueueStep
  BY <1>1 DEF QueueStep
<1>3. CASE db' = db
  BY <1>2, <1>3, SameRows
<1>4. CASE /\ s \in balMgr.messages \cap balInbox
           /\ db' = updateMsgState(db, s, "DELIVERED")
  <2>1. \A t \in SeqIds :
           /\ Kept(db, db', t)
           /\ db'[t].state = IF t = s THEN "DELIVERED" ELSE db[t].state
    BY <1>4, UpdateRow DEF TypeOK, MessageState, Kept
  <2>2. RowStep
    BY <1>4, <2>1 DEF RowStep, OldRow
  <2>3. QED
    BY <1>2, <2>2
<1>5. QED
  BY <1>3, <1>4, AckedIdIsOwn DEF handleBalAckMsg

\* A handler that leaves the queue for FCM alone, but for removals, and that
\* changes the object of no queued message.
LEMMA RemovalQueue ==
    ASSUME fcmMgr'.messages \subseteq fcmMgr.messages,
           \A s \in fcmMgr.messages : obj'[s] = obj[s]
    PROVE  QueueStep
BY DEF QueueStep

LEMMA UpstreamRows ==
    ASSUME TypeOK, ManagersSound, NEW u \in UpIds, handleFcmNewUpstreamMessage(u)
    PROVE  RowStep /\ QueueStep
<1> DEFINE m == NewMessage("UPSTREAM", u, NoGroup, FCM, category(u))
<1>1. m \in Message /\ m.state = "NEW" /\ m.type = "UPSTREAM" /\ m.tgt # FCM
  <2>1. m \in Message
    BY NewMessageType, DownIdsType, CategoryType DEF MessageType, Sessions
  <2>2. QED
    BY <2>1, SessionsDiffer DEF NewMessage, category
<1>2. Room /\ (saveFails(db) \/ saveAndForward(db, m)) /\ UNCHANGED fcmMgr
  BY DEF handleFcmNewUpstreamMessage
<1> HIDE DEF m
<1>3. db \in Table
  BY DEF TypeOK
<1>4. QueueStep
  BY <1>2, SaveForwardFrame, RemovalQueue
<1>5. RowStep
  BY <1>1, <1>2, <1>3, SaveForwardRows, SameRows DEF RowStep, NewRow, OldRow, Kept
<1>6. QED
  BY <1>4, <1>5

LEMMA ReceiptRows ==
    ASSUME TypeOK, ManagersSound, NEW r \in RcptIds, handleFcmReceiptMessage(r)
    PROVE  RowStep /\ QueueStep
<1> DEFINE m == [DefaultMessage EXCEPT
                    !.type = "DOWNSTREAM_RECEIPT", !.fcmId = r,
                    !.src = FCM, !.tgt = category(r), !.state = "NEW"]
<1>1. m \in Message /\ m.state = "NEW" /\ m.type = "DOWNSTREAM_RECEIPT" /\ m.tgt # FCM
  BY CategoryType, DownIdsType, SessionsDiffer
     DEF Message, DefaultMessage, MessageType, MessageState, Sessions, category
<1>2. Room /\ (saveFails(db) \/ saveAndForward(db, m)) /\ UNCHANGED fcmMgr
  BY DEF handleFcmReceiptMessage
<1> HIDE DEF m
<1>3. db \in Table
  BY DEF TypeOK
<1>4. QueueStep
  BY <1>2, SaveForwardFrame, RemovalQueue
<1>5. RowStep
  BY <1>1, <1>2, <1>3, SaveForwardRows, SameRows DEF RowStep, NewRow, OldRow, Kept
<1>6. QED
  BY <1>4, <1>5

LEMMA FcmAckRows ==
    ASSUME TypeOK, ManagersSound, NEW f \in DownIds, handleFcmAckMessage(f)
    PROVE  RowStep /\ QueueStep
<1> DEFINE s == findMessageWithFcmMsgId(fcmMgr, f)
           d == updateMsgState(db, s, "DELIVERED")
           m == NewMessage("DOWNSTREAM_ACK", f, NoGroup, FCM, obj[s].src)
<1>1. CASE ignoreAnswer(f)
  BY <1>1, SameRows, RemovalQueue DEF ignoreAnswer, store
<1>2. CASE s # 0 /\ Room /\ removeAndSendNext(f, s) /\ (saveFails(d) \/ saveAndForward(d, m))
  <2>1. s \in fcmMgr.messages /\ s \in SeqIds
    BY <1>2, FoundType, DownIdsType
  <2>2. obj[s].fcmId = f
    BY <2>1, DownIdsType
       DEF ManagersSound, Sound, findMessageWithFcmMsgId, findSequenceId, SeqIds
  <2>3. /\ m \in Message /\ m.state = "NEW" /\ m.type = "DOWNSTREAM_ACK"
        /\ m.fcmId = f /\ m.tgt = obj[s].src
    <3>1. obj[s].src \in Sessions
      BY <2>1 DEF TypeOK, Table, Message
    <3>2. m \in Message
      BY <3>1, NewMessageType, DownIdsType DEF MessageType, Sessions
    <3>3. QED
      BY <3>2 DEF NewMessage
  <2>4. d \in Table
    BY <2>1, UpdateType DEF TypeOK, MessageState
  <2>5. fcmMgr'.messages = fcmMgr.messages \ {s}
    BY <1>2 DEF removeAndSendNext, removeMessage
  <2> HIDE DEF s, d, m
  <2>6. QueueStep
    BY <1>2, <2>5, SaveForwardFrame, RemovalQueue
  <2>7. \/ db' = d
        \/ /\ sequenceId + 1 \in SeqIds
           /\ db'[sequenceId + 1].state \in LiveStates
           /\ db'[sequenceId + 1].type = "DOWNSTREAM_ACK"
           /\ db'[sequenceId + 1].fcmId = obj[s].fcmId
           /\ db'[sequenceId + 1].tgt = obj[s].src
           /\ \A t \in SeqIds : t # sequenceId + 1 => db'[t] = d[t]
    BY <1>2, <2>2, <2>3, <2>4, SaveForwardRows
  <2>8. RowStep
    BY <2>1, <2>7, ResolveRows DEF d, MessageType
  <2>9. QED
    BY <2>6, <2>8
<1>3. QED
  BY <1>1, <1>2 DEF handleFcmAckMessage

\* A message for FCM is retried or given up; another may leave the queue.
LEMMA RetryRows ==
    ASSUME TypeOK, NEW s \in SeqIds, obj' = obj,
           startDownstreamRetry(s) \/ giveUpDownstream(s) \/ giveUpDownstreamThrows(s)
    PROVE  RowStep /\ QueueStep
<1> DEFINE d == updateMsgState(db, s, "DELIVERY_FAILED")
<1>1. QueueStep
  <2>1. CASE fcmMgr' = fcmMgr
    BY <2>1, RemovalQueue
  <2>2. ASSUME NEW t, fcmMgr' = removeMessage(fcmMgr, obj, t) PROVE QueueStep
    <3>1. fcmMgr'.messages \subseteq fcmMgr.messages
      BY <2>2 DEF removeMessage
    <3>2. QED
      BY <3>1, RemovalQueue
  <2>3. QED
    BY <2>1, <2>2 DEF startDownstreamRetry, giveUpDownstream, giveUpDownstreamThrows
<1>2. CASE db' = db
  BY <1>1, <1>2, SameRows
<1>3. CASE db' # db
  <2>1. /\ "uninit" \in Faults
        /\ db' = d \/ (Room /\ notifyDownstreamUploadFailure(d, s))
    BY <1>3 DEF startDownstreamRetry, giveUpDownstream, giveUpDownstreamThrows, MayGiveUp, store
  <2>2. /\ d \in Table
        /\ \A t \in SeqIds : /\ Kept(db, d, t)
                             /\ d[t].state = IF t = s THEN "DELIVERY_FAILED" ELSE db[t].state
    BY UpdateType, UpdateRow DEF TypeOK, MessageState, Kept
  <2> HIDE DEF d
  <2>3. \/ db' = d
        \/ /\ db'[sequenceId + 1].state \in LiveStates
           /\ db'[sequenceId + 1].type = "DOWNSTREAM_REJECT"
           /\ \A t \in SeqIds : t # sequenceId + 1 => db'[t] = d[t]
    BY <2>1, <2>2, NotifyRows
  <2>4. RowStep
    BY <2>1, <2>2, <2>3 DEF RowStep, NewRow, OldRow, Kept
  <2>5. QED
    BY <1>1, <2>4
<1>4. QED
  BY <1>2, <1>3

LEMMA FcmNackRows ==
    ASSUME TypeOK, ManagersSound, NEW f \in DownIds, NEW retryable \in BOOLEAN,
           handleFcmNackMessage(f, retryable)
    PROVE  RowStep /\ QueueStep
<1> DEFINE s == findMessageWithFcmMsgId(fcmMgr, f)
           d == updateMsgState(db, s, "DELIVERY_FAILED")
<1>1. obj' = obj
  BY DEF handleFcmNackMessage
<1>2. CASE ignoreAnswer(f)
  BY <1>1, <1>2, SameRows, RemovalQueue DEF ignoreAnswer, store
<1>3. ASSUME s # 0 PROVE s \in fcmMgr.messages /\ s \in SeqIds
  BY <1>3, FoundType, DownIdsType
<1>4. CASE s # 0 /\ (startDownstreamRetry(s) \/ giveUpDownstream(s) \/ giveUpDownstreamThrows(s))
  BY <1>1, <1>3, <1>4, RetryRows
<1>5. CASE s # 0 /\ Room /\ removeAndSendNext(f, s) /\ notifyDownstreamUploadFailure(d, s)
  <2>1. d \in Table
    BY <1>3, <1>5, UpdateType DEF TypeOK, MessageState
  <2>2. fcmMgr'.messages = fcmMgr.messages \ {s}
    BY <1>5 DEF removeAndSendNext, removeMessage
  <2> HIDE DEF s, d
  <2>3. QueueStep
    BY <1>1, <2>2, RemovalQueue
  <2>4. \/ db' = d
        \/ /\ sequenceId + 1 \in SeqIds
           /\ db'[sequenceId + 1].state \in LiveStates
           /\ db'[sequenceId + 1].type = "DOWNSTREAM_REJECT"
           /\ db'[sequenceId + 1].fcmId = obj[s].fcmId
           /\ db'[sequenceId + 1].tgt = obj[s].src
           /\ \A t \in SeqIds : t # sequenceId + 1 => db'[t] = d[t]
    BY <1>3, <1>5, <2>1, NotifyRows
  <2>5. RowStep
    BY <1>3, <1>5, <2>4, ResolveRows DEF d, MessageType
  <2>6. QED
    BY <2>3, <2>5
<1>6. QED
  BY <1>2, <1>4, <1>5 DEF handleFcmNackMessage

LEMMA TimerRows ==
    ASSUME TypeOK, TimerNext
    PROVE  RowStep /\ QueueStep
<1>1. obj' = obj
  BY DEF TimerNext, downstreamRetryTimeout, upstreamRetryTimeout,
         resendAllPendingDownstreamMessages, resendPendingUpstreamMessages, logonTimeout
<1>2. ASSUME NEW s \in SeqIds, downstreamRetryTimeout(s) \/ upstreamRetryTimeout(s)
      PROVE  RowStep /\ QueueStep
  BY <1>1, <1>2, SameRows, RemovalQueue DEF downstreamRetryTimeout, upstreamRetryTimeout, store
<1>3. CASE logonTimeout
  BY <1>1, <1>3, SameRows, RemovalQueue DEF logonTimeout, store
<1>4. ASSUME NEW s \in SeqIds, resendAllPendingDownstreamMessages(s)
      PROVE  RowStep /\ QueueStep
  <2>1. CASE UNCHANGED <<store, fcmMgr>>
    BY <1>1, <2>1, SameRows, RemovalQueue DEF store
  <2>2. CASE startDownstreamRetry(s) \/ giveUpDownstream(s) \/ giveUpDownstreamThrows(s)
    BY <1>1, <2>2, RetryRows
  <2>3. QED
    BY <1>4, <2>1, <2>2 DEF resendAllPendingDownstreamMessages
<1>5. ASSUME NEW s \in SeqIds, resendPendingUpstreamMessages(s)
      PROVE  RowStep /\ QueueStep
  <2>1. QueueStep
    BY <1>1, <1>5, RemovalQueue DEF resendPendingUpstreamMessages
  <2>2. \/ db' = db
        \/ /\ db' = updateMsgState(db, s, "PENDING_ACK")
           /\ loop.kind = "up" /\ s \in loop.todo
        \/ db' = updateMsgState(db, s, "DELIVERY_FAILED") /\ "uninit" \in Faults
    BY <1>5 DEF isNext, resendPendingUpstreamMessages, startUpstreamRetry, giveUpUpstream,
                giveUpUpstreamThrows, MayGiveUp
  <2>3. ASSUME NEW st \in {"PENDING_ACK", "DELIVERY_FAILED"},
               db' = updateMsgState(db, s, st),
               \/ st = "PENDING_ACK" /\ loop.kind = "up" /\ s \in loop.todo
               \/ st = "DELIVERY_FAILED" /\ "uninit" \in Faults
        PROVE  RowStep
    <3>1. \A t \in SeqIds : /\ Kept(db, db', t)
                            /\ db'[t].state = IF t = s THEN st ELSE db[t].state
      BY <2>3, UpdateRow DEF TypeOK, MessageState, Kept
    <3>2. QED
      BY <2>3, <3>1 DEF RowStep, OldRow
  <2>4. QED
    BY <2>1, <2>2, <2>3, SameRows
<1>6. QED
  BY <1>2, <1>3, <1>4, <1>5 DEF TimerNext

LEMMA StartRows ==
    ASSUME TypeOK, start
    PROVE  RowStep /\ QueueStep
<1>1. db' = db /\ obj' = Loaded(db)
  BY DEF start
<1>2. PICK queue \in Read(Pending(db, FCM)), index \in {"idx_source_session", "idx_state"} :
         fcmMgr' = loadPendingMessages(db, queue, index)
  BY DEF start
<1>3. db \in Table
  BY DEF TypeOK
<1>4. queue \subseteq Pending(db, FCM) /\ queue \in SUBSET SeqIds
  BY ReadPending
<1>5. fcmMgr'.messages = queue
  BY <1>2, <1>3, <1>4, LoadFields
<1>6. \A s \in SeqIds : obj'[s].fcmId = db[s].fcmId
  BY <1>1, <1>3 DEF Loaded, Table, Message
<1>7. QueueStep
  BY <1>1, <1>4, <1>5, <1>6 DEF QueueStep, Pending
<1>8. QED
  BY <1>1, <1>7, SameRows

LEMMA NextRows ==
    ASSUME TypeOK, ManagersSound, [Next]_vars
    PROVE  RowStep /\ QueueStep
<1>1. ASSUME \/ handleBalLogonRequest \/ handleBALSocketDisconnected
             \/ handleFcmSessionEstablished \/ handleFcmConnectionLost
             \/ messageDropped \/ UNCHANGED vars
      PROVE  RowStep /\ QueueStep
  <2>1. UNCHANGED <<db, obj, fcmMgr>>
    BY <1>1 DEF handleBalLogonRequest, handleBALSocketDisconnected,
                handleFcmSessionEstablished, handleFcmConnectionLost, messageDropped,
                vars, store
  <2>2. QED
    BY <2>1, SameRows, RemovalQueue
<1>2. CASE BalNext
  BY <1>1, <1>2, RequestRows, BalAckRows DEF BalNext
<1>3. CASE FcmNext
  BY <1>1, <1>3, UpstreamRows, ReceiptRows, FcmAckRows, FcmNackRows DEF FcmNext
<1>4. QED
  BY <1>1, <1>2, <1>3, TimerRows, StartRows DEF Next

-----------------------------------------------------------------------------
(* Nothing is taken as delivered that was not received.                    *)

\* A message that is queued for FCM is addressed to it.
FcmRows == \A s \in fcmMgr.messages : db[s].tgt = FCM

LEMMA FcmRowsStep ==
    ASSUME TypeOK, ManagersSound, FcmRows, [Next]_vars
    PROVE  FcmRows'
<1>1. RowStep /\ QueueStep
  BY NextRows
<1>2. \A s \in fcmMgr.messages : db'[s].tgt = FCM
  BY <1>1, NewIdNotQueued DEF RowStep, NewRow, OldRow, Kept, FcmRows
<1>3. QED
  BY <1>1, <1>2 DEF QueueStep, FcmRows

\* handleBalAckMsg marks a message as delivered only when the BAL has received
\* that very message and not acked it yet; no other handler, and no loop, marks
\* one that is for the BAL.  This holds under all faults.
THEOREM OnlyReceivedIsDelivered == Spec => DeliveredWasReceived
<1> DEFINE Received ==
              \A s \in SeqIds :
                 /\ db[s].tgt = BalSession
                 /\ db[s].state \in LiveStates /\ db'[s].state = "DELIVERED"
                 => s \in balInbox
<1>1. Init => FcmRows
  BY DEF Init, EmptyManager, FcmRows
<1>2. ASSUME TypeOK, ManagersSound, FcmRows, [Next]_vars PROVE Received
  <2>1. RowStep
    BY <1>2, NextRows
  <2>2. \A s \in fcmMgr.messages : db[s].tgt # BalSession
    BY <1>2, SessionsDiffer DEF FcmRows
  <2>3. QED
    BY <2>1, <2>2 DEF RowStep, NewRow, OldRow, LiveStates
<1>3. Spec => []FcmRows
  BY <1>1, FcmRowsStep, TypeCorrect, IndexesAgree, PTL DEF Spec
<1>4. TypeOK /\ ManagersSound /\ FcmRows /\ [Next]_vars => [Received]_vars
  BY <1>2
<1> HIDE DEF Received
<1>5. Spec => [][Received]_vars
  BY <1>3, <1>4, TypeCorrect, IndexesAgree, PTL DEF Spec
<1>6. QED
  BY <1>5 DEF DeliveredWasReceived, Received

-----------------------------------------------------------------------------
(* What was acked to FCM is kept.                                          *)

\* The row of an upstream message that is on its way or delivered.
KeptRow(s, u) ==
    /\ db[s].type = "UPSTREAM" /\ db[s].fcmId = u /\ db[s].tgt = BalSession
    /\ db[s].state \in LiveStates \cup {"DELIVERED"}

UpstreamKept ==
    \A u \in UpIds \ StrangerIds :
        fcmOutbox[u] = "done" => \E s \in SeqIds : KeptRow(s, u)

\* A row with a message has another id than the one the next save uses.
LEMMA RowIsOld ==
    ASSUME TypeOK, TableInv
    PROVE  \A s \in Rows(db) : s # sequenceId + 1
BY SequenceIdNat DEF TableInv, Queued, Agree

LEMMA KeptRowStays ==
    ASSUME TypeOK, TableInv, RowStep, "uninit" \notin Faults,
           NEW u, NEW s \in SeqIds, KeptRow(s, u)
    PROVE  KeptRow(s, u)'
<1>1. s \in Rows(db)
  BY DEF KeptRow, Rows, LiveStates
<1>2. OldRow(s)
  BY <1>1, RowIsOld DEF RowStep, NewRow
<1>3. s \notin fcmMgr.messages
  BY SessionsDiffer DEF KeptRow, TableInv, Queued, Agree, Pending
<1>4. QED
  BY <1>2, <1>3 DEF KeptRow, OldRow, Kept, LiveStates

\* Only the handler that saves an upstream message acks it.
LEMMA OutboxStep ==
    ASSUME TypeOK, Next, NEW u \in UpIds, fcmOutbox'[u] = "done", fcmOutbox[u] # "done"
    PROVE  /\ handleFcmNewUpstreamMessage(u)
           /\ saveAndForward(db, NewMessage("UPSTREAM", u, NoGroup, FCM, category(u)))
<1>1. fcmOutbox \in [UpIds \cup RcptIds -> {"ready", "sent", "done"}]
  BY DEF TypeOK
<1>2. ~ linkLost
  BY <1>1 DEF linkLost
<1>3. ~ UNCHANGED fcmOutbox
  OBVIOUS
<1>4. ASSUME NEW v \in UpIds, handleFcmNewUpstreamMessage(v)
      PROVE  /\ v = u
             /\ saveAndForward(db, NewMessage("UPSTREAM", u, NoGroup, FCM, category(u)))
  <2>1. v = u
    BY <1>1, <1>2, <1>4 DEF handleFcmNewUpstreamMessage
  <2>2. QED
    BY <1>1, <1>2, <1>4, <2>1 DEF handleFcmNewUpstreamMessage
<1>5. ASSUME NEW r \in RcptIds, handleFcmReceiptMessage(r) PROVE FALSE
  <2>1. r # u
    BY MessageAssumption
  <2>2. QED
    BY <1>1, <1>5, <2>1 DEF handleFcmReceiptMessage
<1>6. ~ messageDropped
  BY <1>1, <1>3 DEF messageDropped
<1>7. ~ BalNext
  <2>1. ASSUME NEW f \in DownIds, NEW g \in Groups \cup {NoGroup},
               NEW src \in {BalSession, NoSession},
               handleBalDownstreamUploadRequest(f, g, src)
        PROVE  FALSE
    BY <1>3, <2>1 DEF handleBalDownstreamUploadRequest
  <2>2. ASSUME NEW s \in SeqIds, handleBalAckMsg(s) PROVE FALSE
    BY <1>3, <2>2 DEF handleBalAckMsg, fcmSide
  <2>3. QED
    BY <1>3, <2>1, <2>2
       DEF BalNext, handleBalLogonRequest, handleBALSocketDisconnected, fcmSide
<1>8. ~ TimerNext
  BY <1>3 DEF TimerNext, downstreamRetryTimeout, upstreamRetryTimeout,
              resendAllPendingDownstreamMessages, resendPendingUpstreamMessages,
              logonTimeout, fcmSide
<1>9. ~ start
  BY <1>2 DEF start
<1>10. FcmNext
  BY <1>7, <1>8, <1>9 DEF Next
<1>11. \E v \in UpIds : handleFcmNewUpstreamMessage(v)
  BY <1>2, <1>3, <1>5, <1>6, <1>10
     DEF FcmNext, handleFcmAckMessage, handleFcmNackMessage,
         handleFcmSessionEstablished, handleFcmConnectionLost
<1>12. QED
  BY <1>4, <1>11

LEMMA UpstreamKeptStep ==
    ASSUME TypeOK, ManagersSound, TableInv, UpstreamKept, "uninit" \notin Faults, [Next]_vars
    PROVE  UpstreamKept'
<1> SUFFICES ASSUME NEW u \in UpIds \ StrangerIds, fcmOutbox'[u] = "done"
             PROVE  \E s \in SeqIds : KeptRow(s, u)'
  BY DEF UpstreamKept
<1>1. RowStep
  BY NextRows
<1>2. CASE fcmOutbox[u] = "done"
  BY <1>1, <1>2, KeptRowStays DEF UpstreamKept
<1>3. CASE fcmOutbox[u] # "done"
  <2> DEFINE m == NewMessage("UPSTREAM", u, NoGroup, FCM, category(u))
  <2>1. Next
    BY <1>3 DEF vars, fcmSide
  <2>2. Room /\ saveAndForward(db, m)
    BY <1>3, <2>1, OutboxStep DEF handleFcmNewUpstreamMessage
  <2>3. /\ m \in Message /\ m.state \in LiveStates /\ m.type = "UPSTREAM"
        /\ m.fcmId = u /\ m.tgt = BalSession
    <3>1. m \in Message
      BY NewMessageType, DownIdsType, CategoryType DEF MessageType, Sessions
    <3>2. QED
      BY <3>1 DEF NewMessage, LiveStates, category
  <2>4. PICK a \in SeqIds : a = sequenceId + 1
    BY <2>2, NextIdType
  <2>5. /\ db \in Table
        /\ \/ db' = saveMsg(db, a, m)
           \/ db' = updateMsgState(saveMsg(db, a, m), a, "PENDING_ACK")
    BY <2>2, <2>4 DEF saveAndForward, TypeOK
  <2> HIDE DEF m
  <2>6. KeptRow(a, u)'
    BY <2>3, <2>5, InsertRows DEF KeptRow
  <2>7. QED
    BY <2>6
<1>4. QED
  BY <1>2, <1>3

\* handleFcmNewUpstreamMessage acks a message only after saveMsg has succeeded,
\* and from then on the message is delivered or queued, whatever connection is
\* lost, whatever statement fails and whenever the daemon dies.
THEOREM AckedIsKept ==
    ASSUME "uninit" \notin Faults, "loadFail" \notin Faults
    PROVE  Spec => []AckedUpstreamIsKept
<1>1. Init => UpstreamKept
  BY DEF Init, UpstreamKept
<1>2. TypeOK /\ ManagersSound /\ TableInv /\ UpstreamKept /\ [Next]_vars => UpstreamKept'
  BY UpstreamKeptStep
<1>3. TableInv /\ UpstreamKept => AckedUpstreamIsKept
  <2> SUFFICES ASSUME TableInv, NEW u, NEW s \in SeqIds, KeptRow(s, u)
               PROVE  db[s].state = "DELIVERED" \/ s \in balMgr.messages
    BY DEF UpstreamKept, AckedUpstreamIsKept, KeptRow
  <2>1. CASE db[s].state \in LiveStates
    <3>1. s \in Pending(db, BalSession) /\ db[s].type # "DOWNSTREAM_REJECT"
      BY <2>1 DEF KeptRow, Pending
    <3>2. QED
      BY <3>1 DEF TableInv, Queued, Agree, Complete
  <2>2. QED
    BY <2>1 DEF KeptRow
<1>4. QED
  BY <1>1, <1>2, <1>3, TypeCorrect, IndexesAgree, TableInvariant, PTL DEF Spec

-----------------------------------------------------------------------------
(* Every report is true.                                                   *)

\* Row s holds what row a reports of it.
TrueOf(a, s) ==
    /\ s < a
    /\ db[s].type = "DOWNSTREAM" /\ db[s].state = Outcome(db[a].type)
    /\ db[s].fcmId = db[a].fcmId /\ db[s].src = db[a].tgt

\* Only downstream messages are queued for FCM, and the object a report is
\* made from has the FCM id of its row.
ReportInv ==
    /\ ReportsAreTrue
    /\ \A s \in SeqIds : db[s].tgt = FCM => db[s].type = "DOWNSTREAM"
    /\ \A s \in fcmMgr.messages : obj[s].fcmId = db[s].fcmId

\* A report that is there stays true: the outcome it reports is final.
LEMMA StaysTrue ==
    ASSUME TypeOK, TableInv, RowStep, "uninit" \notin Faults,
           NEW a \in SeqIds, Kept(db, db', a), NEW s \in SeqIds, TrueOf(a, s)
    PROVE  TrueOf(a, s)'
<1>1. s \in Rows(db) /\ db[s].state \notin LiveStates
  BY DEF TrueOf, Outcome, Rows, LiveStates
<1>2. OldRow(s)
  BY <1>1, RowIsOld DEF RowStep, NewRow
<1>3. s \notin fcmMgr.messages /\ s \notin balMgr.messages
  BY <1>1 DEF TableInv, Queued, Agree, Pending
<1>4. loop.kind = "up" => s \notin loop.todo
  BY <1>3 DEF TableInv, LoopQueued
<1>5. Kept(db, db', s) /\ db'[s].state = db[s].state
  BY <1>2, <1>3, <1>4 DEF OldRow
<1>6. QED
  BY <1>5 DEF TrueOf, Kept

\* A report that is inserted is true at once.
LEMMA TrueAtOnce ==
    ASSUME TypeOK, ManagersSound, TableInv, ReportInv, NEW a \in SeqIds, a = sequenceId + 1,
           NEW s \in fcmMgr.messages, ReportOf(a, s)
    PROVE  s \in SeqIds /\ TrueOf(a, s)'
<1>1. s \in SeqIds /\ s < a
  BY SequenceIdNat, MessageAssumption DEF ManagersSound, Sound, TypeOK, Manager, SeqIds
<1>2. db[s].tgt = FCM /\ obj[s].src = db[s].src
  BY DEF TableInv, Queued, Agree, Pending, ObjectsLive
<1>3. db[s].type = "DOWNSTREAM" /\ obj[s].fcmId = db[s].fcmId
  BY <1>1, <1>2 DEF ReportInv
<1>4. QED
  BY <1>1, <1>2, <1>3 DEF ReportOf, Kept, TrueOf

LEMMA ReportStep ==
    ASSUME TypeOK, ManagersSound, TableInv, ReportInv, "uninit" \notin Faults, [Next]_vars
    PROVE  ReportInv'
<1>1. RowStep /\ QueueStep
  BY NextRows
<1>2. ASSUME NEW a \in SeqIds, db'[a].type \in {"DOWNSTREAM_ACK", "DOWNSTREAM_REJECT"}
      PROVE  \E s \in SeqIds : TrueOf(a, s)'
  <2>1. CASE NewRow(a)
    <3>1. PICK s \in fcmMgr.messages : ReportOf(a, s)
      BY <1>2, <2>1 DEF NewRow
    <3>2. s \in SeqIds /\ TrueOf(a, s)'
      BY <2>1, <3>1, TrueAtOnce DEF NewRow
    <3>3. QED
      BY <3>2
  <2>2. CASE OldRow(a)
    <3>1. PICK s \in SeqIds : TrueOf(a, s)
      BY <1>2, <2>2 DEF OldRow, Kept, ReportInv, ReportsAreTrue, TrueOf
    <3>2. TrueOf(a, s)'
      BY <1>1, <2>2, <3>1, StaysTrue DEF OldRow
    <3>3. QED
      BY <3>2
  <2>3. QED
    BY <1>1, <2>1, <2>2 DEF RowStep
<1>3. ReportsAreTrue'
  BY <1>2 DEF ReportsAreTrue, TrueOf
<1>4. ASSUME NEW s \in SeqIds, db'[s].tgt = FCM PROVE db'[s].type = "DOWNSTREAM"
  <2>1. CASE OldRow(s)
    BY <1>4, <2>1 DEF OldRow, Kept, ReportInv
  <2>2. \A x \in fcmMgr.messages : obj[x].src # FCM
    BY DEF TableInv, Queued, Agree, ObjectsLive
  <2>3. CASE NewRow(s)
    BY <1>4, <2>2, <2>3 DEF NewRow, ReportOf
  <2>4. QED
    BY <1>1, <2>1, <2>3 DEF RowStep
<1>5. \A s \in fcmMgr'.messages : obj'[s].fcmId = db'[s].fcmId
  BY <1>1, NewIdNotQueued DEF RowStep, QueueStep, NewRow, OldRow, Kept, ReportInv
<1>6. QED
  BY <1>3, <1>4, <1>5 DEF ReportInv

\* handleFcmAckMessage and handleFcmNackMessage store the outcome before they
\* save the report of it, and nothing revises it later: wherever the process
\* dies between the two statements and whichever of them fails, the BAL is
\* never told of an outcome that the table does not hold.
THEOREM ReportsStayTrue ==
    ASSUME "uninit" \notin Faults
    PROVE  Spec => []ReportsAreTrue
<1>1. Init => ReportInv
  BY SessionsDiffer
     DEF Init, EmptyTable, EmptyManager, DefaultMessage, ReportInv, ReportsAreTrue
<1>2. TypeOK /\ ManagersSound /\ TableInv /\ ReportInv /\ [Next]_vars => ReportInv'
  BY ReportStep
<1>3. ReportInv => ReportsAreTrue
  BY DEF ReportInv
<1>4. QED
  BY <1>1, <1>2, <1>3, TypeCorrect, IndexesAgree, TableInvariant, PTL DEF Spec
=============================================================================
