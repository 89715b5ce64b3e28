------------------------- MODULE ApplicationProofs -------------------------
(***************************************************************************)
(* Proofs about Application, for every number of sequence ids, every set   *)
(* of message ids and groups, every window and every set of faults.        *)
(***************************************************************************)
EXTENDS Application, TLAPS

-----------------------------------------------------------------------------
(* Lemmas about the operators of the modules below.                        *)

\* First picks a least member, or 0.
LEMMA FirstMember ==
    ASSUME NEW S
    PROVE  \/ First(S) = 0
           \/ First(S) \in S /\ \A t \in S : First(S) <= t
BY DEF First

LEMMA NewMessageType ==
    ASSUME NEW type \in MessageType, NEW f \in MsgIds, NEW g \in Groups \cup {NoGroup},
           NEW src \in Sessions, NEW tgt \in Sessions
    PROVE  NewMessage(type, f, g, src, tgt) \in Message
BY DEF NewMessage, Message, MessageState

LEMMA SetStateType ==
    ASSUME NEW m \in Message, NEW st \in MessageState
    PROVE  [m EXCEPT !.state = st] \in Message
BY DEF Message

LEMMA SaveType ==
    ASSUME NEW d \in Table, NEW s \in SeqIds, NEW m \in Message
    PROVE  saveMsg(d, s, m) \in Table
<1>1. [m EXCEPT !.ctor = "default"] \in Message
  BY DEF Message
<1>2. QED
  BY <1>1 DEF saveMsg, Table

LEMMA UpdateType ==
    ASSUME NEW d \in Table, NEW s, NEW st \in MessageState
    PROVE  updateMsgState(d, s, st) \in Table
<1>1. CASE s \in SeqIds
  <2>1. [d[s] EXCEPT !.state = st] \in Message
    BY <1>1, SetStateType DEF Table
  <2>2. QED
    BY <1>1, <2>1 DEF updateMsgState, Table
<1>2. CASE s \notin SeqIds
  BY <1>2 DEF updateMsgState, Table
<1>3. QED
  BY <1>1, <1>2

LEMMA LoadedType ==
    ASSUME NEW d \in Table
    PROVE  Loaded(d) \in Table
<1>1. ASSUME NEW s \in SeqIds PROVE [d[s] EXCEPT !.gid = NoGroup] \in Message
  BY DEF Table, Message
<1>2. QED
  BY <1>1 DEF Loaded, Table

LEMMA EmptyManagerType == EmptyManager \in Manager
BY DEF EmptyManager, Manager

LEMMA AddType ==
    ASSUME NEW mm \in Manager, NEW o \in Table, NEW s \in SeqIds
    PROVE  addMessage(mm, o, s) \in Manager
<1>1. o[s].gid \in Groups \cup {NoGroup}
  BY DEF Table, Message
<1>2. addToGroups(mm.groups, o, s) \in [Groups -> SUBSET SeqIds]
  BY <1>1 DEF addToGroups, Manager
<1>3. [mm.sequenceIdMap EXCEPT ![o[s].fcmId] = IF @ = 0 THEN s ELSE @]
         \in [MsgIds -> SeqIds \cup {0}]
  BY DEF Manager
<1>4. QED
  BY <1>2, <1>3 DEF addMessage, Manager

LEMMA RemoveType ==
    ASSUME NEW mm \in Manager, NEW o \in Table, NEW s \in SeqIds
    PROVE  removeMessage(mm, o, s) \in Manager
<1>1. o[s].gid \in Groups \cup {NoGroup}
  BY DEF Table, Message
<1>2. removeFromGroups(mm.groups, o, s) \in [Groups -> SUBSET SeqIds]
  BY <1>1 DEF removeFromGroups, Manager
<1>3. [mm.sequenceIdMap EXCEPT ![o[s].fcmId] = 0] \in [MsgIds -> SeqIds \cup {0}]
  BY DEF Manager
<1>4. decrementPendingAckCount(mm.pendingAckCount) \in Nat
  BY DEF decrementPendingAckCount, Manager
<1>5. QED
  BY <1>2, <1>3, <1>4 DEF removeMessage, Manager

LEMMA IncrementType ==
    ASSUME NEW mm \in Manager
    PROVE  incrementPendingAckCount(mm) \in Manager
BY DEF incrementPendingAckCount, Manager

LEMMA FindType ==
    ASSUME NEW mm \in Manager, NEW f
    PROVE  findMessageWithFcmMsgId(mm, f) \in mm.messages \cup {0}
BY DEF findMessageWithFcmMsgId

LEMMA GetNextType ==
    ASSUME NEW mm, NEW o
    PROVE  getNext(mm, o) \subseteq mm.messages
BY DEF getNext

LEMMA LoadType ==
    ASSUME NEW d \in Table, NEW queue \in SUBSET SeqIds, NEW index
    PROVE  loadPendingMessages(d, queue, index) \in Manager
<1> DEFINE same(f) == {s \in queue : d[s].fcmId = f}
           new(f)  == {s \in same(f) : d[s].state = "NEW"}
           lead(f) == IF index = "idx_state" /\ new(f) # {} THEN new(f) ELSE same(f)
           map     == [f \in MsgIds |-> First(lead(f))]
<1>2. ASSUME NEW f \in MsgIds
      PROVE  First(lead(f)) \in SeqIds \cup {0}
  <2>1. lead(f) \subseteq SeqIds
    OBVIOUS
  <2>2. First(lead(f)) \in lead(f) \cup {0}
    BY FirstMember
  <2>3. QED
    BY <2>1, <2>2
<1>3. map \in [MsgIds -> SeqIds \cup {0}]
  BY <1>2
<1>4. [EmptyManager EXCEPT !.messages = queue, !.sequenceIdMap = map] \in Manager
  <2> HIDE DEF map
  <2>1. QED
    BY <1>3, EmptyManagerType DEF Manager
<1>5. QED
  BY <1>4 DEF loadPendingMessages

LEMMA ReadPending ==
    ASSUME NEW d, NEW session, NEW queue \in Read(Pending(d, session))
    PROVE  queue \subseteq Pending(d, session) /\ queue \in SUBSET SeqIds
BY DEF Read, Pending

LEMMA UploadType ==
    ASSUME NEW inbox \in [DownIds -> 0 .. MaxCopies], NEW o, NEW S
    PROVE  uploadToFcm(inbox, o, S) \in [DownIds -> 0 .. MaxCopies]
BY ApplicationAssumption DEF uploadToFcm, upTo

-----------------------------------------------------------------------------
(* Type correctness.                                                       *)

LEMMA NextIdType ==
    ASSUME TypeOK, Room
    PROVE  sequenceId + 1 \in SeqIds /\ sequenceId + 1 \in 0 .. MaxSeqId
BY MessageAssumption DEF TypeOK, Room, SeqIds

LEMMA WriteType ==
    ASSUME TypeOK, NEW S \in SUBSET SeqIds
    PROVE  writeMessage(S) \in SUBSET SeqIds
BY DEF writeMessage, TypeOK

LEMMA LinkLostType ==
    ASSUME TypeOK, linkLost
    PROVE  /\ fcmUp' \in BOOLEAN
           /\ fcmSplit' \in BOOLEAN
           /\ fcmInbox' \in [DownIds -> 0 .. MaxCopies]
           /\ fcmOutbox' \in [UpIds \cup RcptIds -> {"ready", "sent", "done"}]
<1>1. fcmUp' \in BOOLEAN /\ fcmSplit' \in BOOLEAN
  BY DEF linkLost
<1>2. fcmInbox' \in [DownIds -> 0 .. MaxCopies]
  BY ApplicationAssumption DEF linkLost
<1>3. fcmOutbox' \in [UpIds \cup RcptIds -> {"ready", "sent", "done"}]
  BY DEF linkLost, TypeOK
<1>4. QED
  BY <1>1, <1>2, <1>3

LEMMA SaveForwardType ==
    ASSUME TypeOK, Room, NEW d \in Table, NEW m \in Message,
           saveFails(d) \/ saveAndForward(d, m)
    PROVE  /\ sequenceId' \in 0 .. MaxSeqId
           /\ db' \in Table
           /\ obj' \in Table
           /\ balMgr' \in Manager
           /\ balInbox' \in SUBSET SeqIds
<1> DEFINE a  == sequenceId + 1
           o  == [obj EXCEPT ![a] = m]
           pm == [m EXCEPT !.state = "PENDING_ACK"]
           mm == addMessage(balMgr, o, a)
<1>1. a \in SeqIds /\ a \in 0 .. MaxSeqId
  BY NextIdType
<1>2. o \in Table /\ [obj EXCEPT ![a] = pm] \in Table
  <2>1. pm \in Message
    BY SetStateType DEF MessageState
  <2>2. QED
    BY <2>1, <1>1 DEF Table, TypeOK
<1>3. mm \in Manager /\ incrementPendingAckCount(mm) \in Manager
  BY <1>1, <1>2, AddType, IncrementType DEF TypeOK
<1>4. /\ saveMsg(d, a, m) \in Table
      /\ updateMsgState(saveMsg(d, a, m), a, "PENDING_ACK") \in Table
  BY <1>1, SaveType, UpdateType DEF MessageState
<1>5. writeMessage({a}) \in SUBSET SeqIds
  BY <1>1, WriteType
<1>6. CASE saveFails(d)
  BY <1>1, <1>6 DEF saveFails, TypeOK
<1>7. CASE saveAndForward(d, m)
  <2> HIDE DEF a, o, pm, mm
  <2>1. /\ sequenceId' = a
        /\ \/ db' = saveMsg(d, a, m) /\ UNCHANGED <<obj, balMgr, balInbox>>
           \/ /\ db' = saveMsg(d, a, m)
              /\ obj' = o /\ balMgr' = mm /\ UNCHANGED balInbox
           \/ /\ db' = updateMsgState(saveMsg(d, a, m), a, "PENDING_ACK")
              /\ obj' = [obj EXCEPT ![a] = pm]
              /\ balMgr' = incrementPendingAckCount(mm)
              /\ balInbox' = writeMessage({a})
    BY <1>7 DEF saveAndForward, a, o, pm, mm
  <2>2. QED
    BY <1>1, <1>2, <1>3, <1>4, <1>5, <2>1 DEF TypeOK
<1>8. QED
  BY <1>6, <1>7

LEMMA NotifyType ==
    ASSUME TypeOK, Room, NEW d \in Table, NEW s \in SeqIds,
           notifyDownstreamUploadFailure(d, s)
    PROVE  sequenceId' \in 0 .. MaxSeqId /\ db' \in Table
<1> DEFINE report == [DefaultMessage EXCEPT
                         !.type = "DOWNSTREAM_REJECT", !.fcmId = obj[s].fcmId,
                         !.tgt = obj[s].src, !.state = "PENDING_ACK"]
<1>1. report \in Message
  BY DEF TypeOK, Table, Message, DefaultMessage, MessageType, MessageState, Sessions
<1>2. saveMsg(d, sequenceId + 1, report) \in Table
  BY <1>1, NextIdType, SaveType
<1>3. QED
  BY <1>2, NextIdType DEF notifyDownstreamUploadFailure

LEMMA TimersType ==
    ASSUME NEW timers \in [SeqIds -> 0 .. MaxTimers], NEW s \in SeqIds
    PROVE  retryLater(timers, s) \in [SeqIds -> 0 .. MaxTimers]
BY ApplicationAssumption DEF retryLater, upTo

LEMMA StartLoopType ==
    ASSUME NEW kind \in {"down", "up"}, NEW queue \in SUBSET SeqIds
    PROVE  startLoop(kind, queue)
              \in [kind : {"idle", "down", "up", "terminated"}, todo : SUBSET SeqIds]
BY DEF startLoop, Nothing

LEMMA NothingType ==
    ASSUME NEW kind \in {"idle", "terminated"}
    PROVE  Nothing(kind)
              \in [kind : {"idle", "down", "up", "terminated"}, todo : SUBSET SeqIds]
BY DEF Nothing

LEMMA AfterEraseType ==
    ASSUME NEW kind \in {"down", "up"}, NEW rest \in SUBSET SeqIds, afterErase(kind, rest)
    PROVE  loop' \in [kind : {"idle", "down", "up", "terminated"}, todo : SUBSET SeqIds]
<1>1. CASE loop' = Nothing("terminated")
  BY <1>1, NothingType
<1>2. ASSUME NEW todo \in SUBSET rest, loop' = startLoop(kind, todo)
      PROVE  loop' \in [kind : {"idle", "down", "up", "terminated"}, todo : SUBSET SeqIds]
  BY <1>2, StartLoopType
<1>3. QED
  BY <1>1, <1>2 DEF afterErase

\* A handler returns, or the process dies inside it.
LEMMA EndsType ==
    ASSUME TypeOK, ends
    PROVE  loop' \in [kind : {"idle", "down", "up", "terminated"}, todo : SUBSET SeqIds]
<1>1. CASE UNCHANGED loop
  BY <1>1 DEF TypeOK
<1>2. CASE dies
  BY <1>2, NothingType DEF dies
<1>3. QED
  BY <1>1, <1>2 DEF ends

\* The three outcomes of retryDownstreamWithExponentialBackoff.
LEMMA RetryDownstreamType ==
    ASSUME TypeOK, NEW s \in SeqIds,
           startDownstreamRetry(s) \/ giveUpDownstream(s) \/ giveUpDownstreamThrows(s)
    PROVE  /\ sequenceId' \in 0 .. MaxSeqId
           /\ db' \in Table
           /\ fcmMgr' \in Manager
           /\ fcmTimers' \in [SeqIds -> 0 .. MaxTimers]
<1>1. updateMsgState(db, s, "DELIVERY_FAILED") \in Table
  BY UpdateType DEF TypeOK, MessageState
<1>2. CASE startDownstreamRetry(s)
  BY <1>2, TimersType DEF startDownstreamRetry, store, TypeOK
<1>3. CASE giveUpDownstream(s)
  <2> DEFINE victim == findMessageWithFcmMsgId(fcmMgr, obj[s].fcmId)
  <2>1. victim \in SeqIds
    BY <1>3, FindType DEF giveUpDownstream, TypeOK, Manager
  <2>2. removeMessage(fcmMgr, obj, victim) \in Manager
    BY <2>1, RemoveType DEF TypeOK
  <2>3. Room /\ notifyDownstreamUploadFailure(updateMsgState(db, s, "DELIVERY_FAILED"), s)
    BY <1>3 DEF giveUpDownstream
  <2>4. sequenceId' \in 0 .. MaxSeqId /\ db' \in Table
    BY <1>1, <2>3, NotifyType
  <2>5. QED
    BY <1>3, <2>2, <2>4 DEF giveUpDownstream, TypeOK
<1>4. CASE giveUpDownstreamThrows(s)
  BY <1>1, <1>4 DEF giveUpDownstreamThrows, TypeOK
<1>5. QED
  BY <1>2, <1>3, <1>4

\* The three outcomes of retryUpstreamWithExponentialBackoff.
LEMMA RetryUpstreamType ==
    ASSUME TypeOK, NEW s \in SeqIds,
           startUpstreamRetry(s) \/ giveUpUpstream(s) \/ giveUpUpstreamThrows(s)
    PROVE  /\ db' \in Table
           /\ balMgr' \in Manager
           /\ balTimers' \in [SeqIds -> 0 .. MaxTimers]
<1>1. updateMsgState(db, s, "DELIVERY_FAILED") \in Table
  BY UpdateType DEF TypeOK, MessageState
<1>2. CASE startUpstreamRetry(s)
  BY <1>2, TimersType DEF startUpstreamRetry, TypeOK
<1>3. CASE giveUpUpstream(s)
  <2> DEFINE victim == findMessageWithFcmMsgId(balMgr, obj[s].fcmId)
  <2>1. victim \in SeqIds
    BY <1>3, FindType DEF giveUpUpstream, TypeOK, Manager
  <2>2. removeMessage(balMgr, obj, victim) \in Manager
    BY <2>1, RemoveType DEF TypeOK
  <2>3. QED
    BY <1>1, <1>3, <2>2 DEF giveUpUpstream, TypeOK
<1>4. CASE giveUpUpstreamThrows(s)
  BY <1>1, <1>4 DEF giveUpUpstreamThrows, TypeOK
<1>5. QED
  BY <1>2, <1>3, <1>4

LEMMA CategoryType == \A u : category(u) \in Sessions
BY DEF category, Sessions

LEMMA AnsweredType ==
    ASSUME TypeOK, NEW f \in DownIds, fcmInbox[f] > 0
    PROVE  answered(f) \in [DownIds -> 0 .. MaxCopies]
BY ApplicationAssumption DEF answered, TypeOK

\* A queued message with the FCM id of an answer.
LEMMA FoundType ==
    ASSUME TypeOK, NEW f \in MsgIds, findMessageWithFcmMsgId(fcmMgr, f) # 0
    PROVE  /\ findMessageWithFcmMsgId(fcmMgr, f) \in SeqIds
           /\ findMessageWithFcmMsgId(fcmMgr, f) \in fcmMgr.messages
<1>1. fcmMgr \in Manager /\ fcmMgr.messages \subseteq SeqIds
  BY DEF TypeOK, Manager
<1>2. findMessageWithFcmMsgId(fcmMgr, f) \in fcmMgr.messages
  BY <1>1, FindType
<1>3. QED
  BY <1>1, <1>2

LEMMA RemoveAndSendNextType ==
    ASSUME TypeOK, NEW f \in DownIds, fcmInbox[f] > 0, NEW s \in SeqIds,
           removeAndSendNext(f, s)
    PROVE  fcmMgr' \in Manager /\ fcmInbox' \in [DownIds -> 0 .. MaxCopies]
<1>1. removeMessage(fcmMgr, obj, s) \in Manager
  BY RemoveType DEF TypeOK
<1>2. QED
  BY <1>1, AnsweredType, UploadType DEF removeAndSendNext

LEMMA DownIdsType == DownIds \subseteq MsgIds /\ UpIds \subseteq MsgIds /\ RcptIds \subseteq MsgIds
BY DEF MsgIds

LEMMA RequestType ==
    ASSUME TypeOK, NEW f \in DownIds, NEW g \in Groups \cup {NoGroup},
           NEW src \in {BalSession, NoSession},
           handleBalDownstreamUploadRequest(f, g, src)
    PROVE  TypeOK'
<1> DEFINE a  == sequenceId + 1
           m  == NewMessage("DOWNSTREAM", f, g, src, FCM)
           pm == [m EXCEPT !.state = "PENDING_ACK"]
           o  == [obj EXCEPT ![a] = m]
           mm == addMessage(fcmMgr, o, a)
<1>1. a \in SeqIds /\ a \in 0 .. MaxSeqId
  BY NextIdType DEF handleBalDownstreamUploadRequest
<1>2. m \in Message /\ pm \in Message
  <2>1. m \in Message
    BY NewMessageType, DownIdsType DEF MessageType, Sessions
  <2>2. QED
    BY <2>1, SetStateType DEF MessageState
<1>3. o \in Table /\ [obj EXCEPT ![a] = pm] \in Table
  <2> HIDE DEF m, pm, a
  <2>1. QED
    BY <1>1, <1>2 DEF Table, TypeOK
<1>4. mm \in Manager /\ incrementPendingAckCount(mm) \in Manager
  BY <1>1, <1>3, AddType, IncrementType DEF TypeOK
<1>5. /\ saveMsg(db, a, m) \in Table
      /\ updateMsgState(saveMsg(db, a, m), a, "PENDING_ACK") \in Table
  BY <1>1, <1>2, SaveType, UpdateType DEF MessageState, TypeOK
<1>6. uploadToFcm(fcmInbox, o, {a}) \in [DownIds -> 0 .. MaxCopies]
  BY UploadType DEF TypeOK
<1> HIDE DEF a, m, pm, o, mm
<1>7. /\ sequenceId' = a
      /\ \/ UNCHANGED <<db, obj, fcmMgr, fcmInbox>>
         \/ /\ db' = saveMsg(db, a, m)
            /\ obj' = o /\ fcmMgr' = mm /\ UNCHANGED fcmInbox
         \/ /\ db' = updateMsgState(saveMsg(db, a, m), a, "PENDING_ACK")
            /\ obj' = [obj EXCEPT ![a] = pm]
            /\ fcmMgr' = incrementPendingAckCount(mm)
            /\ fcmInbox' = uploadToFcm(fcmInbox, o, {a})
      /\ UNCHANGED <<balMgr, fcmUp, fcmSplit, fcmOutbox, fcmTimers, balSide>>
  BY DEF handleBalDownstreamUploadRequest, a, m, pm, o, mm
<1>8. loop' \in [kind : {"idle", "down", "up", "terminated"}, todo : SUBSET SeqIds]
  BY EndsType DEF handleBalDownstreamUploadRequest
<1>9. QED
  BY <1>1, <1>3, <1>4, <1>5, <1>6, <1>7, <1>8 DEF TypeOK, balSide

LEMMA AckedIdIsOwn ==
    ASSUME TypeOK, NEW s \in SeqIds, ackedId(s) \in balMgr.messages
    PROVE  ackedId(s) = s
BY DEF TypeOK, ackedId, Manager, SeqIds

LEMMA BalAckType ==
    ASSUME TypeOK, NEW s \in SeqIds, handleBalAckMsg(s)
    PROVE  TypeOK'
<1>1. removeMessage(balMgr, obj, s) \in Manager
  BY RemoveType DEF TypeOK
<1>2. getNext(removeMessage(balMgr, obj, s), obj) \subseteq SeqIds
  BY <1>1, GetNextType DEF Manager
<1>3. updateMsgState(db, s, "DELIVERED") \in Table
  BY UpdateType DEF TypeOK, MessageState
<1>4. db' \in Table /\ balMgr' \in Manager /\ balInbox' \in SUBSET SeqIds
  BY <1>1, <1>2, <1>3, AckedIdIsOwn DEF handleBalAckMsg, TypeOK
<1>5. QED
  BY <1>4 DEF handleBalAckMsg, TypeOK, fcmSide

LEMMA LogonType ==
    ASSUME TypeOK, handleBalLogonRequest \/ handleBALSocketDisconnected
    PROVE  TypeOK'
<1>1. CASE handleBalLogonRequest
  <2>1. balAuth' \in BOOLEAN
    BY <1>1 DEF handleBalLogonRequest
  <2>2. logonTimers' \in 0 .. MaxTimers
    BY <1>1, ApplicationAssumption DEF handleBalLogonRequest, TypeOK
  <2>3. QED
    BY <1>1, <2>1, <2>2 DEF handleBalLogonRequest, TypeOK, store, fcmSide
<1>2. CASE handleBALSocketDisconnected
  <2>1. balAuth' \in BOOLEAN
    BY <1>2 DEF handleBALSocketDisconnected
  <2>2. balInbox' \in SUBSET SeqIds
    BY <1>2 DEF handleBALSocketDisconnected, TypeOK
  <2>3. QED
    BY <1>2, <2>1, <2>2 DEF handleBALSocketDisconnected, TypeOK, store, fcmSide
<1>3. QED
  BY <1>1, <1>2

LEMMA UpstreamType ==
    ASSUME TypeOK, NEW u \in UpIds, handleFcmNewUpstreamMessage(u)
    PROVE  TypeOK'
<1> DEFINE m == NewMessage("UPSTREAM", u, NoGroup, FCM, category(u))
<1>1. m \in Message
  BY NewMessageType, DownIdsType, CategoryType DEF MessageType, Sessions
<1>2. Room /\ (saveFails(db) \/ saveAndForward(db, m))
  BY DEF handleFcmNewUpstreamMessage
<1>3. /\ sequenceId' \in 0 .. MaxSeqId
      /\ db' \in Table
      /\ obj' \in Table
      /\ balMgr' \in Manager
      /\ balInbox' \in SUBSET SeqIds
  <2> HIDE DEF m
  <2>1. db \in Table
    BY DEF TypeOK
  <2>2. QED
    BY <1>1, <1>2, <2>1, SaveForwardType
<1>4. /\ fcmUp' \in BOOLEAN
      /\ fcmSplit' \in BOOLEAN
      /\ fcmInbox' \in [DownIds -> 0 .. MaxCopies]
      /\ fcmOutbox' \in [UpIds \cup RcptIds -> {"ready", "sent", "done"}]
  <2>1. CASE linkLost
    BY <2>1, LinkLostType
  <2>2. CASE UNCHANGED <<fcmUp, fcmSplit, fcmInbox>> /\ \E st \in {"sent", "done"} :
                fcmOutbox' = [fcmOutbox EXCEPT ![u] = st]
    BY <2>2 DEF TypeOK
  <2>3. QED
    BY <2>1, <2>2 DEF handleFcmNewUpstreamMessage
<1>5. loop' \in [kind : {"idle", "down", "up", "terminated"}, todo : SUBSET SeqIds]
  BY EndsType DEF handleFcmNewUpstreamMessage
<1>6. QED
  BY <1>3, <1>4, <1>5 DEF handleFcmNewUpstreamMessage, TypeOK

LEMMA ReceiptType ==
    ASSUME TypeOK, NEW r \in RcptIds, handleFcmReceiptMessage(r)
    PROVE  TypeOK'
<1> DEFINE m == [DefaultMessage EXCEPT
                    !.type = "DOWNSTREAM_RECEIPT", !.fcmId = r,
                    !.src = FCM, !.tgt = category(r), !.state = "NEW"]
<1>1. m \in Message
  BY CategoryType, DownIdsType
     DEF Message, DefaultMessage, MessageType, MessageState, Sessions
<1>2. Room /\ (saveFails(db) \/ saveAndForward(db, m))
  BY DEF handleFcmReceiptMessage
<1>3. /\ sequenceId' \in 0 .. MaxSeqId
      /\ db' \in Table
      /\ obj' \in Table
      /\ balMgr' \in Manager
      /\ balInbox' \in SUBSET SeqIds
  <2> HIDE DEF m
  <2>1. db \in Table
    BY DEF TypeOK
  <2>2. QED
    BY <1>1, <1>2, <2>1, SaveForwardType
<1>4. fcmOutbox' \in [UpIds \cup RcptIds -> {"ready", "sent", "done"}]
  BY DEF handleFcmReceiptMessage, TypeOK
<1>5. loop' \in [kind : {"idle", "down", "up", "terminated"}, todo : SUBSET SeqIds]
  BY EndsType DEF handleFcmReceiptMessage
<1>6. QED
  BY <1>3, <1>4, <1>5 DEF handleFcmReceiptMessage, TypeOK

LEMMA IgnoreAnswerType ==
    ASSUME TypeOK, NEW f \in DownIds, fcmInbox[f] > 0, ignoreAnswer(f)
    PROVE  /\ fcmInbox' \in [DownIds -> 0 .. MaxCopies]
           /\ UNCHANGED <<sequenceId, db, obj, fcmMgr, balMgr, balInbox>>
BY AnsweredType DEF ignoreAnswer, store

LEMMA FcmAckType ==
    ASSUME TypeOK, NEW f \in DownIds, handleFcmAckMessage(f)
    PROVE  TypeOK'
<1> DEFINE s == findMessageWithFcmMsgId(fcmMgr, f)
           d == updateMsgState(db, s, "DELIVERED")
           m == NewMessage("DOWNSTREAM_ACK", f, NoGroup, FCM, obj[s].src)
<1>1. /\ fcmInbox[f] > 0
      /\ loop' \in [kind : {"idle", "down", "up", "terminated"}, todo : SUBSET SeqIds]
  BY EndsType DEF handleFcmAckMessage
<1>2. CASE ignoreAnswer(f)
  BY <1>1, <1>2, IgnoreAnswerType DEF handleFcmAckMessage, TypeOK
<1>3. CASE s # 0 /\ Room /\ removeAndSendNext(f, s) /\ (saveFails(d) \/ saveAndForward(d, m))
  <2>1. s \in SeqIds
    BY <1>3, FoundType, DownIdsType
  <2>2. d \in Table
    BY UpdateType DEF TypeOK, MessageState
  <2>3. m \in Message
    <3>1. obj[s].src \in Sessions
      BY <2>1 DEF TypeOK, Table, Message
    <3>2. QED
      BY <3>1, NewMessageType, DownIdsType DEF MessageType, Sessions
  <2>4. fcmMgr' \in Manager /\ fcmInbox' \in [DownIds -> 0 .. MaxCopies]
    BY <1>1, <1>3, <2>1, RemoveAndSendNextType
  <2>5. /\ sequenceId' \in 0 .. MaxSeqId
        /\ db' \in Table
        /\ obj' \in Table
        /\ balMgr' \in Manager
        /\ balInbox' \in SUBSET SeqIds
    <3> HIDE DEF s, d, m
    <3>1. QED
      BY <1>3, <2>2, <2>3, SaveForwardType
  <2>6. QED
    BY <1>1, <2>4, <2>5 DEF handleFcmAckMessage, TypeOK
<1>4. QED
  BY <1>2, <1>3 DEF handleFcmAckMessage

LEMMA FcmNackType ==
    ASSUME TypeOK, NEW f \in DownIds, NEW retryable \in BOOLEAN,
           handleFcmNackMessage(f, retryable)
    PROVE  TypeOK'
<1> DEFINE s == findMessageWithFcmMsgId(fcmMgr, f)
           d == updateMsgState(db, s, "DELIVERY_FAILED")
<1>1. fcmInbox[f] > 0
  BY DEF handleFcmNackMessage
<1>2. /\ UNCHANGED <<obj, balMgr, fcmUp, fcmSplit, fcmOutbox, balSide>>
      /\ loop' \in [kind : {"idle", "down", "up", "terminated"}, todo : SUBSET SeqIds]
  BY EndsType DEF handleFcmNackMessage
<1>3. CASE ignoreAnswer(f) /\ UNCHANGED fcmTimers
  BY <1>1, <1>2, <1>3, IgnoreAnswerType DEF TypeOK, balSide
<1>4. CASE /\ s # 0 /\ fcmInbox' = answered(f)
           /\ startDownstreamRetry(s) \/ giveUpDownstream(s) \/ giveUpDownstreamThrows(s)
  <2>1. s \in SeqIds
    BY <1>4, FoundType, DownIdsType
  <2>2. fcmInbox' \in [DownIds -> 0 .. MaxCopies]
    BY <1>1, <1>4, AnsweredType
  <2>3. /\ sequenceId' \in 0 .. MaxSeqId
        /\ db' \in Table
        /\ fcmMgr' \in Manager
        /\ fcmTimers' \in [SeqIds -> 0 .. MaxTimers]
    BY <1>4, <2>1, RetryDownstreamType
  <2>4. QED
    BY <1>2, <2>2, <2>3 DEF TypeOK, balSide
<1>5. CASE /\ s # 0 /\ Room /\ removeAndSendNext(f, s)
           /\ notifyDownstreamUploadFailure(d, s) /\ UNCHANGED fcmTimers
  <2>1. s \in SeqIds
    BY <1>5, FoundType, DownIdsType
  <2>2. d \in Table
    BY UpdateType DEF TypeOK, MessageState
  <2>3. fcmMgr' \in Manager /\ fcmInbox' \in [DownIds -> 0 .. MaxCopies]
    BY <1>1, <1>5, <2>1, RemoveAndSendNextType
  <2>4. sequenceId' \in 0 .. MaxSeqId /\ db' \in Table
    <3> HIDE DEF d
    <3>1. QED
      BY <1>5, <2>1, <2>2, NotifyType
  <2>5. QED
    BY <1>2, <1>5, <2>3, <2>4 DEF TypeOK, balSide
<1>6. QED
  BY <1>3, <1>4, <1>5 DEF handleFcmNackMessage

LEMMA FcmLinkType ==
    ASSUME TypeOK, handleFcmSessionEstablished \/ handleFcmConnectionLost
    PROVE  TypeOK'
<1>1. CASE handleFcmSessionEstablished
  <2>1. fcmUp' \in BOOLEAN
    BY <1>1 DEF handleFcmSessionEstablished
  <2>2. loop' \in [kind : {"idle", "down", "up", "terminated"}, todo : SUBSET SeqIds]
    BY <1>1, StartLoopType DEF handleFcmSessionEstablished, TypeOK, Manager
  <2>3. QED
    BY <1>1, <2>1, <2>2 DEF handleFcmSessionEstablished, TypeOK, store, balSide
<1>2. CASE handleFcmConnectionLost
  BY <1>2, LinkLostType DEF handleFcmConnectionLost, TypeOK, store, balSide
<1>3. QED
  BY <1>1, <1>2

LEMMA DroppedType ==
    ASSUME TypeOK, messageDropped
    PROVE  TypeOK'
<1>1. fcmInbox' \in [DownIds -> 0 .. MaxCopies]
  BY AnsweredType DEF messageDropped, TypeOK
<1>2. fcmOutbox' \in [UpIds \cup RcptIds -> {"ready", "sent", "done"}]
  BY DEF messageDropped, TypeOK
<1>3. fcmSplit' \in BOOLEAN
  BY DEF messageDropped
<1>4. QED
  BY <1>1, <1>2, <1>3 DEF messageDropped, TypeOK, store, balSide

LEMMA TimeoutType ==
    ASSUME TypeOK, NEW s \in SeqIds,
           downstreamRetryTimeout(s) \/ upstreamRetryTimeout(s)
    PROVE  TypeOK'
<1>1. CASE downstreamRetryTimeout(s)
  <2>1. fcmTimers' \in [SeqIds -> 0 .. MaxTimers]
    BY <1>1, ApplicationAssumption DEF downstreamRetryTimeout, TypeOK
  <2>2. fcmInbox' \in [DownIds -> 0 .. MaxCopies]
    BY <1>1, UploadType DEF downstreamRetryTimeout, TypeOK
  <2>3. QED
    BY <1>1, <2>1, <2>2 DEF downstreamRetryTimeout, TypeOK, store, balSide
<1>2. CASE upstreamRetryTimeout(s)
  <2>1. balTimers' \in [SeqIds -> 0 .. MaxTimers]
    BY <1>2, ApplicationAssumption DEF upstreamRetryTimeout, TypeOK
  <2>2. balInbox' \in SUBSET SeqIds
    BY <1>2, WriteType DEF upstreamRetryTimeout
  <2>3. QED
    BY <1>2, <2>1, <2>2 DEF upstreamRetryTimeout, TypeOK, store, fcmSide
<1>3. QED
  BY <1>1, <1>2

LEMMA LogonTimeoutType ==
    ASSUME TypeOK, logonTimeout
    PROVE  TypeOK'
<1>1. logonTimers' \in 0 .. MaxTimers
  BY ApplicationAssumption DEF logonTimeout, TypeOK
<1>2. loop' \in [kind : {"idle", "down", "up", "terminated"}, todo : SUBSET SeqIds]
  BY StartLoopType DEF logonTimeout, TypeOK, Manager
<1>3. QED
  BY <1>1, <1>2 DEF logonTimeout, TypeOK, store, fcmSide

LEMMA ResendDownstreamType ==
    ASSUME TypeOK, NEW s \in SeqIds, resendAllPendingDownstreamMessages(s)
    PROVE  TypeOK'
<1> DEFINE rest == loop.todo \ {s}
           gone == fcmMgr.messages \ fcmMgr'.messages
           Loops == [kind : {"idle", "down", "up", "terminated"}, todo : SUBSET SeqIds]
<1>1. rest \in SUBSET SeqIds /\ (rest \ gone) \in SUBSET SeqIds
  BY DEF TypeOK
<1>2. UNCHANGED <<obj, balMgr, fcmUp, fcmSplit, fcmOutbox, balSide>>
  BY DEF resendAllPendingDownstreamMessages
<1>3. fcmInbox' \in [DownIds -> 0 .. MaxCopies]
  BY UploadType DEF resendAllPendingDownstreamMessages, TypeOK
<1>4. /\ sequenceId' \in 0 .. MaxSeqId
      /\ db' \in Table
      /\ fcmMgr' \in Manager
      /\ fcmTimers' \in [SeqIds -> 0 .. MaxTimers]
  <2>1. CASE UNCHANGED <<store, fcmMgr, fcmTimers>>
    BY <2>1 DEF store, TypeOK
  <2>2. CASE startDownstreamRetry(s) \/ giveUpDownstream(s) \/ giveUpDownstreamThrows(s)
    BY <2>2, RetryDownstreamType
  <2>3. QED
    BY <2>1, <2>2 DEF resendAllPendingDownstreamMessages
<1>5. loop' \in Loops
  <2>1. /\ startLoop("down", rest) \in Loops
        /\ startLoop("down", rest \ gone) \in Loops
        /\ Nothing("idle") \in Loops
        /\ Nothing("terminated") \in Loops
    BY <1>1, StartLoopType, NothingType
  <2>2. afterErase("down", rest) => loop' \in Loops
    BY <1>1, AfterEraseType
  <2>3. \/ loop' \in {startLoop("down", rest), startLoop("down", rest \ gone),
                       Nothing("idle"), Nothing("terminated")}
        \/ afterErase("down", rest)
    BY DEF resendAllPendingDownstreamMessages, dies
  <2>4. QED
    BY <2>1, <2>2, <2>3
<1>6. QED
  BY <1>2, <1>3, <1>4, <1>5 DEF TypeOK, balSide

LEMMA ResentType ==
    ASSUME TypeOK, NEW s \in SeqIds, NEW code
    PROVE  resent(balMgr, s, code) \in Manager
<1>1. removeMessage(balMgr, obj, s) \in Manager /\ incrementPendingAckCount(balMgr) \in Manager
  BY RemoveType, IncrementType DEF TypeOK
<1>2. QED
  BY <1>1 DEF resent, TypeOK

LEMMA ResendUpstreamType ==
    ASSUME TypeOK, NEW s \in SeqIds, resendPendingUpstreamMessages(s)
    PROVE  TypeOK'
<1> DEFINE rest == loop.todo \ {s}
           gone == balMgr.messages \ balMgr'.messages
           Loops == [kind : {"idle", "down", "up", "terminated"}, todo : SUBSET SeqIds]
<1>1. rest \in SUBSET SeqIds /\ (rest \ gone) \in SUBSET SeqIds
  BY DEF TypeOK
<1>2. UNCHANGED <<sequenceId, obj, fcmMgr, fcmSide, balAuth, logonTimers>>
  BY DEF resendPendingUpstreamMessages
<1>3. balInbox' \in SUBSET SeqIds
  BY WriteType DEF resendPendingUpstreamMessages, TypeOK
<1>4. db' \in Table /\ balMgr' \in Manager /\ balTimers' \in [SeqIds -> 0 .. MaxTimers]
  <2>1. CASE /\ db' \in {db, updateMsgState(db, s, "PENDING_ACK")}
             /\ \E code : balMgr' = resent(balMgr, s, code)
             /\ UNCHANGED balTimers
    BY <2>1, UpdateType, ResentType DEF MessageState, TypeOK
  <2>2. CASE UNCHANGED <<db, balMgr, balTimers>>
    BY <2>2 DEF TypeOK
  <2>3. CASE startUpstreamRetry(s) \/ giveUpUpstream(s) \/ giveUpUpstreamThrows(s)
    BY <2>3, RetryUpstreamType
  <2>4. QED
    BY <2>1, <2>2, <2>3 DEF resendPendingUpstreamMessages
<1>5. loop' \in Loops
  <2>1. /\ startLoop("up", rest) \in Loops
        /\ startLoop("up", rest \ gone) \in Loops
        /\ Nothing("terminated") \in Loops
    BY <1>1, StartLoopType, NothingType
  <2>2. afterErase("up", rest) => loop' \in Loops
    BY <1>1, AfterEraseType
  <2>3. \/ loop' \in {startLoop("up", rest), startLoop("up", rest \ gone), Nothing("terminated")}
        \/ afterErase("up", rest)
    BY DEF resendPendingUpstreamMessages
  <2>4. QED
    BY <2>1, <2>2, <2>3
<1>6. QED
  BY <1>2, <1>3, <1>4, <1>5 DEF TypeOK, fcmSide

LEMMA StartType ==
    ASSUME TypeOK, start
    PROVE  TypeOK'
<1>1. sequenceId' \in 0 .. MaxSeqId
  BY DEF start
<1>2. db' \in Table /\ obj' \in Table
  BY LoadedType DEF start, TypeOK
<1>3. fcmMgr' \in Manager /\ balMgr' \in Manager
  BY LoadType, ReadPending DEF start, TypeOK
<1>4. /\ fcmUp' \in BOOLEAN
      /\ fcmSplit' \in BOOLEAN
      /\ fcmInbox' \in [DownIds -> 0 .. MaxCopies]
      /\ fcmOutbox' \in [UpIds \cup RcptIds -> {"ready", "sent", "done"}]
  BY LinkLostType DEF start
<1>5. /\ fcmTimers' \in [SeqIds -> 0 .. MaxTimers]
      /\ balTimers' \in [SeqIds -> 0 .. MaxTimers]
      /\ logonTimers' \in 0 .. MaxTimers
  BY ApplicationAssumption DEF start
<1>6. balAuth' \in BOOLEAN
  BY DEF start
<1>7. balInbox' \in SUBSET SeqIds
  BY DEF start, TypeOK
<1>8. loop' \in [kind : {"idle", "down", "up", "terminated"}, todo : SUBSET SeqIds]
  BY NothingType DEF start
<1>9. QED
  BY <1>1, <1>2, <1>3, <1>4, <1>5, <1>6, <1>7, <1>8 DEF TypeOK

LEMMA InitType == Init => TypeOK
<1> SUFFICES ASSUME Init PROVE TypeOK
  OBVIOUS
<1>1. sequenceId \in 0 .. MaxSeqId
  BY MessageAssumption DEF Init
<1>2. EmptyTable \in Table
  BY DEF EmptyTable, Table, DefaultMessage, Message, MessageType, MessageState, Sessions
<1>3. fcmMgr \in Manager /\ balMgr \in Manager
  BY EmptyManagerType DEF Init
<1>4. /\ fcmInbox \in [DownIds -> 0 .. MaxCopies]
      /\ fcmTimers \in [SeqIds -> 0 .. MaxTimers]
      /\ balTimers \in [SeqIds -> 0 .. MaxTimers]
      /\ logonTimers \in 0 .. MaxTimers
  BY ApplicationAssumption DEF Init
<1>5. fcmOutbox \in [UpIds \cup RcptIds -> {"ready", "sent", "done"}]
  BY DEF Init
<1>6. loop \in [kind : {"idle", "down", "up", "terminated"}, todo : SUBSET SeqIds]
  BY NothingType DEF Init
<1>7. fcmUp \in BOOLEAN /\ fcmSplit \in BOOLEAN /\ balAuth \in BOOLEAN /\ balInbox \in SUBSET SeqIds
  BY DEF Init
<1>8. db \in Table /\ obj \in Table
  BY <1>2 DEF Init
<1>9. QED
  BY <1>1, <1>3, <1>4, <1>5, <1>6, <1>7, <1>8 DEF TypeOK

LEMMA StutterType ==
    ASSUME TypeOK, UNCHANGED vars
    PROVE  TypeOK'
BY DEF vars, fcmSide, balSide, TypeOK

LEMMA NextType ==
    ASSUME TypeOK, Next
    PROVE  TypeOK'
<1>1. CASE BalNext
  BY <1>1, RequestType, BalAckType, LogonType DEF BalNext
<1>2. CASE FcmNext
  BY <1>2, UpstreamType, ReceiptType, FcmAckType, FcmNackType, FcmLinkType,
     DroppedType DEF FcmNext
<1>3. CASE TimerNext
  BY <1>3, TimeoutType, LogonTimeoutType, ResendDownstreamType, ResendUpstreamType
     DEF TimerNext
<1>4. CASE start
  BY <1>4, StartType
<1>5. QED
  BY <1>1, <1>2, <1>3, <1>4 DEF Next

\* Every handler of application.cpp, every timer and every restart keeps the
\* daemon's state within its types: in particular no counter goes below zero
\* and no handler uses a sequence id that was not handed out.
THEOREM TypeCorrect == Spec => []TypeOK
<1>1. TypeOK /\ [Next]_vars => TypeOK'
  BY NextType, StutterType
<1>2. QED
  BY <1>1, InitType, PTL DEF Spec

-----------------------------------------------------------------------------
(* The indexes of the managers.  Sound is inductive as it stands: what has *)
(* to be shown is that a new message is unknown to both managers, because  *)
(* its sequence id is greater than every queued one.                       *)

LEMMA EmptySound ==
    ASSUME NEW o, NEW n
    PROVE  Sound(EmptyManager, o, n)
BY DEF Sound, EmptyManager

\* More ids are handed out, and objects that are not queued change.
LEMMA SoundFrame ==
    ASSUME NEW mm \in Manager, NEW o, NEW o2, NEW n \in Nat, NEW n2 \in Nat,
           Sound(mm, o, n), n <= n2,
           \A s \in mm.messages : o2[s].gid = o[s].gid /\ o2[s].fcmId = o[s].fcmId
    PROVE  Sound(mm, o2, n2)
<1>1. mm.messages \subseteq Nat
  BY MessageAssumption DEF Manager, SeqIds
<1>2. \A s \in mm.messages : s <= n2
  BY <1>1 DEF Sound
<1>3. \A g \in Groups : mm.groups[g] = {s \in mm.messages : o2[s].gid = g}
  BY DEF Sound
<1>4. QED
  BY <1>2, <1>3 DEF Sound

LEMMA AddSound ==
    ASSUME NEW mm \in Manager, NEW o \in Table, NEW n \in Nat, Sound(mm, o, n),
           n + 1 \in SeqIds
    PROVE  Sound(addMessage(mm, o, n + 1), o, n + 1)
<1> DEFINE a == n + 1
           new == addMessage(mm, o, a)
<1>1. mm.messages \subseteq Nat /\ a \notin mm.messages
  BY MessageAssumption DEF Sound, Manager, SeqIds
<1>2. /\ new.messages = mm.messages \cup {a}
      /\ new.groups = addToGroups(mm.groups, o, a)
      /\ new.sequenceIdMap = [mm.sequenceIdMap EXCEPT
                                 ![o[a].fcmId] = IF @ = 0 THEN a ELSE @]
  BY DEF addMessage
<1>3. \A s \in new.messages : s <= a
  BY <1>1, <1>2 DEF Sound
<1>4. ASSUME NEW g \in Groups
      PROVE  new.groups[g] = {s \in new.messages : o[s].gid = g}
  <2>1. mm.groups \in [Groups -> SUBSET SeqIds] /\ NoGroup \notin Groups
    BY MessageAssumption DEF Manager
  <2>2. mm.groups[g] = {s \in mm.messages : o[s].gid = g}
    BY DEF Sound
  <2>3. CASE o[a].gid = g
    BY <1>2, <2>1, <2>2, <2>3 DEF addToGroups
  <2>4. CASE o[a].gid # g
    BY <1>2, <2>1, <2>2, <2>4 DEF addToGroups
  <2>5. QED
    BY <2>3, <2>4
<1>5. ASSUME NEW f \in MsgIds, new.sequenceIdMap[f] # 0
      PROVE  new.sequenceIdMap[f] \in new.messages /\ o[new.sequenceIdMap[f]].fcmId = f
  <2>1. mm.sequenceIdMap \in [MsgIds -> SeqIds \cup {0}]
    BY DEF Manager
  <2>2. \/ new.sequenceIdMap[f] = mm.sequenceIdMap[f]
        \/ o[a].fcmId = f /\ new.sequenceIdMap[f] = a
    BY <1>2, <2>1
  <2>3. QED
    BY <1>2, <1>5, <2>2 DEF Sound
<1>6. QED
  BY <1>3, <1>4, <1>5 DEF Sound

LEMMA RemoveSound ==
    ASSUME NEW mm \in Manager, NEW o \in Table, NEW n, NEW s \in SeqIds, Sound(mm, o, n)
    PROVE  Sound(removeMessage(mm, o, s), o, n)
<1> DEFINE new == removeMessage(mm, o, s)
<1>1. /\ new.messages = mm.messages \ {s}
      /\ new.groups = removeFromGroups(mm.groups, o, s)
      /\ new.sequenceIdMap = [mm.sequenceIdMap EXCEPT ![o[s].fcmId] = 0]
  BY DEF removeMessage
<1>2. \A t \in new.messages : t <= n
  BY <1>1 DEF Sound
<1>3. ASSUME NEW g \in Groups
      PROVE  new.groups[g] = {t \in new.messages : o[t].gid = g}
  <2>1. mm.groups \in [Groups -> SUBSET SeqIds] /\ NoGroup \notin Groups
    BY MessageAssumption DEF Manager
  <2>2. mm.groups[g] = {t \in mm.messages : o[t].gid = g}
    BY DEF Sound
  <2>3. CASE o[s].gid = g
    BY <1>1, <2>1, <2>2, <2>3 DEF removeFromGroups
  <2>4. CASE o[s].gid # g
    BY <1>1, <2>1, <2>2, <2>4 DEF removeFromGroups
  <2>5. QED
    BY <2>3, <2>4
<1>4. ASSUME NEW f \in MsgIds, new.sequenceIdMap[f] # 0
      PROVE  new.sequenceIdMap[f] \in new.messages /\ o[new.sequenceIdMap[f]].fcmId = f
  <2>1. mm.sequenceIdMap \in [MsgIds -> SeqIds \cup {0}]
    BY DEF Manager
  <2>2. new.sequenceIdMap[f] = mm.sequenceIdMap[f] /\ o[s].fcmId # f
    BY <1>1, <1>4, <2>1
  <2>3. mm.sequenceIdMap[f] \in mm.messages /\ o[mm.sequenceIdMap[f]].fcmId = f
    BY <1>4, <2>2 DEF Sound
  <2>4. QED
    BY <1>1, <2>2, <2>3
<1>5. QED
  BY <1>2, <1>3, <1>4 DEF Sound

LEMMA IncrementSound ==
    ASSUME NEW mm \in Manager, NEW o, NEW n, Sound(mm, o, n)
    PROVE  Sound(incrementPendingAckCount(mm), o, n)
<1>1. /\ incrementPendingAckCount(mm).messages = mm.messages
      /\ incrementPendingAckCount(mm).groups = mm.groups
      /\ incrementPendingAckCount(mm).sequenceIdMap = mm.sequenceIdMap
  BY DEF incrementPendingAckCount, Manager
<1>2. QED
  BY <1>1 DEF Sound

LEMMA LoadFields ==
    ASSUME NEW d \in Table, NEW queue \in SUBSET SeqIds, NEW index
    PROVE  /\ loadPendingMessages(d, queue, index).messages = queue
           /\ loadPendingMessages(d, queue, index).groups = [g \in Groups |-> {}]
           /\ loadPendingMessages(d, queue, index).pendingAckCount = 0
           /\ \A f \in MsgIds :
                 LET s == loadPendingMessages(d, queue, index).sequenceIdMap[f]
                 IN  s # 0 => s \in queue /\ d[s].fcmId = f
<1> DEFINE same(f) == {s \in queue : d[s].fcmId = f}
           new(f)  == {s \in same(f) : d[s].state = "NEW"}
           lead(f) == IF index = "idx_state" /\ new(f) # {} THEN new(f) ELSE same(f)
           map     == [f \in MsgIds |-> First(lead(f))]
<1>1. loadPendingMessages(d, queue, index)
         = [EmptyManager EXCEPT !.messages = queue, !.sequenceIdMap = map]
  BY DEF loadPendingMessages
<1>2. \A f \in MsgIds : First(lead(f)) = 0 \/ First(lead(f)) \in lead(f)
  BY FirstMember
<1>3. \A f \in MsgIds : map[f] # 0 => map[f] \in same(f)
  BY <1>2
<1>4. \A f \in MsgIds : map[f] # 0 => map[f] \in queue /\ d[map[f]].fcmId = f
  BY <1>3
<1>5. QED
  <2> HIDE DEF map
  <2>1. QED
    BY <1>1, <1>4 DEF EmptyManager

LEMMA LoadSound ==
    ASSUME NEW d \in Table, NEW session, NEW queue \in Read(Pending(d, session)),
           NEW index, NEW n, initSequenceId(d, n)
    PROVE  Sound(loadPendingMessages(d, queue, index), Loaded(d), n)
<1> DEFINE mm == loadPendingMessages(d, queue, index)
<1>0. queue \subseteq Pending(d, session) /\ queue \in SUBSET SeqIds
  BY ReadPending
<1>1. Pending(d, session) \subseteq Rows(d)
  BY DEF Pending, Rows, LiveStates
<1>2. \A s \in SeqIds : Loaded(d)[s].gid = NoGroup /\ Loaded(d)[s].fcmId = d[s].fcmId
  BY DEF Loaded, Table, Message
<1>3. \A s \in mm.messages : s <= n
  BY <1>0, <1>1, LoadFields DEF initSequenceId
<1>4. \A g \in Groups : mm.groups[g] = {s \in mm.messages : Loaded(d)[s].gid = g}
  BY <1>0, <1>2, LoadFields, MessageAssumption
<1>5. ASSUME NEW f \in MsgIds, mm.sequenceIdMap[f] # 0
      PROVE  mm.sequenceIdMap[f] \in mm.messages /\ Loaded(d)[mm.sequenceIdMap[f]].fcmId = f
  BY <1>0, <1>2, <1>5, LoadFields
<1>6. QED
  BY <1>3, <1>4, <1>5 DEF Sound

LEMMA SequenceIdNat == TypeOK => sequenceId \in Nat
BY MessageAssumption DEF TypeOK

\* Saving and forwarding keeps the BAL's manager sound, and any manager that
\* knows nothing of the new message.
LEMMA SaveForwardSound ==
    ASSUME TypeOK, ManagersSound, Room, NEW d \in Table, NEW m \in Message,
           saveFails(d) \/ saveAndForward(d, m),
           NEW mf \in Manager, Sound(mf, obj, sequenceId)
    PROVE  Sound(mf, obj', sequenceId') /\ Sound(balMgr', obj', sequenceId')
<1> DEFINE a  == sequenceId + 1
           o  == [obj EXCEPT ![a] = m]
           p  == [obj EXCEPT ![a] = [m EXCEPT !.state = "PENDING_ACK"]]
           mm == addMessage(balMgr, o, a)
<1>1. a \in SeqIds /\ sequenceId \in Nat /\ a \in Nat /\ sequenceId <= a
  BY NextIdType, SequenceIdNat
<1>2. o \in Table /\ p \in Table
  <2>1. [m EXCEPT !.state = "PENDING_ACK"] \in Message
    BY SetStateType DEF MessageState
  <2>2. QED
    BY <1>1, <2>1 DEF Table, TypeOK
<1>3. ASSUME NEW q \in Manager, Sound(q, obj, sequenceId)
      PROVE  /\ Sound(q, obj, a) /\ Sound(q, o, a) /\ Sound(q, p, a)
             /\ Sound(q, o, sequenceId)
  <2>1. a \notin q.messages /\ q.messages \subseteq SeqIds
    BY <1>1, <1>3 DEF Sound, Manager
  <2>2. \A s \in q.messages : o[s] = obj[s] /\ p[s] = obj[s]
    BY <1>1, <2>1 DEF TypeOK, Table
  <2>3. QED
    <3> HIDE DEF a, o, p
    <3>1. QED
      BY <1>1, <1>3, <2>2, SoundFrame
<1>4. balMgr \in Manager /\ Sound(balMgr, obj, sequenceId)
  BY DEF TypeOK, ManagersSound
<1>5. mm \in Manager /\ Sound(mm, o, a)
  BY <1>1, <1>2, <1>3, <1>4, AddType, AddSound
<1>6. Sound(mm, p, a) /\ Sound(incrementPendingAckCount(mm), p, a)
  <2>1. \A s \in mm.messages : p[s].gid = o[s].gid /\ p[s].fcmId = o[s].fcmId
    <3>1. \A s \in SeqIds : p[s].gid = o[s].gid /\ p[s].fcmId = o[s].fcmId
      BY <1>1 DEF TypeOK, Table, Message
    <3>2. QED
      BY <1>5, <3>1 DEF Manager
  <2> HIDE DEF a, o, p, mm
  <2>2. Sound(mm, p, a)
    BY <1>1, <1>5, <2>1, SoundFrame
  <2>3. QED
    BY <1>5, <2>2, IncrementSound
<1>7. CASE saveFails(d)
  BY <1>3, <1>4, <1>7 DEF saveFails
<1>8. CASE saveAndForward(d, m)
  <2> HIDE DEF a, o, p, mm
  <2>1. /\ sequenceId' = a
        /\ \/ obj' = obj /\ balMgr' = balMgr
           \/ obj' = o /\ balMgr' = mm
           \/ obj' = p /\ balMgr' = incrementPendingAckCount(mm)
    BY <1>8 DEF saveAndForward, a, o, p, mm
  <2>2. QED
    BY <1>3, <1>4, <1>5, <1>6, <2>1
<1>9. QED
  BY <1>7, <1>8

LEMMA RequestSound ==
    ASSUME TypeOK, ManagersSound, NEW f \in DownIds, NEW g \in Groups \cup {NoGroup},
           NEW src \in {BalSession, NoSession},
           handleBalDownstreamUploadRequest(f, g, src)
    PROVE  ManagersSound'
<1> DEFINE a  == sequenceId + 1
           m  == NewMessage("DOWNSTREAM", f, g, src, FCM)
           pm == [m EXCEPT !.state = "PENDING_ACK"]
           o  == [obj EXCEPT ![a] = m]
           p  == [obj EXCEPT ![a] = pm]
           mm == addMessage(fcmMgr, o, a)
<1>1. a \in SeqIds /\ sequenceId \in Nat /\ a \in Nat /\ sequenceId <= a
  BY NextIdType, SequenceIdNat DEF handleBalDownstreamUploadRequest
<1>2. m \in Message /\ pm \in Message /\ pm.gid = m.gid /\ pm.fcmId = m.fcmId
  <2>1. m \in Message
    BY NewMessageType, DownIdsType DEF MessageType, Sessions
  <2>2. pm \in Message
    BY <2>1, SetStateType DEF MessageState
  <2>3. QED
    BY <2>1, <2>2 DEF NewMessage
<1>3. o \in Table /\ p \in Table /\ o[a] = m /\ p[a] = pm
  <2> HIDE DEF m, pm, a
  <2>1. QED
    BY <1>1, <1>2 DEF Table, TypeOK
<1>4. ASSUME NEW q \in Manager, Sound(q, obj, sequenceId)
      PROVE  /\ Sound(q, obj, a) /\ Sound(q, o, a) /\ Sound(q, p, a)
             /\ Sound(q, o, sequenceId)
  <2>1. a \notin q.messages /\ q.messages \subseteq SeqIds
    BY <1>1, <1>4 DEF Sound, Manager
  <2>2. \A s \in q.messages : o[s] = obj[s] /\ p[s] = obj[s]
    BY <1>1, <2>1 DEF TypeOK, Table
  <2>3. QED
    <3> HIDE DEF a, o, p
    <3>1. QED
      BY <1>1, <1>4, <2>2, SoundFrame
<1>5. /\ balMgr \in Manager /\ Sound(balMgr, obj, sequenceId)
      /\ fcmMgr \in Manager /\ Sound(fcmMgr, obj, sequenceId)
  BY DEF TypeOK, ManagersSound
<1>6. mm \in Manager /\ Sound(mm, o, a)
  <2> HIDE DEF m, pm, o, p
  <2>1. QED
    BY <1>1, <1>3, <1>4, <1>5, AddType, AddSound
<1>7. Sound(incrementPendingAckCount(mm), p, a)
  <2>1. \A s \in mm.messages : p[s].gid = o[s].gid /\ p[s].fcmId = o[s].fcmId
    <3>1. \A s \in SeqIds : s # a => p[s] = o[s]
      BY <1>1 DEF TypeOK, Table
    <3> HIDE DEF m, pm, o, p, a, mm
    <3>2. QED
      BY <1>2, <1>3, <1>6, <3>1 DEF Manager
  <2> HIDE DEF a, o, p, mm
  <2>2. Sound(mm, p, a)
    BY <1>1, <1>6, <2>1, SoundFrame
  <2>3. QED
    BY <1>6, <2>2, IncrementSound
<1>8. /\ sequenceId' = a /\ balMgr' = balMgr
      /\ \/ obj' = obj /\ fcmMgr' = fcmMgr
         \/ obj' = o /\ fcmMgr' = mm
         \/ obj' = p /\ fcmMgr' = incrementPendingAckCount(mm)
  <2> HIDE DEF a, m, pm, o, p, mm
  <2>1. QED
    BY DEF handleBalDownstreamUploadRequest, a, m, pm, o, p, mm
<1>9. QED
  <2> HIDE DEF a, m, pm, o, p, mm
  <2>1. QED
    BY <1>4, <1>5, <1>6, <1>7, <1>8 DEF ManagersSound

\* A step that leaves sequence ids and objects alone and at most removes a
\* message from each manager or counts one.
LEMMA RemovalSound ==
    ASSUME TypeOK, ManagersSound, NEW mm \in {fcmMgr, balMgr}, NEW s \in SeqIds
    PROVE  /\ mm \in Manager
           /\ Sound(mm, obj, sequenceId)
           /\ Sound(removeMessage(mm, obj, s), obj, sequenceId)
           /\ Sound(incrementPendingAckCount(mm), obj, sequenceId)
<1>1. mm \in Manager /\ Sound(mm, obj, sequenceId) /\ obj \in Table
  BY DEF TypeOK, ManagersSound
<1>2. QED
  BY <1>1, RemoveSound, IncrementSound

LEMMA LaterSound ==
    ASSUME TypeOK, NEW mm \in Manager, Sound(mm, obj, sequenceId)
    PROVE  Sound(mm, obj, sequenceId + 1)
<1>1. sequenceId \in Nat /\ sequenceId + 1 \in Nat /\ sequenceId <= sequenceId + 1
  BY SequenceIdNat
<1>2. QED
  BY <1>1, SoundFrame

LEMMA RetryDownstreamSound ==
    ASSUME TypeOK, ManagersSound, NEW s \in SeqIds,
           startDownstreamRetry(s) \/ giveUpDownstream(s) \/ giveUpDownstreamThrows(s),
           UNCHANGED <<obj, balMgr>>
    PROVE  ManagersSound'
<1>1. CASE giveUpDownstream(s)
  <2> DEFINE victim == findMessageWithFcmMsgId(fcmMgr, obj[s].fcmId)
             mm     == removeMessage(fcmMgr, obj, victim)
  <2>1. victim \in SeqIds
    BY <1>1, FindType DEF giveUpDownstream, TypeOK, Manager
  <2>2. mm \in Manager /\ Sound(mm, obj, sequenceId)
    BY <2>1, RemovalSound, RemoveType DEF TypeOK
  <2>3. Sound(mm, obj, sequenceId + 1) /\ Sound(balMgr, obj, sequenceId + 1)
    <3> HIDE DEF mm
    <3>1. QED
      BY <2>2, LaterSound DEF TypeOK, ManagersSound
  <2>4. fcmMgr' = mm /\ sequenceId' = sequenceId + 1
    BY <1>1 DEF giveUpDownstream, notifyDownstreamUploadFailure
  <2>5. QED
    BY <2>3, <2>4 DEF ManagersSound
<1>2. CASE startDownstreamRetry(s) \/ giveUpDownstreamThrows(s)
  BY <1>2 DEF startDownstreamRetry, giveUpDownstreamThrows, store, ManagersSound
<1>3. QED
  BY <1>1, <1>2

LEMMA BalSound ==
    ASSUME TypeOK, ManagersSound, BalNext
    PROVE  ManagersSound'
<1>1. ASSUME NEW s \in SeqIds, handleBalAckMsg(s)
      PROVE  ManagersSound'
  <2>1. /\ sequenceId' = sequenceId /\ obj' = obj /\ fcmMgr' = fcmMgr
        /\ balMgr' \in {balMgr, removeMessage(balMgr, obj, s)}
    BY <1>1, AckedIdIsOwn DEF handleBalAckMsg
  <2>2. QED
    BY <2>1, RemovalSound DEF ManagersSound
<1>2. CASE handleBalLogonRequest \/ handleBALSocketDisconnected
  BY <1>2 DEF handleBalLogonRequest, handleBALSocketDisconnected, store, ManagersSound
<1>3. QED
  BY <1>1, <1>2, RequestSound DEF BalNext

LEMMA FcmAckSound ==
    ASSUME TypeOK, ManagersSound, NEW f \in DownIds, handleFcmAckMessage(f)
    PROVE  ManagersSound'
<1> DEFINE s == findMessageWithFcmMsgId(fcmMgr, f)
           d == updateMsgState(db, s, "DELIVERED")
           m == NewMessage("DOWNSTREAM_ACK", f, NoGroup, FCM, obj[s].src)
           mm == removeMessage(fcmMgr, obj, s)
<1>1. CASE ignoreAnswer(f)
  BY <1>1 DEF ignoreAnswer, store, ManagersSound
<1>2. CASE s # 0 /\ Room /\ removeAndSendNext(f, s) /\ (saveFails(d) \/ saveAndForward(d, m))
  <2>1. s \in SeqIds
    BY <1>2, FoundType, DownIdsType
  <2>2. d \in Table
    BY UpdateType DEF TypeOK, MessageState
  <2>3. m \in Message
    <3>1. obj[s].src \in Sessions
      BY <2>1 DEF TypeOK, Table, Message
    <3>2. QED
      BY <3>1, NewMessageType, DownIdsType DEF MessageType, Sessions
  <2>4. mm \in Manager /\ Sound(mm, obj, sequenceId) /\ fcmMgr' = mm
    BY <1>2, <2>1, RemovalSound, RemoveType DEF removeAndSendNext, TypeOK
  <2>5. QED
    <3> HIDE DEF s, d, m, mm
    <3>1. Sound(mm, obj', sequenceId') /\ Sound(balMgr', obj', sequenceId')
      BY <1>2, <2>2, <2>3, <2>4, SaveForwardSound
    <3>2. QED
      BY <2>4, <3>1 DEF ManagersSound
<1>3. QED
  BY <1>1, <1>2 DEF handleFcmAckMessage

LEMMA FcmNackSound ==
    ASSUME TypeOK, ManagersSound, NEW f \in DownIds, NEW retryable \in BOOLEAN,
           handleFcmNackMessage(f, retryable)
    PROVE  ManagersSound'
<1> DEFINE s == findMessageWithFcmMsgId(fcmMgr, f)
           d == updateMsgState(db, s, "DELIVERY_FAILED")
           mm == removeMessage(fcmMgr, obj, s)
<1>1. UNCHANGED <<obj, balMgr>>
  BY DEF handleFcmNackMessage
<1>2. CASE ignoreAnswer(f)
  BY <1>2 DEF ignoreAnswer, store, ManagersSound
<1>3. CASE /\ s # 0
           /\ startDownstreamRetry(s) \/ giveUpDownstream(s) \/ giveUpDownstreamThrows(s)
  <2>1. s \in SeqIds
    BY <1>3, FoundType, DownIdsType
  <2>2. QED
    BY <1>1, <1>3, <2>1, RetryDownstreamSound
<1>4. CASE s # 0 /\ removeAndSendNext(f, s) /\ notifyDownstreamUploadFailure(d, s)
  <2>1. s \in SeqIds
    BY <1>4, FoundType, DownIdsType
  <2>2. mm \in Manager /\ Sound(mm, obj, sequenceId)
    BY <2>1, RemovalSound, RemoveType DEF TypeOK
  <2>3. fcmMgr' = mm /\ sequenceId' = sequenceId + 1
    BY <1>4 DEF removeAndSendNext, notifyDownstreamUploadFailure
  <2>4. Sound(mm, obj, sequenceId + 1) /\ Sound(balMgr, obj, sequenceId + 1)
    <3> HIDE DEF mm
    <3>1. QED
      BY <2>2, LaterSound DEF TypeOK, ManagersSound
  <2>5. QED
    BY <1>1, <2>3, <2>4 DEF ManagersSound
<1>5. QED
  BY <1>2, <1>3, <1>4 DEF handleFcmNackMessage

LEMMA FcmSound ==
    ASSUME TypeOK, ManagersSound, FcmNext
    PROVE  ManagersSound'
<1>1. /\ fcmMgr \in Manager /\ Sound(fcmMgr, obj, sequenceId)
      /\ db \in Table
  BY DEF TypeOK, ManagersSound
<1>2. ASSUME NEW u \in UpIds, handleFcmNewUpstreamMessage(u)
      PROVE  ManagersSound'
  <2> DEFINE m == NewMessage("UPSTREAM", u, NoGroup, FCM, category(u))
  <2>1. m \in Message
    BY NewMessageType, DownIdsType, CategoryType DEF MessageType, Sessions
  <2>2. Room /\ (saveFails(db) \/ saveAndForward(db, m)) /\ UNCHANGED fcmMgr
    BY <1>2 DEF handleFcmNewUpstreamMessage
  <2> HIDE DEF m
  <2>3. Sound(fcmMgr, obj', sequenceId') /\ Sound(balMgr', obj', sequenceId')
    BY <1>1, <2>1, <2>2, SaveForwardSound
  <2>4. QED
    BY <2>2, <2>3 DEF ManagersSound
<1>3. ASSUME NEW r \in RcptIds, handleFcmReceiptMessage(r)
      PROVE  ManagersSound'
  <2> DEFINE m == [DefaultMessage EXCEPT
                      !.type = "DOWNSTREAM_RECEIPT", !.fcmId = r,
                      !.src = FCM, !.tgt = category(r), !.state = "NEW"]
  <2>1. m \in Message
    BY CategoryType, DownIdsType
       DEF Message, DefaultMessage, MessageType, MessageState, Sessions
  <2>2. Room /\ (saveFails(db) \/ saveAndForward(db, m)) /\ UNCHANGED fcmMgr
    BY <1>3 DEF handleFcmReceiptMessage
  <2> HIDE DEF m
  <2>3. Sound(fcmMgr, obj', sequenceId') /\ Sound(balMgr', obj', sequenceId')
    BY <1>1, <2>1, <2>2, SaveForwardSound
  <2>4. QED
    BY <2>2, <2>3 DEF ManagersSound
<1>4. CASE handleFcmSessionEstablished \/ handleFcmConnectionLost \/ messageDropped
  BY <1>4 DEF handleFcmSessionEstablished, handleFcmConnectionLost, messageDropped,
     store, ManagersSound
<1>5. QED
  BY <1>2, <1>3, <1>4, FcmAckSound, FcmNackSound DEF FcmNext

LEMMA TimerSound ==
    ASSUME TypeOK, ManagersSound, TimerNext
    PROVE  ManagersSound'
<1>1. ASSUME NEW s \in SeqIds, downstreamRetryTimeout(s) \/ upstreamRetryTimeout(s)
      PROVE  ManagersSound'
  BY <1>1 DEF downstreamRetryTimeout, upstreamRetryTimeout, store, ManagersSound
<1>2. CASE logonTimeout
  BY <1>2 DEF logonTimeout, store, ManagersSound
<1>3. ASSUME NEW s \in SeqIds, resendAllPendingDownstreamMessages(s)
      PROVE  ManagersSound'
  <2>1. UNCHANGED <<obj, balMgr>>
    BY <1>3 DEF resendAllPendingDownstreamMessages
  <2>2. CASE UNCHANGED <<store, fcmMgr, fcmTimers>>
    BY <2>1, <2>2 DEF store, ManagersSound
  <2>3. CASE startDownstreamRetry(s) \/ giveUpDownstream(s) \/ giveUpDownstreamThrows(s)
    BY <2>1, <2>3, RetryDownstreamSound
  <2>4. QED
    BY <1>3, <2>2, <2>3 DEF resendAllPendingDownstreamMessages
<1>4. ASSUME NEW s \in SeqIds, resendPendingUpstreamMessages(s)
      PROVE  ManagersSound'
  <2>1. UNCHANGED <<sequenceId, obj, fcmMgr>>
    BY <1>4 DEF resendPendingUpstreamMessages
  <2>2. \E v \in SeqIds : balMgr' \in {balMgr, removeMessage(balMgr, obj, v),
                                       incrementPendingAckCount(balMgr)}
    <3>1. CASE giveUpUpstream(s)
      <4> DEFINE victim == findMessageWithFcmMsgId(balMgr, obj[s].fcmId)
      <4>1. victim \in SeqIds
        BY <3>1, FindType DEF giveUpUpstream, TypeOK, Manager
      <4>2. QED
        BY <3>1, <4>1 DEF giveUpUpstream
    <3>2. CASE UNCHANGED balMgr
      BY <3>2
    <3>3. CASE \E code : balMgr' = resent(balMgr, s, code)
      BY <3>3 DEF resent
    <3>4. QED
      BY <1>4, <3>1, <3>2, <3>3
         DEF resendPendingUpstreamMessages, startUpstreamRetry, giveUpUpstreamThrows
  <2>3. QED
    BY <2>1, <2>2, RemovalSound DEF ManagersSound
<1>5. QED
  BY <1>1, <1>2, <1>3, <1>4 DEF TimerNext

LEMMA StartSound ==
    ASSUME TypeOK, start
    PROVE  ManagersSound'
BY LoadSound DEF start, TypeOK, ManagersSound

\* The queue, the FCM id index and the group queues of a manager agree in
\* every reachable state, so findGroup, findMessage and removeMessage of
\* messagemanager.cpp never throw halfway through a removal, whatever faults
\* occur and however often FCM ids are used.
THEOREM IndexesAgree == Spec => []ManagersSound
<1>1. Init => ManagersSound
  BY EmptySound DEF Init, ManagersSound
<1>2. TypeOK /\ ManagersSound /\ [Next]_vars => ManagersSound'
  <2>1. ASSUME TypeOK, ManagersSound, Next PROVE ManagersSound'
    BY <2>1, BalSound, FcmSound, TimerSound, StartSound DEF Next
  <2>2. ASSUME ManagersSound, UNCHANGED vars PROVE ManagersSound'
    BY <2>2 DEF vars, ManagersSound
  <2>3. QED
    BY <2>1, <2>2
<1>3. QED
  BY <1>1, <1>2, TypeCorrect, PTL DEF Spec
=============================================================================
