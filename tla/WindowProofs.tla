---------------------------- MODULE WindowProofs ----------------------------
(***************************************************************************)
(* The flow control window of the FCM manager: what is counted as pending  *)
(* is queued and pending, for all instances and under all faults.  So a    *)
(* closed window always has a message in the queue whose answer opens it.  *)
(***************************************************************************)
EXTENDS ApplicationProofs, FiniteSetTheorems

\* The queued messages that are marked as pending.
Marked(mm, o) == {s \in mm.messages : o[s].state = "PENDING_ACK"}

NeverOver(mm, o) == mm.pendingAckCount <= Cardinality(Marked(mm, o))

-----------------------------------------------------------------------------
(* Lemmas about the operators of a manager.                                *)

LEMMA MarkedFinite ==
    ASSUME NEW mm \in Manager, NEW o
    PROVE  IsFiniteSet(Marked(mm, o)) /\ Cardinality(Marked(mm, o)) \in 0 .. MaxSeqId
<1>1. IsFiniteSet(SeqIds) /\ Cardinality(SeqIds) = MaxSeqId
  BY MessageAssumption, FS_Interval DEF SeqIds
<1>2. Marked(mm, o) \in SUBSET SeqIds
  BY DEF Marked, Manager
<1>3. IsFiniteSet(Marked(mm, o)) /\ Cardinality(Marked(mm, o)) <= MaxSeqId
  BY <1>1, <1>2, FS_Subset
<1>4. Cardinality(Marked(mm, o)) \in Nat
  BY <1>3, FS_CardinalityType
<1>5. QED
  BY <1>3, <1>4, MessageAssumption

\* Objects change that are not queued.
LEMMA FrameCount ==
    ASSUME NEW mm, NEW o, NEW p, NeverOver(mm, o),
           \A s \in mm.messages : p[s].state = o[s].state
    PROVE  NeverOver(mm, p)
<1>1. Marked(mm, p) = Marked(mm, o)
  BY DEF Marked
<1>2. QED
  BY <1>1 DEF NeverOver

\* A new message is queued; when it is counted, it is also marked.
LEMMA AddCount ==
    ASSUME NEW mm \in Manager, NEW o, NEW p, NEW q, NEW a, a \notin mm.messages,
           \A s \in mm.messages : p[s].state = o[s].state, NeverOver(mm, o)
    PROVE  /\ NeverOver(addMessage(mm, q, a), p)
           /\ p[a].state = "PENDING_ACK" =>
                NeverOver(incrementPendingAckCount(addMessage(mm, q, a)), p)
<1> DEFINE new == addMessage(mm, q, a)
           inc == incrementPendingAckCount(new)
           n == Cardinality(Marked(mm, o))
<1>1. /\ new.messages = mm.messages \cup {a}
      /\ new.pendingAckCount = mm.pendingAckCount
  BY DEF addMessage
<1>2. inc.messages = new.messages /\ inc.pendingAckCount = mm.pendingAckCount + 1
  BY DEF incrementPendingAckCount, addMessage
<1>3. /\ IsFiniteSet(Marked(mm, o)) /\ n \in Nat /\ mm.pendingAckCount \in Nat
      /\ mm.pendingAckCount <= n
  BY MarkedFinite DEF NeverOver, Manager
<1>4. a \notin Marked(mm, o)
  BY DEF Marked
<1> HIDE DEF new, inc, n
<1>5. CASE p[a].state = "PENDING_ACK"
  <2>1. Marked(new, p) = Marked(mm, o) \cup {a} /\ Marked(inc, p) = Marked(mm, o) \cup {a}
    BY <1>1, <1>2, <1>5 DEF Marked
  <2>2. Cardinality(Marked(mm, o) \cup {a}) = n + 1
    BY <1>3, <1>4, FS_AddElement DEF n
  <2>3. QED
    BY <1>1, <1>2, <1>3, <2>1, <2>2 DEF NeverOver, new, inc
<1>6. CASE p[a].state # "PENDING_ACK"
  <2>1. Marked(new, p) = Marked(mm, o)
    BY <1>1, <1>6 DEF Marked
  <2>2. QED
    BY <1>1, <1>3, <1>6, <2>1 DEF NeverOver, new, n
<1>7. QED
  BY <1>5, <1>6

\* A message leaves the queue and gives its slot back.
LEMMA RemoveCount ==
    ASSUME NEW mm \in Manager, NEW o, NEW s \in mm.messages, NeverOver(mm, o)
    PROVE  NeverOver(removeMessage(mm, o, s), o)
<1> DEFINE new == removeMessage(mm, o, s)
           n == Cardinality(Marked(mm, o))
<1>1. /\ new.messages = mm.messages \ {s}
      /\ new.pendingAckCount = IF o[s].state = "PENDING_ACK"
                               THEN decrementPendingAckCount(mm.pendingAckCount)
                               ELSE mm.pendingAckCount
  BY DEF removeMessage
<1>2. Marked(new, o) = Marked(mm, o) \ {s}
  BY <1>1 DEF Marked
<1>3. /\ IsFiniteSet(Marked(mm, o)) /\ n \in Nat /\ mm.pendingAckCount \in Nat
      /\ mm.pendingAckCount <= n
  BY MarkedFinite DEF NeverOver, Manager
<1>4. s \in Marked(mm, o) <=> o[s].state = "PENDING_ACK"
  BY DEF Marked
<1>5. Cardinality(Marked(mm, o) \ {s}) = IF o[s].state = "PENDING_ACK" THEN n - 1 ELSE n
  BY <1>3, <1>4, FS_RemoveElement
<1>6. o[s].state = "PENDING_ACK" => n > 0
  BY <1>3, <1>4, FS_EmptySet
<1> HIDE DEF new, n
<1>7. QED
  BY <1>1, <1>2, <1>3, <1>5, <1>6 DEF NeverOver, decrementPendingAckCount, new

-----------------------------------------------------------------------------
(* The handlers.                                                           *)

LEMMA NewIdNotQueued ==
    ASSUME TypeOK, ManagersSound
    PROVE  \A s \in fcmMgr.messages : s \in SeqIds /\ s # sequenceId + 1
BY SequenceIdNat, MessageAssumption DEF ManagersSound, Sound, TypeOK, Manager, SeqIds

\* Saving for the BAL writes only the object of the new sequence id, which is
\* not queued for FCM.
LEMMA SaveForwardFrame ==
    ASSUME TypeOK, ManagersSound, NEW d, NEW m, saveFails(d) \/ saveAndForward(d, m)
    PROVE  \A s \in fcmMgr.messages : obj'[s] = obj[s]
<1> DEFINE a == sequenceId + 1
<1>1. obj' = obj \/ \E x : obj' = [obj EXCEPT ![a] = x]
  BY DEF saveFails, saveAndForward
<1>2. \A s \in fcmMgr.messages : s \in SeqIds /\ s # a
  BY NewIdNotQueued
<1>3. QED
  BY <1>1, <1>2 DEF TypeOK, Table

LEMMA RequestCount ==
    ASSUME TypeOK, ManagersSound, FcmCountNeverOver, NEW f \in DownIds,
           NEW g \in Groups \cup {NoGroup}, NEW src \in {BalSession, NoSession},
           handleBalDownstreamUploadRequest(f, g, src)
    PROVE  FcmCountNeverOver'
<1> DEFINE a == sequenceId + 1
           m == NewMessage("DOWNSTREAM", f, g, src, FCM)
           o == [obj EXCEPT ![a] = m]
           p == [obj EXCEPT ![a] = [m EXCEPT !.state = "PENDING_ACK"]]
           mm == addMessage(fcmMgr, o, a)
<1>1. /\ fcmMgr \in Manager /\ NeverOver(fcmMgr, obj) /\ a \in SeqIds
      /\ \A s \in fcmMgr.messages : s \in SeqIds /\ s # a
  <2>1. fcmMgr \in Manager /\ NeverOver(fcmMgr, obj)
    BY DEF TypeOK, FcmCountNeverOver, NeverOver, Marked
  <2>2. a \in SeqIds
    BY NextIdType DEF handleBalDownstreamUploadRequest
  <2>3. QED
    BY <2>1, <2>2, NewIdNotQueued
<1>2. \A s \in fcmMgr.messages : o[s].state = obj[s].state /\ p[s].state = obj[s].state
  BY <1>1 DEF TypeOK, Table
<1>3. p[a].state = "PENDING_ACK"
  BY <1>1 DEF TypeOK, Table, NewMessage
<1>4. \/ UNCHANGED <<fcmMgr, obj>>
      \/ fcmMgr' = mm /\ obj' = o
      \/ fcmMgr' = incrementPendingAckCount(mm) /\ obj' = p
  BY DEF handleBalDownstreamUploadRequest
<1> HIDE DEF a, o, p
<1>5. NeverOver(mm, o) /\ NeverOver(incrementPendingAckCount(mm), p)
  <2>1. a \notin fcmMgr.messages
    BY <1>1
  <2>2. QED
    BY <1>1, <1>2, <1>3, <2>1, AddCount
<1>6. QED
  BY <1>1, <1>4, <1>5 DEF NeverOver, Marked, FcmCountNeverOver

\* A queued message is removed, or none is, and objects that are queued stay.
LEMMA RemovalCount ==
    ASSUME TypeOK, FcmCountNeverOver,
           fcmMgr' = fcmMgr \/ \E s \in fcmMgr.messages : fcmMgr' = removeMessage(fcmMgr, obj, s),
           \A s \in fcmMgr.messages : obj'[s] = obj[s]
    PROVE  FcmCountNeverOver'
<1>1. fcmMgr \in Manager /\ NeverOver(fcmMgr, obj)
  BY DEF TypeOK, FcmCountNeverOver, NeverOver, Marked
<1>2. NeverOver(fcmMgr', obj) /\ fcmMgr'.messages \subseteq fcmMgr.messages
  BY <1>1, RemoveCount DEF removeMessage
<1>3. NeverOver(fcmMgr', obj')
  BY <1>2, FrameCount
<1>4. QED
  BY <1>3 DEF NeverOver, Marked, FcmCountNeverOver

LEMMA RetryCount ==
    ASSUME TypeOK, NEW s \in SeqIds,
           startDownstreamRetry(s) \/ giveUpDownstream(s) \/ giveUpDownstreamThrows(s)
    PROVE  fcmMgr' = fcmMgr \/ \E t \in fcmMgr.messages : fcmMgr' = removeMessage(fcmMgr, obj, t)
<1>1. CASE startDownstreamRetry(s) \/ giveUpDownstreamThrows(s)
  BY <1>1 DEF startDownstreamRetry, giveUpDownstreamThrows
<1>2. CASE giveUpDownstream(s)
  BY <1>2 DEF giveUpDownstream, findMessageWithFcmMsgId
<1>3. QED
  BY <1>1, <1>2

LEMMA FcmCount ==
    ASSUME TypeOK, ManagersSound, FcmCountNeverOver, FcmNext
    PROVE  FcmCountNeverOver'
<1> DEFINE Removal == \/ fcmMgr' = fcmMgr
                      \/ \E s \in fcmMgr.messages : fcmMgr' = removeMessage(fcmMgr, obj, s)
           Frame == \A s \in fcmMgr.messages : obj'[s] = obj[s]
<1>1. ASSUME NEW u \in UpIds, handleFcmNewUpstreamMessage(u) PROVE Removal /\ Frame
  BY <1>1, SaveForwardFrame DEF handleFcmNewUpstreamMessage
<1>2. ASSUME NEW r \in RcptIds, handleFcmReceiptMessage(r) PROVE Removal /\ Frame
  BY <1>2, SaveForwardFrame DEF handleFcmReceiptMessage
<1>3. ASSUME NEW f \in DownIds, removeAndSendNext(f, findMessageWithFcmMsgId(fcmMgr, f)),
             findMessageWithFcmMsgId(fcmMgr, f) # 0
      PROVE  Removal
  BY <1>3 DEF removeAndSendNext, findMessageWithFcmMsgId
<1>4. ASSUME NEW f \in DownIds, handleFcmAckMessage(f) PROVE Removal /\ Frame
  <2>1. CASE ignoreAnswer(f)
    BY <2>1 DEF ignoreAnswer
  <2>2. CASE ~ ignoreAnswer(f)
    BY <1>3, <1>4, <2>2, SaveForwardFrame DEF handleFcmAckMessage
  <2>3. QED
    BY <2>1, <2>2
<1>5. ASSUME NEW f \in DownIds, NEW retryable \in BOOLEAN, handleFcmNackMessage(f, retryable)
      PROVE  Removal /\ Frame
  <2>1. Frame
    BY <1>5 DEF handleFcmNackMessage
  <2>2. CASE ignoreAnswer(f)
    BY <2>1, <2>2 DEF ignoreAnswer
  <2>3. CASE ~ ignoreAnswer(f)
    <3> DEFINE s == findMessageWithFcmMsgId(fcmMgr, f)
    <3>1. \/ s # 0 /\ (startDownstreamRetry(s) \/ giveUpDownstream(s) \/ giveUpDownstreamThrows(s))
          \/ s # 0 /\ removeAndSendNext(f, s)
      BY <1>5, <2>3 DEF handleFcmNackMessage
    <3>2. s # 0 => s \in SeqIds
      BY FoundType, DownIdsType
    <3> HIDE DEF s
    <3>3. QED
      BY <1>3, <2>1, <3>1, <3>2, RetryCount DEF s
  <2>4. QED
    BY <2>2, <2>3
<1>6. ASSUME handleFcmSessionEstablished \/ handleFcmConnectionLost \/ messageDropped
      PROVE  Removal /\ Frame
  BY <1>6 DEF handleFcmSessionEstablished, handleFcmConnectionLost, messageDropped
<1>7. QED
  BY <1>1, <1>2, <1>4, <1>5, <1>6, RemovalCount DEF FcmNext

LEMMA TimerCount ==
    ASSUME TypeOK, FcmCountNeverOver, TimerNext
    PROVE  FcmCountNeverOver'
<1>1. obj' = obj
  BY DEF TimerNext, downstreamRetryTimeout, upstreamRetryTimeout,
         resendAllPendingDownstreamMessages, resendPendingUpstreamMessages, logonTimeout
<1>2. ASSUME NEW s \in SeqIds, resendAllPendingDownstreamMessages(s)
      PROVE  \/ fcmMgr' = fcmMgr
             \/ \E t \in fcmMgr.messages : fcmMgr' = removeMessage(fcmMgr, obj, t)
  BY <1>2, RetryCount DEF resendAllPendingDownstreamMessages
<1>3. QED
  BY <1>1, <1>2, RemovalCount
     DEF TimerNext, downstreamRetryTimeout, upstreamRetryTimeout,
         resendPendingUpstreamMessages, logonTimeout

LEMMA StartCount ==
    ASSUME TypeOK, start
    PROVE  FcmCountNeverOver'
<1>1. PICK queue \in Read(Pending(db, FCM)), index \in {"idx_source_session", "idx_state"} :
         fcmMgr' = loadPendingMessages(db, queue, index)
  BY DEF start
<1>2. queue \in SUBSET SeqIds /\ db \in Table
  BY ReadPending DEF TypeOK
<1>3. fcmMgr' \in Manager /\ fcmMgr'.pendingAckCount = 0
  BY <1>1, <1>2, LoadType, LoadFields
<1>4. Cardinality(Marked(fcmMgr', obj')) \in Nat
  BY <1>3, MarkedFinite
<1>5. QED
  BY <1>3, <1>4 DEF FcmCountNeverOver, Marked

LEMMA NextCount ==
    ASSUME TypeOK, ManagersSound, FcmCountNeverOver, [Next]_vars
    PROVE  FcmCountNeverOver'
<1>1. CASE BalNext
  <2>1. ASSUME NEW s \in SeqIds, handleBalAckMsg(s) PROVE FcmCountNeverOver'
    BY <2>1, RemovalCount DEF handleBalAckMsg
  <2>2. ASSUME handleBalLogonRequest \/ handleBALSocketDisconnected PROVE FcmCountNeverOver'
    BY <2>2, RemovalCount DEF handleBalLogonRequest, handleBALSocketDisconnected
  <2>3. QED
    BY <1>1, <2>1, <2>2, RequestCount DEF BalNext
<1>2. CASE UNCHANGED vars
  BY <1>2, RemovalCount DEF vars
<1>3. QED
  BY <1>1, <1>2, FcmCount, TimerCount, StartCount DEF Next

LEMMA InitCount == Init => FcmCountNeverOver
<1>1. ASSUME Init PROVE FcmCountNeverOver
  <2>1. fcmMgr.messages = {} /\ fcmMgr.pendingAckCount = 0
    BY <1>1 DEF Init, EmptyManager
  <2>2. {s \in fcmMgr.messages : obj[s].state = "PENDING_ACK"} = {}
    BY <2>1
  <2>3. QED
    BY <2>1, <2>2, FS_EmptySet DEF FcmCountNeverOver
<1>2. QED
  BY <1>1

-----------------------------------------------------------------------------
(* The theorem.                                                            *)

\* incrementPendingAckCount and removeMessage of messagemanager.cpp keep the
\* count of the FCM manager at or below the number of queued messages that are
\* marked as pending, under all faults: over failed statements between the
\* save and the mark, answers that come twice, FCM ids that are used again,
\* messages that are given up, and restarts.
THEOREM WindowNotBlocked == Spec => []FcmCountNeverOver
BY InitCount, NextCount, TypeCorrect, IndexesAgree, PTL DEF Spec
=============================================================================
