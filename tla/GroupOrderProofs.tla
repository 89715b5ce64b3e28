-------------------------- MODULE GroupOrderProofs --------------------------
(***************************************************************************)
(* The order of a group: while a message is on its way to FCM, every       *)
(* earlier one of its group is resolved.  A restart forgets the groups and *)
(* a closed window starts timers out of order, so the theorems are about   *)
(* runs without restarts in which the window stays open.                   *)
(***************************************************************************)
EXTENDS DeliveryProofs

\* Connections come and go and FCM refuses messages, but the daemon and its
\* database work and the BAL gives every message an FCM id of its own.
NoRestart == Faults \subseteq {"fcmDrop", "balDrop", "split", "nack", "noLogon"}

WindowOpen == fcmMgr.pendingAckCount < MAX_PENDING_MESSAGES

-----------------------------------------------------------------------------
(* The inductive invariant.                                                *)

\* Message t has been uploaded, or a timer will upload it.
Sent(t) == db[t].type = "DOWNSTREAM" /\ (fcmTimers[t] > 0 \/ OnWire(t))

\* The rows of downstream messages and their objects agree.
DownRow(s) ==
    /\ db[s].state # "UNKNOWN" /\ db[s].tgt = FCM /\ db[s].fcmId \in DownIds
    /\ obj[s].fcmId = db[s].fcmId /\ obj[s].gid = db[s].gid

RowsAgree ==
    /\ \A s \in SeqIds : db[s].type = "DOWNSTREAM" => DownRow(s)
    /\ \A s \in fcmMgr.messages : db[s].type = "DOWNSTREAM"

\* No two downstream messages have one FCM id.
OneId ==
    \A s, t \in SeqIds :
        db[s].type = "DOWNSTREAM" /\ db[t].type = "DOWNSTREAM" /\ db[s].fcmId = db[t].fcmId
        => s = t

\* Only downstream messages are on their way to FCM, or have a timer.
OnlySaved ==
    /\ \A f \in DownIds :
          fcmInbox[f] > 0 => \E s \in SeqIds : db[s].type = "DOWNSTREAM" /\ db[s].fcmId = f
    /\ \A s \in SeqIds : fcmTimers[s] > 0 => db[s].type = "DOWNSTREAM"

Before(s, t) ==
    /\ s < t
    /\ db[s].type = "DOWNSTREAM" /\ db[t].type = "DOWNSTREAM"
    /\ db[s].gid # NoGroup /\ db[s].gid = db[t].gid

InOrder ==
    \A s, t \in SeqIds :
        Before(s, t) /\ db[t].state \in LiveStates /\ Sent(t) => db[s].state \notin LiveStates

GroupInv ==
    /\ loop.kind # "terminated"
    /\ RowsAgree /\ OneId /\ OnlySaved /\ InOrder

-----------------------------------------------------------------------------
(* What a step may do.                                                     *)

\* Message s may go after the step: it is the first of its group.
MayGo(s) == s \in fcmMgr'.messages /\ groupRule(fcmMgr', obj', s)

\* Only the object under the next sequence id is new, and only that message
\* is new in the queue for FCM.  A new downstream message has a new FCM id.
QueueGrows ==
    /\ \A s \in fcmMgr'.messages :
          \/ s \in fcmMgr.messages
          \/ s = sequenceId + 1 /\ db'[s].type = "DOWNSTREAM"
    /\ \A s \in SeqIds : s # sequenceId + 1 => obj'[s] = obj[s]
    /\ \A s \in SeqIds :
          s = sequenceId + 1 /\ db'[s].type = "DOWNSTREAM" =>
              /\ db'[s].fcmId \in DownIds
              /\ obj'[s].fcmId = db'[s].fcmId /\ obj'[s].gid = db'[s].gid
              /\ \A t \in SeqIds : db[t].type = "DOWNSTREAM" => db[t].fcmId # db'[s].fcmId

\* What is uploaded was on its way before, had a timer, or is the first of its
\* group; a timer is only started for what is on its way.
SendsInOrder ==
    /\ \A f \in DownIds :
          fcmInbox'[f] > 0 =>
              \/ fcmInbox[f] > 0
              \/ \E s \in SeqIds : /\ db'[s].type = "DOWNSTREAM" /\ obj'[s].fcmId = f
                                   /\ fcmTimers[s] > 0 \/ MayGo(s)
    /\ \A s \in SeqIds :
          fcmTimers'[s] > 0 =>
              \/ fcmTimers[s] > 0
              \/ s \in fcmMgr.messages /\ obj[s].fcmId \in DownIds /\ fcmInbox[obj[s].fcmId] > 0

GroupStep == loop'.kind # "terminated" /\ QueueGrows /\ SendsInOrder

\* A handler of a process that does not die runs to its end.
LEMMA EndsQuietly == NoRestart => ~ fails /\ (ends => loop' = loop)
BY DEF NoRestart, fails, ends, dies

-----------------------------------------------------------------------------
(* Such a step keeps the invariant.                                        *)

LEMMA RowsAgreeStep ==
    ASSUME TypeOK, ManagersSound, TableInv, TableInv', GroupInv, RowStep, QueueGrows
    PROVE  RowsAgree' /\ OneId'
<1>1. \A s \in SeqIds : db[s].type = "DOWNSTREAM" => s # sequenceId + 1 /\ DownRow(s)
  <2>1. \A s \in SeqIds : db[s].type = "DOWNSTREAM" => s \in Rows(db) /\ DownRow(s)
    BY DEF GroupInv, RowsAgree, DownRow, Rows
  <2>2. QED
    BY <2>1, RowIsOld
<1>2. ASSUME NEW s \in SeqIds, db'[s].type = "DOWNSTREAM", s # sequenceId + 1
      PROVE  /\ db[s].type = "DOWNSTREAM" /\ Kept(db, db', s) /\ obj'[s] = obj[s]
             /\ db'[s].state # "UNKNOWN"
  <2>1. OldRow(s)
    BY <1>2 DEF RowStep, NewRow
  <2>2. db[s].type = "DOWNSTREAM"
    BY <1>2, <2>1 DEF OldRow, Kept
  <2>3. db[s].state # "UNKNOWN"
    BY <1>1, <2>2 DEF DownRow
  <2>4. QED
    BY <1>2, <2>1, <2>2, <2>3 DEF OldRow, QueueGrows
<1>3. ASSUME NEW s \in SeqIds, db'[s].type = "DOWNSTREAM", s = sequenceId + 1
      PROVE  /\ db'[s].state # "UNKNOWN" /\ db'[s].tgt = FCM /\ db'[s].fcmId \in DownIds
             /\ obj'[s].fcmId = db'[s].fcmId /\ obj'[s].gid = db'[s].gid
             /\ \A t \in SeqIds : db[t].type = "DOWNSTREAM" => db[t].fcmId # db'[s].fcmId
  <2>1. NewRow(s)
    BY <1>1, <1>3 DEF RowStep, OldRow, Kept
  <2>2. QED
    BY <1>3, <2>1 DEF NewRow, QueueGrows, LiveStates
<1>4. ASSUME NEW s \in SeqIds, db'[s].type = "DOWNSTREAM" PROVE DownRow(s)'
  <2>1. CASE s = sequenceId + 1
    BY <1>3, <1>4, <2>1 DEF DownRow
  <2>2. CASE s # sequenceId + 1
    BY <1>1, <1>2, <1>4, <2>2 DEF DownRow, Kept
  <2>3. QED
    BY <2>1, <2>2
<1>5. \A s \in fcmMgr'.messages : db'[s].type = "DOWNSTREAM"
  <2>1. ASSUME NEW s \in fcmMgr.messages PROVE db'[s].type = "DOWNSTREAM"
    <3>1. s \in SeqIds /\ s # sequenceId + 1 /\ db[s].type = "DOWNSTREAM"
      BY NewIdNotQueued DEF GroupInv, RowsAgree
    <3>2. QED
      BY <3>1 DEF RowStep, NewRow, OldRow, Kept
  <2>2. QED
    BY <2>1 DEF QueueGrows
<1>6. OneId'
  <2> SUFFICES ASSUME NEW s \in SeqIds, NEW t \in SeqIds,
                      db'[s].type = "DOWNSTREAM", db'[t].type = "DOWNSTREAM",
                      db'[s].fcmId = db'[t].fcmId
               PROVE  s = t
    BY DEF OneId
  <2>1. CASE s # sequenceId + 1 /\ t # sequenceId + 1
    BY <1>2, <2>1 DEF Kept, GroupInv, OneId
  <2>2. CASE s = sequenceId + 1 /\ t # sequenceId + 1
    BY <1>2, <1>3, <2>2 DEF Kept
  <2>3. CASE s # sequenceId + 1 /\ t = sequenceId + 1
    BY <1>2, <1>3, <2>3 DEF Kept
  <2>4. QED
    BY <2>1, <2>2, <2>3
<1>7. QED
  BY <1>4, <1>5, <1>6 DEF RowsAgree

\* A downstream message stays what it is.
LEMMA DownStays ==
    ASSUME TypeOK, TableInv, GroupInv, RowStep, NEW s \in SeqIds, db[s].type = "DOWNSTREAM"
    PROVE  /\ s # sequenceId + 1
           /\ db'[s].type = "DOWNSTREAM" /\ db'[s].fcmId = db[s].fcmId
           /\ db'[s].gid = db[s].gid
<1>1. s \in Rows(db)
  BY DEF GroupInv, RowsAgree, DownRow, Rows
<1>2. s # sequenceId + 1
  BY <1>1, RowIsOld
<1>3. QED
  BY <1>2 DEF RowStep, NewRow, OldRow, Kept

LEMMA OnlySavedStep ==
    ASSUME TypeOK, TableInv, GroupInv, RowStep, GroupStep, RowsAgree'
    PROVE  OnlySaved'
<1>1. ASSUME NEW f \in DownIds, fcmInbox'[f] > 0
      PROVE  \E s \in SeqIds : db'[s].type = "DOWNSTREAM" /\ db'[s].fcmId = f
  <2>1. CASE fcmInbox[f] > 0
    BY <2>1, DownStays DEF GroupInv, OnlySaved
  <2>2. CASE ~ (fcmInbox[f] > 0)
    BY <1>1, <2>2 DEF GroupStep, SendsInOrder, RowsAgree, DownRow
  <2>3. QED
    BY <2>1, <2>2
<1>2. ASSUME NEW s \in SeqIds, fcmTimers'[s] > 0 PROVE db'[s].type = "DOWNSTREAM"
  <2>1. db[s].type = "DOWNSTREAM"
    BY <1>2 DEF GroupStep, SendsInOrder, GroupInv, OnlySaved, RowsAgree
  <2>2. QED
    BY <2>1, DownStays
<1>3. QED
  BY <1>1, <1>2 DEF OnlySaved

\* A message that is sent after the step was sent before it, or is the first
\* of its group.
LEMMA SentStep ==
    ASSUME TypeOK, TableInv, GroupInv, RowStep, GroupStep, RowsAgree', OneId',
           NEW t \in SeqIds, Sent(t)'
    PROVE  Sent(t) \/ MayGo(t)
<1>1. db'[t].type = "DOWNSTREAM" /\ (fcmTimers'[t] > 0 \/ OnWire(t)')
  BY DEF Sent
<1>2. ASSUME fcmTimers[t] > 0 PROVE Sent(t)
  BY <1>2 DEF Sent, GroupInv, OnlySaved
<1>3. CASE fcmTimers'[t] > 0
  <2>1. ASSUME t \in fcmMgr.messages, obj[t].fcmId \in DownIds, fcmInbox[obj[t].fcmId] > 0
        PROVE  Sent(t)
    BY <2>1 DEF Sent, OnWire, GroupInv, RowsAgree, DownRow
  <2>2. QED
    BY <1>2, <1>3, <2>1 DEF GroupStep, SendsInOrder
<1>4. CASE OnWire(t)'
  <2>1. db'[t].fcmId \in DownIds /\ fcmInbox'[db'[t].fcmId] > 0
    BY <1>4 DEF OnWire
  <2>2. CASE fcmInbox[db'[t].fcmId] > 0
    <3>1. PICK s \in SeqIds : db[s].type = "DOWNSTREAM" /\ db[s].fcmId = db'[t].fcmId
      BY <2>1, <2>2 DEF GroupInv, OnlySaved
    <3>2. db'[s].type = "DOWNSTREAM" /\ db'[s].fcmId = db'[t].fcmId
      BY <3>1, DownStays
    <3>3. s = t
      BY <1>1, <3>2 DEF OneId
    <3>4. QED
      BY <2>1, <2>2, <3>1, <3>3 DEF Sent, OnWire
  <2>3. CASE ~ (fcmInbox[db'[t].fcmId] > 0)
    <3>1. PICK s \in SeqIds : /\ db'[s].type = "DOWNSTREAM" /\ obj'[s].fcmId = db'[t].fcmId
                              /\ fcmTimers[s] > 0 \/ MayGo(s)
      BY <2>1, <2>3 DEF GroupStep, SendsInOrder
    <3>2. s = t
      BY <1>1, <3>1 DEF RowsAgree, DownRow, OneId
    <3>3. QED
      BY <1>2, <3>1, <3>2
  <2>4. QED
    BY <2>2, <2>3
<1>5. QED
  BY <1>1, <1>3, <1>4

\* A downstream message that is pending after the step is queued.
LEMMA LiveIsQueued ==
    ASSUME TableInv', RowsAgree', NoRestart, NEW s \in SeqIds,
           db'[s].type = "DOWNSTREAM", db'[s].state \in LiveStates
    PROVE  s \in fcmMgr'.messages
<1>1. s \in Pending(db', FCM)
  BY DEF RowsAgree, DownRow, Pending
<1>2. "loadFail" \notin Faults
  BY DEF NoRestart
<1>3. QED
  BY <1>1, <1>2 DEF TableInv, Queued, Agree, Complete

\* A message that is queued after the step and is not new was pending before.
LEMMA QueuedWasLive ==
    ASSUME TableInv, QueueGrows, NEW s \in fcmMgr'.messages, s # sequenceId + 1
    PROVE  db[s].state \in LiveStates
BY DEF QueueGrows, TableInv, Queued, Agree, Pending

\* The message that may go is before every queued one of its group.
LEMMA FirstOfGroup ==
    ASSUME NEW mm, NEW o, NEW last, Sound(mm, o, last), NEW s \in mm.messages,
           NEW t, o[t].gid \in Groups, o[s].gid = o[t].gid, groupRule(mm, o, t)
    PROVE  t <= s
<1>1. o[t].gid # NoGroup
  BY MessageAssumption
<1>2. canSend(mm.groups[o[t].gid], t)
  BY <1>1 DEF groupRule
<1>3. s \in mm.groups[o[t].gid]
  BY DEF Sound
<1>4. QED
  BY <1>2, <1>3 DEF canSend

LEMMA InOrderStep ==
    ASSUME TypeOK, TypeOK', ManagersSound, ManagersSound', TableInv, TableInv',
           GroupInv, RowStep, GroupStep, RowsAgree', OneId', NoRestart
    PROVE  InOrder'
<1> SUFFICES ASSUME NEW s \in SeqIds, NEW t \in SeqIds, Before(s, t)',
                    db'[t].state \in LiveStates, Sent(t)', db'[s].state \in LiveStates
             PROVE  FALSE
  BY DEF InOrder
<1>1. /\ s \in Int /\ t \in Int /\ s < t
      /\ db'[s].type = "DOWNSTREAM" /\ db'[t].type = "DOWNSTREAM"
      /\ db'[s].gid # NoGroup /\ db'[s].gid = db'[t].gid
  BY MessageAssumption DEF Before, SeqIds
<1>2. s \in fcmMgr'.messages /\ t \in fcmMgr'.messages
  BY <1>1, LiveIsQueued
<1>3. CASE MayGo(t)
  <2>1. obj'[s].gid = db'[s].gid /\ obj'[t].gid = db'[t].gid
    BY <1>1 DEF RowsAgree, DownRow
  <2>2. db'[t].gid \in Groups
    BY <1>1 DEF TypeOK, Table, Message
  <2>3. Sound(fcmMgr', obj', sequenceId')
    BY DEF ManagersSound
  <2>4. t <= s
    BY <1>1, <1>2, <1>3, <2>1, <2>2, <2>3, FirstOfGroup DEF MayGo
  <2>5. QED
    BY <1>1, <2>4
<1>4. CASE Sent(t)
  <2>1. db[t].type = "DOWNSTREAM"
    BY <1>4 DEF Sent
  <2>2. t # sequenceId + 1 /\ db'[t].gid = db[t].gid
    BY <2>1, DownStays
  <2>3. t \in Rows(db)
    BY <2>1 DEF GroupInv, RowsAgree, DownRow, Rows
  <2>4. t <= sequenceId
    BY <2>3 DEF TableInv, Queued, Agree
  <2>5. s # sequenceId + 1
    BY <1>1, <2>4, SequenceIdNat
  <2>6. db[s].type = "DOWNSTREAM" /\ db[s].gid = db'[s].gid
    BY <1>1, <2>5 DEF RowStep, NewRow, OldRow, Kept
  <2>7. db[s].state \in LiveStates /\ db[t].state \in LiveStates
    BY <1>2, <2>2, <2>5, QueuedWasLive DEF GroupStep
  <2>8. Before(s, t)
    BY <1>1, <2>1, <2>2, <2>6 DEF Before
  <2>9. QED
    BY <1>4, <2>7, <2>8 DEF GroupInv, InOrder
<1>5. QED
  BY <1>3, <1>4, SentStep

-----------------------------------------------------------------------------
(* The handlers.                                                           *)

\* What is uploaded was in the inbox or is a message of S.
LEMMA UploadedOnly ==
    ASSUME NEW inbox, NEW o, NEW S, NEW f \in DownIds, uploadToFcm(inbox, o, S)[f] > 0
    PROVE  inbox[f] > 0 \/ \E s \in S : o[s].fcmId = f
BY DEF uploadToFcm

\* getNext picks the first of a group.
LEMMA NextMayGo ==
    ASSUME NEW mm, NEW o, NEW s \in getNext(mm, o)
    PROVE  s \in mm.messages /\ groupRule(mm, o, s)
BY DEF getNext, canSendMessage, sendCode

LEMMA AnsweredOnly ==
    ASSUME TypeOK, NEW f \in DownIds, NEW h \in DownIds, answered(f)[h] > 0
    PROVE  fcmInbox[h] > 0
BY ApplicationAssumption DEF answered, TypeOK

\* A handler that leaves messages, objects and rows as they are.
LEMMA QuietQueue ==
    ASSUME TypeOK, TableInv, GroupInv, db' = db, obj' = obj,
           fcmMgr'.messages \subseteq fcmMgr.messages
    PROVE  QueueGrows
<1>1. \A s \in SeqIds : db[s].type = "DOWNSTREAM" => s \in Rows(db)
  BY DEF GroupInv, RowsAgree, DownRow, Rows
<1>2. QED
  BY <1>1, RowIsOld DEF QueueGrows

\* A handler that uploads nothing and starts no timer.
LEMMA QuietSends ==
    ASSUME fcmTimers' = fcmTimers, \A f \in DownIds : fcmInbox'[f] > 0 => fcmInbox[f] > 0
    PROVE  SendsInOrder
BY DEF SendsInOrder

LEMMA LinkLostSends ==
    ASSUME fcmTimers' = fcmTimers, linkLost
    PROVE  SendsInOrder
BY QuietSends DEF linkLost

LEMMA RequestOrder ==
    ASSUME TypeOK, ManagersSound, NoRestart, GroupInv,
           NEW f \in DownIds, NEW g \in Groups \cup {NoGroup},
           NEW src \in {BalSession, NoSession},
           handleBalDownstreamUploadRequest(f, g, src)
    PROVE  GroupStep
<1> DEFINE a == sequenceId + 1
           m == NewMessage("DOWNSTREAM", f, g, src, FCM)
           o == [obj EXCEPT ![a] = m]
           p == [obj EXCEPT ![a] = [m EXCEPT !.state = "PENDING_ACK"]]
           mm == addMessage(fcmMgr, o, a)
<1>1. a \in SeqIds /\ db \in Table
  BY NextIdType DEF handleBalDownstreamUploadRequest, TypeOK
<1>2. /\ m \in Message /\ m.state \in LiveStates /\ m.type = "DOWNSTREAM"
      /\ m.tgt = FCM /\ m.fcmId = f /\ m.gid = g
  <2>1. m \in Message
    BY NewMessageType, DownIdsType DEF MessageType, Sessions
  <2>2. QED
    BY <2>1 DEF NewMessage, LiveStates
<1> HIDE DEF m
<1>3. /\ \A s \in SeqIds : s # a => o[s] = obj[s] /\ p[s] = obj[s]
      /\ o[a].fcmId = f /\ p[a].fcmId = f /\ o[a].gid = g /\ p[a].gid = g
  BY <1>1, <1>2 DEF TypeOK, Table, Message
<1>4. /\ mm.messages = fcmMgr.messages \cup {a}
      /\ incrementPendingAckCount(mm).messages = fcmMgr.messages \cup {a}
      /\ incrementPendingAckCount(mm).groups = mm.groups
  BY DEF addMessage, incrementPendingAckCount
<1> HIDE DEF o, p, mm, a
<1>5. /\ \/ db' = saveMsg(db, a, m)
         \/ db' = updateMsgState(saveMsg(db, a, m), a, "PENDING_ACK")
      /\ \/ obj' = o /\ fcmMgr' = mm /\ fcmInbox' = fcmInbox
         \/ /\ obj' = p /\ fcmMgr' = incrementPendingAckCount(mm)
            /\ canSendMessage(mm, o, a) = 0
            /\ fcmInbox' = uploadToFcm(fcmInbox, o, {a})
      /\ \A s \in SeqIds : db[s].type = "DOWNSTREAM" => db[s].fcmId # f
      /\ loop' = loop /\ fcmTimers' = fcmTimers
  <2>1. ~ fails /\ "dupIds" \notin Faults /\ (ends => loop' = loop)
    BY EndsQuietly DEF NoRestart
  <2>2. QED
    BY <2>1 DEF handleBalDownstreamUploadRequest, m, o, p, mm, a
<1>6. /\ db'[a].type = "DOWNSTREAM" /\ db'[a].fcmId = f /\ db'[a].gid = g
      /\ \A s \in SeqIds : s # a => db'[s] = db[s]
  BY <1>1, <1>2, <1>5, InsertRows
<1>7. QueueGrows
  BY <1>3, <1>4, <1>5, <1>6 DEF QueueGrows, a
<1>8. SendsInOrder
  <2>1. CASE fcmInbox' = fcmInbox
    BY <1>5, <2>1, QuietSends
  <2>2. CASE /\ obj' = p /\ fcmMgr' = incrementPendingAckCount(mm)
             /\ canSendMessage(mm, o, a) = 0
             /\ fcmInbox' = uploadToFcm(fcmInbox, o, {a})
    <3>1. groupRule(mm, o, a)
      BY <2>2 DEF canSendMessage, sendCode
    <3>2. MayGo(a)
      BY <1>3, <1>4, <2>2, <3>1 DEF MayGo, groupRule
    <3>3. \A h \in DownIds : fcmInbox'[h] > 0 => fcmInbox[h] > 0 \/ h = f
      BY <1>3, <2>2, UploadedOnly
    <3>4. obj'[a].fcmId = f
      BY <1>3, <2>2
    <3>5. QED
      BY <1>1, <1>5, <1>6, <3>2, <3>3, <3>4 DEF SendsInOrder
  <2>3. QED
    BY <1>5, <2>1, <2>2
<1>9. loop'.kind # "terminated"
  BY <1>5 DEF GroupInv
<1>10. QED
  BY <1>7, <1>8, <1>9 DEF GroupStep

\* Saving for the BAL adds no downstream message.
LEMMA SaveForwardGrows ==
    ASSUME TypeOK, TableInv, GroupInv, Room, NEW d \in Table, NEW m \in Message,
           m.state = "NEW", m.type # "DOWNSTREAM",
           \A s \in SeqIds : d[s].type = db[s].type,
           saveFails(d) \/ saveAndForward(d, m),
           fcmMgr'.messages \subseteq fcmMgr.messages
    PROVE  QueueGrows
<1> DEFINE a == sequenceId + 1
<1>1. \A s \in SeqIds : db[s].type = "DOWNSTREAM" => s # a
  <2>1. \A s \in SeqIds : db[s].type = "DOWNSTREAM" => s \in Rows(db)
    BY DEF GroupInv, RowsAgree, DownRow, Rows
  <2>2. QED
    BY <2>1, RowIsOld
<1>2. obj' = obj \/ \E x : obj' = [obj EXCEPT ![a] = x]
  BY DEF saveFails, saveAndForward
<1>3. \A s \in SeqIds : s # a => obj'[s] = obj[s]
  BY <1>2 DEF TypeOK, Table
<1>4. \A s \in SeqIds : s = a => db'[s].type # "DOWNSTREAM"
  BY <1>1, SaveForwardRows
<1>5. QED
  BY <1>3, <1>4 DEF QueueGrows

LEMMA UpstreamOrder ==
    ASSUME TypeOK, TableInv, GroupInv, NoRestart, NEW u \in UpIds, handleFcmNewUpstreamMessage(u)
    PROVE  GroupStep
<1> DEFINE m == NewMessage("UPSTREAM", u, NoGroup, FCM, category(u))
<1>1. m \in Message /\ m.state = "NEW" /\ m.type # "DOWNSTREAM"
  <2>1. m \in Message
    BY NewMessageType, DownIdsType, CategoryType DEF MessageType, Sessions
  <2>2. QED
    BY <2>1 DEF NewMessage
<1>2. /\ Room /\ (saveFails(db) \/ saveAndForward(db, m))
      /\ fcmMgr' = fcmMgr /\ loop' = loop /\ fcmTimers' = fcmTimers
      /\ fcmInbox' = fcmInbox \/ linkLost
  BY EndsQuietly DEF handleFcmNewUpstreamMessage
<1> HIDE DEF m
<1>3. QueueGrows
  <2>1. db \in Table
    BY DEF TypeOK
  <2>2. QED
    BY <1>1, <1>2, <2>1, SaveForwardGrows
<1>4. SendsInOrder
  BY <1>2, LinkLostSends, QuietSends
<1>5. QED
  BY <1>2, <1>3, <1>4 DEF GroupStep, GroupInv

LEMMA ReceiptOrder ==
    ASSUME TypeOK, TableInv, GroupInv, NoRestart, NEW r \in RcptIds, handleFcmReceiptMessage(r)
    PROVE  GroupStep
<1> DEFINE m == [DefaultMessage EXCEPT
                    !.type = "DOWNSTREAM_RECEIPT", !.fcmId = r,
                    !.src = FCM, !.tgt = category(r), !.state = "NEW"]
<1>1. m \in Message /\ m.state = "NEW" /\ m.type # "DOWNSTREAM"
  BY CategoryType, DownIdsType
     DEF Message, DefaultMessage, MessageType, MessageState, Sessions
<1>2. /\ Room /\ (saveFails(db) \/ saveAndForward(db, m))
      /\ fcmMgr' = fcmMgr /\ loop' = loop /\ fcmTimers' = fcmTimers
      /\ fcmInbox' = fcmInbox
  BY EndsQuietly DEF handleFcmReceiptMessage
<1> HIDE DEF m
<1>3. QueueGrows
  <2>1. db \in Table
    BY DEF TypeOK
  <2>2. QED
    BY <1>1, <1>2, <2>1, SaveForwardGrows
<1>4. SendsInOrder
  BY <1>2, QuietSends
<1>5. QED
  BY <1>2, <1>3, <1>4 DEF GroupStep, GroupInv

\* The upload that follows a removal.
LEMMA SendNextOrder ==
    ASSUME TypeOK, ManagersSound, GroupInv, RowStep, NEW f \in DownIds, NEW s \in SeqIds,
           removeAndSendNext(f, s), fcmTimers' = fcmTimers,
           \A t \in fcmMgr.messages : obj'[t] = obj[t]
    PROVE  SendsInOrder
<1> DEFINE mm == removeMessage(fcmMgr, obj, s)
<1>1. fcmMgr' = mm /\ fcmInbox' = uploadToFcm(answered(f), obj, getNext(mm, obj))
  BY DEF removeAndSendNext
<1>2. mm.messages \subseteq fcmMgr.messages
  BY DEF removeMessage
<1> HIDE DEF mm
<1>3. ASSUME NEW h \in DownIds, fcmInbox'[h] > 0, ~ (fcmInbox[h] > 0)
      PROVE  \E t \in SeqIds : /\ db'[t].type = "DOWNSTREAM" /\ obj'[t].fcmId = h
                               /\ fcmTimers[t] > 0 \/ MayGo(t)
  <2>1. PICK t \in getNext(mm, obj) : obj[t].fcmId = h
    BY <1>1, <1>3, UploadedOnly, AnsweredOnly
  <2>2. t \in mm.messages /\ groupRule(mm, obj, t)
    BY NextMayGo
  <2>3. t \in fcmMgr.messages /\ t \in SeqIds /\ t # sequenceId + 1
    BY <1>2, <2>2, NewIdNotQueued
  <2>4. db'[t].type = "DOWNSTREAM"
    BY <2>3 DEF GroupInv, RowsAgree, RowStep, NewRow, OldRow, Kept
  <2>5. MayGo(t)
    BY <1>1, <2>2, <2>3 DEF MayGo, groupRule
  <2>6. QED
    BY <2>1, <2>3, <2>4, <2>5
<1>4. QED
  BY <1>3 DEF SendsInOrder

LEMMA FcmAckOrder ==
    ASSUME TypeOK, ManagersSound, TableInv, GroupInv, NoRestart,
           NEW f \in DownIds, handleFcmAckMessage(f)
    PROVE  GroupStep
<1> DEFINE s == findMessageWithFcmMsgId(fcmMgr, f)
           d == updateMsgState(db, s, "DELIVERED")
           m == NewMessage("DOWNSTREAM_ACK", f, NoGroup, FCM, obj[s].src)
<1>1. loop' = loop /\ fcmTimers' = fcmTimers
  BY EndsQuietly DEF handleFcmAckMessage
<1>2. CASE ignoreAnswer(f)
  <2>1. UNCHANGED <<db, obj, fcmMgr>> /\ fcmInbox' = answered(f)
    BY <1>2 DEF ignoreAnswer, store
  <2>2. SendsInOrder
    BY <1>1, <2>1, AnsweredOnly, QuietSends
  <2>3. QED
    BY <1>1, <2>1, <2>2, QuietQueue DEF GroupStep, GroupInv
<1>3. CASE s # 0 /\ Room /\ removeAndSendNext(f, s) /\ (saveFails(d) \/ saveAndForward(d, m))
  <2>1. s \in fcmMgr.messages /\ s \in SeqIds
    BY <1>3, FoundType, DownIdsType
  <2>2. m \in Message /\ m.state = "NEW" /\ m.type # "DOWNSTREAM"
    <3>1. obj[s].src \in Sessions
      BY <2>1 DEF TypeOK, Table, Message
    <3>2. m \in Message
      BY <3>1, NewMessageType, DownIdsType DEF MessageType, Sessions
    <3>3. QED
      BY <3>2 DEF NewMessage
  <2>3. d \in Table /\ \A t \in SeqIds : d[t].type = db[t].type
    BY <2>1, UpdateType, UpdateRow DEF TypeOK, MessageState
  <2>4. fcmMgr'.messages \subseteq fcmMgr.messages
    BY <1>3 DEF removeAndSendNext, removeMessage
  <2> HIDE DEF s, d, m
  <2>5. QueueGrows
    BY <1>3, <2>2, <2>3, <2>4, SaveForwardGrows
  <2>6. SendsInOrder
    <3>1. RowStep
      BY FcmAckRows
    <3>2. \A t \in fcmMgr.messages : obj'[t] = obj[t]
      BY <1>3, SaveForwardFrame
    <3>3. QED
      BY <1>1, <1>3, <2>1, <3>1, <3>2, SendNextOrder
  <2>7. QED
    BY <1>1, <2>5, <2>6 DEF GroupStep, GroupInv
<1>4. QED
  BY <1>2, <1>3 DEF handleFcmAckMessage

LEMMA FcmNackOrder ==
    ASSUME TypeOK, ManagersSound, TableInv, GroupInv, NoRestart,
           NEW f \in DownIds, NEW retryable \in BOOLEAN,
           handleFcmNackMessage(f, retryable)
    PROVE  GroupStep
<1> DEFINE s == findMessageWithFcmMsgId(fcmMgr, f)
           d == updateMsgState(db, s, "DELIVERY_FAILED")
<1>1. loop' = loop /\ obj' = obj /\ fcmInbox[f] > 0
  BY EndsQuietly DEF handleFcmNackMessage
<1>2. CASE ignoreAnswer(f) /\ fcmTimers' = fcmTimers
  <2>1. UNCHANGED <<db, obj, fcmMgr>> /\ fcmInbox' = answered(f)
    BY <1>2 DEF ignoreAnswer, store
  <2>2. SendsInOrder
    BY <1>2, <2>1, AnsweredOnly, QuietSends
  <2>3. QED
    BY <1>1, <2>1, <2>2, QuietQueue DEF GroupStep, GroupInv
<1>3. ASSUME s # 0 PROVE s \in fcmMgr.messages /\ s \in SeqIds
  BY <1>3, FoundType, DownIdsType
<1>4. CASE s # 0 /\ startDownstreamRetry(s) /\ fcmInbox' = answered(f)
  <2>1. UNCHANGED <<db, fcmMgr>> /\ fcmTimers' = retryLater(fcmTimers, s)
    BY <1>4 DEF startDownstreamRetry, store
  <2>2. QueueGrows
    BY <1>1, <2>1, QuietQueue
  <2>3. obj[s].fcmId = f
    BY <1>3, <1>4, DownIdsType
       DEF ManagersSound, Sound, findMessageWithFcmMsgId, findSequenceId, SeqIds
  <2> HIDE DEF s
  <2>4. \A t \in SeqIds : t # s => fcmTimers'[t] = fcmTimers[t]
    BY <2>1 DEF retryLater, TypeOK
  <2>5. SendsInOrder
    BY <1>1, <1>3, <1>4, <2>3, <2>4, AnsweredOnly DEF SendsInOrder
  <2>6. QED
    BY <1>1, <2>2, <2>5 DEF GroupStep, GroupInv
<1>5. CASE /\ s # 0 /\ Room /\ removeAndSendNext(f, s) /\ notifyDownstreamUploadFailure(d, s)
           /\ fcmTimers' = fcmTimers
  <2>1. d \in Table /\ \A t \in SeqIds : d[t].type = db[t].type
    BY <1>3, <1>5, UpdateType, UpdateRow DEF TypeOK, MessageState
  <2>2. fcmMgr'.messages \subseteq fcmMgr.messages
    BY <1>5 DEF removeAndSendNext, removeMessage
  <2> HIDE DEF s, d
  <2>3. \A t \in SeqIds : t = sequenceId + 1 => db'[t].type # "DOWNSTREAM"
    <3>1. \A t \in SeqIds : db[t].type = "DOWNSTREAM" => t \in Rows(db)
      BY DEF GroupInv, RowsAgree, DownRow, Rows
    <3>2. QED
      BY <1>3, <1>5, <2>1, <3>1, RowIsOld, NotifyRows
  <2>4. QueueGrows
    BY <1>1, <2>2, <2>3 DEF QueueGrows
  <2>5. SendsInOrder
    <3>1. RowStep
      BY FcmNackRows
    <3>2. QED
      BY <1>1, <1>3, <1>5, <3>1, SendNextOrder
  <2>6. QED
    BY <1>1, <2>4, <2>5 DEF GroupStep, GroupInv
<1>6. ~ giveUpDownstream(s) /\ ~ giveUpDownstreamThrows(s)
  BY DEF giveUpDownstream, giveUpDownstreamThrows, MayGiveUp, NoRestart
<1>7. QED
  BY <1>2, <1>4, <1>5, <1>6 DEF handleFcmNackMessage

LEMMA BalAckOrder ==
    ASSUME TypeOK, TableInv, GroupInv, NEW s \in SeqIds, handleBalAckMsg(s)
    PROVE  GroupStep
<1>1. /\ UNCHANGED <<obj, fcmMgr, fcmInbox, fcmTimers, loop>>
      /\ db' = db \/ db' = updateMsgState(db, s, "DELIVERED")
  BY AckedIdIsOwn DEF handleBalAckMsg, fcmSide
<1>2. \A t \in SeqIds : db'[t].type = db[t].type
  BY <1>1, UpdateRow DEF TypeOK, MessageState
<1>3. \A t \in SeqIds : db[t].type = "DOWNSTREAM" => t \in Rows(db)
  BY DEF GroupInv, RowsAgree, DownRow, Rows
<1>4. QueueGrows
  BY <1>1, <1>2, <1>3, RowIsOld DEF QueueGrows
<1>5. QED
  BY <1>1, <1>4, QuietSends DEF GroupStep, GroupInv

\* An iteration of the loop over the queue for FCM uploads the first of a
\* group.  With the window open it starts no timer.
LEMMA ResendDownstreamOrder ==
    ASSUME TypeOK, TableInv, GroupInv, NoRestart, WindowOpen, NEW s \in SeqIds,
           resendAllPendingDownstreamMessages(s)
    PROVE  GroupStep
<1> DEFINE code == IF obj[s].type # "DOWNSTREAM" THEN 1
                   ELSE canSendMessageOnReconnect(fcmMgr, obj, s)
<1>1. code # 2
  BY MaxPendingAssumption DEF WindowOpen, canSendMessageOnReconnect, sendCode, TypeOK, Manager
<1>2. /\ UNCHANGED <<db, obj, fcmMgr, fcmTimers>>
      /\ fcmInbox' = IF code = 0 THEN uploadToFcm(fcmInbox, obj, {s}) ELSE fcmInbox
      /\ loop' = startLoop("down", loop.todo \ {s})
      /\ loop.kind = "down" /\ s \in loop.todo
  BY <1>1 DEF resendAllPendingDownstreamMessages, isNext, store
<1>3. s \in fcmMgr.messages
  BY <1>2 DEF TableInv, LoopQueued
<1>4. code = 0 => groupRule(fcmMgr, obj, s)
  BY DEF canSendMessageOnReconnect, sendCode
<1> HIDE DEF code
<1>5. QueueGrows
  BY <1>2, QuietQueue
<1>6. SendsInOrder
  <2>1. CASE code # 0
    BY <1>2, <2>1, QuietSends
  <2>2. CASE code = 0
    <3>1. MayGo(s) /\ db'[s].type = "DOWNSTREAM"
      BY <1>2, <1>3, <1>4, <2>2 DEF MayGo, GroupInv, RowsAgree
    <3>2. \A f \in DownIds : fcmInbox'[f] > 0 => fcmInbox[f] > 0 \/ obj[s].fcmId = f
      BY <1>2, <2>2, UploadedOnly
    <3>3. QED
      BY <1>2, <3>1, <3>2 DEF SendsInOrder
  <2>3. QED
    BY <2>1, <2>2
<1>7. loop'.kind # "terminated"
  BY <1>2 DEF startLoop, Nothing
<1>8. QED
  BY <1>5, <1>6, <1>7 DEF GroupStep

\* An iteration of the loop over the BAL's queue does not end the process: no
\* statement fails and no message is erased.
LEMMA ResendUpstreamOrder ==
    ASSUME TypeOK, TableInv, GroupInv, NoRestart, NEW s \in SeqIds,
           resendPendingUpstreamMessages(s)
    PROVE  GroupStep
<1> DEFINE code == IF obj[s].type \notin UpstreamTypes THEN 3
                   ELSE canSendMessageOnReconnect(balMgr, obj, s)
           first == code = 0 /\ obj[s].state # "PENDING_ACK"
           rest == loop.todo \ {s}
<1>1. /\ UNCHANGED <<obj, fcmMgr, fcmInbox, fcmTimers>>
      /\ loop.kind = "up" /\ s \in loop.todo
  BY DEF resendPendingUpstreamMessages, isNext, fcmSide
<1>2. s \in balMgr.messages
  BY <1>1 DEF TableInv, LoopQueued
<1>3. obj[s].state \in LiveStates
  BY <1>2 DEF TableInv, Queued, ObjectsLive
<1>4. code # 1
  BY <1>3 DEF canSendMessageOnReconnect, sendCode, LiveStates
<1>5. resent(balMgr, s, code).messages = balMgr.messages
  BY <1>4 DEF resent, incrementPendingAckCount, TypeOK, Manager
<1>6. "dbFail" \notin Faults /\ "uninit" \notin Faults
  BY DEF NoRestart
<1> HIDE DEF code
<1>7. /\ db' = db \/ db' = updateMsgState(db, s, "PENDING_ACK")
      /\ loop' = startLoop("up", rest)
  <2>1. CASE /\ db' = IF first THEN updateMsgState(db, s, "PENDING_ACK") ELSE db
             /\ balMgr' = resent(balMgr, s, code)
             /\ IF s \in balMgr.messages \ balMgr'.messages THEN afterErase("up", rest)
                ELSE loop' = startLoop("up", rest)
    BY <1>5, <2>1
  <2>2. CASE db' = db /\ loop' = startLoop("up", rest)
    BY <2>2
  <2>3. QED
    BY <1>6, <2>1, <2>2 DEF resendPendingUpstreamMessages, startUpstreamRetry, giveUpUpstream,
                            giveUpUpstreamThrows, MayGiveUp, code
<1>8. \A t \in SeqIds : db'[t].type = db[t].type
  BY <1>7, UpdateRow DEF TypeOK, MessageState
<1>9. \A t \in SeqIds : db[t].type = "DOWNSTREAM" => t \in Rows(db)
  BY DEF GroupInv, RowsAgree, DownRow, Rows
<1>10. QueueGrows
  BY <1>1, <1>8, <1>9, RowIsOld DEF QueueGrows
<1>11. loop'.kind # "terminated"
  BY <1>7 DEF startLoop, Nothing
<1>12. QED
  BY <1>1, <1>10, <1>11, QuietSends DEF GroupStep

LEMMA RetryTimeoutOrder ==
    ASSUME TypeOK, TableInv, GroupInv, NEW s \in SeqIds, downstreamRetryTimeout(s)
    PROVE  GroupStep
<1>1. /\ UNCHANGED <<db, obj, fcmMgr, loop>> /\ fcmTimers[s] > 0
      /\ fcmTimers' = [fcmTimers EXCEPT ![s] = @ - 1]
      /\ fcmInbox' = uploadToFcm(fcmInbox, obj, {s})
  BY DEF downstreamRetryTimeout, store
<1>2. db'[s].type = "DOWNSTREAM"
  BY <1>1 DEF GroupInv, OnlySaved
<1>3. \A f \in DownIds : fcmInbox'[f] > 0 => fcmInbox[f] > 0 \/ obj[s].fcmId = f
  BY <1>1, UploadedOnly
<1>4. \A t \in SeqIds : fcmTimers'[t] > 0 => fcmTimers[t] > 0
  BY <1>1 DEF TypeOK
<1>5. SendsInOrder
  BY <1>1, <1>2, <1>3, <1>4 DEF SendsInOrder
<1>6. QED
  BY <1>1, <1>5, QuietQueue DEF GroupStep, GroupInv

\* The handlers that touch no message.
LEMMA QuietOrder ==
    ASSUME TypeOK, TableInv, GroupInv,
           \/ handleBalLogonRequest \/ handleBALSocketDisconnected
           \/ handleFcmSessionEstablished \/ handleFcmConnectionLost
           \/ logonTimeout \/ UNCHANGED vars
           \/ \E s \in SeqIds : upstreamRetryTimeout(s)
    PROVE  GroupStep
<1>1. /\ UNCHANGED <<db, obj, fcmMgr, fcmTimers>>
      /\ fcmInbox' = fcmInbox \/ linkLost
      /\ \/ loop' = loop
         \/ \E queue : loop' = startLoop("down", queue) \/ loop' = startLoop("up", queue)
  BY DEF handleBalLogonRequest, handleBALSocketDisconnected, handleFcmSessionEstablished,
         handleFcmConnectionLost, logonTimeout, vars, upstreamRetryTimeout, store, fcmSide
<1>2. loop'.kind # "terminated"
  BY <1>1 DEF GroupInv, startLoop, Nothing
<1>3. SendsInOrder
  BY <1>1, QuietSends, LinkLostSends
<1>4. QED
  BY <1>1, <1>2, <1>3, QuietQueue DEF GroupStep

LEMMA DroppedOrder ==
    ASSUME TypeOK, TableInv, GroupInv, messageDropped
    PROVE  GroupStep
<1>1. UNCHANGED <<db, obj, fcmMgr, fcmTimers, loop>>
  BY DEF messageDropped, store
<1>2. fcmInbox' = fcmInbox \/ \E f \in DownIds : fcmInbox' = answered(f)
  BY DEF messageDropped
<1>3. SendsInOrder
  BY <1>1, <1>2, AnsweredOnly, QuietSends
<1>4. QED
  BY <1>1, <1>3, QuietQueue DEF GroupStep, GroupInv

LEMMA NextOrder ==
    ASSUME TypeOK, ManagersSound, TableInv, GroupInv, NoRestart, WindowOpen, [Next]_vars
    PROVE  GroupStep
<1>1. ~ start
  BY DEF start, GroupInv, NoRestart
<1>2. CASE BalNext
  BY <1>2, RequestOrder, BalAckOrder, QuietOrder DEF BalNext
<1>3. CASE FcmNext
  BY <1>3, UpstreamOrder, ReceiptOrder, FcmAckOrder, FcmNackOrder, DroppedOrder, QuietOrder
     DEF FcmNext
<1>4. CASE TimerNext
  BY <1>4, RetryTimeoutOrder, ResendDownstreamOrder, ResendUpstreamOrder, QuietOrder
     DEF TimerNext
<1>5. QED
  BY <1>1, <1>2, <1>3, <1>4, QuietOrder DEF Next

-----------------------------------------------------------------------------
(* The theorems.                                                           *)

LEMMA GroupInvStep ==
    ASSUME TypeOK, TypeOK', ManagersSound, ManagersSound', TableInv, TableInv',
           GroupInv, NoRestart, WindowOpen, [Next]_vars
    PROVE  GroupInv'
<1>1. GroupStep /\ RowStep
  BY NextOrder, NextRows
<1>2. RowsAgree' /\ OneId'
  BY <1>1, RowsAgreeStep DEF GroupStep
<1>3. OnlySaved'
  BY <1>1, <1>2, OnlySavedStep
<1>4. InOrder'
  BY <1>1, <1>2, InOrderStep
<1>5. QED
  BY <1>1, <1>2, <1>3, <1>4 DEF GroupInv, GroupStep

LEMMA GroupInvInit == Init => GroupInv
<1> SUFFICES ASSUME Init PROVE GroupInv
  OBVIOUS
<1>1. \A s \in SeqIds : db[s].type = "UNKNOWN" /\ fcmTimers[s] = 0
  BY DEF Init, EmptyTable, DefaultMessage
<1>2. \A f \in DownIds : fcmInbox[f] = 0
  BY DEF Init
<1>3. fcmMgr.messages = {} /\ loop.kind # "terminated"
  BY DEF Init, EmptyManager, Nothing
<1>4. QED
  BY <1>1, <1>2, <1>3 DEF GroupInv, RowsAgree, OneId, OnlySaved, InOrder, Before

LEMMA InOrderIsStrict == GroupInv => StrictGroupOrder
<1> SUFFICES ASSUME GroupInv, NEW s \in SeqIds, NEW t \in SeqIds, s < t,
                    db[s].type = "DOWNSTREAM", db[s].gid # NoGroup, db[s].gid = db[t].gid,
                    db[t].state \in LiveStates, OnWire(t)
             PROVE  db[s].state \notin LiveStates
  BY DEF StrictGroupOrder
<1>1. Sent(t) /\ Before(s, t)
  BY DEF Sent, OnWire, Before
<1>2. QED
  BY <1>1 DEF GroupInv, InOrder

\* As long as the window is open, a message goes out only after FCM has taken
\* or refused every earlier one of its group (Group::canSend, as it is used by
\* handleBalDownstreamUploadRequest, sendNextPendingDownstreamMessage and
\* resendAllPendingDownstreamMessages): over lost connections, refusals that
\* may be cured, and retry timers that fire late.
THEOREM GroupsInOrder ==
    ASSUME NoRestart
    PROVE  Spec /\ []WindowOpen => []StrictGroupOrder
<1>1. "uninit" \notin Faults
  BY DEF NoRestart
<1>2. /\ TypeOK /\ ManagersSound /\ TableInv /\ GroupInv /\ WindowOpen /\ [Next]_vars
      /\ TypeOK' /\ ManagersSound' /\ TableInv'
      => GroupInv'
  BY GroupInvStep
<1>3. Spec => []TableInv
  BY <1>1, TableInvariant
<1>4. QED
  BY <1>2, <1>3, GroupInvInit, InOrderIsStrict, TypeCorrect, IndexesAgree, PTL DEF Spec
=============================================================================
