--------------------------- MODULE MessageManager ---------------------------
(***************************************************************************)
(* MessageManager and Group (src/messagemanager.h, src/messagemanager.cpp) *)
(* as operators on a record.  The daemon has one manager for the messages  *)
(* that go to FCM and one per BAL session.  A manager keeps its queue and  *)
(* three redundant indexes: FCM id to sequence id, group id to the queue   *)
(* of that group, and the count of messages waiting for an ack.            *)
(*                                                                         *)
(* The messages themselves are shared objects; o maps a sequence id to     *)
(* its object.  A sequence id of 0 means "not found": where the code       *)
(* throws, the operator returns 0 and the caller decides.                  *)
(***************************************************************************)
EXTENDS Message

CONSTANT MAX_PENDING_MESSAGES

ASSUME MaxPendingAssumption == MAX_PENDING_MESSAGES \in Nat \ {0}

Manager ==
    [messages        : SUBSET SeqIds,
     sequenceIdMap   : [MsgIds -> SeqIds \cup {0}],
     groups          : [Groups -> SUBSET SeqIds],
     pendingAckCount : Nat]

EmptyManager ==
    [messages        |-> {},
     sequenceIdMap   |-> [f \in MsgIds |-> 0],
     groups          |-> [g \in Groups |-> {}],
     pendingAckCount |-> 0]

-----------------------------------------------------------------------------
\* A group whose queue is empty has been erased: {} means "no such group".
addToGroups(groups, o, s) ==
    IF o[s].gid = NoGroup
    THEN groups
    ELSE [groups EXCEPT ![o[s].gid] = @ \cup {s}]

removeFromGroups(groups, o, s) ==
    IF o[s].gid = NoGroup
    THEN groups
    ELSE [groups EXCEPT ![o[s].gid] = @ \ {s}]

\* std::map::emplace keeps the entry that is already there.
addMessage(mm, o, s) ==
    [messages        |-> mm.messages \cup {s},
     sequenceIdMap   |-> [mm.sequenceIdMap EXCEPT
                             ![o[s].fcmId] = IF @ = 0 THEN s ELSE @],
     groups          |-> addToGroups(mm.groups, o, s),
     pendingAckCount |-> mm.pendingAckCount]

incrementPendingAckCount(mm) ==
    [mm EXCEPT !.pendingAckCount = @ + 1]

\* Mutant: no test for zero.
decrementPendingAckCount_unguarded(n) == n - 1

decrementPendingAckCount(n) == IF n # 0 THEN n - 1 ELSE n

\* Mutant: the FCM id keeps its entry.
removeMessage_keepsId(mm, o, s) ==
    [mm EXCEPT !.messages = @ \ {s}, !.groups = removeFromGroups(@, o, s)]

\* Mutant: the slot of the message is not given back.
removeMessage_keepsSlot(mm, o, s) ==
    [mm EXCEPT !.messages = @ \ {s}, !.sequenceIdMap[o[s].fcmId] = 0,
               !.groups = removeFromGroups(@, o, s)]

\* The caller has found s in the queue.
removeMessage(mm, o, s) ==
    [messages        |-> mm.messages \ {s},
     sequenceIdMap   |-> [mm.sequenceIdMap EXCEPT ![o[s].fcmId] = 0],
     groups          |-> removeFromGroups(mm.groups, o, s),
     pendingAckCount |-> IF o[s].state = "PENDING_ACK"
                         THEN decrementPendingAckCount(mm.pendingAckCount)
                         ELSE mm.pendingAckCount]

findSequenceId(mm, f) == mm.sequenceIdMap[f]

findMessageWithFcmMsgId(mm, f) ==
    IF findSequenceId(mm, f) \in mm.messages THEN findSequenceId(mm, f) ELSE 0

-----------------------------------------------------------------------------
\* Mutant: any message of the group may go.
canSend_any(queue, s) == s \in queue

\* Group::canSend: s is the front of the queue of its group.
canSend(queue, s) == s \in queue /\ \A t \in queue : s <= t

groupRule(mm, o, s) ==
    o[s].gid = NoGroup \/ canSend(mm.groups[o[s].gid], s)

sendCode(mm, o, s, states) ==
    IF o[s].state \notin states THEN 1
    ELSE IF mm.pendingAckCount >= MAX_PENDING_MESSAGES THEN 2
    ELSE IF ~ groupRule(mm, o, s) THEN 3
    ELSE 0

\* 0 success, 1 bad state, 2 window full, 3 behind another of its group.
canSendMessage(mm, o, s) == sendCode(mm, o, s, {"NEW"})

canSendMessageOnReconnect(mm, o, s) == sendCode(mm, o, s, {"NEW", "PENDING_ACK"})

\* The first message of the queue that may be sent: a set of at most one.
getNext(mm, o) ==
    LET ready == {s \in mm.messages : canSendMessage(mm, o, s) = 0}
    IN  {s \in ready : \A t \in ready : s <= t}
=============================================================================
