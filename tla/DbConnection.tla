---------------------------- MODULE DbConnection ----------------------------
(***************************************************************************)
(* DbConnection (src/dbconnection.cpp): the table "messages" of the Sqlite *)
(* database, and what a manager is after it has been loaded from it.       *)
(*                                                                         *)
(* A table maps every sequence id to its row; a row in state UNKNOWN is    *)
(* one that was never inserted.  The statements may fail: saveMsg and      *)
(* updateMsgState then throw and leave the table alone, which is the       *)
(* caller's choice to model.                                               *)
(***************************************************************************)
EXTENDS MessageManager

Table == [SeqIds -> Message]

EmptyTable == [s \in SeqIds |-> DefaultMessage]

Rows(d) == {s \in SeqIds : d[s].state # "UNKNOWN"}

\* A row has no column for the retry counters of the object it stores.
saveMsg(d, s, m) == [d EXCEPT ![s] = [m EXCEPT !.ctor = "default"]]

updateMsgState(d, s, newState) ==
    [d EXCEPT ![s] = [@ EXCEPT !.state = newState]]

\* Mutant: the maximum of the rows that are not delivered yet.
initSequenceId_pendingRows(d, n) ==
    LET live == {s \in SeqIds : d[s].state \in LiveStates}
    IN  n \in live \cup {0} /\ \A s \in live : s <= n

\* SELECT MAX(sequence_id), 0 on an empty table: n is that number.
initSequenceId(d, n) ==
    /\ n \in Rows(d) \cup {0}
    /\ \A s \in Rows(d) : s <= n

\* The rows that loadPendingMessages selects for a manager.
Pending(d, session) ==
    {s \in SeqIds : d[s].state \in LiveStates /\ d[s].tgt = session}

\* The object the load callback builds of a row.  It reads the group id
\* (column 6) into a local variable and drops it.
Loaded(d) == [s \in SeqIds |-> [d[s] EXCEPT !.gid = NoGroup]]

\* The least sequence id of S, 0 when there is none.
First(S) ==
    LET least == {s \in S : \A t \in S : s <= t}
    IN  IF least = {} THEN 0 ELSE CHOOSE s \in least : TRUE

\* Mutant: only rows in state PENDING_ACK are selected.
loadPendingMessages_sentOnly(d, queue, index) ==
    LET sent == {s \in queue : d[s].state = "PENDING_ACK"}
    IN  [EmptyManager EXCEPT
            !.messages      = sent,
            !.sequenceIdMap = [f \in MsgIds |-> First({s \in sent : d[s].fcmId = f})]]

(***************************************************************************)
(* loadPendingMessages adds the rows it reads, queue, to an empty manager. *)
(* The query has no ORDER BY: Sqlite may walk the index on target_session, *)
(* in the order of the sequence ids, or the one on state, NEW rows first.  *)
(* Of several rows with one FCM id the first keeps the sequence id entry.  *)
(***************************************************************************)
loadPendingMessages(d, queue, index) ==
    LET same(f) == {s \in queue : d[s].fcmId = f}
        new(f)  == {s \in same(f) : d[s].state = "NEW"}
        lead(f) == IF index = "idx_state" /\ new(f) # {} THEN new(f) ELSE same(f)
    IN  [EmptyManager EXCEPT
            !.messages      = queue,
            !.sequenceIdMap = [f \in MsgIds |-> First(lead(f))]]
=============================================================================
