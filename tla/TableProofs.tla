---------------------------- MODULE TableProofs ----------------------------
(***************************************************************************)
(* The message table against the queues in memory: proofs that what is     *)
(* queued is what a restart would load, and that the table implements the  *)
(* abstract DeliveryLedger.  Both need that no message is given up because *)
(* of an uninitialised retry counter ("uninit"): giving up removes by FCM  *)
(* id and may take another message off the queue.                          *)
(***************************************************************************)
EXTENDS ApplicationProofs

-----------------------------------------------------------------------------
(* The inductive invariant.  fq and bq are the queues of the two managers, *)
(* n the last sequence id handed out.                                      *)

\* Every pending row is queued, but for the reports of failed uploads.
Complete(d, fq, bq) ==
    /\ Pending(d, FCM) \subseteq fq
    /\ \A s \in Pending(d, BalSession) \ bq : d[s].type = "DOWNSTREAM_REJECT"

Agree(d, fq, bq, n) ==
    /\ \A s \in Rows(d) : s <= n
    /\ fq \subseteq Pending(d, FCM)
    /\ bq \subseteq Pending(d, BalSession)
    /\ "loadFail" \notin Faults => Complete(d, fq, bq)
    /\ \A s \in Pending(d, FCM) : d[s].src # FCM

\* The objects of queued messages know their source and are not resolved.
ObjectsLive(o, d, fq, bq) ==
    \A s \in fq \cup bq : o[s].src = d[s].src /\ o[s].state \in LiveStates

Queued(d, o, fq, bq, n) == Agree(d, fq, bq, n) /\ ObjectsLive(o, d, fq, bq)

\* A resend loop only has queued messages left.
LoopQueued ==
    /\ loop.kind = "down" => loop.todo \subseteq fcmMgr.messages
    /\ loop.kind = "up" => loop.todo \subseteq balMgr.messages

TableInv ==
    /\ Queued(db, obj, fcmMgr.messages, balMgr.messages, sequenceId)
    /\ LoopQueued

\* What a step that starts with last sequence id n may do to the ledger: one
\* message is resolved, and one is accepted under the next id.
Accepts(d, e, n) ==
    \/ LedgerOf(e) = LedgerOf(d)
    \/ n + 1 \in SeqIds /\ LedgerOf(e) = [LedgerOf(d) EXCEPT ![n + 1] = "live"]

Resolves(d, e) ==
    \E s \in SeqIds, outcome \in {"delivered", "failed"} :
        /\ LedgerOf(d)[s] = "live"
        /\ LedgerOf(e) = [LedgerOf(d) EXCEPT ![s] = outcome]

Moves(d, e, n) ==
    \/ Accepts(d, e, n)
    \/ \E c \in Table : Resolves(d, c) /\ Accepts(c, e, n)

-----------------------------------------------------------------------------
(* Lemmas about inserting and updating one row.                            *)

\* Table e is table d with a new live row at a.
Inserted(e, d, a, row) ==
    /\ e \in Table
    /\ e[a] = row
    /\ \A s \in SeqIds \ {a} : e[s] = d[s]

LEMMA SessionsDiffer ==
    /\ BalSession # FCM /\ NoSession # FCM /\ Stranger # FCM
    /\ BalSession # NoSession /\ BalSession # Stranger
BY MessageAssumption DEF FCM, NoSession

LEMMA UpdateRow ==
    ASSUME NEW d \in Table, NEW s \in SeqIds, NEW st \in MessageState
    PROVE  \A t \in SeqIds :
              /\ updateMsgState(d, s, st)[t].type  = d[t].type
              /\ updateMsgState(d, s, st)[t].fcmId = d[t].fcmId
              /\ updateMsgState(d, s, st)[t].gid   = d[t].gid
              /\ updateMsgState(d, s, st)[t].src   = d[t].src
              /\ updateMsgState(d, s, st)[t].tgt   = d[t].tgt
              /\ updateMsgState(d, s, st)[t].state = IF t = s THEN st ELSE d[t].state
<1>1. \A t \in SeqIds : updateMsgState(d, s, st)[t]
                           = IF t = s THEN [d[s] EXCEPT !.state = st] ELSE d[t]
  BY DEF updateMsgState, Table
<1>2. d[s] \in Message
  BY DEF Table
<1>3. QED
  BY <1>1, <1>2 DEF Message

\* Saving a message inserts a row with its type, ids and sessions; marking the
\* row at once only changes its state.
LEMMA SaveInserts ==
    ASSUME NEW d \in Table, NEW a \in SeqIds, NEW m \in Message, m.state \in LiveStates,
           NEW q, \/ q = saveMsg(d, a, m)
                  \/ q = updateMsgState(saveMsg(d, a, m), a, "PENDING_ACK")
    PROVE  \E row \in Message :
              /\ Inserted(q, d, a, row)
              /\ row.type = m.type /\ row.fcmId = m.fcmId /\ row.gid = m.gid
              /\ row.src = m.src /\ row.tgt = m.tgt
              /\ row.state \in LiveStates
<1> DEFINE row == [m EXCEPT !.ctor = "default"]
           mark == [row EXCEPT !.state = "PENDING_ACK"]
           e == saveMsg(d, a, m)
           f == updateMsgState(e, a, "PENDING_ACK")
<1>1. /\ row \in Message /\ row.type = m.type /\ row.src = m.src /\ row.tgt = m.tgt
      /\ row.fcmId = m.fcmId /\ row.gid = m.gid /\ row.state = m.state
  BY DEF Message
<1>2. /\ mark \in Message /\ mark.type = m.type /\ mark.src = m.src /\ mark.tgt = m.tgt
      /\ mark.fcmId = m.fcmId /\ mark.gid = m.gid /\ mark.state = "PENDING_ACK"
  <2> HIDE DEF row
  <2>1. QED
    BY <1>1 DEF Message, MessageState
<1>3. Inserted(e, d, a, row)
  <2>1. e \in Table
    BY SaveType
  <2>2. e[a] = row /\ \A s \in SeqIds \ {a} : e[s] = d[s]
    BY DEF saveMsg, Table
  <2>3. QED
    BY <2>1, <2>2 DEF Inserted
<1>4. Inserted(f, d, a, mark)
  <2> HIDE DEF e, row
  <2>1. f \in Table
    BY <1>3, UpdateType DEF Inserted, MessageState
  <2>2. f[a] = mark /\ \A s \in SeqIds \ {a} : f[s] = d[s]
    BY <1>3 DEF Inserted, updateMsgState, Table
  <2>3. QED
    BY <2>1, <2>2 DEF Inserted
<1>5. QED
  <2> HIDE DEF e, f, row, mark
  <2>1. QED
    BY <1>1, <1>2, <1>3, <1>4 DEF e, f, LiveStates

LEMMA InsertPending ==
    ASSUME NEW d \in Table, NEW e, NEW a \in SeqIds, NEW row \in Message,
           Inserted(e, d, a, row), d[a].state = "UNKNOWN", row.state \in LiveStates
    PROVE  /\ \A x : Pending(e, x) = IF row.tgt = x THEN Pending(d, x) \cup {a}
                                     ELSE Pending(d, x)
           /\ Rows(e) = Rows(d) \cup {a}
           /\ \A x : a \notin Pending(d, x) /\ Pending(d, x) \subseteq SeqIds
<1>1. \A s \in SeqIds : e[s] = IF s = a THEN row ELSE d[s]
  BY DEF Inserted
<1>2. \A x : a \notin Pending(d, x) /\ Pending(d, x) \subseteq SeqIds
  BY DEF Pending, LiveStates
<1>3. \A x : Pending(e, x) = IF row.tgt = x THEN Pending(d, x) \cup {a} ELSE Pending(d, x)
  BY <1>1, <1>2 DEF Pending
<1>4. Rows(e) = Rows(d) \cup {a}
  BY <1>1 DEF Rows, LiveStates
<1>5. QED
  BY <1>2, <1>3, <1>4

-----------------------------------------------------------------------------
(* The invariant under the insertion, the resolution and the marking of a  *)
(* message.                                                                *)

\* The next sequence id has no row and is not queued.
LEMMA FreshRow ==
    ASSUME NEW d, NEW fq, NEW bq, NEW n \in Nat, Agree(d, fq, bq, n), n + 1 \in SeqIds
    PROVE  d[n + 1].state = "UNKNOWN" /\ n + 1 \notin fq \cup bq
<1>1. d[n + 1].state = "UNKNOWN"
  BY DEF Agree, Rows
<1>2. QED
  BY <1>1 DEF Agree, Pending, LiveStates

LEMMA SkipQueued ==
    ASSUME NEW d, NEW o, NEW fq, NEW bq, NEW n \in Nat, Queued(d, o, fq, bq, n)
    PROVE  Queued(d, o, fq, bq, n + 1)
<1>1. \A s \in Rows(d) : s \in Int /\ s <= n
  BY MessageAssumption DEF Queued, Agree, Rows, SeqIds
<1>2. \A s \in Rows(d) : s <= n + 1
  BY <1>1
<1>3. QED
  BY <1>2 DEF Queued, Agree

\* The queues q and the table around a new row: for FCM, for the BAL, or for
\* nobody's queue (another session's, or the report of a failure).
LEMMA InsertQueued ==
    ASSUME NEW d \in Table, NEW o, NEW fq, NEW bq, NEW n \in Nat,
           Queued(d, o, fq, bq, n), n + 1 \in SeqIds,
           NEW e, NEW row \in Message, Inserted(e, d, n + 1, row), row.state \in LiveStates,
           NEW p, \A s \in SeqIds \ {n + 1} : p[s] = o[s],
           NEW fr, NEW br,
           \/ /\ row.tgt = FCM /\ row.src # FCM
              /\ fr = fq \cup {n + 1} /\ br = bq
              /\ p[n + 1].src = row.src /\ p[n + 1].state \in LiveStates
           \/ /\ row.tgt = BalSession
              /\ fr = fq /\ br = bq \cup {n + 1}
              /\ p[n + 1].src = row.src /\ p[n + 1].state \in LiveStates
           \/ /\ row.tgt # FCM
              /\ row.tgt = BalSession => row.type = "DOWNSTREAM_REJECT"
              /\ fr = fq /\ br = bq
    PROVE  Queued(e, p, fr, br, n + 1)
<1> DEFINE a == n + 1
<1>1. d[a].state = "UNKNOWN" /\ a \in SeqIds /\ a \notin fq \cup bq
  BY FreshRow DEF Queued
<1>2. /\ \A x : Pending(e, x) = IF row.tgt = x THEN Pending(d, x) \cup {a} ELSE Pending(d, x)
      /\ Rows(e) = Rows(d) \cup {a}
      /\ \A x : a \notin Pending(d, x) /\ Pending(d, x) \subseteq SeqIds
  BY <1>1, InsertPending
<1>3. Queued(d, o, fq, bq, a)
  BY SkipQueued
<1>4. (\A s \in SeqIds : s # a => e[s] = d[s]) /\ e[a] = row
  BY DEF Inserted
<1>5. \A s \in SeqIds : s # a => p[s] = o[s]
  OBVIOUS
<1>6. a \in Int /\ a <= a
  BY MessageAssumption
<1> DEFINE forFcm   == /\ row.tgt = FCM /\ row.src # FCM
                       /\ fr = fq \cup {a} /\ br = bq
                       /\ p[a].src = row.src /\ p[a].state \in LiveStates
           forBal   == /\ row.tgt = BalSession
                       /\ fr = fq /\ br = bq \cup {a}
                       /\ p[a].src = row.src /\ p[a].state \in LiveStates
           forOther == /\ row.tgt # FCM
                       /\ row.tgt = BalSession => row.type = "DOWNSTREAM_REJECT"
                       /\ fr = fq /\ br = bq
<1>7. forFcm \/ forBal \/ forOther
  OBVIOUS
<1> HIDE DEF a
<1>8. \A s \in Rows(e) : s <= a
  BY <1>2, <1>3, <1>6 DEF Queued, Agree
<1>9. fq \subseteq Pending(d, FCM) /\ bq \subseteq Pending(d, BalSession)
  BY <1>3 DEF Queued, Agree
<1>10. fq \subseteq SeqIds /\ bq \subseteq SeqIds
  BY <1>2, <1>9
<1>11. fr \subseteq Pending(e, FCM) /\ br \subseteq Pending(e, BalSession)
  BY <1>2, <1>7, <1>9, SessionsDiffer
<1>12. \A s \in Pending(e, FCM) : e[s].src # FCM
  <2>1. \A s \in Pending(d, FCM) : d[s].src # FCM /\ e[s] = d[s]
    BY <1>2, <1>3, <1>4 DEF Queued, Agree
  <2>2. QED
    BY <1>2, <1>4, <1>7, <2>1, SessionsDiffer
<1>13. ASSUME "loadFail" \notin Faults PROVE Complete(e, fr, br)
  <2>1. Complete(d, fq, bq)
    BY <1>3, <1>13 DEF Queued, Agree
  <2>2. \A s \in Pending(d, BalSession) : e[s] = d[s]
    BY <1>2, <1>4
  <2>3. Pending(e, FCM) \subseteq fr
    BY <1>2, <1>7, <2>1, SessionsDiffer DEF Complete
  <2>4. \A s \in Pending(e, BalSession) \ br : e[s].type = "DOWNSTREAM_REJECT"
    BY <1>2, <1>4, <1>7, <2>1, <2>2, SessionsDiffer DEF Complete
  <2>5. QED
    BY <2>3, <2>4 DEF Complete
<1>14. ObjectsLive(p, e, fr, br)
  <2>1. \A s \in fq \cup bq : p[s] = o[s] /\ e[s] = d[s]
    BY <1>1, <1>4, <1>5, <1>10
  <2>2. \A s \in fq \cup bq : p[s].src = e[s].src /\ p[s].state \in LiveStates
    BY <1>3, <2>1 DEF Queued, ObjectsLive
  <2>3. QED
    BY <1>4, <1>7, <2>2 DEF ObjectsLive
<1>15. QED
  BY <1>8, <1>11, <1>12, <1>13, <1>14 DEF Queued, Agree, a

\* A queued message is resolved and leaves its queue.
LEMMA ResolveQueued ==
    ASSUME NEW d \in Table, NEW o, NEW fq, NEW bq, NEW n, Queued(d, o, fq, bq, n),
           NEW s \in fq \cup bq, NEW st \in {"DELIVERED", "DELIVERY_FAILED"}
    PROVE  /\ Queued(updateMsgState(d, s, st), o, fq \ {s}, bq \ {s}, n)
           /\ fq \ {s} = fq \/ bq \ {s} = bq
<1> DEFINE e == updateMsgState(d, s, st)
<1>1. s \in SeqIds /\ d[s].state \in LiveStates
  BY DEF Queued, Agree, Pending
<1>2. \A t \in SeqIds : /\ e[t].type = d[t].type /\ e[t].src = d[t].src /\ e[t].tgt = d[t].tgt
                        /\ e[t].state = IF t = s THEN st ELSE d[t].state
  BY <1>1, UpdateRow DEF MessageState
<1> HIDE DEF e
<1>3. \A x : Pending(e, x) = Pending(d, x) \ {s}
  BY <1>2 DEF Pending, LiveStates
<1>4. Rows(e) \subseteq Rows(d)
  BY <1>1, <1>2 DEF Rows, LiveStates
<1>5. \A x : Pending(d, x) \subseteq SeqIds
  BY DEF Pending
<1>6. Agree(e, fq \ {s}, bq \ {s}, n)
  BY <1>2, <1>3, <1>4, <1>5 DEF Queued, Agree, Complete
<1>7. ObjectsLive(o, e, fq \ {s}, bq \ {s})
  <2>1. fq \subseteq SeqIds /\ bq \subseteq SeqIds
    BY <1>5 DEF Queued, Agree
  <2>2. QED
    BY <1>2, <2>1 DEF Queued, ObjectsLive
<1>8. s \notin fq \/ s \notin bq
  BY SessionsDiffer DEF Queued, Agree, Pending
<1>9. QED
  BY <1>6, <1>7, <1>8 DEF e, Queued

\* A queued message is marked as pending.
LEMMA MarkQueued ==
    ASSUME NEW d \in Table, NEW o, NEW fq, NEW bq, NEW n, Queued(d, o, fq, bq, n),
           NEW s \in fq \cup bq
    PROVE  Queued(updateMsgState(d, s, "PENDING_ACK"), o, fq, bq, n)
<1> DEFINE e == updateMsgState(d, s, "PENDING_ACK")
<1>1. s \in SeqIds /\ d[s].state \in LiveStates
  BY DEF Queued, Agree, Pending
<1>2. \A t \in SeqIds : /\ e[t].type = d[t].type /\ e[t].src = d[t].src /\ e[t].tgt = d[t].tgt
                        /\ e[t].state = IF t = s THEN "PENDING_ACK" ELSE d[t].state
  BY <1>1, UpdateRow DEF MessageState
<1> HIDE DEF e
<1>3. \A x : Pending(e, x) = Pending(d, x)
  BY <1>1, <1>2 DEF Pending, LiveStates
<1>4. Rows(e) \subseteq Rows(d)
  BY <1>1, <1>2 DEF Rows, LiveStates
<1>5. \A x : Pending(d, x) \subseteq SeqIds
  BY DEF Pending
<1>6. Agree(e, fq, bq, n)
  BY <1>2, <1>3, <1>4, <1>5 DEF Queued, Agree, Complete
<1>7. ObjectsLive(o, e, fq, bq)
  <2>1. fq \subseteq SeqIds /\ bq \subseteq SeqIds
    BY <1>5 DEF Queued, Agree
  <2>2. QED
    BY <1>2, <2>1 DEF Queued, ObjectsLive
<1>8. QED
  BY <1>6, <1>7 DEF e, Queued

-----------------------------------------------------------------------------
(* The ledger under the same three operations.                             *)

LEMMA InsertLedger ==
    ASSUME NEW d \in Table, NEW n, n + 1 \in SeqIds, NEW e, NEW row \in Message,
           Inserted(e, d, n + 1, row), row.state \in LiveStates
    PROVE  Accepts(d, e, n)
<1> DEFINE a == n + 1
<1>1. a \in SeqIds /\ e[a] = row /\ \A s \in SeqIds : s # a => e[s] = d[s]
  BY DEF Inserted
<1> HIDE DEF a
<1>2. \A s \in SeqIds : LedgerOf(e)[s] = IF s = a THEN "live" ELSE LedgerOf(d)[s]
  BY <1>1 DEF LedgerOf, LiveStates
<1>3. LedgerOf(e) = [LedgerOf(d) EXCEPT ![a] = "live"]
  BY <1>1, <1>2 DEF LedgerOf
<1>4. QED
  BY <1>1, <1>3 DEF Accepts, a

LEMMA ResolveLedger ==
    ASSUME NEW d \in Table, NEW s \in SeqIds, d[s].state \in LiveStates,
           NEW st \in {"DELIVERED", "DELIVERY_FAILED"}
    PROVE  Resolves(d, updateMsgState(d, s, st))
<1> DEFINE e   == updateMsgState(d, s, st)
           out == IF st = "DELIVERED" THEN "delivered" ELSE "failed"
<1>1. \A t \in SeqIds : e[t].state = IF t = s THEN st ELSE d[t].state
  BY UpdateRow DEF MessageState
<1> HIDE DEF e
<1>2. \A t \in SeqIds : LedgerOf(e)[t] = IF t = s THEN out ELSE LedgerOf(d)[t]
  BY <1>1 DEF LedgerOf, LiveStates
<1>3. LedgerOf(e) = [LedgerOf(d) EXCEPT ![s] = out]
  BY <1>2 DEF LedgerOf
<1>4. LedgerOf(d)[s] = "live"
  BY DEF LedgerOf, LiveStates
<1>5. QED
  BY <1>3, <1>4 DEF Resolves, e

LEMMA MarkLedger ==
    ASSUME NEW d \in Table, NEW s \in SeqIds, d[s].state \in LiveStates
    PROVE  LedgerOf(updateMsgState(d, s, "PENDING_ACK")) = LedgerOf(d)
<1> DEFINE e == updateMsgState(d, s, "PENDING_ACK")
<1>1. \A t \in SeqIds : e[t].state = IF t = s THEN "PENDING_ACK" ELSE d[t].state
  BY UpdateRow DEF MessageState
<1> HIDE DEF e
<1>2. \A t \in SeqIds : LedgerOf(e)[t] = LedgerOf(d)[t]
  BY <1>1 DEF LedgerOf, LiveStates
<1>3. LedgerOf(e) = LedgerOf(d)
  BY <1>2 DEF LedgerOf
<1>4. QED
  BY <1>3 DEF e

\* Such a move is a step of the abstract ledger, or none: the id a message is
\* accepted under is fresh.
LEMMA MovesImplement ==
    ASSUME TypeOK, NEW fq, NEW bq, Agree(db, fq, bq, sequenceId),
           Moves(db, db', sequenceId)
    PROVE  [Ledger!Next]_(LedgerOf(db))
<1> DEFINE a == sequenceId + 1
<1>1. sequenceId \in Nat
  BY SequenceIdNat
<1>2. \A s \in SeqIds : LedgerOf(db)[s] # "none" => s < a
  <2>1. \A s \in SeqIds : LedgerOf(db)[s] # "none" => s \in Rows(db)
    BY DEF LedgerOf, Rows
  <2>2. \A s \in SeqIds : s <= sequenceId => s < a
    BY <1>1, MessageAssumption DEF SeqIds
  <2>3. QED
    BY <2>1, <2>2 DEF Agree
<1>3. CASE LedgerOf(db') = LedgerOf(db)
  BY <1>3
<1>4. CASE a \in SeqIds /\ LedgerOf(db') = [LedgerOf(db) EXCEPT ![a] = "live"]
  <2> HIDE DEF a
  <2>1. Ledger!Accept(a)
    BY <1>2, <1>4 DEF Ledger!Accept, Ledger!Fresh
  <2>2. QED
    BY <1>4, <2>1 DEF Ledger!Next
<1>5. ASSUME NEW s \in SeqIds, NEW out \in {"delivered", "failed"},
             LedgerOf(db)[s] = "live", LedgerOf(db') = [LedgerOf(db) EXCEPT ![s] = out]
      PROVE  [Ledger!Next]_(LedgerOf(db))
  BY <1>5 DEF Ledger!Next, Ledger!Resolve, Ledger!Outcomes
<1>6. ASSUME NEW s \in SeqIds, NEW out \in {"delivered", "failed"},
             LedgerOf(db)[s] = "live", a \in SeqIds,
             LedgerOf(db') = [[LedgerOf(db) EXCEPT ![s] = out] EXCEPT ![a] = "live"]
      PROVE  [Ledger!Next]_(LedgerOf(db))
  <2> HIDE DEF a
  <2>1. Ledger!ResolveAndReport(s, out, a)
    BY <1>2, <1>6 DEF Ledger!ResolveAndReport, Ledger!Fresh
  <2>2. QED
    BY <1>6, <2>1 DEF Ledger!Next, Ledger!Outcomes
<1>7. QED
  <2> HIDE DEF a
  <2>1. CASE Accepts(db, db', sequenceId)
    BY <1>3, <1>4, <2>1 DEF Accepts, a
  <2>2. ASSUME NEW c \in Table, Resolves(db, c), Accepts(c, db', sequenceId)
        PROVE  [Ledger!Next]_(LedgerOf(db))
    BY <1>5, <1>6, <2>2 DEF Resolves, Accepts, a
  <2>3. QED
    BY <2>1, <2>2 DEF Moves

-----------------------------------------------------------------------------
(* The parts of the handlers.                                              *)

\* Saving a message for the BAL, from table d in which another message may
\* just have been resolved.
LEMMA SaveForwardTable ==
    ASSUME TypeOK, Room, NEW d \in Table, NEW m \in Message, NEW fq,
           Queued(d, obj, fq, balMgr.messages, sequenceId),
           m.state = "NEW", m.tgt # FCM,
           saveFails(d) \/ saveAndForward(d, m)
    PROVE  /\ Queued(db', obj', fq, balMgr'.messages, sequenceId')
           /\ Accepts(d, db', sequenceId)
<1> DEFINE n == sequenceId
           bq == balMgr.messages
           o == [obj EXCEPT ![n + 1] = m]
           p == [obj EXCEPT ![n + 1] = [m EXCEPT !.state = "PENDING_ACK"]]
           mm == addMessage(balMgr, o, n + 1)
<1>1. n \in Nat /\ n + 1 \in SeqIds
  BY NextIdType, SequenceIdNat
<1>2. CASE saveFails(d)
  <2>1. db' = d /\ obj' = obj /\ balMgr' = balMgr /\ sequenceId' = n + 1
    BY <1>2 DEF saveFails
  <2>2. QED
    BY <1>1, <2>1, SkipQueued DEF Accepts
<1>3. CASE saveAndForward(d, m)
  <2>1. /\ \A s \in SeqIds \ {n + 1} : o[s] = obj[s] /\ p[s] = obj[s]
        /\ o[n + 1] = m /\ p[n + 1].src = m.src /\ p[n + 1].state = "PENDING_ACK"
    BY <1>1 DEF TypeOK, Table, Message
  <2>2. /\ mm.messages = bq \cup {n + 1}
        /\ incrementPendingAckCount(mm).messages = bq \cup {n + 1}
    BY DEF addMessage, incrementPendingAckCount
  <2> HIDE DEF o, p, mm, bq
  <2>3. /\ sequenceId' = n + 1
        /\ \/ /\ m.tgt # BalSession
              /\ db' = saveMsg(d, n + 1, m) /\ obj' = obj /\ balMgr' = balMgr
           \/ /\ m.tgt = BalSession
              /\ db' = saveMsg(d, n + 1, m) /\ obj' = o /\ balMgr' = mm
           \/ /\ m.tgt = BalSession
              /\ db' = updateMsgState(saveMsg(d, n + 1, m), n + 1, "PENDING_ACK")
              /\ obj' = p /\ balMgr' = incrementPendingAckCount(mm)
    BY <1>3 DEF saveAndForward, o, p, mm
  <2>4. PICK row \in Message :
           /\ Inserted(db', d, n + 1, row)
           /\ row.src = m.src /\ row.tgt = m.tgt /\ row.state \in LiveStates
    <3>1. \/ db' = saveMsg(d, n + 1, m)
          \/ db' = updateMsgState(saveMsg(d, n + 1, m), n + 1, "PENDING_ACK")
      BY <2>3
    <3>2. m.state \in LiveStates
      BY DEF LiveStates
    <3>3. QED
      BY <1>1, <3>1, <3>2, SaveInserts
  <2>5. Accepts(d, db', n)
    BY <1>1, <2>4, InsertLedger
  <2>6. CASE m.tgt # BalSession
    <3>1. obj' = obj /\ balMgr'.messages = bq
      BY <2>3, <2>6 DEF bq
    <3>2. Queued(db', obj', fq, balMgr'.messages, n + 1)
      BY <1>1, <2>4, <2>6, <3>1, InsertQueued DEF bq
    <3>3. QED
      BY <2>3, <2>5, <3>2
  <2>7. CASE m.tgt = BalSession
    <3>1. /\ balMgr'.messages = bq \cup {n + 1}
          /\ \A s \in SeqIds \ {n + 1} : obj'[s] = obj[s]
          /\ obj'[n + 1].src = m.src /\ obj'[n + 1].state \in LiveStates
      BY <2>1, <2>2, <2>3, <2>7 DEF LiveStates
    <3>2. Queued(db', obj', fq, balMgr'.messages, n + 1)
      BY <1>1, <2>4, <2>7, <3>1, InsertQueued DEF bq
    <3>3. QED
      BY <2>3, <2>5, <3>2
  <2>8. QED
    BY <2>6, <2>7
<1>4. QED
  BY <1>2, <1>3

LEMMA NotifyTable ==
    ASSUME TypeOK, Room, NEW d \in Table, NEW s \in SeqIds, obj[s].src # FCM,
           NEW fq, NEW bq, Queued(d, obj, fq, bq, sequenceId),
           notifyDownstreamUploadFailure(d, s)
    PROVE  /\ Queued(db', obj, fq, bq, sequenceId')
           /\ Accepts(d, db', sequenceId)
<1> DEFINE n == sequenceId
           report == [DefaultMessage EXCEPT
                         !.type = "DOWNSTREAM_REJECT", !.fcmId = obj[s].fcmId,
                         !.tgt = obj[s].src, !.state = "PENDING_ACK"]
<1>1. n \in Nat /\ n + 1 \in SeqIds
  BY NextIdType, SequenceIdNat
<1>2. /\ report \in Message /\ report.tgt = obj[s].src
      /\ report.type = "DOWNSTREAM_REJECT" /\ report.state = "PENDING_ACK"
  BY DEF TypeOK, Table, Message, DefaultMessage, MessageType, MessageState, Sessions
<1>3. /\ sequenceId' = n + 1
      /\ db' = saveMsg(d, n + 1, report) \/ db' = d
  BY DEF notifyDownstreamUploadFailure
<1> HIDE DEF report
<1>4. CASE db' = d
  BY <1>1, <1>3, <1>4, SkipQueued DEF Accepts
<1>5. CASE db' = saveMsg(d, n + 1, report)
  <2>1. PICK row \in Message :
           /\ Inserted(db', d, n + 1, row)
           /\ row.type = report.type /\ row.tgt = report.tgt /\ row.state \in LiveStates
    <3>1. report.state \in LiveStates
      BY <1>2 DEF LiveStates
    <3>2. QED
      BY <1>1, <1>2, <1>5, <3>1, SaveInserts
  <2>2. Accepts(d, db', n)
    BY <1>1, <2>1, InsertLedger
  <2>3. Queued(db', obj, fq, bq, n + 1)
    BY <1>1, <1>2, <2>1, InsertQueued
  <2>4. QED
    BY <1>3, <2>2, <2>3
<1>6. QED
  BY <1>3, <1>4, <1>5

\* What every step has to show; the resend loops are separate.
TableStep ==
    /\ Queued(db', obj', fcmMgr'.messages, balMgr'.messages, sequenceId')
    /\ Moves(db, db', sequenceId)

LEMMA StillTable ==
    ASSUME TableInv, UNCHANGED <<store, obj, fcmMgr, balMgr>>
    PROVE  TableStep
BY DEF TableStep, TableInv, store, Moves, Accepts

LEMMA RequestTable ==
    ASSUME TypeOK, TableInv, NEW f \in DownIds, NEW g \in Groups \cup {NoGroup},
           NEW src \in {BalSession, NoSession},
           handleBalDownstreamUploadRequest(f, g, src)
    PROVE  TableStep
<1> DEFINE n == sequenceId
           fq == fcmMgr.messages
           m == NewMessage("DOWNSTREAM", f, g, src, FCM)
           o == [obj EXCEPT ![n + 1] = m]
           p == [obj EXCEPT ![n + 1] = [m EXCEPT !.state = "PENDING_ACK"]]
           mm == addMessage(fcmMgr, o, n + 1)
<1>1. n \in Nat /\ n + 1 \in SeqIds
  BY NextIdType, SequenceIdNat DEF handleBalDownstreamUploadRequest
<1>2. /\ m \in Message /\ m.state = "NEW" /\ m.src = src /\ m.tgt = FCM
  <2>1. m \in Message
    BY NewMessageType, DownIdsType DEF MessageType, Sessions
  <2>2. QED
    BY <2>1 DEF NewMessage
<1> HIDE DEF m
<1>3. /\ \A s \in SeqIds \ {n + 1} : o[s] = obj[s] /\ p[s] = obj[s]
      /\ o[n + 1] = m /\ p[n + 1].src = m.src /\ p[n + 1].state = "PENDING_ACK"
  BY <1>1, <1>2 DEF TypeOK, Table, Message
<1>4. /\ mm.messages = fq \cup {n + 1}
      /\ incrementPendingAckCount(mm).messages = fq \cup {n + 1}
  BY DEF addMessage, incrementPendingAckCount
<1> HIDE DEF o, p, mm, fq
<1>5. /\ sequenceId' = n + 1 /\ balMgr' = balMgr
      /\ \/ UNCHANGED <<db, obj, fcmMgr>>
         \/ db' = saveMsg(db, n + 1, m) /\ obj' = o /\ fcmMgr' = mm
         \/ /\ db' = updateMsgState(saveMsg(db, n + 1, m), n + 1, "PENDING_ACK")
            /\ obj' = p /\ fcmMgr' = incrementPendingAckCount(mm)
  BY DEF handleBalDownstreamUploadRequest, m, o, p, mm
<1>6. db \in Table /\ Queued(db, obj, fq, balMgr.messages, n)
  BY DEF TypeOK, TableInv, fq
<1>7. CASE UNCHANGED <<db, obj, fcmMgr>>
  BY <1>1, <1>5, <1>6, <1>7, SkipQueued DEF TableStep, Moves, Accepts, fq
<1>8. CASE ~ UNCHANGED <<db, obj, fcmMgr>>
  <2>1. PICK row \in Message :
           /\ Inserted(db', db, n + 1, row)
           /\ row.src = m.src /\ row.tgt = m.tgt /\ row.state \in LiveStates
    <3>1. \/ db' = saveMsg(db, n + 1, m)
          \/ db' = updateMsgState(saveMsg(db, n + 1, m), n + 1, "PENDING_ACK")
      BY <1>5, <1>8
    <3>2. m.state \in LiveStates
      BY <1>2 DEF LiveStates
    <3>3. QED
      BY <1>1, <1>2, <1>6, <3>1, <3>2, SaveInserts
  <2>2. Accepts(db, db', n)
    BY <1>1, <1>6, <2>1, InsertLedger
  <2>3. /\ fcmMgr'.messages = fq \cup {n + 1}
        /\ \A s \in SeqIds \ {n + 1} : obj'[s] = obj[s]
        /\ obj'[n + 1].src = m.src /\ obj'[n + 1].state \in LiveStates
    BY <1>2, <1>3, <1>4, <1>5, <1>8 DEF LiveStates
  <2>4. row.src # FCM
    BY <1>2, <2>1, SessionsDiffer
  <2>5. Queued(db', obj', fcmMgr'.messages, balMgr.messages, n + 1)
    BY <1>1, <1>2, <1>6, <2>1, <2>3, <2>4, InsertQueued
  <2>6. QED
    BY <1>5, <2>2, <2>5 DEF TableStep, Moves
<1>9. QED
  BY <1>7, <1>8

\* A queued message is resolved, and what follows only adds rows.
LEMMA ResolveTable ==
    ASSUME TypeOK, TableInv, NEW s \in fcmMgr.messages \cup balMgr.messages,
           NEW st \in {"DELIVERED", "DELIVERY_FAILED"}
    PROVE  /\ s \in SeqIds
           /\ updateMsgState(db, s, st) \in Table
           /\ Resolves(db, updateMsgState(db, s, st))
           /\ s \in fcmMgr.messages =>
                 /\ Queued(updateMsgState(db, s, st), obj, fcmMgr.messages \ {s},
                           balMgr.messages, sequenceId)
                 /\ obj[s].src # FCM
           /\ s \in balMgr.messages =>
                 Queued(updateMsgState(db, s, st), obj, fcmMgr.messages,
                        balMgr.messages \ {s}, sequenceId)
<1> DEFINE fq == fcmMgr.messages
           bq == balMgr.messages
<1>1. db \in Table /\ Queued(db, obj, fq, bq, sequenceId)
  BY DEF TypeOK, TableInv
<1> HIDE DEF fq, bq
<1>2. s \in SeqIds /\ db[s].state \in LiveStates
  BY <1>1 DEF Queued, Agree, Pending, fq, bq
<1>3. updateMsgState(db, s, st) \in Table
  BY <1>1, UpdateType DEF MessageState
<1>4. Resolves(db, updateMsgState(db, s, st))
  BY <1>1, <1>2, ResolveLedger
<1>5. s \in fq => obj[s].src # FCM
  BY <1>1 DEF Queued, Agree, ObjectsLive
<1>6. /\ Queued(updateMsgState(db, s, st), obj, fq \ {s}, bq \ {s}, sequenceId)
      /\ fq \ {s} = fq \/ bq \ {s} = bq
  <2>1. s \in fq \cup bq
    BY DEF fq, bq
  <2>2. QED
    BY <1>1, <2>1, ResolveQueued
<1>7. /\ s \in fq => Queued(updateMsgState(db, s, st), obj, fq \ {s}, bq, sequenceId)
      /\ s \in bq => Queued(updateMsgState(db, s, st), obj, fq, bq \ {s}, sequenceId)
  BY <1>6
<1>8. QED
  BY <1>2, <1>3, <1>4, <1>5, <1>7 DEF fq, bq

LEMMA BalAckTable ==
    ASSUME TypeOK, TableInv, NEW s \in SeqIds, handleBalAckMsg(s)
    PROVE  TableStep
<1>1. UNCHANGED <<sequenceId, obj, fcmMgr>>
  BY DEF handleBalAckMsg
<1>2. CASE UNCHANGED <<db, balMgr>>
  BY <1>1, <1>2, StillTable DEF store
<1>3. CASE /\ s \in balMgr.messages
           /\ db' = updateMsgState(db, s, "DELIVERED")
           /\ balMgr' = removeMessage(balMgr, obj, s)
  <2>1. balMgr'.messages = balMgr.messages \ {s}
    BY <1>3 DEF removeMessage
  <2>2. /\ Queued(db', obj, fcmMgr.messages, balMgr'.messages, sequenceId)
        /\ db' \in Table /\ Resolves(db, db')
    BY <1>3, <2>1, ResolveTable
  <2>3. QED
    BY <1>1, <2>2 DEF TableStep, Moves, Accepts
<1>4. QED
  BY <1>2, <1>3, AckedIdIsOwn DEF handleBalAckMsg

LEMMA FcmAckTable ==
    ASSUME TypeOK, TableInv, NEW f \in DownIds, handleFcmAckMessage(f)
    PROVE  TableStep
<1> DEFINE s == findMessageWithFcmMsgId(fcmMgr, f)
           d == updateMsgState(db, s, "DELIVERED")
           m == NewMessage("DOWNSTREAM_ACK", f, NoGroup, FCM, obj[s].src)
<1>1. CASE ignoreAnswer(f)
  BY <1>1, StillTable DEF ignoreAnswer
<1>2. CASE s # 0 /\ Room /\ removeAndSendNext(f, s) /\ (saveFails(d) \/ saveAndForward(d, m))
  <2>1. s \in fcmMgr.messages
    BY <1>2 DEF findMessageWithFcmMsgId
  <2>2. /\ s \in SeqIds /\ d \in Table /\ Resolves(db, d) /\ obj[s].src # FCM
        /\ Queued(d, obj, fcmMgr.messages \ {s}, balMgr.messages, sequenceId)
    <3> HIDE DEF s
    <3>1. QED
      BY <2>1, ResolveTable
  <2>3. m \in Message /\ m.state = "NEW" /\ m.tgt # FCM
    <3>1. obj[s].src \in Sessions
      BY <2>2 DEF TypeOK, Table, Message
    <3>2. m \in Message
      BY <3>1, NewMessageType, DownIdsType DEF MessageType, Sessions
    <3>3. QED
      BY <2>2, <3>2 DEF NewMessage
  <2>4. fcmMgr'.messages = fcmMgr.messages \ {s}
    BY <1>2 DEF removeAndSendNext, removeMessage
  <2> HIDE DEF s, d, m
  <2>5. /\ Queued(db', obj', fcmMgr'.messages, balMgr'.messages, sequenceId')
        /\ Accepts(d, db', sequenceId)
    BY <1>2, <2>2, <2>3, <2>4, SaveForwardTable
  <2>6. QED
    BY <2>2, <2>5 DEF TableStep, Moves
<1>3. QED
  BY <1>1, <1>2 DEF handleFcmAckMessage

LEMMA FcmNackTable ==
    ASSUME TypeOK, TableInv, "uninit" \notin Faults,
           NEW f \in DownIds, NEW retryable \in BOOLEAN,
           handleFcmNackMessage(f, retryable)
    PROVE  TableStep
<1> DEFINE s == findMessageWithFcmMsgId(fcmMgr, f)
           d == updateMsgState(db, s, "DELIVERY_FAILED")
<1>1. UNCHANGED <<obj, balMgr>>
  BY DEF handleFcmNackMessage
<1>2. CASE ignoreAnswer(f)
  BY <1>2, StillTable DEF ignoreAnswer
<1>3. CASE startDownstreamRetry(s) \/ giveUpDownstream(s) \/ giveUpDownstreamThrows(s)
  <2>1. UNCHANGED <<store, fcmMgr>>
    BY <1>3 DEF startDownstreamRetry, giveUpDownstream, giveUpDownstreamThrows, MayGiveUp
  <2>2. QED
    BY <1>1, <2>1, StillTable
<1>4. CASE s # 0 /\ Room /\ removeAndSendNext(f, s) /\ notifyDownstreamUploadFailure(d, s)
  <2>1. s \in fcmMgr.messages
    BY <1>4 DEF findMessageWithFcmMsgId
  <2>2. /\ s \in SeqIds /\ d \in Table /\ Resolves(db, d) /\ obj[s].src # FCM
        /\ Queued(d, obj, fcmMgr.messages \ {s}, balMgr.messages, sequenceId)
    <3> HIDE DEF s
    <3>1. QED
      BY <2>1, ResolveTable
  <2>3. fcmMgr'.messages = fcmMgr.messages \ {s}
    BY <1>4 DEF removeAndSendNext, removeMessage
  <2> HIDE DEF s, d
  <2>4. /\ Queued(db', obj, fcmMgr'.messages, balMgr.messages, sequenceId')
        /\ Accepts(d, db', sequenceId)
    BY <1>4, <2>2, <2>3, NotifyTable
  <2>5. QED
    BY <1>1, <2>2, <2>4 DEF TableStep, Moves
<1>5. QED
  BY <1>2, <1>3, <1>4 DEF handleFcmNackMessage

LEMMA CategoryNotFcm == \A u : category(u) # FCM
BY SessionsDiffer DEF category

LEMMA UpstreamTable ==
    ASSUME TypeOK, TableInv, NEW u \in UpIds, handleFcmNewUpstreamMessage(u)
    PROVE  TableStep
<1> DEFINE m == NewMessage("UPSTREAM", u, NoGroup, FCM, category(u))
<1>1. m \in Message /\ m.state = "NEW" /\ m.tgt # FCM
  <2>1. m \in Message
    BY NewMessageType, DownIdsType, CategoryType DEF MessageType, Sessions
  <2>2. QED
    BY <2>1, CategoryNotFcm DEF NewMessage
<1>2. Room /\ (saveFails(db) \/ saveAndForward(db, m)) /\ UNCHANGED fcmMgr
  BY DEF handleFcmNewUpstreamMessage
<1> HIDE DEF m
<1>3. db \in Table /\ Queued(db, obj, fcmMgr.messages, balMgr.messages, sequenceId)
  BY DEF TypeOK, TableInv
<1>4. /\ Queued(db', obj', fcmMgr.messages, balMgr'.messages, sequenceId')
      /\ Accepts(db, db', sequenceId)
  BY <1>1, <1>2, <1>3, SaveForwardTable
<1>5. QED
  BY <1>2, <1>4 DEF TableStep, Moves

LEMMA ReceiptTable ==
    ASSUME TypeOK, TableInv, NEW r \in RcptIds, handleFcmReceiptMessage(r)
    PROVE  TableStep
<1> DEFINE m == [DefaultMessage EXCEPT
                    !.type = "DOWNSTREAM_RECEIPT", !.fcmId = r,
                    !.src = FCM, !.tgt = category(r), !.state = "NEW"]
<1>1. m \in Message /\ m.state = "NEW" /\ m.tgt # FCM
  <2>1. m \in Message
    BY CategoryType, DownIdsType
       DEF Message, DefaultMessage, MessageType, MessageState, Sessions
  <2>2. QED
    BY <2>1, CategoryNotFcm DEF DefaultMessage
<1>2. Room /\ (saveFails(db) \/ saveAndForward(db, m)) /\ UNCHANGED fcmMgr
  BY DEF handleFcmReceiptMessage
<1> HIDE DEF m
<1>3. db \in Table /\ Queued(db, obj, fcmMgr.messages, balMgr.messages, sequenceId)
  BY DEF TypeOK, TableInv
<1>4. /\ Queued(db', obj', fcmMgr.messages, balMgr'.messages, sequenceId')
      /\ Accepts(db, db', sequenceId)
  BY <1>1, <1>2, <1>3, SaveForwardTable
<1>5. QED
  BY <1>2, <1>4 DEF TableStep, Moves

\* An iteration of the loop over the FCM queue changes no queue.
LEMMA ResendDownstreamTable ==
    ASSUME TypeOK, TableInv, "uninit" \notin Faults, NEW s \in SeqIds,
           resendAllPendingDownstreamMessages(s)
    PROVE  TableStep /\ LoopQueued'
<1>1. /\ UNCHANGED <<store, obj, fcmMgr, balMgr>>
      /\ loop.kind = "down"
      /\ loop' = startLoop("down", loop.todo \ {s})
  BY DEF resendAllPendingDownstreamMessages, startDownstreamRetry, giveUpDownstream,
         giveUpDownstreamThrows, MayGiveUp
<1>2. loop.todo \ {s} \subseteq fcmMgr.messages
  BY <1>1 DEF TableInv, LoopQueued
<1>3. LoopQueued'
  BY <1>1, <1>2 DEF LoopQueued, startLoop, Nothing
<1>4. QED
  BY <1>1, <1>3, StillTable

\* An iteration of the loop over the BAL's queue may mark a message.  It does
\* not remove one: a queued message is never in a state that may not be sent.
LEMMA ResendUpstreamTable ==
    ASSUME TypeOK, TableInv, "uninit" \notin Faults, NEW s \in SeqIds,
           resendPendingUpstreamMessages(s)
    PROVE  TableStep /\ LoopQueued'
<1> DEFINE code == IF obj[s].type \notin UpstreamTypes THEN 3
                   ELSE canSendMessageOnReconnect(balMgr, obj, s)
           first == code = 0 /\ obj[s].state # "PENDING_ACK"
           rest == loop.todo \ {s}
<1>1. /\ UNCHANGED <<sequenceId, obj, fcmMgr>>
      /\ loop.kind = "up" /\ s \in loop.todo
  BY DEF resendPendingUpstreamMessages, isNext
<1>2. loop.todo \subseteq balMgr.messages
  BY <1>1 DEF TableInv, LoopQueued
<1>3. db \in Table /\ Queued(db, obj, fcmMgr.messages, balMgr.messages, sequenceId)
  BY DEF TypeOK, TableInv
<1>4. db[s].state \in LiveStates /\ obj[s].state \in LiveStates
  BY <1>1, <1>2, <1>3 DEF Queued, Agree, ObjectsLive, Pending
<1>5. code # 1
  BY <1>4 DEF canSendMessageOnReconnect, sendCode, LiveStates
<1>6. resent(balMgr, s, code).messages = balMgr.messages
  BY <1>5 DEF resent, incrementPendingAckCount, TypeOK, Manager
<1> HIDE DEF code
<1>7. /\ db' = db \/ db' = updateMsgState(db, s, "PENDING_ACK")
      /\ balMgr'.messages = balMgr.messages
      /\ loop' = startLoop("up", rest) \/ loop' = Nothing("terminated")
  <2>1. CASE UNCHANGED <<db, balMgr>> /\ (loop' = startLoop("up", rest) \/ loop' = Nothing("terminated"))
    BY <2>1
  <2>2. CASE /\ db' = IF first THEN updateMsgState(db, s, "PENDING_ACK") ELSE db
             /\ balMgr' = resent(balMgr, s, code)
             /\ IF s \in balMgr.messages \ balMgr'.messages THEN afterErase("up", rest)
                ELSE loop' = startLoop("up", rest)
    BY <1>6, <2>2
  <2>3. QED
    BY <2>1, <2>2 DEF resendPendingUpstreamMessages, startUpstreamRetry, giveUpUpstream,
                      giveUpUpstreamThrows, MayGiveUp, code
<1>8. Queued(db', obj, fcmMgr.messages, balMgr.messages, sequenceId)
  <2>1. s \in fcmMgr.messages \cup balMgr.messages
    BY <1>1, <1>2
  <2>2. QED
    BY <1>3, <1>7, <2>1, MarkQueued
<1>9. LedgerOf(db') = LedgerOf(db)
  BY <1>3, <1>4, <1>7, MarkLedger
<1>10. TableStep
  BY <1>1, <1>7, <1>8, <1>9 DEF TableStep, Moves, Accepts
<1>11. LoopQueued'
  BY <1>1, <1>2, <1>7 DEF LoopQueued, startLoop, Nothing
<1>12. QED
  BY <1>10, <1>11

\* A restart reads the queues from the table.
LEMMA StartTable ==
    ASSUME TypeOK, TableInv, start
    PROVE  TableStep /\ LoopQueued'
<1>1. /\ db' = db /\ obj' = Loaded(db) /\ loop' = Nothing("idle")
      /\ initSequenceId(db, sequenceId')
  BY DEF start
<1>2. PICK fq \in Read(Pending(db, FCM)), bq \in Read(Pending(db, BalSession)),
              index \in {"idx_source_session", "idx_state"} :
         /\ fcmMgr' = loadPendingMessages(db, fq, index)
         /\ balMgr' = loadPendingMessages(db, bq, index)
  BY DEF start
<1>3. db \in Table
  BY DEF TypeOK
<1>4. /\ fq \subseteq Pending(db, FCM) /\ fq \in SUBSET SeqIds
      /\ bq \subseteq Pending(db, BalSession) /\ bq \in SUBSET SeqIds
  BY ReadPending
<1>5. fcmMgr'.messages = fq /\ balMgr'.messages = bq
  BY <1>2, <1>3, <1>4, LoadFields
<1>6. "loadFail" \notin Faults => Complete(db, fq, bq)
  BY DEF Read, Complete
<1>7. Agree(db, fq, bq, sequenceId')
  <2>1. \A s \in Rows(db) : s <= sequenceId'
    BY <1>1 DEF initSequenceId
  <2>2. \A s \in Pending(db, FCM) : db[s].src # FCM
    BY DEF TableInv, Queued, Agree
  <2>3. QED
    BY <1>4, <1>6, <2>1, <2>2 DEF Agree
<1>8. ObjectsLive(obj', db, fq, bq)
  <2>1. \A s \in SeqIds : obj'[s].src = db[s].src /\ obj'[s].state = db[s].state
    BY <1>1, <1>3 DEF Loaded, Table, Message
  <2>2. \A s \in fq \cup bq : s \in SeqIds /\ db[s].state \in LiveStates
    BY <1>4 DEF Pending
  <2>3. QED
    BY <2>1, <2>2 DEF ObjectsLive
<1>9. LoopQueued'
  BY <1>1 DEF LoopQueued, Nothing
<1>10. QED
  BY <1>1, <1>5, <1>7, <1>8, <1>9 DEF TableStep, Queued, Moves, Accepts

\* The other handlers run while no resend loop does, or leave the queues be.
LEMMA OtherLoops ==
    ASSUME TypeOK, TableInv, BalNext \/ FcmNext
    PROVE  LoopQueued'
<1>1. CASE ends /\ Idle
  <2>1. loop'.kind \in {"idle", "terminated"}
    BY <1>1 DEF ends, dies, Nothing, Idle
  <2>2. QED
    BY <2>1 DEF LoopQueued
<1>2. CASE handleFcmSessionEstablished
  BY <1>2 DEF handleFcmSessionEstablished, LoopQueued, startLoop, Nothing
<1>3. CASE handleFcmConnectionLost
  BY <1>3 DEF handleFcmConnectionLost, TableInv, LoopQueued
<1>4. CASE BalNext
  <2>1. ASSUME NEW f \in DownIds, NEW g \in Groups \cup {NoGroup},
               NEW src \in {BalSession, NoSession},
               handleBalDownstreamUploadRequest(f, g, src)
        PROVE  ends /\ Idle
    BY <2>1 DEF handleBalDownstreamUploadRequest
  <2>2. ASSUME NEW s \in SeqIds, handleBalAckMsg(s) PROVE ends /\ Idle
    BY <2>2 DEF handleBalAckMsg, ends
  <2>3. ASSUME handleBalLogonRequest \/ handleBALSocketDisconnected PROVE ends /\ Idle
    BY <2>3 DEF handleBalLogonRequest, handleBALSocketDisconnected, ends
  <2>4. QED
    BY <1>1, <1>4, <2>1, <2>2, <2>3 DEF BalNext
<1>5. CASE FcmNext
  <2>1. ASSUME NEW u \in UpIds, handleFcmNewUpstreamMessage(u) PROVE ends /\ Idle
    BY <2>1 DEF handleFcmNewUpstreamMessage
  <2>2. ASSUME NEW r \in RcptIds, handleFcmReceiptMessage(r) PROVE ends /\ Idle
    BY <2>2 DEF handleFcmReceiptMessage
  <2>3. ASSUME NEW f \in DownIds, handleFcmAckMessage(f) PROVE ends /\ Idle
    BY <2>3 DEF handleFcmAckMessage
  <2>4. ASSUME NEW f \in DownIds, NEW retryable \in BOOLEAN,
               handleFcmNackMessage(f, retryable)
        PROVE  ends /\ Idle
    BY <2>4 DEF handleFcmNackMessage
  <2>5. ASSUME messageDropped PROVE ends /\ Idle
    BY <2>5 DEF messageDropped, ends
  <2>6. QED
    BY <1>1, <1>2, <1>3, <1>5, <2>1, <2>2, <2>3, <2>4, <2>5 DEF FcmNext
<1>6. QED
  BY <1>4, <1>5

LEMMA NextTable ==
    ASSUME TypeOK, TableInv, "uninit" \notin Faults, Next
    PROVE  TableStep /\ LoopQueued'
<1>1. CASE BalNext
  <2>1. ASSUME handleBalLogonRequest \/ handleBALSocketDisconnected PROVE TableStep
    BY <2>1, StillTable DEF handleBalLogonRequest, handleBALSocketDisconnected
  <2>2. TableStep
    BY <1>1, <2>1, RequestTable, BalAckTable DEF BalNext
  <2>3. QED
    BY <1>1, <2>2, OtherLoops
<1>2. CASE FcmNext
  <2>1. ASSUME handleFcmSessionEstablished \/ handleFcmConnectionLost \/ messageDropped
        PROVE  TableStep
    BY <2>1, StillTable
       DEF handleFcmSessionEstablished, handleFcmConnectionLost, messageDropped
  <2>2. TableStep
    BY <1>2, <2>1, UpstreamTable, ReceiptTable, FcmAckTable, FcmNackTable DEF FcmNext
  <2>3. QED
    BY <1>2, <2>2, OtherLoops
<1>3. CASE TimerNext
  <2>1. ASSUME NEW s \in SeqIds, downstreamRetryTimeout(s) \/ upstreamRetryTimeout(s)
        PROVE  TableStep /\ LoopQueued'
    <3>1. UNCHANGED <<store, obj, fcmMgr, balMgr, loop>>
      BY <2>1 DEF downstreamRetryTimeout, upstreamRetryTimeout
    <3>2. LoopQueued'
      BY <3>1 DEF TableInv, LoopQueued
    <3>3. QED
      BY <3>1, <3>2, StillTable
  <2>2. CASE logonTimeout
    <3>1. UNCHANGED <<store, obj, fcmMgr, balMgr>> /\ loop' = startLoop("up", balMgr.messages)
      BY <2>2 DEF logonTimeout
    <3>2. LoopQueued'
      BY <3>1 DEF LoopQueued, startLoop, Nothing
    <3>3. QED
      BY <3>1, <3>2, StillTable
  <2>3. QED
    BY <1>3, <2>1, <2>2, ResendDownstreamTable, ResendUpstreamTable DEF TimerNext
<1>4. CASE start
  BY <1>4, StartTable
<1>5. QED
  BY <1>1, <1>2, <1>3, <1>4 DEF Next

LEMMA InitTable == Init => TableInv
<1> SUFFICES ASSUME Init PROVE TableInv
  OBVIOUS
<1>1. \A s \in SeqIds : db[s].state = "UNKNOWN"
  BY DEF Init, EmptyTable, DefaultMessage
<1>2. Rows(db) = {} /\ \A x : Pending(db, x) = {}
  BY <1>1 DEF Rows, Pending, LiveStates
<1>3. fcmMgr.messages = {} /\ balMgr.messages = {}
  BY DEF Init, EmptyManager
<1>4. Queued(db, obj, {}, {}, sequenceId)
  BY <1>2 DEF Queued, Agree, Complete, ObjectsLive
<1>5. LoopQueued
  BY DEF Init, Nothing, LoopQueued
<1>6. QED
  BY <1>3, <1>4, <1>5 DEF TableInv

-----------------------------------------------------------------------------
(* The theorems.                                                           *)

LEMMA TableInvariant ==
    ASSUME "uninit" \notin Faults
    PROVE  Spec => []TableInv
<1>1. TypeOK /\ TableInv /\ [Next]_vars => TableInv'
  <2>1. ASSUME TypeOK, TableInv, Next PROVE TableInv'
    BY <2>1, NextTable DEF TableStep, TableInv
  <2>2. ASSUME TableInv, UNCHANGED vars PROVE TableInv'
    BY <2>2 DEF vars, TableInv, LoopQueued
  <2>3. QED
    BY <2>1, <2>2
<1>2. QED
  BY <1>1, InitTable, TypeCorrect, PTL DEF Spec

\* Unless the SELECT of loadPendingMessages fails, a restart at any moment
\* loads exactly what was queued: saveMsg and updateMsgState of dbconnection.cpp
\* and addMessage and removeMessage of messagemanager.cpp stay in step in every
\* handler, whichever statement throws and whenever the daemon dies.
THEOREM QueuesAreDurable ==
    ASSUME "uninit" \notin Faults, "loadFail" \notin Faults
    PROVE  Spec => []QueuesArePendingRows
<1>1. TableInv => QueuesArePendingRows
  BY DEF TableInv, Queued, Agree, Complete, QueuesArePendingRows
<1>2. QED
  BY <1>1, TableInvariant, PTL

\* The table implements the abstract ledger: saveMsg never reuses a sequence
\* id, not even after a restart reads the maximum back, and updateMsgState
\* never revises the outcome of a resolved message.
THEOREM TableImplementsLedger ==
    ASSUME "uninit" \notin Faults
    PROVE  Spec => TableIsLedger
<1>1. Init => Ledger!Init
  BY DEF Init, Ledger!Init, LedgerOf, EmptyTable, DefaultMessage
<1>2. TypeOK /\ TableInv /\ [Next]_vars => [Ledger!Next]_(LedgerOf(db))
  <2>1. ASSUME TypeOK, TableInv, Next PROVE [Ledger!Next]_(LedgerOf(db))
    BY <2>1, NextTable, MovesImplement DEF TableStep, TableInv, Queued
  <2>2. ASSUME UNCHANGED vars PROVE [Ledger!Next]_(LedgerOf(db))
    BY <2>2 DEF vars
  <2>3. QED
    BY <2>1, <2>2
<1>3. QED
  BY <1>1, <1>2, TypeCorrect, TableInvariant, PTL DEF Spec, TableIsLedger, Ledger!Spec
=============================================================================
