------------------------------ MODULE Message ------------------------------
(***************************************************************************)
(* Messages of the GIMMM daemon (src/message.h, src/message.cpp): the      *)
(* values its managers, its timers and its database pass around.           *)
(*                                                                         *)
(* A message object is a record.  Its JSON payload, its timestamps and its *)
(* backoff generator are left out: nothing the daemon decides reads them.  *)
(* Field "ctor" tells which constructor made the object, because only one  *)
(* of the two initialises the retry counters.                              *)
(***************************************************************************)
EXTENDS Integers

CONSTANTS
    MaxSeqId,   \* bound: highest sequence id the model hands out
    DownIds,    \* FCM message ids a BAL gives to its downstream messages
    UpIds,      \* FCM message ids of upstream messages sent by apps
    RcptIds,    \* FCM message ids of delivery receipts
    Groups,     \* group ids a BAL may use
    BalSession, \* the session id of the [BAL_SECTION] of config.ini
    Stranger    \* a category that names no configured session

SeqIds == 1 .. MaxSeqId
MsgIds == DownIds \cup UpIds \cup RcptIds

\* The blank strings of a default constructed message, and the peer "fcm".
NoId      == "no message id"
NoGroup   == "no group"
NoSession == "no session"
FCM       == "fcm"

Sessions == {BalSession, Stranger, NoSession, FCM}

ASSUME MessageAssumption ==
    /\ MaxSeqId \in Nat
    /\ DownIds \cap (UpIds \cup RcptIds) = {}
    /\ UpIds \cap RcptIds = {}
    /\ NoId \notin MsgIds
    /\ NoGroup \notin Groups
    /\ BalSession \notin {Stranger, NoSession, FCM}
    /\ Stranger \notin {NoSession, FCM}

\* LOGON, LOGON_RESPONSE and ACK are never stored in a Message object.
MessageType ==
    {"UNKNOWN", "UPSTREAM", "DOWNSTREAM", "DOWNSTREAM_ACK",
     "DOWNSTREAM_RECEIPT", "DOWNSTREAM_REJECT"}

MessageState == {"UNKNOWN", "NEW", "PENDING_ACK", "DELIVERED", "DELIVERY_FAILED"}

\* The states of the rows that are loaded back after a restart.
LiveStates == {"NEW", "PENDING_ACK"}

Message ==
    [type  : MessageType,
     fcmId : MsgIds \cup {NoId},
     gid   : Groups \cup {NoGroup},
     src   : Sessions,
     tgt   : Sessions,
     state : MessageState,
     ctor  : {"default", "full"}]

\* Message(): every field blank, the retry counters left uninitialised.
DefaultMessage ==
    [type |-> "UNKNOWN", fcmId |-> NoId, gid |-> NoGroup, src |-> NoSession,
     tgt |-> NoSession, state |-> "UNKNOWN", ctor |-> "default"]

\* Message(seqid, type, ...): a NEW message without a retry limit.
NewMessage(type, fcmId, gid, src, tgt) ==
    [type |-> type, fcmId |-> fcmId, gid |-> gid, src |-> src,
     tgt |-> tgt, state |-> "NEW", ctor |-> "full"]

(***************************************************************************)
(* getNextRetryTimeout returns -1, and the caller gives up, only when the  *)
(* retry limit is not -1.  The full constructor sets the limit to -1 and   *)
(* nobody calls setMaxRetry; the default constructor leaves limit and      *)
(* counter uninitialised, so the comparison may go either way.             *)
(***************************************************************************)
retryLimitReached(msg) == IF msg.ctor = "full" THEN {FALSE} ELSE BOOLEAN
=============================================================================
