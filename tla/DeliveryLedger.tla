--------------------------- MODULE DeliveryLedger ---------------------------
(***************************************************************************)
(* What the message table promises to whoever keeps sequence ids: an       *)
(* abstract specification of a store of messages.  A message is accepted   *)
(* under an id greater than every id in use, is live until it is delivered *)
(* or has failed, and its outcome is never revised, whatever is lost or    *)
(* restarted in between.  A step may resolve one message and accept the    *)
(* report about it.                                                        *)
(***************************************************************************)
EXTENDS Integers

CONSTANT Ids    \* a set of numbers

VARIABLE ledger

Outcomes == {"delivered", "failed"}

Ledgers == [Ids -> {"none", "live"} \cup Outcomes]

Init == ledger = [s \in Ids |-> "none"]

Fresh(a) == \A s \in Ids : ledger[s] # "none" => s < a

Accept(a) ==
    /\ Fresh(a)
    /\ ledger' = [ledger EXCEPT ![a] = "live"]

Resolve(s, outcome) ==
    /\ ledger[s] = "live"
    /\ ledger' = [ledger EXCEPT ![s] = outcome]

ResolveAndReport(s, outcome, a) ==
    /\ ledger[s] = "live"
    /\ Fresh(a)
    /\ ledger' = [ledger EXCEPT ![s] = outcome, ![a] = "live"]

Next ==
    \E s \in Ids :
        \/ Accept(s)
        \/ \E outcome \in Outcomes :
              \/ Resolve(s, outcome)
              \/ \E a \in Ids : ResolveAndReport(s, outcome, a)

Spec == Init /\ [][Next]_ledger
=============================================================================
