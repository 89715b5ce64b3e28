------------------------ MODULE ExponentialBackoff -------------------------
(***************************************************************************)
(* Delays between attempts (src/exponentialbackoff.cpp), as operators on   *)
(* the fields of the object: the number of the retry, the exponent         *)
(* __seedVal, and the limit after which the delays start again.            *)
(***************************************************************************)
EXTENDS Integers

CONSTANTS
    Deltas      \* milliseconds the random part may be

NO_MAX_RETRY == -1

\* The random part is drawn from 100 .. 1000.
ASSUME DeltasAssumption == Deltas \subseteq 100 .. 1000 /\ Deltas # {}

Backoff == [retry : Nat, seedVal : Nat, maxRetry : Nat \cup {NO_MAX_RETRY}]

newBackoff(max) == [retry |-> 0, seedVal |-> 2, maxRetry |-> max]

reset(b) == [b EXCEPT !.retry = 1, !.seedVal = 2]

\* Mutant: the retries that are left are counted.
counted_down(b) == [b EXCEPT !.retry = @ - 1]

\* The start of next(): count the retry, and start again beyond the limit.
counted(b) ==
    IF b.maxRetry # NO_MAX_RETRY /\ b.retry + 1 > b.maxRetry
    THEN [b EXCEPT !.retry = 0, !.seedVal = 2]
    ELSE [b EXCEPT !.retry = @ + 1]

\* Mutant: the exponent stays.
next_constant(b) == counted(b)

\* The object after next().
next(b) == [counted(b) EXCEPT !.seedVal = @ + 1]

\* What next() returns, in milliseconds: 0.5 * (2^seedVal - 1) seconds cut to
\* an integer, and the random part.  An int holds it up to seedVal = 22.
delay(b, delta) == ((2 ^ counted(b).seedVal - 1) \div 2) * 1000 + delta

MaxSeedVal == 22
=============================================================================
