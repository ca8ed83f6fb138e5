---------------------------- MODULE MCWithdrawals ----------------------------
(***************************************************************************)
(* Small instances of Withdrawals for TLC.                                 *)
(***************************************************************************)
EXTENDS Withdrawals, TLC

CONSTANTS
    c1, c2, c3,     \* calls
    alice,          \* their user
    k1              \* an idempotency key

\* Every call is a withdrawal of its own ...
DistinctKeys == [c \in Calls |-> None]
\* ... or every call repeats one request.
SameKey      == [c \in Calls |-> k1]

OneUser      == [c \in Calls |-> alice]
\* Two units are on the ledger: two withdrawals of one unit fit, a third
\* does not.
UnitAmounts  == [c \in Calls |-> 1]
TwoUnits     == [u \in {alice} |-> 2]
\* One unit: two withdrawals compete for it.
OneUnit      == [u \in {alice} |-> 1]

CallSymmetry == Permutations(Calls)
=============================================================================
