------------------------- MODULE WithdrawalContract -------------------------
(***************************************************************************)
(* What the withdrawal pipeline promises, without its statuses, processes  *)
(* and retries: money is held before it moves, it moves at most once, a    *)
(* withdrawal whose money moved is settled (debited) and one that is       *)
(* returned to the user's balance never moves.  What is held is covered by *)
(* the user's funds, except that a check of the balance may overlook a     *)
(* withdrawal that is settled meanwhile.                                   *)
(***************************************************************************)
EXTENDS Integers

CONSTANTS
    Ids,        \* withdrawals
    UserOf,     \* [Ids -> users]
    AmountOf,   \* [Ids -> Nat]
    Funds,      \* [users -> Nat]
    Total(_)    \* the sum of a function from withdrawals to amounts

VARIABLES
    phase,      \* [Ids -> Phases]
    moved,      \* the withdrawals whose money has left the user's wallet
    overlooked  \* settled withdrawals that a check of the balance did not count

Phases == {"none", "held", "settled", "returned"}

Own(u) == {w \in Ids : UserOf[w] = u}

\* What the user may still withdraw: held and settled amounts are spent ...
Free(u) ==
    Funds[u] - Total([w \in Own(u) |-> IF phase[w] \in {"held", "settled"} THEN AmountOf[w] ELSE 0])

\* ... and by how much a check may be mistaken.
Slack(u) == Total([w \in Own(u) |-> IF w \in overlooked THEN AmountOf[w] ELSE 0])

Init ==
    /\ phase = [w \in Ids |-> "none"]
    /\ moved = {}
    /\ overlooked = {}

Hold(w) ==
    /\ phase[w] = "none"
    /\ AmountOf[w] <= Free(UserOf[w]) + Slack(UserOf[w])
    /\ phase' = [phase EXCEPT ![w] = "held"]
    /\ UNCHANGED <<moved, overlooked>>

Move(w) ==
    /\ phase[w] = "held"
    /\ w \notin moved
    /\ moved' = moved \cup {w}
    /\ UNCHANGED <<phase, overlooked>>

Settle(w) ==
    /\ phase[w] = "held"
    /\ w \in moved
    /\ phase' = [phase EXCEPT ![w] = "settled"]
    /\ overlooked' \in {overlooked, overlooked \cup {w}}
    /\ UNCHANGED moved

Return(w) ==
    /\ phase[w] = "held"
    /\ w \notin moved
    /\ phase' = [phase EXCEPT ![w] = "returned"]
    /\ UNCHANGED <<moved, overlooked>>

Next == \E w \in Ids : Hold(w) \/ Move(w) \/ Settle(w) \/ Return(w)

Spec == Init /\ [][Next]_<<phase, moved, overlooked>>
=============================================================================
