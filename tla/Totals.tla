-------------------------------- MODULE Totals --------------------------------
(***************************************************************************)
(* The SUM of the ledger and settlement queries, over a function from rows *)
(* to amounts in base units.  A total is the number of units it is made    *)
(* of: counting them, rather than adding row after row, is what lets a     *)
(* theorem speak of the total of any number of rows.                       *)
(***************************************************************************)
EXTENDS Integers, FiniteSets

\* The units of f: f[x] of them for each x of its domain.
UnitsOf(f) == UNION {{x} \X (1 .. f[x]) : x \in DOMAIN f}

Total(f) == Cardinality(UnitsOf(f))
===============================================================================
