------------------------- MODULE MCPaymentSettlement -------------------------
(***************************************************************************)
(* Small instances of PaymentSettlement for TLC.                           *)
(***************************************************************************)
EXTENDS PaymentSettlement

CONSTANTS
    c1, c2,     \* calls
    s1,         \* a transfer
    i1          \* an invoice

\* The calls verify one transfer for one invoice.
RepeatSig     == [c \in Verifications |-> s1]
RepeatInvoice == [c \in Verifications |-> i1]

UnitAmounts == [s \in Transfers |-> 1]
TwoUnitsDue == [i \in Invoices |-> 2]
=============================================================================
