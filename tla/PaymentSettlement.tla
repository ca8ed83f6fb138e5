-------------------------- MODULE PaymentSettlement --------------------------
(***************************************************************************)
(* Incoming payments: PaymentDetectionService.verifyAndProcessPayment, the *)
(* stored procedure settle_payment_atomic it calls, and the sweep of       *)
(* reconcileBatch over expired invoices.  Calls run concurrently, and may  *)
(* verify the same signature.                                              *)
(***************************************************************************)
EXTENDS Integers, Totals

CONSTANTS
    Verifications,  \* POST /api/payments/verify requests
    Transfers,      \* signatures of verified transfers to the user's wallet
    Invoices,       \* invoices of the user, created before the calls
    None,           \* no invoice
    SigOf,          \* [Verifications -> Transfers], the signature a call verifies
    InvoiceOf,      \* [Verifications -> Invoices or None], the invoice it names
    AmountOf,       \* [Transfers -> Nat], what the transfer carries
    Due             \* [Invoices -> Nat], the amount invoiced

ASSUME PaymentAssumption ==
    /\ None \notin Invoices
    /\ SigOf \in [Verifications -> Transfers]
    /\ InvoiceOf \in [Verifications -> Invoices \cup {None}]
    /\ AmountOf \in [Transfers -> Nat]
    /\ Due \in [Invoices -> Nat]

VARIABLES
    payments,   \* signatures that have a row in the payments table
    credits,    \* number of ledger CREDIT entries of each signature's payment
    invoice,    \* the invoices table: status and paid_amount
    expired,    \* invoices whose expires_at has passed
    call,       \* local state of each verifyAndProcessPayment
    sweep       \* expired invoices the reconciler has read and not yet updated

paymentVars == <<payments, credits, invoice, expired, call, sweep>>

InvoiceStatuses == {"PENDING", "PARTIALLY_PAID", "PAID", "EXPIRED"}
Payable         == {"PENDING", "PARTIALLY_PAID"}
CallPcs         == {"idle", "read", "settle", "credit", "update", "done"}

InvoiceType == [status : InvoiceStatuses, paid : Nat]
\* inv, paid and late are the invoice as the call read it.
CallType    == [pc : CallPcs, inv : Invoices \cup {None}, paid : Nat, late : BOOLEAN]

PaymentTypeOK ==
    /\ payments \subseteq Transfers
    /\ credits \in [Transfers -> Nat]
    /\ invoice \in [Invoices -> InvoiceType]
    /\ expired \subseteq Invoices
    /\ call \in [Verifications -> CallType]
    /\ sweep \subseteq Invoices

PaymentInit ==
    /\ payments = {}
    /\ credits = [s \in Transfers |-> 0]
    /\ invoice = [i \in Invoices |-> [status |-> "PENDING", paid |-> 0]]
    /\ expired = {}
    /\ call = [c \in Verifications |->
                 [pc |-> "idle", inv |-> None, paid |-> 0, late |-> FALSE]]
    /\ sweep = {}

GotoPay(c, pc) == call' = [call EXCEPT ![c].pc = pc]

\* Both the procedure and the service set PAID or PARTIALLY_PAID by the total.
Receive(i, total) ==
    invoice' = [invoice EXCEPT ![i] =
        [status |-> IF total >= Due[i] THEN "PAID" ELSE "PARTIALLY_PAID",
         paid   |-> total]]

\* Mutant: the status is written as validateStateTransition spells it.
Expire_LowerCase(i) == invoice' = [invoice EXCEPT ![i].status = "expired"]

Expire(i) == invoice' = [invoice EXCEPT ![i].status = "EXPIRED"]

-----------------------------------------------------------------------------
(***************************************************************************)
(* verifyAndProcessPayment                                                 *)
(***************************************************************************)
\* A signature that is in the payments table is answered with its row; else
\* the chain is asked and the recipient's wallet looked up.
Lookup(c) ==
    /\ call[c].pc = "idle"
    /\ GotoPay(c, IF SigOf[c] \in payments THEN "done" ELSE "read")
    /\ UNCHANGED <<payments, credits, invoice, expired, sweep>>

\* The invoice is read once, here.  One that is not payable is ignored.
ReadInvoice(c) ==
    LET i == InvoiceOf[c]
    IN  /\ call[c].pc = "read"
        /\ call' = [call EXCEPT ![c] =
              IF i # None /\ invoice[i].status \in Payable
              THEN [pc |-> "settle", inv |-> i, paid |-> invoice[i].paid,
                    late |-> i \in expired]
              ELSE [pc |-> "settle", inv |-> None, paid |-> 0, late |-> FALSE]]
        /\ UNCHANGED <<payments, credits, invoice, expired, sweep>>

\* What the procedure makes of the invoice, which it locks and reads anew.
InvoiceAfter(i, amount) ==
    IF i = None THEN UNCHANGED invoice
    ELSE IF i \in expired /\ invoice[i].status = "PENDING" THEN Expire(i)
    ELSE Receive(i, invoice[i].paid + amount)

\* Mutant: the procedure leaves the CREDIT to the service.
Settle_NoCredit(c) ==
    /\ call[c].pc = "settle"
    /\ SigOf[c] \notin payments
    /\ payments' = payments \cup {SigOf[c]}
    /\ InvoiceAfter(call[c].inv, AmountOf[SigOf[c]])
    /\ GotoPay(c, "credit")
    /\ UNCHANGED <<credits, expired, sweep>>

\* settle_payment_atomic: the payment row, its CREDIT and the invoice in one
\* transaction.
Settle(c) ==
    LET s == SigOf[c]
    IN  /\ call[c].pc = "settle"
        /\ s \notin payments
        /\ payments' = payments \cup {s}
        /\ credits' = [credits EXCEPT ![s] = @ + 1]
        /\ InvoiceAfter(call[c].inv, AmountOf[s])
        /\ GotoPay(c, "credit")
        /\ UNCHANGED <<expired, sweep>>

\* The signature has been settled since the lookup.  The procedure returns the
\* earlier payment, and the service goes on as if it had settled it; only when
\* the two procedures overlap is a unique violation raised, which ends the call.
SettleReplay(c) ==
    /\ call[c].pc = "settle"
    /\ SigOf[c] \in payments
    /\ GotoPay(c, "credit") \/ GotoPay(c, "done")
    /\ UNCHANGED <<payments, credits, invoice, expired, sweep>>

\* LedgerService.recordCredit: a second entry for the same payment.
RecordCredit(c) ==
    /\ call[c].pc = "credit"
    /\ credits' = [credits EXCEPT ![SigOf[c]] = @ + 1]
    /\ GotoPay(c, IF call[c].inv = None THEN "done" ELSE "update")
    /\ UNCHANGED <<payments, invoice, expired, sweep>>

\* Mutant: the amount is added to the invoice as it is now, which the procedure
\* has already updated.
UpdateInvoice_Fresh(c) ==
    /\ call[c].pc = "update"
    /\ IF call[c].late THEN Expire(call[c].inv)
       ELSE Receive(call[c].inv, invoice[call[c].inv].paid + AmountOf[SigOf[c]])
    /\ GotoPay(c, "done")
    /\ UNCHANGED <<payments, credits, expired, sweep>>

\* InvoiceService.updateInvoiceStatus: status and paid_amount as computed from
\* the invoice that was read, written over whatever it has become.
UpdateInvoice(c) ==
    /\ call[c].pc = "update"
    /\ IF call[c].late THEN Expire(call[c].inv)
       ELSE Receive(call[c].inv, call[c].paid + AmountOf[SigOf[c]])
    /\ GotoPay(c, "done")
    /\ UNCHANGED <<payments, credits, expired, sweep>>

\* Any await may fail: the transfer cannot be verified, its recipient is not
\* known, the database or the process is gone.  What was done stays done.
Abort(c) ==
    /\ call[c].pc \notin {"idle", "done"}
    /\ GotoPay(c, "done")
    /\ UNCHANGED <<payments, credits, invoice, expired, sweep>>

-----------------------------------------------------------------------------
(***************************************************************************)
(* The clock and reconcileBatch, invoices part                             *)
(***************************************************************************)
PassExpiry(i) ==
    /\ i \notin expired
    /\ expired' = expired \cup {i}
    /\ UNCHANGED <<payments, credits, invoice, call, sweep>>

ScanExpired ==
    /\ sweep = {}
    /\ sweep' = {i \in expired : invoice[i].status = "PENDING"}
    /\ UNCHANGED <<payments, credits, invoice, expired, call>>

\* The update is by id, whatever has become of the invoice since the scan.
\* Its error is not looked at, and the sweep goes on.
SweepInvoice(i) ==
    /\ i \in sweep
    /\ Expire(i) \/ UNCHANGED invoice
    /\ sweep' = sweep \ {i}
    /\ UNCHANGED <<payments, credits, expired, call>>

AbortSweep ==
    /\ sweep # {}
    /\ sweep' = {}
    /\ UNCHANGED <<payments, credits, invoice, expired, call>>

CallStep(c) ==
    \/ Lookup(c) \/ ReadInvoice(c) \/ Settle(c) \/ SettleReplay(c)
    \/ RecordCredit(c) \/ UpdateInvoice(c) \/ Abort(c)

PaymentNext ==
    \/ \E c \in Verifications : CallStep(c)
    \/ \E i \in Invoices : PassExpiry(i) \/ SweepInvoice(i)
    \/ ScanExpired
    \/ AbortSweep

PaymentSpec == PaymentInit /\ [][PaymentNext]_paymentVars

-----------------------------------------------------------------------------
\* A payment is on record together with its ledger CREDIT: no crash, race or
\* replay leaves one without the other.
PaymentsAreCredited == \A s \in Transfers : s \in payments <=> credits[s] > 0

\* The recorded payments that were submitted for an invoice.
ReceivedFor(i) ==
    {s \in payments : \E c \in Verifications : SigOf[c] = s /\ InvoiceOf[c] = i}

PaidCoversDue ==
    \A i \in Invoices : invoice[i].status = "PAID" => invoice[i].paid >= Due[i]

\* An invoice is PAID only when its paid_amount covers what is due, and its
\* paid_amount is never more than the transfers received for it.
PaidIsBacked ==
    /\ PaidCoversDue
    /\ \A i \in Invoices :
          invoice[i].paid <= Total([s \in ReceivedFor(i) |-> AmountOf[s]])

\* PaymentsAreCredited is inductive with what a call past the settlement
\* knows: its signature is on record, and it updates an invoice it has read.
CallsHaveSettled ==
    \A c \in Verifications :
        /\ call[c].pc \in {"credit", "update"} => SigOf[c] \in payments
        /\ call[c].pc = "update" => call[c].inv # None

IInv == PaymentTypeOK /\ PaymentsAreCredited /\ CallsHaveSettled /\ PaidCoversDue

\* The ledger credits a payment once (settle_payment_atomic "will idempotently
\* process invoice status and credit user ledger").
CreditedOnce == \A s \in Transfers : credits[s] <= 1
=============================================================================
