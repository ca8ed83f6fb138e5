---------------------------- MODULE PaymentProofs ----------------------------
(***************************************************************************)
(* Theorems about PaymentSettlement, for any calls, signatures, invoices   *)
(* and amounts, and whatever signatures the calls share.                   *)
(***************************************************************************)
EXTENDS PaymentSettlement, TotalsProofs, TLAPS

\* The initial state satisfies the invariant.
LEMMA InitInvariant == PaymentInit => IInv
BY DEF PaymentInit, IInv, PaymentTypeOK, InvoiceType, InvoiceStatuses, CallType, CallPcs,
   PaymentsAreCredited, CallsHaveSettled, PaidCoversDue

\* What the writes to the invoices table keep.
LEMMA InvoiceWrites ==
    ASSUME PaymentTypeOK, PaidCoversDue, NEW i \in Invoices,
           Expire(i) \/ \E total \in Nat : Receive(i, total)
    PROVE  invoice' \in [Invoices -> InvoiceType] /\ PaidCoversDue'
<1>1. CASE Expire(i)
    BY <1>1 DEF Expire, PaymentTypeOK, InvoiceType, InvoiceStatuses, PaidCoversDue
<1>2. CASE \E total \in Nat : Receive(i, total)
    <2>1. PICK total \in Nat : Receive(i, total)
        BY <1>2
    <2> DEFINE row == [status |-> IF total >= Due[i] THEN "PAID" ELSE "PARTIALLY_PAID",
                       paid   |-> total]
    <2>2. row \in InvoiceType
        BY DEF InvoiceType, InvoiceStatuses
    <2>3. row.status = "PAID" => row.paid >= Due[i]
        OBVIOUS
    <2>4. invoice' = [invoice EXCEPT ![i] = row]
        BY <2>1 DEF Receive
    <2> HIDE DEF row
    <2> QED BY <2>2, <2>3, <2>4 DEF PaymentTypeOK, PaidCoversDue
<1> QED BY <1>1, <1>2

\* A call that moves to another pc keeps the invoice it has read.
LEMMA Moves ==
    ASSUME PaymentTypeOK, NEW c \in Verifications, NEW p \in CallPcs, GotoPay(c, p)
    PROVE  /\ call' \in [Verifications -> CallType]
           /\ call'[c].pc = p /\ call'[c].inv = call[c].inv
           /\ \A d \in Verifications \ {c} : call'[d] = call[d]
BY DEF PaymentTypeOK, GotoPay, CallType

\* The steps of a call keep the invariant.
LEMMA CallStepKeeps ==
    ASSUME IInv, NEW c \in Verifications, CallStep(c)
    PROVE  IInv'
<1> USE PaymentAssumption DEF IInv
<1>0. /\ call[c] \in CallType /\ call[c].inv \in Invoices \cup {None}
      /\ call[c].paid \in Nat /\ SigOf[c] \in Transfers /\ AmountOf[SigOf[c]] \in Nat
    BY DEF PaymentTypeOK, CallType
<1>1. CASE Lookup(c)
    <2>1. "done" \in CallPcs /\ "read" \in CallPcs
        BY DEF CallPcs
    <2> QED BY <1>1, <2>1, Moves
            DEF Lookup, PaymentTypeOK, PaymentsAreCredited, CallsHaveSettled, PaidCoversDue
<1>2. CASE ReadInvoice(c)
    <2>1. PICK r \in CallType :
             r.pc = "settle" /\ call' = [call EXCEPT ![c] = r]
        <3>1. \A i \in Invoices : invoice[i].paid \in Nat
            BY DEF PaymentTypeOK, InvoiceType
        <3> DEFINE i == InvoiceOf[c]
                   none == [pc |-> "settle", inv |-> None, paid |-> 0, late |-> FALSE]
                   some == [pc |-> "settle", inv |-> i, paid |-> invoice[i].paid,
                            late |-> i \in expired]
        <3>2. none \in CallType /\ none.pc = "settle"
            BY DEF CallType, CallPcs
        <3>3. i # None => some \in CallType /\ some.pc = "settle"
            BY <3>1 DEF CallType, CallPcs
        <3>4. \/ i # None /\ call' = [call EXCEPT ![c] = some]
              \/ call' = [call EXCEPT ![c] = none]
            BY <1>2 DEF ReadInvoice
        <3> HIDE DEF i, none, some
        <3> QED BY <3>2, <3>3, <3>4
    <2> QED BY <1>2, <2>1
            DEF ReadInvoice, PaymentTypeOK, PaymentsAreCredited, CallsHaveSettled, PaidCoversDue
<1>3. CASE Settle(c)
    <2>1. invoice' \in [Invoices -> InvoiceType] /\ PaidCoversDue'
        <3>1. CASE call[c].inv = None
            BY <1>3, <3>1 DEF Settle, InvoiceAfter, PaymentTypeOK, PaidCoversDue
        <3>2. CASE call[c].inv \in Invoices
            <4>1. invoice[call[c].inv].paid + AmountOf[SigOf[c]] \in Nat
                BY <1>0, <3>2 DEF PaymentTypeOK, InvoiceType
            <4> QED BY <1>3, <3>2, <4>1, InvoiceWrites DEF Settle, InvoiceAfter
        <3> QED BY <1>0, <3>1, <3>2
    <2>2. credits' \in [Transfers -> Nat] /\ payments' \subseteq Transfers /\ PaymentsAreCredited'
        BY <1>0, <1>3 DEF Settle, PaymentTypeOK, PaymentsAreCredited
    <2>3. "credit" \in CallPcs
        BY DEF CallPcs
    <2> QED BY <1>3, <2>1, <2>2, <2>3, Moves DEF Settle, PaymentTypeOK, CallsHaveSettled
<1>4. CASE SettleReplay(c)
    <2>1. "done" \in CallPcs /\ "credit" \in CallPcs
        BY DEF CallPcs
    <2> QED BY <1>4, <2>1, Moves
            DEF SettleReplay, PaymentTypeOK, PaymentsAreCredited, CallsHaveSettled, PaidCoversDue
<1>5. CASE RecordCredit(c)
    <2>1. "done" \in CallPcs /\ "update" \in CallPcs
        BY DEF CallPcs
    <2>2. credits' \in [Transfers -> Nat] /\ PaymentsAreCredited'
        BY <1>0, <1>5 DEF RecordCredit, PaymentTypeOK, PaymentsAreCredited, CallsHaveSettled
    <2> QED BY <1>5, <2>1, <2>2, Moves
            DEF RecordCredit, PaymentTypeOK, CallsHaveSettled, PaidCoversDue
<1>6. CASE UpdateInvoice(c)
    <2>1. call[c].inv \in Invoices /\ "done" \in CallPcs
        BY <1>0, <1>6 DEF UpdateInvoice, CallsHaveSettled, CallPcs
    <2>2. call[c].paid + AmountOf[SigOf[c]] \in Nat
        BY <1>0
    <2>3. invoice' \in [Invoices -> InvoiceType] /\ PaidCoversDue'
        BY <1>6, <2>1, <2>2, InvoiceWrites DEF UpdateInvoice
    <2> QED BY <1>6, <2>1, <2>3, Moves
            DEF UpdateInvoice, PaymentTypeOK, PaymentsAreCredited, CallsHaveSettled
<1>7. CASE Abort(c)
    <2>1. "done" \in CallPcs
        BY DEF CallPcs
    <2> QED BY <1>7, <2>1, Moves
            DEF Abort, PaymentTypeOK, PaymentsAreCredited, CallsHaveSettled, PaidCoversDue
<1> QED BY <1>1, <1>2, <1>3, <1>4, <1>5, <1>6, <1>7 DEF CallStep

\* So do the clock and the sweep over expired invoices.
LEMMA SweepKeeps ==
    ASSUME IInv,
           \/ \E i \in Invoices : PassExpiry(i) \/ SweepInvoice(i)
           \/ ScanExpired \/ AbortSweep
    PROVE  IInv'
<1>1. CASE ScanExpired \/ AbortSweep \/ \E i \in Invoices : PassExpiry(i)
    BY <1>1 DEF ScanExpired, AbortSweep, PassExpiry, IInv, PaymentTypeOK,
       PaymentsAreCredited, CallsHaveSettled, PaidCoversDue
<1>2. ASSUME NEW i \in Invoices, SweepInvoice(i)
      PROVE  IInv'
    <2>1. invoice' \in [Invoices -> InvoiceType] /\ PaidCoversDue'
        BY <1>2, InvoiceWrites DEF SweepInvoice, IInv, PaymentTypeOK, PaidCoversDue
    <2> QED BY <1>2, <2>1 DEF SweepInvoice, IInv, PaymentTypeOK, PaymentsAreCredited, CallsHaveSettled
<1> QED BY <1>1, <1>2

\* The invariant holds in every reachable state.
THEOREM Invariance == PaymentSpec => []IInv
<1>1. IInv /\ PaymentNext => IInv'
    BY CallStepKeeps, SweepKeeps DEF PaymentNext
<1>2. IInv /\ UNCHANGED paymentVars => IInv'
    BY DEF IInv, paymentVars, PaymentTypeOK, PaymentsAreCredited, CallsHaveSettled, PaidCoversDue
<1> QED BY <1>1, <1>2, InitInvariant, PTL DEF PaymentSpec

\* Every state of the payment path is well-typed.
THEOREM TypeCorrect == PaymentSpec => []PaymentTypeOK
<1>1. IInv => PaymentTypeOK
    BY DEF IInv
<1> QED BY <1>1, Invariance, PTL

\* However calls race, repeat a signature or die, a payment row exists exactly
\* when its ledger CREDIT does (settle_payment_atomic is one transaction, and
\* recordCredit comes after it).
THEOREM PaymentsCredited == PaymentSpec => []PaymentsAreCredited
<1>1. IInv => PaymentsAreCredited
    BY DEF IInv
<1> QED BY <1>1, Invariance, PTL

\* However stale the invoice a call has read, an invoice that is PAID has a
\* paid_amount that covers what is due (the procedure and updateInvoiceStatus
\* write status and amount together; the sweep only writes EXPIRED).
THEOREM PaidCovers == PaymentSpec => []PaidCoversDue
<1>1. IInv => PaidCoversDue
    BY DEF IInv
<1> QED BY <1>1, Invariance, PTL

-----------------------------------------------------------------------------
(***************************************************************************)
(* PaidIsBacked.  It fails when a transfer is verified for one invoice by  *)
(* two calls (the second counts it again over what the first has read), so *)
(* it is proved of the calls among which that does not happen.             *)
(***************************************************************************)
\* No transfer is submitted for the same invoice twice.
OneCallPerTransfer ==
    \A c, d \in Verifications :
        c # d /\ SigOf[c] = SigOf[d] /\ InvoiceOf[c] # None => InvoiceOf[c] # InvoiceOf[d]

\* The calls that have not been through settle_payment_atomic yet.
BeforeSettling == {"idle", "read", "settle"}

\* The transfers received for an invoice whose own call has been through the
\* settlement: what paid_amount may count.  One that another call has put on
\* record, naming another invoice or none, is not among them yet.
Counted(i) ==
    {s \in ReceivedFor(i) :
        \A c \in Verifications : SigOf[c] = s /\ InvoiceOf[c] = i => call[c].pc \notin BeforeSettling}

AmountsOf(S) == [s \in S |-> AmountOf[s]]

\* The invoice, the copy of it that a call read before it settled, and the
\* copy that a call adds its own transfer to after it settled.
PaidIsCounted ==
    /\ IsFiniteSet(payments)
    /\ \A i \in Invoices : invoice[i].paid <= Total(AmountsOf(Counted(i)))
    /\ \A c \in Verifications : call[c].inv # None =>
          /\ call[c].inv = InvoiceOf[c]
          /\ call[c].pc = "settle" =>
                call[c].paid <= Total(AmountsOf(Counted(InvoiceOf[c])))
          /\ call[c].pc \in {"credit", "update"} =>
                call[c].paid <= Total(AmountsOf(Counted(InvoiceOf[c]) \ {SigOf[c]}))

\* The total of a set of transfers is a number, which a larger set does not
\* lessen, and which one more transfer increases by its amount.
LEMMA AmountsTotal ==
    ASSUME NEW T \in SUBSET Transfers, IsFiniteSet(T)
    PROVE  /\ Total(AmountsOf(T)) \in Nat
           /\ \A S \in SUBSET T : Total(AmountsOf(S)) <= Total(AmountsOf(T))
           /\ \A s \in T : Total(AmountsOf(T)) = Total(AmountsOf(T \ {s})) + AmountOf[s]
<1>1. \A S \in SUBSET T : AmountsOf(S) \in [S -> Nat]
    BY PaymentAssumption DEF AmountsOf
<1>2. Total(AmountsOf(T)) \in Nat
    BY <1>1, TotalType
<1>3. ASSUME NEW S \in SUBSET T
      PROVE  Total(AmountsOf(S)) <= Total(AmountsOf(T))
    <2>1. \A s \in S : AmountsOf(S)[s] <= AmountsOf(T)[s]
        BY PaymentAssumption DEF AmountsOf
    <2> QED BY <1>1, <2>1, TotalMonotone
<1>4. ASSUME NEW s \in T
      PROVE  Total(AmountsOf(T)) = Total(AmountsOf(T \ {s})) + AmountOf[s]
    <2> DEFINE S == T \ {s}
               f == AmountsOf(S)
               g == AmountsOf(T)
    <2>1. f \in [S -> Nat] /\ g \in [T -> Nat]
        BY <1>1
    <2>2. AmountOf[s] \in Nat /\ g[s] = AmountOf[s] /\ s \notin S /\ S \subseteq T
        BY PaymentAssumption DEF AmountsOf
    <2>3. \A y \in T \ {s} : g[y] = IF y \in S THEN f[y] ELSE 0
        BY DEF AmountsOf
    <2> HIDE DEF S, f, g
    <2>4. Total(g) = Total(f) + AmountOf[s]
        BY <2>1, <2>2, <2>3, TotalAdded
    <2> QED BY <2>4 DEF S, f, g
<1> QED BY <1>2, <1>3, <1>4

\* As long as payments are only added and calls only move on, what an invoice
\* may count only grows.
LEMMA CountedGrows ==
    ASSUME payments \subseteq payments',
           \A c \in Verifications : call'[c].pc \in BeforeSettling => call[c].pc \in BeforeSettling
    PROVE  \A i \in Invoices : Counted(i) \subseteq Counted(i)'
BY DEF Counted, ReceivedFor

\* The invariant of a step that only adds payments and lets calls move on, from
\* what it does to the invoices and to the calls that it does not leave alone.
LEMMA CountedKept ==
    ASSUME PaymentTypeOK, PaymentTypeOK', PaidIsCounted,
           payments \subseteq payments', IsFiniteSet(payments'),
           \A c \in Verifications : call'[c].pc \in BeforeSettling => call[c].pc \in BeforeSettling,
           \A i \in Invoices :
              \/ invoice'[i].paid = invoice[i].paid
              \/ invoice'[i].paid <= Total(AmountsOf(Counted(i)))',
           \A c \in Verifications :
              \/ call'[c] = call[c]
              \/ call'[c].inv = None
              \/ /\ call'[c].inv = InvoiceOf[c]
                 /\ call'[c].pc \notin {"settle", "credit", "update"}
              \/ /\ call'[c].inv = InvoiceOf[c]
                 /\ call'[c].pc = "settle"
                 /\ call'[c].paid <= Total(AmountsOf(Counted(InvoiceOf[c])))'
              \/ /\ call'[c].inv = InvoiceOf[c]
                 /\ call'[c].pc \in {"credit", "update"}
                 /\ call'[c].paid <= Total(AmountsOf(Counted(InvoiceOf[c]) \ {SigOf[c]}))'
    PROVE  PaidIsCounted'
<1>1. /\ \A i \in Invoices : Counted(i) \subseteq Counted(i)'
      /\ \A i \in Invoices : Counted(i)' \in SUBSET Transfers /\ IsFiniteSet(Counted(i)')
    <2>1. \A i \in Invoices : Counted(i)' \subseteq payments' /\ payments' \subseteq Transfers
        BY DEF PaymentTypeOK, Counted, ReceivedFor
    <2> QED BY <2>1, CountedGrows, FS_Subset
<1>2. ASSUME NEW i \in Invoices
      PROVE  /\ Total(AmountsOf(Counted(i))) \in Nat
             /\ Total(AmountsOf(Counted(i)))' \in Nat
             /\ Total(AmountsOf(Counted(i))) <= Total(AmountsOf(Counted(i)))'
    <2>1. Total(AmountsOf(Counted(i)))' = Total(AmountsOf(Counted(i)'))
        BY DEF AmountsOf
    <2>2. Counted(i) \in SUBSET Transfers /\ IsFiniteSet(Counted(i))
        BY <1>1, FS_Subset
    <2> QED BY <1>1, <2>1, <2>2, AmountsTotal
<1>3. ASSUME NEW i \in Invoices, NEW c \in Verifications
      PROVE  /\ Total(AmountsOf(Counted(i) \ {SigOf[c]})) \in Nat
             /\ Total(AmountsOf(Counted(i) \ {SigOf[c]}))' \in Nat
             /\ Total(AmountsOf(Counted(i) \ {SigOf[c]}))
                  <= Total(AmountsOf(Counted(i) \ {SigOf[c]}))'
    <2> DEFINE S == Counted(i) \ {SigOf[c]}
               T == Counted(i)' \ {SigOf[c]}
    <2>1. Total(AmountsOf(Counted(i) \ {SigOf[c]}))' = Total(AmountsOf(T))
        BY DEF AmountsOf
    <2>2. S \in SUBSET T /\ T \in SUBSET Transfers /\ S \in SUBSET Transfers
        BY <1>1
    <2>3. IsFiniteSet(T) /\ IsFiniteSet(S)
        BY <1>1, <2>2, FS_Subset, FS_Difference
    <2> HIDE DEF S, T
    <2>4. /\ Total(AmountsOf(S)) \in Nat /\ Total(AmountsOf(T)) \in Nat
          /\ Total(AmountsOf(S)) <= Total(AmountsOf(T))
        BY <2>2, <2>3, AmountsTotal
    <2> QED BY <2>1, <2>4 DEF S
<1>4. \A i \in Invoices : invoice'[i].paid <= Total(AmountsOf(Counted(i)))'
    <2>1. \A i \in Invoices : invoice[i].paid \in Nat
        BY DEF PaymentTypeOK, InvoiceType
    <2> QED BY <1>2, <2>1 DEF PaidIsCounted
<1>5. ASSUME NEW c \in Verifications, call'[c].inv # None
      PROVE  /\ call'[c].inv = InvoiceOf[c]
             /\ call'[c].pc = "settle" =>
                   call'[c].paid <= Total(AmountsOf(Counted(InvoiceOf[c])))'
             /\ call'[c].pc \in {"credit", "update"} =>
                   call'[c].paid <= Total(AmountsOf(Counted(InvoiceOf[c]) \ {SigOf[c]}))'
    <2>1. CASE call'[c] = call[c]
        <3>1. InvoiceOf[c] \in Invoices /\ call[c].paid \in Nat
            BY <1>5, <2>1 DEF PaymentTypeOK, CallType, PaidIsCounted
        <3>2. /\ Total(AmountsOf(Counted(InvoiceOf[c]))) \in Nat
              /\ Total(AmountsOf(Counted(InvoiceOf[c])))' \in Nat
              /\ Total(AmountsOf(Counted(InvoiceOf[c])))
                   <= Total(AmountsOf(Counted(InvoiceOf[c])))'
            BY <1>2, <3>1
        <3>3. /\ Total(AmountsOf(Counted(InvoiceOf[c]) \ {SigOf[c]})) \in Nat
              /\ Total(AmountsOf(Counted(InvoiceOf[c]) \ {SigOf[c]}))' \in Nat
              /\ Total(AmountsOf(Counted(InvoiceOf[c]) \ {SigOf[c]}))
                   <= Total(AmountsOf(Counted(InvoiceOf[c]) \ {SigOf[c]}))'
            BY <1>3, <3>1
        <3> QED BY <1>5, <2>1, <3>1, <3>2, <3>3 DEF PaidIsCounted
    <2> QED BY <1>5, <2>1
<1> QED BY <1>4, <1>5 DEF PaidIsCounted

\* A transfer of its own that a call has put on record, or found there, counts
\* for the invoice from the step that takes the call past the settlement.
LEMMA OwnTransferCounts ==
    ASSUME OneCallPerTransfer, NEW c \in Verifications, InvoiceOf[c] \in Invoices,
           SigOf[c] \in payments, call[c].pc \notin BeforeSettling
    PROVE  SigOf[c] \in Counted(InvoiceOf[c])
<1>1. InvoiceOf[c] # None
    BY PaymentAssumption
<1>2. \A d \in Verifications : SigOf[d] = SigOf[c] /\ InvoiceOf[d] = InvoiceOf[c] => d = c
    BY <1>1 DEF OneCallPerTransfer
<1> QED BY <1>2 DEF Counted, ReceivedFor

\* While a call has yet to settle, its transfer does not count.
LEMMA OwnTransferWaits ==
    ASSUME NEW c \in Verifications, call[c].pc \in BeforeSettling
    PROVE  SigOf[c] \notin Counted(InvoiceOf[c])
BY DEF Counted

\* The steps of a call keep what an invoice may count.
LEMMA CallStepCounts ==
    ASSUME OneCallPerTransfer, IInv, PaidIsCounted, NEW c \in Verifications, CallStep(c)
    PROVE  PaidIsCounted'
<1>0. IInv' /\ PaymentTypeOK /\ PaymentTypeOK'
    BY CallStepKeeps DEF IInv
<1> USE <1>0
<1>1. /\ call[c] \in CallType /\ call[c].paid \in Nat
      /\ SigOf[c] \in Transfers /\ AmountOf[SigOf[c]] \in Nat
      /\ call[c].inv # None => InvoiceOf[c] \in Invoices /\ call[c].inv = InvoiceOf[c]
    BY PaymentAssumption DEF PaymentTypeOK, CallType, PaidIsCounted
<1>2. IsFiniteSet(payments) /\ \A i \in Invoices : invoice[i].paid \in Nat
    BY DEF PaidIsCounted, PaymentTypeOK, InvoiceType
<1>3. ASSUME NEW p \in CallPcs, GotoPay(c, p), p \notin BeforeSettling
      PROVE  /\ \A d \in Verifications : call'[d].pc \in BeforeSettling => call[d].pc \in BeforeSettling
             /\ call'[c].pc = p /\ call'[c].inv = call[c].inv /\ call'[c].paid = call[c].paid
             /\ \A d \in Verifications \ {c} : call'[d] = call[d]
    BY <1>3 DEF GotoPay, PaymentTypeOK, CallType
<1>4. CASE Lookup(c)
    <2>1. /\ \A d \in Verifications : call'[d].pc \in BeforeSettling => call[d].pc \in BeforeSettling
          /\ \A d \in Verifications \ {c} : call'[d] = call[d]
          /\ call'[c].inv = call[c].inv /\ call'[c].pc \in {"done", "read"}
        BY <1>4 DEF Lookup, GotoPay, PaymentTypeOK, CallType, BeforeSettling
    <2> QED BY <1>1, <1>2, <1>4, <2>1, CountedKept DEF Lookup
<1>5. CASE ReadInvoice(c)
    <2>1. /\ call'[c].pc = "settle"
          /\ \A d \in Verifications \ {c} : call'[d] = call[d]
          /\ \/ call'[c].inv = None
             \/ /\ InvoiceOf[c] \in Invoices
                /\ call'[c].inv = InvoiceOf[c]
                /\ call'[c].paid = invoice[InvoiceOf[c]].paid
        BY <1>5, PaymentAssumption DEF ReadInvoice, PaymentTypeOK, CallType
    <2>2. \A d \in Verifications : call'[d].pc \in BeforeSettling <=> call[d].pc \in BeforeSettling
        BY <1>5, <2>1 DEF ReadInvoice, BeforeSettling
    <2>3. \A i \in Invoices : Total(AmountsOf(Counted(i)))' = Total(AmountsOf(Counted(i)))
        <3>1. \A i \in Invoices : Counted(i)' = Counted(i)
            BY <1>5, <2>2 DEF ReadInvoice, Counted, ReceivedFor
        <3> QED BY <3>1 DEF AmountsOf
    <2>4. \/ call'[c].inv = None
          \/ /\ call'[c].inv = InvoiceOf[c]
             /\ call'[c].paid <= Total(AmountsOf(Counted(InvoiceOf[c])))'
        BY <2>1, <2>3 DEF PaidIsCounted
    <2> QED BY <1>2, <1>5, <2>1, <2>2, <2>4, CountedKept DEF ReadInvoice
<1>6. CASE Settle(c) \/ SettleReplay(c)
    <2>1. PICK p \in {"credit", "done"} : GotoPay(c, p)
        BY <1>6 DEF Settle, SettleReplay
    <2>2. p \in CallPcs /\ p \notin BeforeSettling /\ call[c].pc = "settle"
        BY <1>6, <2>1 DEF CallPcs, BeforeSettling, Settle, SettleReplay
    <2>3. /\ \A d \in Verifications : call'[d].pc \in BeforeSettling => call[d].pc \in BeforeSettling
          /\ call'[c].pc = p /\ call'[c].inv = call[c].inv /\ call'[c].paid = call[c].paid
          /\ \A d \in Verifications \ {c} : call'[d] = call[d]
        BY <1>3, <2>1, <2>2
    <2>4. /\ payments \subseteq payments' /\ SigOf[c] \in payments' /\ IsFiniteSet(payments')
        BY <1>2, <1>6, FS_AddElement DEF Settle, SettleReplay
    <2> DEFINE i == InvoiceOf[c]
               Old == Counted(i)
               New == Counted(i)'
    <2>5. i \in Invoices =>
             /\ Old \subseteq New \ {SigOf[c]} /\ SigOf[c] \in New
             /\ New \in SUBSET Transfers /\ IsFiniteSet(New)
        <3> HAVE i \in Invoices
        <3>1. Old \subseteq New
            BY <2>3, <2>4, CountedGrows
        <3>2. SigOf[c] \notin Old
            BY <2>2, OwnTransferWaits DEF BeforeSettling
        <3>3. SigOf[c] \in New
            <4>1. i # None /\ call'[c].pc \notin BeforeSettling
                BY <2>2, <2>3, PaymentAssumption
            <4>2. \A d \in Verifications : SigOf[d] = SigOf[c] /\ InvoiceOf[d] = i => d = c
                BY <4>1 DEF OneCallPerTransfer
            <4> QED BY <2>4, <4>1, <4>2 DEF Counted, ReceivedFor
        <3>4. New \subseteq payments' /\ payments' \subseteq Transfers
            BY DEF Counted, ReceivedFor, PaymentTypeOK
        <3> QED BY <2>4, <3>1, <3>2, <3>3, <3>4, FS_Subset
    <2>6. i \in Invoices =>
             /\ Total(AmountsOf(New)) = Total(AmountsOf(New \ {SigOf[c]})) + AmountOf[SigOf[c]]
             /\ Total(AmountsOf(Old)) <= Total(AmountsOf(New \ {SigOf[c]}))
             /\ Total(AmountsOf(Old)) \in Nat /\ Total(AmountsOf(New)) \in Nat
             /\ Total(AmountsOf(New \ {SigOf[c]})) \in Nat
        <3> HIDE DEF i, Old, New
        <3> HAVE i \in Invoices
        <3>1. New \ {SigOf[c]} \in SUBSET Transfers /\ IsFiniteSet(New \ {SigOf[c]})
            BY <2>5, FS_Difference
        <3>2. Old \in SUBSET Transfers /\ IsFiniteSet(Old)
            BY <2>5, <3>1, FS_Subset
        <3> QED BY <2>5, <3>1, <3>2, AmountsTotal
    <2>7. i \in Invoices =>
             /\ Total(AmountsOf(Counted(i)))' = Total(AmountsOf(New))
             /\ Total(AmountsOf(Counted(i) \ {SigOf[c]}))' = Total(AmountsOf(New \ {SigOf[c]}))
        BY DEF AmountsOf
    <2>8. call[c].inv # None =>
             call[c].paid <= Total(AmountsOf(Counted(i) \ {SigOf[c]}))'
        <3>1. call[c].inv # None => i \in Invoices /\ call[c].paid <= Total(AmountsOf(Old))
            BY <1>1, <2>2 DEF PaidIsCounted
        <3> HIDE DEF i, Old, New
        <3> QED BY <1>1, <2>6, <2>7, <3>1
    <2>9. \A j \in Invoices :
             \/ invoice'[j].paid = invoice[j].paid
             \/ invoice'[j].paid <= Total(AmountsOf(Counted(j)))'
        <3>1. CASE SettleReplay(c) \/ call[c].inv = None
            BY <1>6, <3>1 DEF Settle, SettleReplay, InvoiceAfter
        <3>2. CASE Settle(c) /\ call[c].inv # None
            <4>1. i \in Invoices /\ call[c].inv = i
                BY <1>1, <3>2
            <4>2. \/ Expire(i) \/ Receive(i, invoice[i].paid + AmountOf[SigOf[c]])
                BY <3>2, <4>1 DEF Settle, InvoiceAfter
            <4>3. \A j \in Invoices \ {i} : invoice'[j] = invoice[j]
                BY <4>2 DEF Expire, Receive, PaymentTypeOK
            <4>4. invoice'[i].paid \in {invoice[i].paid, invoice[i].paid + AmountOf[SigOf[c]]}
                BY <4>1, <4>2 DEF Expire, Receive, PaymentTypeOK, InvoiceType
            <4>5. invoice[i].paid <= Total(AmountsOf(Old))
                BY <4>1 DEF PaidIsCounted
            <4> HIDE DEF i, Old, New
            <4>6. \/ invoice'[i].paid = invoice[i].paid
                  \/ invoice'[i].paid <= Total(AmountsOf(New))
                BY <1>1, <1>2, <2>6, <4>1, <4>4, <4>5
            <4> QED BY <2>7, <4>1, <4>3, <4>6
        <3> QED BY <1>6, <3>1, <3>2
    <2> HIDE DEF Old, New
    <2>10. \A d \in Verifications \ {c} : call'[d] = call[d]
        BY <2>3
    <2>11. \/ call'[c].inv = None
           \/ call'[c].inv = InvoiceOf[c] /\ call'[c].pc \notin {"settle", "credit", "update"}
           \/ /\ call'[c].inv = InvoiceOf[c]
              /\ call'[c].pc \in {"credit", "update"}
              /\ call'[c].paid <= Total(AmountsOf(Counted(InvoiceOf[c]) \ {SigOf[c]}))'
        BY <1>1, <2>1, <2>3, <2>8
    <2> QED BY <2>3, <2>4, <2>9, <2>10, <2>11, CountedKept
<1>7. CASE RecordCredit(c)
    <2>1. PICK p \in {"done", "update"} : GotoPay(c, p)
        BY <1>7 DEF RecordCredit
    <2>2. p \in CallPcs /\ p \notin BeforeSettling /\ call[c].pc = "credit"
        BY <1>7, <2>1 DEF CallPcs, BeforeSettling, RecordCredit
    <2>3. /\ \A d \in Verifications : call'[d].pc \in BeforeSettling => call[d].pc \in BeforeSettling
          /\ call'[c].pc = p /\ call'[c].inv = call[c].inv /\ call'[c].paid = call[c].paid
          /\ \A d \in Verifications \ {c} : call'[d] = call[d]
        BY <1>3, <2>1, <2>2
    <2>4. \A d \in Verifications : call'[d].pc \in BeforeSettling <=> call[d].pc \in BeforeSettling
        BY <2>2, <2>3 DEF BeforeSettling
    <2>5. Counted(InvoiceOf[c])' = Counted(InvoiceOf[c])
        BY <1>7, <2>4 DEF RecordCredit, Counted, ReceivedFor
    <2>6. call[c].inv # None =>
             call[c].paid <= Total(AmountsOf(Counted(InvoiceOf[c]) \ {SigOf[c]}))'
        BY <2>2, <2>5 DEF PaidIsCounted, AmountsOf
    <2>7. \/ call'[c].inv = None
          \/ call'[c].inv = InvoiceOf[c] /\ call'[c].pc \notin {"settle", "credit", "update"}
          \/ /\ call'[c].inv = InvoiceOf[c]
             /\ call'[c].pc \in {"credit", "update"}
             /\ call'[c].paid <= Total(AmountsOf(Counted(InvoiceOf[c]) \ {SigOf[c]}))'
        BY <1>1, <2>1, <2>3, <2>6
    <2> QED BY <1>2, <1>7, <2>3, <2>7, CountedKept DEF RecordCredit
<1>8. CASE UpdateInvoice(c)
    <2>1. GotoPay(c, "done") /\ "done" \in CallPcs /\ "done" \notin BeforeSettling
        BY <1>8 DEF UpdateInvoice, CallPcs, BeforeSettling
    <2>2. /\ \A d \in Verifications : call'[d].pc \in BeforeSettling => call[d].pc \in BeforeSettling
          /\ call'[c].pc = "done" /\ call'[c].inv = call[c].inv
          /\ \A d \in Verifications \ {c} : call'[d] = call[d]
        BY <1>3, <2>1
    <2> DEFINE i == InvoiceOf[c]
               Now == Counted(i)
    <2>3. /\ call[c].pc = "update" /\ call[c].inv = i /\ i \in Invoices
          /\ SigOf[c] \in payments /\ call[c].pc \notin BeforeSettling
        BY <1>1, <1>8 DEF UpdateInvoice, IInv, CallsHaveSettled, BeforeSettling
    <2>4. SigOf[c] \in Now
        BY <2>3, OwnTransferCounts
    <2>5. Now \in SUBSET Transfers /\ IsFiniteSet(Now)
        <3>1. Now \subseteq payments
            BY DEF Counted, ReceivedFor
        <3> QED BY <1>2, <3>1, FS_Subset DEF PaymentTypeOK
    <2>6. Total(AmountsOf(Counted(i)))' = Total(AmountsOf(Now))
        <3>1. \A d \in Verifications : call'[d].pc \in BeforeSettling <=> call[d].pc \in BeforeSettling
            BY <2>2, <2>3 DEF BeforeSettling
        <3>2. Counted(i)' = Now
            BY <1>8, <3>1 DEF UpdateInvoice, Counted, ReceivedFor
        <3> QED BY <3>2 DEF AmountsOf
    <2>7. call[c].paid <= Total(AmountsOf(Now \ {SigOf[c]}))
        BY <1>1, <2>3, PaymentAssumption DEF PaidIsCounted
    <2>8. Expire(i) \/ Receive(i, call[c].paid + AmountOf[SigOf[c]])
        BY <1>8, <2>3 DEF UpdateInvoice
    <2>9. \A j \in Invoices \ {i} : invoice'[j] = invoice[j]
        BY <2>8 DEF Expire, Receive, PaymentTypeOK
    <2>10. invoice'[i].paid \in {invoice[i].paid, call[c].paid + AmountOf[SigOf[c]]}
        BY <2>3, <2>8 DEF Expire, Receive, PaymentTypeOK, InvoiceType
    <2> HIDE DEF i, Now
    <2>11. /\ Total(AmountsOf(Now)) = Total(AmountsOf(Now \ {SigOf[c]})) + AmountOf[SigOf[c]]
           /\ Total(AmountsOf(Now \ {SigOf[c]})) \in Nat
        <3>1. Now \ {SigOf[c]} \in SUBSET Transfers /\ IsFiniteSet(Now \ {SigOf[c]})
            BY <2>5, FS_Difference
        <3> QED BY <2>4, <2>5, <3>1, AmountsTotal
    <2>12. call[c].paid + AmountOf[SigOf[c]] <= Total(AmountsOf(Now))
        BY <1>1, <2>7, <2>11
    <2>13. \A j \in Invoices :
             \/ invoice'[j].paid = invoice[j].paid
             \/ invoice'[j].paid <= Total(AmountsOf(Counted(j)))'
        BY <2>6, <2>9, <2>10, <2>12
    <2>14. call'[c].inv = InvoiceOf[c] /\ call'[c].pc \notin {"settle", "credit", "update"}
        BY <2>2, <2>3 DEF i
    <2> QED BY <1>2, <1>8, <2>2, <2>13, <2>14, CountedKept DEF UpdateInvoice
<1>9. CASE Abort(c)
    <2>1. GotoPay(c, "done") /\ "done" \in CallPcs /\ "done" \notin BeforeSettling
        BY <1>9 DEF Abort, CallPcs, BeforeSettling
    <2>2. /\ \A d \in Verifications : call'[d].pc \in BeforeSettling => call[d].pc \in BeforeSettling
          /\ call'[c].pc = "done" /\ call'[c].inv = call[c].inv
          /\ \A d \in Verifications \ {c} : call'[d] = call[d]
        BY <1>3, <2>1
    <2> QED BY <1>1, <1>2, <1>9, <2>2, CountedKept DEF Abort
<1> QED BY <1>4, <1>5, <1>6, <1>7, <1>8, <1>9 DEF CallStep

\* The clock and the sweep over expired invoices leave every amount alone.
LEMMA SweepCounts ==
    ASSUME IInv, PaidIsCounted,
           \/ \E i \in Invoices : PassExpiry(i) \/ SweepInvoice(i)
           \/ ScanExpired \/ AbortSweep
    PROVE  PaidIsCounted'
<1>1. PaymentTypeOK /\ PaymentTypeOK'
    BY SweepKeeps DEF IInv
<1>2. UNCHANGED <<payments, call>>
    BY DEF PassExpiry, SweepInvoice, ScanExpired, AbortSweep
<1>3. \A i \in Invoices : invoice'[i].paid = invoice[i].paid
    BY <1>1 DEF PassExpiry, SweepInvoice, ScanExpired, AbortSweep, Expire, PaymentTypeOK, InvoiceType
<1> QED BY <1>1, <1>2, <1>3, CountedKept DEF PaidIsCounted

\* However calls race, die or read a stale invoice, and whichever invoice the
\* sweep expires, an invoice is never recorded as paid with more than the
\* transfers received for it, provided that no transfer is submitted for the
\* same invoice twice (verifyAndProcessPayment, settle_payment_atomic and
\* updateInvoiceStatus; Payments_replay shows that the proviso is needed).
THEOREM PaidBacked == OneCallPerTransfer => (PaymentSpec => []PaidIsBacked)
<1> SUFFICES ASSUME OneCallPerTransfer
             PROVE  PaymentSpec => []PaidIsBacked
    OBVIOUS
<1>1. PaymentInit => PaidIsCounted
    <2> SUFFICES ASSUME PaymentInit PROVE PaidIsCounted
        OBVIOUS
    <2>1. IsFiniteSet(payments) /\ \A i \in Invoices : Counted(i) = {}
        BY FS_EmptySet DEF PaymentInit, Counted, ReceivedFor
    <2>2. Total(AmountsOf({})) \in Nat
        BY FS_EmptySet, AmountsTotal
    <2>3. /\ \A i \in Invoices : invoice[i].paid = 0
          /\ \A c \in Verifications : call[c].inv = None
        BY DEF PaymentInit
    <2>4. \A i \in Invoices : invoice[i].paid <= Total(AmountsOf(Counted(i)))
        <3>1. ASSUME NEW n \in Nat PROVE 0 <= n
            OBVIOUS
        <3> QED BY <2>1, <2>2, <2>3, <3>1
    <2> QED BY <2>1, <2>3, <2>4 DEF PaidIsCounted
<1>2. IInv /\ PaidIsCounted /\ PaymentNext => PaidIsCounted'
    BY CallStepCounts, SweepCounts DEF PaymentNext
<1>3. IInv /\ PaidIsCounted /\ UNCHANGED paymentVars => PaidIsCounted'
    <2> SUFFICES ASSUME IInv, PaidIsCounted, UNCHANGED paymentVars PROVE PaidIsCounted'
        OBVIOUS
    <2>1. PaymentTypeOK /\ PaymentTypeOK'
        BY DEF IInv, PaymentTypeOK, paymentVars
    <2> QED BY <2>1, CountedKept DEF PaidIsCounted, paymentVars
<1>4. IInv /\ PaidIsCounted => PaidIsBacked
    <2> SUFFICES ASSUME IInv, PaidIsCounted, NEW i \in Invoices
                 PROVE  invoice[i].paid <= Total([s \in ReceivedFor(i) |-> AmountOf[s]])
        BY DEF PaidIsBacked, IInv
    <2>1. Counted(i) \in SUBSET ReceivedFor(i)
        BY DEF Counted
    <2>2. ReceivedFor(i) \in SUBSET Transfers /\ IsFiniteSet(ReceivedFor(i))
        <3>1. ReceivedFor(i) \subseteq payments
            BY DEF ReceivedFor
        <3> QED BY <3>1, FS_Subset DEF IInv, PaymentTypeOK, PaidIsCounted
    <2>3. Total(AmountsOf(Counted(i))) <= Total(AmountsOf(ReceivedFor(i)))
        BY <2>1, <2>2, AmountsTotal
    <2>4. invoice[i].paid <= Total(AmountsOf(Counted(i))) /\ invoice[i].paid \in Nat
        BY DEF PaidIsCounted, IInv, PaymentTypeOK, InvoiceType
    <2>5. Total(AmountsOf(ReceivedFor(i))) \in Nat /\ Total(AmountsOf(Counted(i))) \in Nat
        <3>1. Counted(i) \in SUBSET Transfers /\ IsFiniteSet(Counted(i))
            BY <2>1, <2>2, FS_Subset
        <3> QED BY <2>2, <3>1, AmountsTotal
    <2>6. invoice[i].paid <= Total(AmountsOf(ReceivedFor(i)))
        BY <2>3, <2>4, <2>5
    <2> QED BY <2>6 DEF AmountsOf
<1> QED BY <1>1, <1>2, <1>3, <1>4, Invariance, PTL DEF PaymentSpec
===============================================================================
