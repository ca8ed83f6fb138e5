--------------------------- MODULE WithdrawalProofs ---------------------------
(***************************************************************************)
(* Theorems about Withdrawals, for any set of calls and any faults.        *)
(***************************************************************************)
EXTENDS Withdrawals, TotalsProofs, TLAPS

\* The tables of statuses and of update steps, spelled out.
LEMMA Tables ==
    /\ \A p \in Updates : AfterUpdate[p] \in CallPcs
    /\ Updates = {"BUILDING", "AWAITING_SIGNATURE", "SUBMITTED", "CONFIRMING", "FAILED"}
    /\ Statuses = {"REQUESTED", "VALIDATING", "BUILDING", "AWAITING_SIGNATURE",
                   "SIGNED", "SUBMITTED", "CONFIRMING", "CONFIRMED", "FAILED",
                   "REJECTED", "EXPIRED", "CANCELLED"}
<1>1. Updates = {"BUILDING", "AWAITING_SIGNATURE", "SUBMITTED", "CONFIRMING", "FAILED"}
    BY DEF Updates, AfterUpdate
<1>2. Statuses = {"REQUESTED", "VALIDATING", "BUILDING", "AWAITING_SIGNATURE",
                   "SIGNED", "SUBMITTED", "CONFIRMING", "CONFIRMED", "FAILED",
                   "REJECTED", "EXPIRED", "CANCELLED"}
    BY DEF Statuses, ValidTransitions
<1>3. \A p \in Updates : AfterUpdate[p] \in CallPcs
    BY <1>1 DEF CallPcs, AfterUpdate
<1> QED BY <1>1, <1>2, <1>3

\* The initial state is well-typed.
LEMMA InitType == Init => TypeOK
BY CallsAssumption, Tables DEF Init, TypeOK, RowType, ChainType, CallType, ReconType, IdleRecon,
   CallPcs, ReconPcs, Ages, MaybeCall, TxStates

-----------------------------------------------------------------------------
(***************************************************************************)
(* Types                                                                   *)
(***************************************************************************)
\* A call that moves on stays well-typed.
LEMMA GotoType ==
    ASSUME TypeOK, NEW c \in Calls, NEW p \in CallPcs, Goto(c, p)
    PROVE  call' \in [Calls -> CallType]
<1>1. call[c] \in CallType
    BY DEF TypeOK
<1>2. [call[c] EXCEPT !.pc = p, !.checked = FALSE] \in CallType
    BY <1>1 DEF CallType
<1> QED BY <1>2 DEF TypeOK, Goto

\* A call that goes to another pc keeps its row and its transaction.
LEMMA GotoIs ==
    ASSUME TypeOK, NEW c \in Calls, NEW p, Goto(c, p)
    PROVE  /\ call'[c].pc = p /\ call'[c].row = call[c].row /\ call'[c].sig = call[c].sig
           /\ \A d \in Calls \ {c} : call'[d] = call[d]
<1>1. call \in [Calls -> CallType] /\ call[c] \in CallType
    BY DEF TypeOK
<1> QED BY <1>1 DEF Goto, CallType

\* A call that is reserving goes on to the next statement, or leaves; at most it
\* inserts its row.
LEMMA ReserveMoves ==
    ASSUME TypeOK, NEW c \in Calls, SumDebits(c) \/ SumReserved(c) \/ InsertReservation(c)
    PROVE  /\ call[c].pc \in {"reserve", "sum", "insert"}
           /\ call'[c].pc \in {"BUILDING", "sum", "insert", "done"}
           /\ call'[c].sig = call[c].sig
           /\ \A d \in Calls \ {c} : call'[d] = call[d]
           /\ InsertRow(c) \/ UNCHANGED rows
           /\ UNCHANGED <<debits, missed, chain, recon>>
<1>1. call \in [Calls -> CallType] /\ call[c] \in CallType
    BY DEF TypeOK
<1>2. \/ \E p \in {"BUILDING", "done"} : Goto(c, p)
      \/ \E w : call' = [call EXCEPT ![c] = [@ EXCEPT !.pc = "BUILDING", !.row = w]]
      \/ \E p \in {"sum", "insert", "done"} : \E n :
            call' = [call EXCEPT ![c] = [@ EXCEPT !.pc = p, !.free = n]]
    BY DEF SumDebits, SumReserved, InsertReservation
<1>3. /\ call'[c].pc \in {"BUILDING", "sum", "insert", "done"}
      /\ call'[c].sig = call[c].sig
      /\ \A d \in Calls \ {c} : call'[d] = call[d]
    <2>1. CASE \E p \in {"BUILDING", "done"} : Goto(c, p)
        BY <2>1, GotoIs
    <2>2. CASE \E w : call' = [call EXCEPT ![c] = [@ EXCEPT !.pc = "BUILDING", !.row = w]]
        BY <1>1, <2>2 DEF CallType
    <2>3. CASE \E p \in {"sum", "insert", "done"} : \E n :
                call' = [call EXCEPT ![c] = [@ EXCEPT !.pc = p, !.free = n]]
        BY <1>1, <2>3 DEF CallType
    <2> QED BY <1>2, <2>1, <2>2, <2>3
<1> QED BY <1>3 DEF SumDebits, SumReserved, InsertReservation

\* So does one whose reservation goes on with a sum.
LEMMA SummedType ==
    ASSUME TypeOK, NEW c \in Calls, NEW p \in CallPcs, NEW n \in Int,
           call' = [call EXCEPT ![c] = [@ EXCEPT !.pc = p, !.free = n]]
    PROVE  call' \in [Calls -> CallType]
<1>1. call[c] \in CallType
    BY DEF TypeOK
<1>2. [call[c] EXCEPT !.pc = p, !.free = n] \in CallType
    BY <1>1 DEF CallType
<1> QED BY <1>2 DEF TypeOK

\* The sums of reserve_withdrawal_atomic, and what they overlook, are amounts.
LEMMA SumTypes ==
    ASSUME debits \in [Calls -> Nat], NEW u
    PROVE  /\ Debited(u) \in Nat /\ Reserved(u) \in Nat /\ Overlooked(u) \in Nat
           /\ IsFiniteSet(RowsOf(u)) /\ RowsOf(u) \subseteq Calls
<1>1. IsFiniteSet(RowsOf(u)) /\ RowsOf(u) \subseteq Calls
    BY CallsAssumption, FS_Subset DEF RowsOf
<1>2. \A w \in Calls : AmountOf[w] \in Nat /\ debits[w] \in Nat /\ debits[w] * AmountOf[w] \in Nat
    BY AmountsAssumption
<1> DEFINE D == [w \in RowsOf(u) |-> debits[w] * AmountOf[w]]
           R == [w \in RowsOf(u) |-> IF rows[w].status \in Reserving THEN AmountOf[w] ELSE 0]
           M == [w \in RowsOf(u) |-> IF w \in missed THEN AmountOf[w] ELSE 0]
<1>3. D \in [RowsOf(u) -> Nat] /\ R \in [RowsOf(u) -> Nat] /\ M \in [RowsOf(u) -> Nat]
    BY <1>1, <1>2
<1>4. Debited(u) = Total(D) /\ Reserved(u) = Total(R) /\ Overlooked(u) = Total(M)
    BY DEF Debited, Reserved, Overlooked
<1> HIDE DEF D, R, M
<1> QED BY <1>1, <1>3, <1>4, TotalType

\* So does the withdrawals table under each of the procedures: inserting,
LEMMA InsertType ==
    ASSUME TypeOK, NEW w \in Calls, InsertRow(w)
    PROVE  rows' \in [Calls -> RowType]
BY Tables DEF TypeOK, InsertRow, RowType

\* ... finalizing (and the ledger with it),
LEMMA FinalizeType ==
    ASSUME TypeOK, NEW w \in Calls, NEW s \in MaybeCall, FinalizeRow(w, s)
    PROVE  rows' \in [Calls -> RowType] /\ debits' \in [Calls -> Nat] /\ missed' \subseteq Calls
<1>1. rows[w] \in RowType
    BY DEF TypeOK
<1>2. [rows[w] EXCEPT !.status = "CONFIRMED", !.sig = s] \in RowType
    BY <1>1, Tables DEF RowType
<1>3. rows' \in [Calls -> RowType]
    BY <1>2 DEF TypeOK, FinalizeRow
<1>4. debits' \in [Calls -> Nat] /\ missed' \subseteq Calls
    BY DEF TypeOK, FinalizeRow
<1> QED BY <1>3, <1>4

\* ... releasing,
LEMMA ReleaseType ==
    ASSUME TypeOK, NEW w \in Calls, ReleaseRow(w)
    PROVE  rows' \in [Calls -> RowType]
BY Tables DEF TypeOK, ReleaseRow, RowType

\* ... and writing a status by updateWithdrawalStatus.
LEMMA WriteType ==
    ASSUME TypeOK, NEW w \in Calls, NEW status \in Statuses, NEW s \in MaybeCall,
           WriteStatus(w, status, s)
    PROVE  rows' \in [Calls -> RowType]
<1>1. rows[w] \in RowType
    BY DEF TypeOK
<1>2. [rows[w] EXCEPT !.status = status, !.sig = s] \in RowType
    BY <1>1 DEF RowType
<1>3. [rows EXCEPT ![w].status = status] \in [Calls -> RowType]
    BY DEF TypeOK, RowType
<1> QED BY <1>2, <1>3 DEF TypeOK, WriteStatus

\* A call that has built a transaction stays well-typed.
LEMMA BuiltType ==
    ASSUME TypeOK, NEW c \in Calls, NEW s \in Calls, Built(c, s)
    PROVE  call' \in [Calls -> CallType]
<1>1. call[c] \in CallType
    BY DEF TypeOK
<1>2. [call[c] EXCEPT !.pc = "AWAITING_SIGNATURE", !.sig = s] \in CallType
    BY <1>1, Tables DEF CallType, CallPcs, MaybeCall
<1> QED BY <1>2 DEF TypeOK, Built

\* The steps of a call keep the types of what they change.
LEMMA CallStepType ==
    ASSUME TypeOK, NEW c \in Calls, CallStep(c) \/ Crash(c)
    PROVE  TypeOK'
<1>0. /\ call[c] \in CallType /\ call[c].row \in Calls /\ call[c].sig \in MaybeCall
      /\ call \in [Calls -> CallType]
    BY DEF CallType, TypeOK
<1>1. CASE Lookup(c)
    BY <1>1, GotoType DEF Lookup, CallPcs, TypeOK
<1>2. CASE SumDebits(c) \/ SumReserved(c) \/ InsertReservation(c)
    <2>1. ASSUME NEW w \in WithKey(KeyOf[c]),
                 call' = [call EXCEPT ![c] = [@ EXCEPT !.pc = "BUILDING", !.row = w]]
          PROVE  call' \in [Calls -> CallType]
        <3>1. w \in Calls /\ "BUILDING" \in CallPcs
            BY Tables DEF WithKey, CallPcs
        <3>2. [call[c] EXCEPT !.pc = "BUILDING", !.row = w] \in CallType
            BY <1>0, <3>1 DEF CallType
        <3> QED BY <1>0, <2>1, <3>2
    <2>2. ASSUME NEW p \in {"BUILDING", "done"}, Goto(c, p)
          PROVE  call' \in [Calls -> CallType]
        <3>1. p \in CallPcs
            BY Tables DEF CallPcs
        <3> QED BY <2>2, <3>1, GotoType
    <2>3. CASE SumDebits(c)
        <3>1. Funds[UserOf[c]] - Debited(UserOf[c]) \in Int
            BY SumTypes, AmountsAssumption DEF TypeOK
        <3>2. call' = [call EXCEPT ![c] = [@ EXCEPT !.pc = "sum",
                                              !.free = Funds[UserOf[c]] - Debited(UserOf[c])]]
              => call' \in [Calls -> CallType]
            BY <3>1, SummedType DEF CallPcs
        <3>3. call' \in [Calls -> CallType]
            BY <2>1, <2>2, <2>3, <3>2 DEF SumDebits
        <3> QED BY <2>3, <3>3 DEF SumDebits, TypeOK
    <2>4. CASE SumReserved(c)
        <3>1. PICK p \in {"insert", "done"} :
                 call' = [call EXCEPT ![c] = [@ EXCEPT !.pc = p, !.free = 0]]
            BY <2>4 DEF SumReserved
        <3>2. p \in CallPcs /\ 0 \in Int
            BY DEF CallPcs
        <3>3. call' \in [Calls -> CallType]
            BY <3>1, <3>2, SummedType
        <3> QED BY <2>4, <3>3 DEF SumReserved, TypeOK
    <2>5. CASE InsertReservation(c)
        BY <2>2, <2>5, InsertType DEF InsertReservation, TypeOK
    <2> QED BY <1>2, <2>3, <2>4, <2>5
<1>3. CASE UpdateCheck(c)
    <2>1. CASE call' = [call EXCEPT ![c].checked = TRUE]
        <3>1. [call[c] EXCEPT !.checked = TRUE] \in CallType
            BY <1>0 DEF CallType
        <3>2. call' \in [Calls -> CallType]
            BY <1>0, <2>1, <3>1
        <3> QED BY <1>3, <3>2 DEF UpdateCheck, TypeOK
    <2>2. CASE Goto(c, "done")
        BY <1>3, <2>2, GotoType DEF UpdateCheck, CallPcs, TypeOK
    <2> QED BY <1>3, <2>1, <2>2 DEF UpdateCheck
<1>4. CASE UpdateWrite(c)
    <2>1. call[c].pc \in Updates /\ call[c].pc \in Statuses
        BY <1>4, Tables DEF UpdateWrite
    <2>2. call' \in [Calls -> CallType]
        BY <1>4, <2>1, GotoType, Tables DEF UpdateWrite, CallPcs
    <2>3. rows' \in [Calls -> RowType]
        BY <1>0, <1>4, <2>1, WriteType DEF UpdateWrite, TypeOK
    <2> QED BY <1>4, <2>2, <2>3 DEF UpdateWrite, TypeOK
<1>5. CASE Build(c)
    <2>1. call' \in [Calls -> CallType]
        BY <1>5, GotoType, BuiltType DEF Build, CallPcs
    <2>2. chain' \in [Calls -> ChainType]
        BY <1>5 DEF Build, TypeOK, ChainType, TxStates
    <2> QED BY <1>5, <2>1, <2>2 DEF Build, TypeOK
<1>6. CASE Sign(c)
    BY <1>6, GotoType, Tables DEF Sign, CallPcs, TypeOK
<1>7. CASE Submit(c)
    <2>1. call' \in [Calls -> CallType]
        BY <1>7, GotoType, Tables DEF Submit, CallPcs
    <2>2. chain' \in [Calls -> ChainType]
        BY <1>7 DEF Submit, Broadcast, TypeOK, ChainType, TxStates
    <2> QED BY <1>7, <2>1, <2>2 DEF Submit, TypeOK
<1>8. CASE Confirm(c)
    BY <1>8, GotoType DEF Confirm, CallPcs, TypeOK
<1>9. CASE Finalize(c)
    BY <1>0, <1>9, GotoType, FinalizeType DEF Finalize, CallPcs, TypeOK
<1>10. CASE Release(c)
    BY <1>0, <1>10, GotoType, ReleaseType, Tables DEF Release, CallPcs, TypeOK
<1>11. CASE Crash(c)
    BY <1>11, GotoType DEF Crash, CallPcs, TypeOK
<1> QED BY <1>1, <1>2, <1>3, <1>4, <1>5, <1>6, <1>7, <1>8, <1>9, <1>10, <1>11 DEF CallStep

\* So do the network and the clock ...
LEMMA WorldStepType ==
    ASSUME TypeOK, NEW x \in Calls, Land(x) \/ Die(x) \/ GrowOld(x)
    PROVE  TypeOK'
<1>1. CASE Land(x)
    BY <1>1 DEF Land, TypeOK, ChainType, TxStates
<1>2. CASE Die(x)
    BY <1>2 DEF Die, TypeOK, ChainType, TxStates
<1>3. CASE GrowOld(x)
    <2>1. rows' \in [Calls -> RowType]
        BY <1>3 DEF GrowOld, TypeOK, RowType, Ages
    <2>2. chain' \in [Calls -> ChainType]
        BY <1>3 DEF GrowOld, TypeOK, ChainType
    <2>3. recon' \in ReconType
        BY <1>3 DEF GrowOld, TypeOK, ReconType
    <2> QED BY <1>3, <2>1, <2>2, <2>3 DEF GrowOld, TypeOK
<1> QED BY <1>1, <1>2, <1>3

\* The states the reconciler moves to between rows are well-typed.
LEMMA ReconTypes ==
    ASSUME TypeOK
    PROVE  /\ IdleRecon \in ReconType
           /\ NextRow \in ReconType
           /\ recon.pc # "idle" => Thrown \in ReconType
<1>1. IdleRecon \in ReconType
    BY DEF IdleRecon, ReconType, ReconPcs, Ages, MaybeCall
<1>2. NextRow \in ReconType
    <2>1. recon \in ReconType
        BY DEF TypeOK
    <2>2. [recon.seen EXCEPT ![recon.row] = None] \in [Calls -> MaybeCall]
        BY <2>1 DEF ReconType, MaybeCall
    <2>3. recon.aged \ {recon.row} \in SUBSET Calls
        BY <2>1 DEF ReconType
    <2>4. "loop" \in ReconPcs /\ None \in MaybeCall /\ 0 \in Ages
        BY DEF ReconPcs, MaybeCall, Ages
    <2>5. /\ NextRow.pc = "loop" /\ NextRow.checked = FALSE
          /\ NextRow.todo = recon.todo
          /\ NextRow.row = None /\ NextRow.age = 0
          /\ NextRow.seen = [recon.seen EXCEPT ![recon.row] = None]
          /\ NextRow.aged = recon.aged \ {recon.row}
        BY <2>1 DEF NextRow, ReconType
    <2> QED BY <2>1, <2>2, <2>3, <2>4, <2>5 DEF NextRow, ReconType
<1> QED BY <1>1, <1>2 DEF Thrown

\* ... and the reconciler.
LEMMA ReconStepType ==
    ASSUME TypeOK, ReconStep \/ ReconCrash
    PROVE  TypeOK'
<1>0. /\ recon.seen \in [Calls -> MaybeCall] /\ recon.row \in MaybeCall
      /\ recon.todo \in SUBSET Calls
    BY DEF TypeOK, ReconType
<1>11. CASE SkipBatch
    BY <1>11 DEF SkipBatch, vars, TypeOK
<1>1. CASE ScanRows
    <2>1. \A w \in Calls : rows[w].sig \in MaybeCall
        BY DEF TypeOK, RowType
    <2> DEFINE found == {w \in Calls : rows[w].status \in Scanned}
               sigs  == [w \in Calls |-> IF w \in found THEN rows[w].sig ELSE None]
    <2>2. found \in SUBSET Calls /\ sigs \in [Calls -> MaybeCall]
        BY <2>1 DEF MaybeCall
    <2>3. recon' = [IdleRecon EXCEPT !.pc = "loop", !.todo = found, !.seen = sigs]
        BY <1>1 DEF ScanRows
    <2> HIDE DEF found, sigs
    <2>4. IdleRecon \in ReconType /\ "loop" \in ReconPcs
        BY ReconTypes DEF ReconPcs
    <2>5. recon' \in ReconType
        BY <2>2, <2>3, <2>4 DEF ReconType
    <2> QED BY <1>1, <2>5 DEF ScanRows, TypeOK
<1>2. CASE EndBatch \/ ReconCrash
    BY <1>2, ReconTypes DEF EndBatch, ReconCrash, TypeOK
<1>3. CASE ParseFails \/ ReconFinalizeFails
    BY <1>3, ReconTypes DEF ParseFails, ReconFinalizeFails, TypeOK
<1>4. CASE ReconReleaseFails
    <2>1. rows' \in [Calls -> RowType]
        <3>1. CASE UNCHANGED rows
            BY <3>1 DEF TypeOK
        <3>2. CASE recon.row \in Calls /\ ReleaseRow(recon.row)
            BY <3>2, ReleaseType
        <3>3. CASE recon.row \notin Calls /\ ReleaseRow(recon.row)
            BY <3>3 DEF ReleaseRow, TypeOK
        <3> QED BY <1>4, <3>1, <3>2, <3>3 DEF ReconReleaseFails
    <2>2. recon' \in ReconType
        BY <1>4 DEF ReconReleaseFails, TypeOK, ReconType, ReconPcs
    <2> QED BY <1>4, <2>1, <2>2 DEF ReconReleaseFails, TypeOK
<1>5. CASE ReconUpdateCheck
    <2>1. recon' \in ReconType
        BY <1>5, ReconTypes DEF ReconUpdateCheck, TypeOK, ReconType, ReconPcs
    <2> QED BY <1>5, <2>1 DEF ReconUpdateCheck, TypeOK
<1>6. CASE ReconUpdateWrite
    <2>1. recon' \in ReconType
        BY <1>6, ReconTypes DEF ReconUpdateWrite
    <2>2. rows' \in [Calls -> RowType]
        <3>1. CASE UNCHANGED rows
            BY <3>1 DEF TypeOK
        <3>2. CASE recon.row \in Calls /\ WriteStatus(recon.row, "FAILED", None)
            BY <3>2, WriteType, Tables DEF MaybeCall
        <3>3. CASE recon.row \notin Calls /\ WriteStatus(recon.row, "FAILED", None)
            BY <3>3 DEF WriteStatus, TypeOK
        <3> QED BY <1>6, <3>1, <3>2, <3>3 DEF ReconUpdateWrite
    <2> QED BY <1>6, <2>1, <2>2 DEF ReconUpdateWrite, TypeOK
<1>7. ASSUME NEW w \in Calls, TakeRow(w)
      PROVE  TypeOK'
    <2>1. recon' \in ReconType
        BY <1>0, <1>7 DEF TakeRow, TypeOK, ReconType, ReconPcs, RowType, MaybeCall, Ages
    <2> QED BY <1>7, <2>1 DEF TakeRow, TypeOK
<1>8. ASSUME NEW w \in Calls, ParseTx(w)
      PROVE  TypeOK'
    <2>1. recon' \in ReconType
        BY <1>8, ReconTypes DEF ParseTx, TypeOK, ReconType, ReconPcs
    <2> QED BY <1>8, <2>1 DEF ParseTx, TypeOK
<1>9. ASSUME NEW w \in Calls, ReconFinalize(w)
      PROVE  TypeOK'
    BY <1>0, <1>9, ReconTypes, FinalizeType DEF ReconFinalize, TypeOK
<1>10. ASSUME NEW w \in Calls, ReconRelease(w)
       PROVE  TypeOK'
    BY <1>10, ReconTypes, ReleaseType DEF ReconRelease, TypeOK
<1> QED BY <1>1, <1>2, <1>3, <1>4, <1>5, <1>6, <1>7, <1>8, <1>9, <1>10, <1>11
        DEF ReconStep, ReconRow

\* Every state of the pipeline is well-typed, whatever the faults.
THEOREM TypeCorrect == Spec => []TypeOK
<1>1. TypeOK /\ UNCHANGED vars => TypeOK'
    BY DEF TypeOK, vars
<1>2. TypeOK /\ Next => TypeOK'
    BY CallStepType, WorldStepType, ReconStepType DEF Next
<1> QED BY <1>1, <1>2, InitType, PTL DEF Spec

-----------------------------------------------------------------------------
(***************************************************************************)
(* Every finalize is backed by a transaction: the inductive invariant.     *)
(***************************************************************************)
\* What no step may do: give a built transaction to another row, or take a
\* landed one off the chain.
Sticks ==
    /\ \A c \in Calls : call[c].sig # None =>
          call'[c].sig = call[c].sig /\ call'[c].row = call[c].row
    /\ \A s \in Calls : Landed(s) => Landed(s)'

\* Under such a step a transaction's row stays its row, and the parts of the
\* invariant about state that does not change are kept.
LEMMA CarriesSticks ==
    ASSUME IInv, Sticks, NEW s \in MaybeCall, NEW w \in Calls, s # None, Carries(s, w)
    PROVE  Carries(s, w)'
BY DEF Sticks, Carries

\* A step that leaves the table and the ledger alone keeps their invariants.
LEMMA RowsFrame ==
    ASSUME IInv, Sticks, UNCHANGED <<rows, debits>>
    PROVE  (RowsNameTheirTransaction /\ ConfirmedIsBacked /\ DebitIsBacked)'
<1>1. \A w \in Calls : rows[w].sig \in MaybeCall
    BY DEF IInv, TypeOK, RowType
<1>2. RowsNameTheirTransaction'
    BY <1>1, CarriesSticks DEF IInv, RowsNameTheirTransaction
<1>3. ConfirmedIsBacked'
    BY <1>1 DEF IInv, ConfirmedIsBacked, Sticks, MaybeCall
<1>4. DebitIsBacked'
    BY CallsAssumption, CarriesSticks DEF IInv, DebitIsBacked, Sticks, MaybeCall
<1> QED BY <1>2, <1>3, <1>4

\* A step that leaves the reconciler alone keeps the batch's invariant.
LEMMA BatchFrame ==
    ASSUME IInv, Sticks, UNCHANGED recon
    PROVE  BatchKnowsItsTransactions'
<1>1. \A w \in Calls : recon.seen[w] \in MaybeCall
    BY DEF IInv, TypeOK, ReconType
<1>2. \A w \in Calls : recon.seen[w] # None => Carries(recon.seen[w], w)'
    BY <1>1, CarriesSticks DEF IInv, BatchKnowsItsTransactions
<1> QED BY <1>2 DEF IInv, BatchKnowsItsTransactions, Sticks

\* Writing a status that is not CONFIRMED, and no signature but one of the
\* row's own.
LEMMA RowsWritten ==
    ASSUME IInv, Sticks, UNCHANGED debits,
           \A w \in Calls :
              /\ \/ rows'[w].sig = rows[w].sig
                 \/ rows'[w].sig \in Calls /\ Carries(rows[w].sig, w)'
              /\ rows'[w].status = "CONFIRMED" =>
                    rows[w].status = "CONFIRMED" /\ rows'[w].sig = rows[w].sig
    PROVE  (RowsNameTheirTransaction /\ ConfirmedIsBacked /\ DebitIsBacked)'
<1>1. \A w \in Calls : rows[w].sig \in MaybeCall
    BY DEF IInv, TypeOK, RowType
<1>2. RowsNameTheirTransaction'
    <2>1. ASSUME NEW w \in Calls, rows'[w].sig # None, rows'[w].sig = rows[w].sig
          PROVE  Carries(rows[w].sig, w)'
        BY <1>1, <2>1, CarriesSticks DEF IInv, RowsNameTheirTransaction
    <2> QED BY <2>1 DEF RowsNameTheirTransaction
<1>3. ConfirmedIsBacked'
    BY <1>1 DEF IInv, ConfirmedIsBacked, Sticks, MaybeCall
<1>4. DebitIsBacked'
    BY CallsAssumption, CarriesSticks DEF IInv, DebitIsBacked, Sticks, MaybeCall
<1> QED BY <1>2, <1>3, <1>4

\* Finalizing a row with a landed transaction of its own keeps them backed.
LEMMA RowFinalized ==
    ASSUME IInv, Sticks, NEW w \in Calls, NEW s \in Calls,
           FinalizeRow(w, s), Landed(s)', Carries(s, w)'
    PROVE  (RowsNameTheirTransaction /\ ConfirmedIsBacked /\ DebitIsBacked)'
<1>1. \A v \in Calls : rows[v].sig \in MaybeCall /\ rows[v] \in RowType
    BY DEF IInv, TypeOK, RowType
<1>2. rows'[w].status = "CONFIRMED" /\ rows'[w].sig = s
    BY <1>1 DEF IInv, TypeOK, FinalizeRow, RowType
<1>3. debits'[w] = 1
    BY DEF IInv, TypeOK, DebitIsBacked, FinalizeRow
<1>4. \A v \in Calls \ {w} : rows'[v] = rows[v] /\ debits'[v] = debits[v]
    BY DEF IInv, TypeOK, FinalizeRow
<1>5. RowsNameTheirTransaction'
    BY <1>1, <1>2, <1>4, CarriesSticks DEF IInv, RowsNameTheirTransaction
<1>6. ConfirmedIsBacked'
    BY <1>1, <1>2, <1>3, <1>4, CallsAssumption DEF IInv, ConfirmedIsBacked, Sticks, MaybeCall
<1>7. DebitIsBacked'
    BY <1>3, <1>4, CallsAssumption, CarriesSticks DEF IInv, DebitIsBacked, Sticks, MaybeCall
<1> QED BY <1>5, <1>6, <1>7

\* Moving on to the next row, or ending the batch, keeps the batch's invariant.
LEMMA NextRowKeeps ==
    ASSUME IInv, Sticks, recon' \in {NextRow, IdleRecon, Thrown}
    PROVE  BatchKnowsItsTransactions'
<1>1. \A w \in Calls : recon.seen[w] \in MaybeCall
    BY DEF IInv, TypeOK, ReconType
<1>2. recon \in ReconType
    BY DEF IInv, TypeOK
<1>3. CASE recon' = NextRow
    <2>1. recon'.pc = "loop"
        BY <1>2, <1>3 DEF NextRow, ReconType
    <2>2. \A w \in Calls : recon'.seen[w] \in {recon.seen[w], None}
        BY <1>2, <1>3 DEF NextRow, ReconType
    <2>3. \A w \in Calls : recon'.seen[w] # None => Carries(recon.seen[w], w)'
        BY <1>1, <2>2, CarriesSticks DEF IInv, BatchKnowsItsTransactions
    <2> QED BY <2>1, <2>3 DEF BatchKnowsItsTransactions
<1>4. CASE recon' = IdleRecon
    BY <1>4 DEF IdleRecon, BatchKnowsItsTransactions
<1> QED BY <1>3, <1>4 DEF Thrown

\* Apart from the building of a transaction, the chain changes only the state
\* of those that exist and have not landed.
ChainMoves ==
    \A s \in Calls : chain[s].state \in {"none", "landed"} =>
                         chain'[s].state = chain[s].state

\* A call that moves on without building keeps its transaction; it may
\* finalize only one that has landed.
LEMMA CallMoved ==
    ASSUME IInv, NEW c \in Calls, NEW p \in CallPcs, Goto(c, p),
           ChainMoves,
           p \in BeforeBuild => call[c].pc \in BeforeBuild,
           p \in AfterBuild => call[c].pc \in AfterBuild,
           p = "finalize" => Landed(call[c].sig)
    PROVE  Sticks /\ CallsKnowTheirTransaction'
<1>1. call \in [Calls -> CallType] /\ call[c] \in CallType
    BY DEF IInv, TypeOK
<1>2. /\ call'[c].pc = p /\ call'[c].row = call[c].row /\ call'[c].sig = call[c].sig
      /\ \A d \in Calls \ {c} : call'[d] = call[d]
    BY <1>1 DEF Goto, CallType
<1>3. Sticks
    BY <1>2 DEF Sticks, Landed, ChainMoves
<1>4. \A d \in Calls \ {c} :
         /\ call'[d].pc \in BeforeBuild => call'[d].sig = None /\ chain'[d].state = "none"
         /\ call'[d].pc \in AfterBuild => call'[d].sig \in Calls
         /\ call'[d].pc = "finalize" => Landed(call[d].sig)'
    BY <1>2 DEF IInv, CallsKnowTheirTransaction, Landed, AfterBuild, ChainMoves
<1>5. /\ p \in BeforeBuild => call'[c].sig = None /\ chain'[c].state = "none"
      /\ p \in AfterBuild => call'[c].sig \in Calls
      /\ p = "finalize" => Landed(call[c].sig)'
    BY <1>2 DEF IInv, CallsKnowTheirTransaction, Landed, AfterBuild, ChainMoves
<1> QED BY <1>2, <1>3, <1>4, <1>5 DEF CallsKnowTheirTransaction

\* A step that leaves the calls alone keeps theirs.
LEMMA CallsFrame ==
    ASSUME IInv, ChainMoves, UNCHANGED call
    PROVE  Sticks /\ CallsKnowTheirTransaction'
<1>1. Sticks
    BY DEF Sticks, ChainMoves, Landed
<1>2. CallsKnowTheirTransaction'
    BY <1>1 DEF IInv, CallsKnowTheirTransaction, ChainMoves, Landed, AfterBuild
<1> QED BY <1>1, <1>2

\* Inserting, releasing or updating a row confirms nothing.
LEMMA RowReleased ==
    ASSUME IInv, Sticks, UNCHANGED debits, NEW w \in Calls,
           \/ InsertRow(w) \/ ReleaseRow(w) \/ UNCHANGED rows
           \/ \E status \in Statuses \ {"CONFIRMED"}, s \in MaybeCall :
                 /\ WriteStatus(w, status, s)
                 /\ status = "CONFIRMING" => s \in Calls /\ Carries(s, w)'
    PROVE  (RowsNameTheirTransaction /\ ConfirmedIsBacked /\ DebitIsBacked)'
<1>1. rows \in [Calls -> RowType]
    BY DEF IInv, TypeOK
<1>2. CASE InsertRow(w) \/ ReleaseRow(w) \/ UNCHANGED rows
    BY <1>1, <1>2, RowsWritten DEF InsertRow, ReleaseRow, RowType
<1>3. CASE \E status \in Statuses \ {"CONFIRMED"}, s \in MaybeCall :
                 /\ WriteStatus(w, status, s)
                 /\ status = "CONFIRMING" => s \in Calls /\ Carries(s, w)'
    <2>1. PICK status \in Statuses \ {"CONFIRMED"}, s \in MaybeCall :
                 /\ WriteStatus(w, status, s)
                 /\ status = "CONFIRMING" => s \in Calls /\ Carries(s, w)'
        BY <1>3
    <2>2. /\ rows'[w].status = status
          /\ rows'[w].sig = IF status = "CONFIRMING" THEN s ELSE rows[w].sig
          /\ \A v \in Calls \ {w} : rows'[v] = rows[v]
        BY <1>1, <2>1 DEF WriteStatus, RowType
    <2>3. status = "CONFIRMING" => rows'[w].sig \in Calls /\ Carries(rows[w].sig, w)'
        BY <2>1, <2>2 DEF Carries
    <2> QED BY <2>1, <2>2, <2>3, RowsWritten
<1> QED BY <1>2, <1>3

\* Every step of a call keeps the invariant ...
LEMMA CallStepKeeps ==
    ASSUME IInv, NEW c \in Calls, CallStep(c) \/ Crash(c)
    PROVE  IInv'
<1>0. TypeOK' /\ TypeOK
    BY CallStepType DEF IInv
<1>1. call[c] \in CallType /\ call[c].pc \in CallPcs /\ call[c].row \in Calls
      /\ call[c].sig \in MaybeCall
    BY <1>0 DEF TypeOK, CallType
<1> USE <1>0 DEF IInv
<1>2. CASE Lookup(c)
    <2>1. ChainMoves
        BY <1>2 DEF Lookup, ChainMoves
    <2>2. Sticks /\ CallsKnowTheirTransaction'
        BY <1>2, <2>1, CallMoved DEF Lookup, CallPcs, BeforeBuild, AfterBuild
    <2> QED BY <1>2, <2>2, RowsFrame, BatchFrame DEF Lookup
<1>3. CASE SumDebits(c) \/ SumReserved(c) \/ InsertReservation(c)
    <2>1. /\ call[c].pc \in BeforeBuild /\ call'[c].pc \notin AfterBuild
          /\ call'[c].sig = call[c].sig /\ \A d \in Calls \ {c} : call'[d] = call[d]
          /\ InsertRow(c) \/ UNCHANGED rows
          /\ UNCHANGED <<debits, chain, recon>>
        BY <1>3, ReserveMoves DEF BeforeBuild, AfterBuild
    <2>2. call[c].sig = None /\ chain[c].state = "none"
        BY <2>1 DEF CallsKnowTheirTransaction
    <2>3. Sticks
        BY <2>1, <2>2 DEF Sticks, Landed
    <2>4. CallsKnowTheirTransaction'
        BY <2>1, <2>2 DEF CallsKnowTheirTransaction, Landed, AfterBuild
    <2>5. (RowsNameTheirTransaction /\ ConfirmedIsBacked /\ DebitIsBacked)'
        BY <2>1, <2>3, RowReleased
    <2> QED BY <2>1, <2>3, <2>4, <2>5, BatchFrame
<1>4. CASE UpdateCheck(c)
    <2>1. ChainMoves
        BY <1>4 DEF UpdateCheck, ChainMoves
    <2>2. Sticks /\ CallsKnowTheirTransaction'
        <3>1. CASE call' = [call EXCEPT ![c].checked = TRUE]
            <4>1. \A d \in Calls : /\ call'[d].pc = call[d].pc /\ call'[d].sig = call[d].sig
                                   /\ call'[d].row = call[d].row
                BY <3>1 DEF TypeOK, CallType
            <4> QED BY <1>4, <4>1 DEF UpdateCheck, Sticks, CallsKnowTheirTransaction, Landed
        <3>2. CASE Goto(c, "done")
            BY <1>4, <2>1, <3>2, CallMoved DEF CallPcs, BeforeBuild, AfterBuild
        <3> QED BY <1>4, <3>1, <3>2 DEF UpdateCheck
    <2> QED BY <1>4, <2>2, RowsFrame, BatchFrame DEF UpdateCheck
<1>5. CASE UpdateWrite(c)
    <2>1. ChainMoves
        BY <1>5 DEF UpdateWrite, ChainMoves
    <2>2. Sticks /\ CallsKnowTheirTransaction'
        <3>1. CASE Goto(c, "done")
            BY <1>5, <2>1, <3>1, CallMoved DEF CallPcs, BeforeBuild, AfterBuild
        <3>2. CASE Goto(c, AfterUpdate[call[c].pc])
            <4>1. \/ call[c].pc = "BUILDING" /\ AfterUpdate[call[c].pc] = "build"
                  \/ call[c].pc = "AWAITING_SIGNATURE" /\ AfterUpdate[call[c].pc] = "sign"
                  \/ call[c].pc = "SUBMITTED" /\ AfterUpdate[call[c].pc] = "submit"
                  \/ call[c].pc = "CONFIRMING" /\ AfterUpdate[call[c].pc] = "confirm"
                  \/ call[c].pc = "FAILED" /\ AfterUpdate[call[c].pc] = "done"
                BY <1>5, Tables DEF UpdateWrite, AfterUpdate
            <4>2. AfterUpdate[call[c].pc] \in CallPcs
                BY <1>5, Tables DEF UpdateWrite
            <4> DEFINE p == AfterUpdate[call[c].pc]
            <4>3. /\ p \in BeforeBuild => call[c].pc \in BeforeBuild
                  /\ p \in AfterBuild => call[c].pc \in AfterBuild
                  /\ p # "finalize"
                BY <4>1 DEF BeforeBuild, AfterBuild
            <4> HIDE DEF p
            <4> QED BY <2>1, <3>2, <4>2, <4>3, CallMoved DEF p
        <3> QED BY <1>5, <3>1, <3>2 DEF UpdateWrite
    <2>3. call[c].pc = "CONFIRMING" =>
             call[c].sig \in Calls /\ Carries(call[c].sig, call[c].row)
        BY <1>1 DEF CallsKnowTheirTransaction, AfterBuild, Carries
    <2>4. call[c].pc \in Statuses \ {"CONFIRMED"}
        BY <1>5, Tables DEF UpdateWrite
    <2>5. call[c].pc = "CONFIRMING" =>
             call[c].sig \in Calls /\ \E d \in Calls : call'[d].row = call[c].row
                                                 /\ call'[d].sig = call[c].sig
        BY <1>1, <2>2, <2>3, CallsAssumption DEF Sticks
    <2>6. (RowsNameTheirTransaction /\ ConfirmedIsBacked /\ DebitIsBacked)'
        <3>1. CASE UNCHANGED rows
            BY <1>1, <1>5, <2>2, <3>1, RowReleased DEF UpdateWrite
        <3>2. CASE WriteStatus(call[c].row, call[c].pc, call[c].sig)
            <4>1. PICK v \in Calls, t \in MaybeCall, status \in Statuses \ {"CONFIRMED"} :
                     /\ WriteStatus(v, status, t)
                     /\ status = "CONFIRMING" => t \in Calls /\ Carries(t, v)'
                BY <1>1, <2>4, <2>5, <3>2 DEF Carries
            <4> QED BY <1>5, <2>2, <4>1, RowReleased DEF UpdateWrite
        <3> QED BY <1>5, <3>1, <3>2 DEF UpdateWrite
    <2> QED BY <1>5, <2>2, <2>6, BatchFrame DEF UpdateWrite
<1>6. CASE Sign(c)
    <2>1. ChainMoves
        BY <1>6 DEF Sign, ChainMoves
    <2>2. Sticks /\ CallsKnowTheirTransaction'
        BY <1>6, <2>1, CallMoved, Tables DEF Sign, CallPcs, BeforeBuild, AfterBuild
    <2> QED BY <1>6, <2>2, RowsFrame, BatchFrame DEF Sign
<1>7. CASE Submit(c)
    <2>1. ChainMoves
        BY <1>7 DEF Submit, Broadcast, Live, Landed, ChainMoves, TypeOK, ChainType
    <2>2. Sticks /\ CallsKnowTheirTransaction'
        BY <1>7, <2>1, CallMoved, Tables DEF Submit, CallPcs, BeforeBuild, AfterBuild
    <2> QED BY <1>7, <2>2, RowsFrame, BatchFrame DEF Submit
<1>8. CASE Confirm(c)
    <2>1. ChainMoves
        BY <1>8 DEF Confirm, ChainMoves
    <2>2. Sticks /\ CallsKnowTheirTransaction'
        BY <1>8, <2>1, CallMoved DEF Confirm, CallPcs, BeforeBuild, AfterBuild
    <2> QED BY <1>8, <2>2, RowsFrame, BatchFrame DEF Confirm
<1>9. CASE Finalize(c)
    <2>1. ChainMoves
        BY <1>9 DEF Finalize, ChainMoves
    <2>2. Sticks /\ CallsKnowTheirTransaction'
        BY <1>9, <2>1, CallMoved DEF Finalize, CallPcs, BeforeBuild, AfterBuild
    <2>3. call[c].sig \in Calls /\ Landed(call[c].sig)
        BY <1>9 DEF Finalize, CallsKnowTheirTransaction, AfterBuild
    <2>4. \E w \in Calls, s \in Calls :
             w = call[c].row /\ s = call[c].sig /\ Landed(s)' /\ Carries(s, w)'
        BY <1>1, <2>2, <2>3, CallsAssumption DEF Sticks, Carries
    <2>5. (RowsNameTheirTransaction /\ ConfirmedIsBacked /\ DebitIsBacked)'
        BY <1>9, <2>2, <2>4, RowFinalized, RowsFrame DEF Finalize
    <2> QED BY <1>9, <2>2, <2>5, BatchFrame DEF Finalize
<1>10. CASE Release(c)
    <2>1. ChainMoves
        BY <1>10 DEF Release, ChainMoves
    <2>2. Sticks /\ CallsKnowTheirTransaction'
        BY <1>10, <2>1, CallMoved, Tables DEF Release, CallPcs, BeforeBuild, AfterBuild
    <2>3. (RowsNameTheirTransaction /\ ConfirmedIsBacked /\ DebitIsBacked)'
        BY <1>1, <1>10, <2>2, RowReleased DEF Release
    <2> QED BY <1>10, <2>2, <2>3, BatchFrame DEF Release
<1>11. CASE Crash(c)
    <2>1. ChainMoves
        BY <1>11 DEF Crash, ChainMoves
    <2>2. Sticks /\ CallsKnowTheirTransaction'
        BY <1>11, <2>1, CallMoved DEF Crash, CallPcs, BeforeBuild, AfterBuild
    <2> QED BY <1>11, <2>2, RowsFrame, BatchFrame DEF Crash
<1>12. CASE Build(c)
    <2>1. CASE Goto(c, "done") /\ UNCHANGED chain
        <3>1. Sticks /\ CallsKnowTheirTransaction'
            BY <2>1, CallMoved DEF ChainMoves, CallPcs, BeforeBuild, AfterBuild
        <3> QED BY <1>12, <3>1, RowsFrame, BatchFrame DEF Build
    <2>2. CASE \E s \in Calls : Built(c, s) /\ (s = c \/ Live(s))
        <3>1. PICK s \in Calls : Built(c, s) /\ (s = c \/ Live(s))
            BY <2>2
        <3>2. /\ call'[c].pc = "AWAITING_SIGNATURE" /\ call'[c].sig = s
              /\ \A d \in Calls \ {c} : call'[d] = call[d]
            BY <1>1, <3>1 DEF Built, TypeOK, CallType
        <3>3. call[c].sig = None /\ chain[c].state = "none"
            BY <1>12 DEF Build, CallsKnowTheirTransaction, BeforeBuild
        <3>4. \A d \in Calls \ {c} : chain'[d].state = chain[d].state
            BY <1>12 DEF Build, TypeOK, ChainType
        <3>5. Sticks
            BY <3>2, <3>3, <3>4 DEF Sticks, Landed
        <3>6. CallsKnowTheirTransaction'
            BY <3>2, <3>3, <3>4, <3>5
               DEF CallsKnowTheirTransaction, BeforeBuild, AfterBuild, Sticks
        <3> QED BY <1>12, <3>5, <3>6, RowsFrame, BatchFrame DEF Build
    <2> QED BY <1>12, <2>1, <2>2 DEF Build
<1> QED BY <1>2, <1>3, <1>4, <1>5, <1>6, <1>7, <1>8, <1>9, <1>10, <1>11, <1>12
        DEF CallStep

\* ... and so does every step of the network and the clock ...
LEMMA WorldStepKeeps ==
    ASSUME IInv, NEW x \in Calls, Land(x) \/ Die(x) \/ GrowOld(x)
    PROVE  IInv'
<1>0. TypeOK' /\ TypeOK
    BY WorldStepType DEF IInv
<1> USE <1>0 DEF IInv
<1>1. ChainMoves /\ UNCHANGED call
    BY DEF Land, Die, GrowOld, Live, ChainMoves, TypeOK, ChainType
<1>2. Sticks /\ CallsKnowTheirTransaction'
    BY <1>1, CallsFrame
<1>3. CASE Land(x) \/ Die(x)
    BY <1>2, <1>3, RowsFrame, BatchFrame DEF Land, Die
<1>4. CASE GrowOld(x)
    <2>1. \A w \in Calls : rows'[w].status = rows[w].status /\ rows'[w].sig = rows[w].sig
        BY <1>4 DEF GrowOld, TypeOK, RowType
    <2>2. (RowsNameTheirTransaction /\ ConfirmedIsBacked /\ DebitIsBacked)'
        BY <1>2, <1>4, <2>1, RowsWritten DEF GrowOld
    <2>3. recon'.pc = recon.pc /\ recon'.row = recon.row /\ recon'.seen = recon.seen
        BY <1>4 DEF GrowOld, TypeOK, ReconType
    <2>4. \A w \in Calls : recon'.seen[w] # None => Carries(recon.seen[w], w)'
        BY <1>2, <2>3, CarriesSticks DEF BatchKnowsItsTransactions, TypeOK, ReconType
    <2>5. BatchKnowsItsTransactions'
        BY <1>2, <2>3, <2>4 DEF BatchKnowsItsTransactions, Sticks
    <2> QED BY <1>2, <2>2, <2>5
<1> QED BY <1>3, <1>4

\* A step that changes nothing keeps it, too ...
LEMMA StutterKeeps ==
    ASSUME IInv, UNCHANGED vars
    PROVE  IInv'
<1>1. TypeOK'
    BY DEF IInv, TypeOK, vars
<1>2. Sticks /\ CallsKnowTheirTransaction'
    BY CallsFrame DEF vars, ChainMoves
<1> QED BY <1>1, <1>2, RowsFrame, BatchFrame DEF IInv, vars

\* ... and of the reconciler ...
LEMMA ReconStepKeeps ==
    ASSUME IInv, ReconStep \/ ReconCrash
    PROVE  IInv'
<1>0. TypeOK' /\ TypeOK
    BY ReconStepType DEF IInv
<1> USE <1>0 DEF IInv
<1>1. recon \in ReconType /\ recon.row \in MaybeCall /\ recon.seen \in [Calls -> MaybeCall]
    BY DEF TypeOK, ReconType
<1>2. UNCHANGED <<chain, call>>
    BY DEF ReconStep, ReconCrash, ReconRow, SkipBatch, vars, ScanRows, EndBatch, ParseFails,
           ReconFinalizeFails, ReconReleaseFails, ReconUpdateCheck, ReconUpdateWrite,
           TakeRow, ParseTx, ReconFinalize, ReconRelease
<1>3. Sticks /\ CallsKnowTheirTransaction'
    BY <1>2, CallsFrame DEF ChainMoves
<1>4. CASE ScanRows
    <2>1. recon'.pc = "loop"
        BY <1>4 DEF ScanRows, IdleRecon
    <2>2. \A w \in Calls : recon'.seen[w] \in {rows[w].sig, None}
        BY <1>4 DEF ScanRows, IdleRecon
    <2>3. \A w \in Calls : rows[w].sig \in MaybeCall
        BY DEF TypeOK, RowType
    <2>4. \A w \in Calls : recon'.seen[w] # None => Carries(recon.seen[w], w)'
        BY <1>3, <1>4, <2>2, <2>3, CarriesSticks
           DEF ScanRows, RowsNameTheirTransaction, Carries
    <2>5. BatchKnowsItsTransactions'
        BY <2>1, <2>4 DEF BatchKnowsItsTransactions
    <2> QED BY <1>3, <1>4, <2>5, RowsFrame DEF ScanRows
<1>5. CASE EndBatch \/ ReconCrash \/ ParseFails \/ ReconFinalizeFails
    BY <1>3, <1>5, RowsFrame, NextRowKeeps
       DEF EndBatch, ReconCrash, ParseFails, ReconFinalizeFails
<1>6. ASSUME recon'.seen = recon.seen, recon'.pc \in {"loop", "release", "FAILED"}
      PROVE  BatchKnowsItsTransactions'
    <2>1. \A w \in Calls : recon'.seen[w] # None => Carries(recon.seen[w], w)'
        BY <1>1, <1>3, <1>6, CarriesSticks DEF BatchKnowsItsTransactions
    <2> QED BY <1>6, <2>1 DEF BatchKnowsItsTransactions
<1>7. CASE ReconReleaseFails
    <2>1. recon'.seen = recon.seen /\ recon'.pc = "FAILED"
        BY <1>1, <1>7 DEF ReconReleaseFails, ReconType
    <2>2. recon.row \notin Calls /\ ReleaseRow(recon.row) =>
             \A v \in Calls : rows'[v] = rows[v]
        BY DEF ReleaseRow, TypeOK
    <2>3. (RowsNameTheirTransaction /\ ConfirmedIsBacked /\ DebitIsBacked)'
        BY <1>3, <1>7, <2>2, RowReleased, RowsWritten, RowsFrame DEF ReconReleaseFails
    <2> QED BY <1>3, <1>6, <2>1, <2>3
<1>8. CASE ReconUpdateCheck
    <2>1. \/ recon'.seen = recon.seen /\ recon'.pc = "FAILED"
          \/ recon' = Thrown
        BY <1>1, <1>8 DEF ReconUpdateCheck, ReconType
    <2>2. BatchKnowsItsTransactions'
        BY <1>3, <1>6, <2>1, NextRowKeeps
    <2> QED BY <1>3, <1>8, <2>2, RowsFrame DEF ReconUpdateCheck
<1>9. CASE ReconUpdateWrite
    <2>1. BatchKnowsItsTransactions'
        BY <1>3, <1>9, NextRowKeeps DEF ReconUpdateWrite
    <2>2. recon.row \notin Calls /\ WriteStatus(recon.row, "FAILED", None) =>
             \A v \in Calls : rows'[v] = rows[v]
        BY DEF WriteStatus, TypeOK
    <2>3. "FAILED" \in Statuses \ {"CONFIRMED"} /\ None \in MaybeCall
        BY Tables DEF MaybeCall
    <2>4. (RowsNameTheirTransaction /\ ConfirmedIsBacked /\ DebitIsBacked)'
        <3>1. CASE UNCHANGED rows
            BY <1>3, <1>9, <3>1, RowsFrame DEF ReconUpdateWrite
        <3>2. CASE recon.row \in Calls /\ WriteStatus(recon.row, "FAILED", None)
            BY <1>3, <1>9, <2>3, <3>2, RowReleased DEF ReconUpdateWrite
        <3>3. CASE recon.row \notin Calls /\ WriteStatus(recon.row, "FAILED", None)
            BY <1>3, <1>9, <2>2, <3>3, RowsWritten DEF ReconUpdateWrite
        <3> QED BY <1>9, <3>1, <3>2, <3>3 DEF ReconUpdateWrite
    <2> QED BY <1>3, <2>1, <2>4
<1>10. ASSUME NEW w \in Calls, TakeRow(w)
       PROVE  IInv'
    <2>1. recon'.seen = recon.seen
        BY <1>1, <1>10 DEF TakeRow, ReconType
    <2>2. \/ recon'.pc \in {"loop", "release"}
          \/ recon'.pc = "parse" /\ recon'.row = w /\ recon.seen[w] # None
        BY <1>1, <1>10 DEF TakeRow, ReconType
    <2>3. \A v \in Calls : recon'.seen[v] # None => Carries(recon.seen[v], v)'
        BY <1>1, <1>3, <2>1, CarriesSticks DEF BatchKnowsItsTransactions
    <2>4. BatchKnowsItsTransactions'
        BY <1>1, <2>1, <2>2, <2>3 DEF BatchKnowsItsTransactions, MaybeCall
    <2> QED BY <1>3, <1>10, <2>4, RowsFrame DEF TakeRow
<1>11. ASSUME NEW w \in Calls, ParseTx(w)
       PROVE  IInv'
    <2>1. \/ /\ recon'.pc = "finalize" /\ Landed(recon.seen[w])
             /\ recon'.seen = recon.seen /\ recon'.row = w
          \/ recon'.pc = "release" /\ recon'.seen = recon.seen
          \/ recon' = NextRow
        BY <1>1, <1>11 DEF ParseTx, ReconType
    <2>2. BatchKnowsItsTransactions'
        <3>1. CASE recon' = NextRow
            BY <1>3, <3>1, NextRowKeeps
        <3>2. CASE recon'.pc = "release" /\ recon'.seen = recon.seen
            BY <1>6, <3>2
        <3>3. CASE /\ recon'.pc = "finalize" /\ Landed(recon.seen[w])
                   /\ recon'.seen = recon.seen /\ recon'.row = w
            <4>1. \A v \in Calls : recon'.seen[v] # None => Carries(recon.seen[v], v)'
                BY <1>1, <1>3, <3>3, CarriesSticks DEF BatchKnowsItsTransactions
            <4>2. recon.seen[w] \in Calls
                BY <1>11 DEF ParseTx, BatchKnowsItsTransactions
            <4> QED BY <1>3, <3>3, <4>1, <4>2 DEF BatchKnowsItsTransactions, Sticks
        <3> QED BY <2>1, <3>1, <3>2, <3>3
    <2> QED BY <1>3, <1>11, <2>2, RowsFrame DEF ParseTx
<1>12. ASSUME NEW w \in Calls, ReconFinalize(w)
       PROVE  IInv'
    <2>1. recon.seen[w] \in Calls /\ Landed(recon.seen[w]) /\ Carries(recon.seen[w], w)
        BY <1>12, CallsAssumption DEF ReconFinalize, BatchKnowsItsTransactions
    <2>2. \E s \in Calls : s = recon.seen[w] /\ Landed(s)' /\ Carries(s, w)'
        BY <1>2, <2>1 DEF Landed, Carries
    <2>3. (RowsNameTheirTransaction /\ ConfirmedIsBacked /\ DebitIsBacked)'
        BY <1>3, <1>12, <2>2, RowFinalized DEF ReconFinalize
    <2> QED BY <1>3, <1>12, <2>3, NextRowKeeps DEF ReconFinalize
<1>13. ASSUME NEW w \in Calls, ReconRelease(w)
       PROVE  IInv'
    <2>1. (RowsNameTheirTransaction /\ ConfirmedIsBacked /\ DebitIsBacked)'
        BY <1>3, <1>13, RowReleased DEF ReconRelease
    <2> QED BY <1>3, <1>13, <2>1, NextRowKeeps DEF ReconRelease
<1>14. CASE SkipBatch
    BY <1>14, StutterKeeps DEF SkipBatch
<1> QED BY <1>4, <1>5, <1>7, <1>8, <1>9, <1>10, <1>11, <1>12, <1>13, <1>14 DEF ReconStep, ReconRow

\* The invariant holds in the initial state and is kept by every step.
LEMMA InitInvariant == Init => IInv
<1> SUFFICES ASSUME Init PROVE IInv
    OBVIOUS
<1>1. TypeOK
    BY InitType
<1>2. /\ \A c \in Calls : call[c].pc = "idle" /\ call[c].sig = None /\ chain[c].state = "none"
      /\ \A w \in Calls : rows[w].sig = None /\ rows[w].status = "ABSENT" /\ debits[w] = 0
      /\ \A w \in Calls : recon.seen[w] = None
      /\ recon.pc = "idle"
    BY DEF Init, IdleRecon
<1> QED BY <1>1, <1>2 DEF IInv, CallsKnowTheirTransaction, RowsNameTheirTransaction,
        BatchKnowsItsTransactions, ConfirmedIsBacked, DebitIsBacked, AfterBuild

\* Every reachable state satisfies the inductive invariant.
THEOREM Invariance == Spec => []IInv
<1>1. IInv /\ Next => IInv'
    BY CallStepKeeps, WorldStepKeeps, ReconStepKeeps DEF Next
<1>2. IInv /\ UNCHANGED vars => IInv'
    BY StutterKeeps
<1> QED BY <1>1, <1>2, InitInvariant, PTL DEF Spec

\* Whatever faults occur, a CONFIRMED withdrawal names a transaction that is
\* on-chain and has exactly one DEBIT (finalize_withdrawal_atomic and its two
\* callers, executeWithdrawal and reconcileBatch).
THEOREM ConfirmedAreBacked == Spec => []ConfirmedIsBacked
<1>1. IInv => ConfirmedIsBacked
    BY DEF IInv
<1> QED BY <1>1, Invariance, PTL

\* Whatever faults occur, and however often a withdrawal is finalized, it is
\* debited at most once, and only for a transaction of its own on-chain.
THEOREM DebitsAreBacked == Spec => []DebitIsBacked
<1>1. IInv => DebitIsBacked
    BY DEF IInv
<1> QED BY <1>1, Invariance, PTL

-----------------------------------------------------------------------------
(***************************************************************************)
(* One DEBIT for each transfer, as long as no two calls are given the same *)
(* blockhash.                                                              *)
(***************************************************************************)
\* A call signs a transaction that nobody else has, and a row that is debited
\* names one.
OwnTransactions ==
    /\ \A c \in Calls : call[c].sig \in {None, c}
    /\ \A w \in Calls : debits[w] > 0 => rows[w].sig # None

\* In a step of a call only that call moves, and it keeps its transaction
\* unless it builds one.
LEMMA OneCallMoves ==
    ASSUME TypeOK, NEW c \in Calls, CallStep(c) \/ Crash(c)
    PROVE  /\ UNCHANGED recon
           /\ \A d \in Calls \ {c} : call'[d] = call[d]
           /\ call'[c].sig = call[c].sig \/ Build(c)
           /\ "twin" \notin Faults => call'[c].sig \in {call[c].sig, c}
<1>0. call \in [Calls -> CallType] /\ call[c] \in CallType
    BY DEF TypeOK
<1>1. CASE Lookup(c)
    BY <1>1, GotoIs DEF Lookup
<1>2. CASE SumDebits(c) \/ SumReserved(c) \/ InsertReservation(c)
    BY <1>2, ReserveMoves
<1>3. CASE UpdateCheck(c)
    <2>1. UNCHANGED recon
        BY <1>3 DEF UpdateCheck
    <2>2. CASE call' = [call EXCEPT ![c].checked = TRUE]
        BY <1>0, <2>1, <2>2 DEF CallType
    <2> QED BY <1>3, <2>1, <2>2, GotoIs DEF UpdateCheck
<1>4. CASE UpdateWrite(c)
    BY <1>4, GotoIs DEF UpdateWrite
<1>5. CASE Build(c)
    <2>1. UNCHANGED recon
        BY <1>5 DEF Build
    <2>2. CASE \E s \in Calls : Built(c, s) /\ ("twin" \notin Faults => s = c)
        BY <1>0, <1>5, <2>1, <2>2 DEF Built, CallType
    <2>3. CASE Goto(c, "done")
        BY <2>1, <2>3, GotoIs
    <2> QED BY <1>5, <2>2, <2>3 DEF Build
<1>6. CASE Sign(c) \/ Confirm(c) \/ Crash(c)
    BY <1>6, GotoIs DEF Sign, Confirm, Crash
<1>7. CASE Submit(c)
    BY <1>7, GotoIs DEF Submit
<1>8. CASE Finalize(c) \/ Release(c)
    BY <1>8, GotoIs DEF Finalize, Release
<1> QED BY <1>1, <1>2, <1>3, <1>4, <1>5, <1>6, <1>7, <1>8 DEF CallStep

\* A row that is debited keeps, or is given, a transaction.
LEMMA DebitedKeepTransaction ==
    ASSUME IInv, OwnTransactions, UNCHANGED debits,
           \A w \in Calls : rows'[w].sig # None \/ rows'[w].sig = rows[w].sig
    PROVE  \A w \in Calls : debits'[w] > 0 => rows'[w].sig # None
BY DEF OwnTransactions

\* Every step keeps the calls' transactions their own.
LEMMA OwnTransactionsKept ==
    ASSUME "twin" \notin Faults, IInv, OwnTransactions, Next
    PROVE  OwnTransactions'
<1> USE CallsAssumption
<1>0. /\ TypeOK /\ rows \in [Calls -> RowType] /\ debits \in [Calls -> Nat]
      /\ call \in [Calls -> CallType]
    BY DEF IInv, TypeOK
<1>1. ASSUME NEW w \in Calls, NEW s \in Calls, FinalizeRow(w, s)
      PROVE  \A v \in Calls : debits'[v] > 0 => rows'[v].sig # None
    <2>1. rows'[w].sig = s /\ \A v \in Calls \ {w} : rows'[v] = rows[v]
        BY <1>0, <1>1 DEF FinalizeRow, RowType
    <2>2. \A v \in Calls \ {w} : debits'[v] = debits[v]
        BY <1>0, <1>1 DEF FinalizeRow
    <2> QED BY <2>1, <2>2 DEF OwnTransactions
<1>2. ASSUME NEW w, ReleaseRow(w) \/ WriteStatus(w, "FAILED", None) \/ InsertRow(w)
      PROVE  \A v \in Calls : rows'[v].sig = rows[v].sig
    BY <1>0, <1>2 DEF ReleaseRow, WriteStatus, InsertRow, RowType
<1>3. ASSUME NEW c \in Calls, CallStep(c) \/ Crash(c)
      PROVE  OwnTransactions'
    <2>1. \A d \in Calls : call'[d].sig \in {None, d}
        BY <1>0, <1>3, OneCallMoves DEF OwnTransactions
    <2>2. CASE Finalize(c)
        <3>1. call[c].row \in Calls /\ call[c].sig \in Calls
            BY <1>0, <2>2 DEF Finalize, IInv, CallsKnowTheirTransaction, AfterBuild, CallType
        <3> QED BY <1>1, <2>1, <2>2, <3>1 DEF Finalize, OwnTransactions
    <2>3. CASE UpdateWrite(c)
        <3>1. call[c].row \in Calls /\ (call[c].pc = "CONFIRMING" => call[c].sig \in Calls)
            BY <1>0 DEF IInv, CallsKnowTheirTransaction, AfterBuild, CallType
        <3>2. UNCHANGED rows \/ WriteStatus(call[c].row, call[c].pc, call[c].sig)
            BY <2>3 DEF UpdateWrite
        <3> DEFINE w == call[c].row
        <3>3. WriteStatus(w, call[c].pc, call[c].sig) =>
                 /\ rows'[w].sig = IF call[c].pc = "CONFIRMING" THEN call[c].sig ELSE rows[w].sig
                 /\ \A v \in Calls \ {w} : rows'[v] = rows[v]
            BY <1>0, <3>1 DEF WriteStatus, RowType
        <3>4. \A v \in Calls : rows'[v].sig # None \/ rows'[v].sig = rows[v].sig
            BY <3>1, <3>2, <3>3
        <3> QED BY <2>1, <2>3, <3>4, DebitedKeepTransaction DEF UpdateWrite, OwnTransactions
    <2>4. CASE ~Finalize(c) /\ ~UpdateWrite(c)
        <3>1. UNCHANGED debits /\ \A w \in Calls : rows'[w].sig = rows[w].sig
            BY <1>2, <1>3, <2>4
               DEF CallStep, Lookup, SumDebits, SumReserved, InsertReservation, UpdateCheck,
                   Build, Sign, Submit, Confirm, Release, Crash
        <3> QED BY <2>1, <3>1, DebitedKeepTransaction DEF OwnTransactions
    <2> QED BY <2>2, <2>3, <2>4
<1>4. ASSUME NEW x \in Calls, Land(x) \/ Die(x) \/ GrowOld(x)
      PROVE  OwnTransactions'
    <2>1. CASE Land(x) \/ Die(x)
        BY <2>1 DEF Land, Die, OwnTransactions
    <2>2. CASE GrowOld(x)
        <3>1. rows' = [rows EXCEPT ![x].age = @ + 1] /\ UNCHANGED <<call, debits>>
            BY <2>2 DEF GrowOld
        <3>2. \A w \in Calls : rows'[w].sig = rows[w].sig
            BY <1>0, <3>1 DEF RowType
        <3> QED BY <3>1, <3>2 DEF OwnTransactions
    <2> QED BY <1>4, <2>1, <2>2
<1>5. CASE ReconStep \/ ReconCrash
    <2>1. UNCHANGED call
        BY <1>5
           DEF ReconStep, ReconCrash, ReconRow, SkipBatch, vars, ScanRows, EndBatch, ParseFails,
               ReconFinalizeFails, ReconReleaseFails, ReconUpdateCheck, ReconUpdateWrite,
               TakeRow, ParseTx, ReconFinalize, ReconRelease
    <2>2. CASE \E w \in Calls : ReconFinalize(w)
        <3>1. PICK w \in Calls : ReconFinalize(w)
            BY <2>2
        <3>2. recon.seen[w] \in Calls
            BY <3>1 DEF ReconFinalize, IInv, BatchKnowsItsTransactions
        <3> QED BY <1>1, <2>1, <3>1, <3>2 DEF ReconFinalize, OwnTransactions
    <2>3. CASE ~\E w \in Calls : ReconFinalize(w)
        <3>1. UNCHANGED debits /\ \A w \in Calls : rows'[w].sig = rows[w].sig
            BY <1>2, <1>5, <2>3
               DEF ReconStep, ReconCrash, ReconRow, SkipBatch, vars, ScanRows, EndBatch, ParseFails,
                   ReconFinalizeFails, ReconReleaseFails, ReconUpdateCheck, ReconUpdateWrite,
                   TakeRow, ParseTx, ReconRelease
        <3> QED BY <2>1, <3>1 DEF OwnTransactions
    <2> QED BY <2>2, <2>3
<1> QED BY <1>3, <1>4, <1>5 DEF Next

\* However many calls repeat a request or die, and whatever the network and the
\* database do, one transfer never pays for two withdrawals, unless two calls
\* were given the same blockhash (buildTransactionData; Withdrawals_twin shows
\* that then it does).
THEOREM OneDebitEach == "twin" \notin Faults => (Spec => []OneDebitPerTransfer)
<1> SUFFICES ASSUME "twin" \notin Faults
             PROVE  Spec => []OneDebitPerTransfer
    OBVIOUS
<1>1. Init => OwnTransactions
    BY DEF Init, OwnTransactions
<1>2. IInv /\ OwnTransactions /\ Next => OwnTransactions'
    BY OwnTransactionsKept
<1>3. OwnTransactions /\ UNCHANGED vars => OwnTransactions'
    BY DEF OwnTransactions, vars
<1>4. IInv /\ OwnTransactions => OneDebitPerTransfer
    <2> SUFFICES ASSUME IInv, OwnTransactions, NEW v \in Calls, NEW w \in Calls,
                        debits[v] > 0, debits[w] > 0, rows[v].sig = rows[w].sig
                 PROVE  v = w
        BY DEF OneDebitPerTransfer
    <2>1. PICK c \in Calls : call[c].row = v /\ call[c].sig = rows[v].sig
        BY DEF IInv, RowsNameTheirTransaction, Carries, OwnTransactions
    <2>2. PICK d \in Calls : call[d].row = w /\ call[d].sig = rows[w].sig
        BY DEF IInv, RowsNameTheirTransaction, Carries, OwnTransactions
    <2>3. rows[v].sig = c /\ rows[w].sig = d
        BY <2>1, <2>2 DEF OwnTransactions
    <2> QED BY <2>1, <2>2, <2>3
<1> QED BY <1>1, <1>2, <1>3, <1>4, Invariance, PTL DEF Spec

-----------------------------------------------------------------------------
(***************************************************************************)
(* NoOverdraft and TerminalIsFinal.  They rest on a row having one call,   *)
(* and on the reconciler releasing it only when that call is over, which   *)
(* is so as long as no call, and no batch, takes five minutes.             *)
(***************************************************************************)
\* Every request has an idempotency key of its own, or none.
OwnKeys == \A c, d \in Calls : c # d /\ KeyOf[c] # None => KeyOf[c] # KeyOf[d]

\* Statuses before the transfer is known to be broadcast, and after.
Early    == {"VALIDATING", "BUILDING", "AWAITING_SIGNATURE", "SUBMITTED"}
Underway == {"CONFIRMING", "CONFIRMED"}

\* A row goes through the statuses together with its call.
Follows(c) ==
    /\ call[c].row = c
    /\ call[c].pc \in {"idle", "reserve", "sum", "insert"} => rows[c].status = "ABSENT"
    /\ call[c].pc \in {"BUILDING", "build", "AWAITING_SIGNATURE", "sign", "SUBMITTED"}
          => rows[c].status \in Early
    /\ call[c].pc \in {"submit", "CONFIRMING"} => rows[c].status = "SUBMITTED"
    /\ call[c].pc \in {"confirm", "finalize"} => rows[c].status \in Underway
    /\ call[c].pc \in {"release", "FAILED"} => rows[c].status \in Early \cup {"FAILED"}
    /\ rows[c].status \in Early \cup Underway \cup {"ABSENT", "FAILED"}

\* A row that grows old has no call any more; it names a transaction from
\* CONFIRMING on, and only a confirmed one is debited.
InOrder(w) ==
    /\ rows[w].age > 0 => call[w].pc = "done" /\ rows[w].status # "ABSENT"
    /\ rows[w].sig # None => rows[w].status \in Underway \cup {"FAILED"}
    /\ rows[w].status \in Underway => rows[w].sig # None
    /\ debits[w] > 0 => rows[w].status = "CONFIRMED"

RowsFollowCalls == \A c \in Calls : Follows(c) /\ InOrder(c)

\* The batch finds a row as it has scanned it: with a transaction it is still
\* under way, and without one, if it was old by then, it has none since.
BatchIsFresh ==
    /\ recon.row \notin recon.todo
    /\ \A w \in Calls :
          /\ /\ recon.seen[w] # None
             /\ w \in recon.todo \/ (recon.row = w /\ recon.pc \notin {"release", "FAILED"})
             => rows[w].status \in Underway
          /\ /\ w \in recon.todo /\ recon.seen[w] = None
             /\ rows[w].age > 0 /\ (rows[w].age = 2 \/ w \notin recon.aged)
             => rows[w].status \in Early
          /\ recon.row = w => recon.age <= rows[w].age

\* What it releases is old, and not confirmed.
BatchReleasesOld ==
    recon.pc \in {"release", "FAILED"} =>
        /\ recon.row \in Calls
        /\ rows[recon.row].age > 0
        /\ rows[recon.row].status # "CONFIRMED"

OwnInv ==
    /\ RowsFollowCalls
    /\ BatchIsFresh
    /\ BatchReleasesOld

Stays(w) == rows'[w].status = rows[w].status /\ debits'[w] = debits[w]

\* What a step may do to a row: nothing, advance or release one that holds the
\* user's money, or confirm and debit one that is CONFIRMING ...
RowMoves(w) ==
    \/ Stays(w)
    \/ /\ rows[w].status \in Early \cup {"CONFIRMING"}
       /\ rows'[w].status \in Early \cup {"CONFIRMING", "FAILED"}
       /\ debits'[w] = debits[w]
    \/ /\ rows[w].status = "CONFIRMING" /\ debits[w] = 0
       /\ rows'[w].status = "CONFIRMED" /\ debits'[w] = 1

\* ... or insert it, which ends its call's reservation.
Inserts(c) ==
    /\ rows[c].status = "ABSENT" /\ rows'[c].status = "VALIDATING"
    /\ debits'[c] = debits[c]
    /\ call[c].pc = "insert" /\ call'[c].pc # "insert"

\* A step moves one row at most.
RowStep ==
    \/ \A w \in Calls : Stays(w)
    \/ \E c \in Calls :
          /\ RowMoves(c) \/ Inserts(c)
          /\ \A w \in Calls \ {c} : Stays(w)

\* What a step of call c leaves alone, and how it moves its own row.
MovesOwnRow(c) ==
    /\ \A w \in Calls \ {c} : rows'[w] = rows[w] /\ debits'[w] = debits[w]
    /\ rows'[c].age = rows[c].age
    /\ rows[c].status \in Underway => rows'[c].status \in Underway
    /\ RowMoves(c) \/ Inserts(c)

\* The types, without the operators that name them.
LEMMA Shapes ==
    ASSUME TypeOK
    PROVE  /\ rows \in [Calls -> RowType] /\ debits \in [Calls -> Nat]
           /\ call \in [Calls -> CallType] /\ recon \in ReconType
           /\ \A w \in Calls : /\ rows[w] \in RowType /\ rows[w].age \in 0 .. 2
                               /\ rows[w].sig \in MaybeCall
                               /\ call[w] \in CallType /\ call[w].sig \in MaybeCall
                               /\ debits[w] \in Nat
           /\ recon.todo \in SUBSET Calls /\ recon.aged \in SUBSET Calls
           /\ recon.row \in MaybeCall
           /\ recon.seen \in [Calls -> MaybeCall] /\ recon.age \in 0 .. 2
           /\ None \notin Calls
BY CallsAssumption DEF TypeOK, RowType, CallType, ReconType, Ages

\* A call that moves on alone, to where its row already is.
LEMMA CallMovesAlone ==
    ASSUME OwnInv, NEW c \in Calls, UNCHANGED <<rows, debits>>,
           call[c].pc # "done", Follows(c)'
    PROVE  MovesOwnRow(c) /\ InOrder(c)'
BY DEF OwnInv, RowsFollowCalls, InOrder, MovesOwnRow, RowMoves, Stays

\* A call and its row move together.
LEMMA CallMovesRow ==
    ASSUME OwnKeys, IInv, OwnInv, NEW c \in Calls, CallStep(c) \/ Crash(c)
    PROVE  /\ call[c].pc # "done"
           /\ MovesOwnRow(c)
           /\ Follows(c)' /\ InOrder(c)'
<1>0. TypeOK /\ call[c].row = c /\ Follows(c) /\ InOrder(c)
    BY DEF IInv, OwnInv, RowsFollowCalls, Follows
<1>1. /\ call \in [Calls -> CallType] /\ call[c] \in CallType
      /\ rows \in [Calls -> RowType] /\ rows[c] \in RowType
      /\ debits \in [Calls -> Nat] /\ debits[c] \in Nat
    BY <1>0, Shapes
<1>2. WithKey(KeyOf[c]) \subseteq {c}
    BY DEF WithKey, OwnKeys
<1>3. CASE Lookup(c)
    <2>1. call'[c].pc \in {"done", "reserve"} /\ call'[c].row = c
        BY <1>0, <1>3, GotoIs DEF Lookup
    <2>2. call[c].pc = "idle" /\ UNCHANGED <<rows, debits>>
        BY <1>3 DEF Lookup
    <2>3. Follows(c)'
        BY <1>0, <2>1, <2>2 DEF Follows
    <2> QED BY <2>2, <2>3, CallMovesAlone
<1>4. CASE SumDebits(c) \/ SumReserved(c)
    <2>1. call[c].pc \in {"reserve", "sum"} /\ UNCHANGED <<rows, debits>>
        BY <1>4 DEF SumDebits, SumReserved
    <2>2. WithKey(KeyOf[c]) = {}
        BY <1>0, <1>2, <2>1 DEF Follows, WithKey, Present
    <2>3. call'[c].pc \in {"sum", "insert", "done"} /\ call'[c].row = c
        <3>1. \/ Goto(c, "done")
              \/ \E p \in {"sum", "insert", "done"} : \E n :
                    call' = [call EXCEPT ![c] = [@ EXCEPT !.pc = p, !.free = n]]
            BY <1>4, <2>2 DEF SumDebits, SumReserved
        <3>2. ASSUME NEW p \in {"sum", "insert", "done"}, NEW n,
                     call' = [call EXCEPT ![c] = [@ EXCEPT !.pc = p, !.free = n]]
              PROVE  call'[c].pc = p /\ call'[c].row = c
            BY <1>0, <1>1, <3>2 DEF CallType
        <3> QED BY <1>0, <3>1, <3>2, GotoIs
    <2>4. Follows(c)'
        BY <1>0, <2>1, <2>3 DEF Follows
    <2> QED BY <2>1, <2>4, CallMovesAlone
<1>14. CASE InsertReservation(c)
    <2>1. call[c].pc = "insert" /\ rows[c].status = "ABSENT" /\ UNCHANGED debits
        BY <1>0, <1>14 DEF InsertReservation, Follows
    <2>2. call'[c].pc \in {"BUILDING", "done"} /\ call'[c].row = c
          /\ (call'[c].pc = "done" \/ InsertRow(c))
        BY <1>0, <1>14, GotoIs DEF InsertReservation
    <2>3. CASE InsertRow(c)
        <3>1. /\ rows'[c].status = "VALIDATING"
              /\ rows'[c].sig = rows[c].sig /\ rows'[c].age = rows[c].age
              /\ \A w \in Calls \ {c} : rows'[w] = rows[w]
            BY <1>1, <2>3 DEF InsertRow, RowType
        <3>2. MovesOwnRow(c)
            BY <2>1, <2>2, <3>1 DEF MovesOwnRow, Inserts, Underway
        <3>3. Follows(c)' /\ InOrder(c)'
            BY <1>0, <2>1, <2>2, <3>1 DEF Follows, InOrder, Early, Underway
        <3> QED BY <2>1, <3>2, <3>3
    <2>4. CASE UNCHANGED rows
        <3>1. Follows(c)'
            <4>1. CASE call'[c].pc = "done"
                BY <1>0, <2>2, <2>4, <4>1 DEF Follows
            <4>2. CASE InsertRow(c)
                BY <1>1, <2>1, <2>4, <4>2 DEF InsertRow, RowType
            <4> QED BY <2>2, <4>1, <4>2
        <3> QED BY <2>1, <2>4, <3>1, CallMovesAlone
    <2> QED BY <1>14, <2>3, <2>4 DEF InsertReservation
<1>5. CASE UpdateCheck(c)
    <2>1. call[c].pc # "done" /\ UNCHANGED <<rows, debits>>
        BY <1>5, Tables DEF UpdateCheck
    <2>2. call'[c].pc \in {call[c].pc, "done"} /\ call'[c].row = c
        <3>1. CASE call' = [call EXCEPT ![c].checked = TRUE]
            BY <1>0, <1>1, <3>1 DEF CallType
        <3> QED BY <1>0, <1>5, <3>1, GotoIs DEF UpdateCheck
    <2>3. Follows(c)'
        BY <1>0, <2>1, <2>2 DEF Follows
    <2> QED BY <2>1, <2>3, CallMovesAlone
<1>6. CASE UpdateWrite(c)
    <2>1. /\ call[c].pc \in {"BUILDING", "AWAITING_SIGNATURE", "SUBMITTED", "CONFIRMING", "FAILED"}
          /\ UNCHANGED debits
        BY <1>6, Tables DEF UpdateWrite
    <2>2. CASE Goto(c, "done") /\ UNCHANGED rows
        <3>1. call'[c].pc = "done" /\ call'[c].row = c
            BY <1>0, <2>2, GotoIs
        <3>2. Follows(c)'
            BY <1>0, <2>2, <3>1 DEF Follows
        <3> QED BY <2>1, <2>2, <3>2, CallMovesAlone
    <2>3. CASE WriteStatus(c, call[c].pc, call[c].sig)
        <3>1. /\ rows'[c].status = call[c].pc /\ rows'[c].age = rows[c].age
              /\ rows'[c].sig = IF call[c].pc = "CONFIRMING" THEN call[c].sig ELSE rows[c].sig
              /\ \A w \in Calls \ {c} : rows'[w] = rows[w]
            BY <1>1, <2>3 DEF WriteStatus, RowType
        <3>2. /\ call'[c].row = c
              /\ \/ call'[c].pc = "done"
                 \/ call[c].pc = "BUILDING" /\ call'[c].pc = "build"
                 \/ call[c].pc = "AWAITING_SIGNATURE" /\ call'[c].pc = "sign"
                 \/ call[c].pc = "SUBMITTED" /\ call'[c].pc = "submit"
                 \/ call[c].pc = "CONFIRMING" /\ call'[c].pc = "confirm"
            <4>1. Goto(c, "done") \/ Goto(c, AfterUpdate[call[c].pc])
                BY <1>6 DEF UpdateWrite
            <4>2. /\ AfterUpdate["BUILDING"] = "build"
                  /\ AfterUpdate["AWAITING_SIGNATURE"] = "sign"
                  /\ AfterUpdate["SUBMITTED"] = "submit"
                  /\ AfterUpdate["CONFIRMING"] = "confirm"
                  /\ AfterUpdate["FAILED"] = "done"
                BY DEF AfterUpdate
            <4> QED BY <1>0, <2>1, <4>1, <4>2, GotoIs
        <3>3. call[c].pc = "CONFIRMING" => call[c].sig # None
            BY CallsAssumption DEF IInv, CallsKnowTheirTransaction, AfterBuild
        <3>4. rows[c].status \in Early \cup {"FAILED"} /\ debits[c] = 0
              /\ (call[c].pc # "FAILED" => rows[c].status \in Early)
            BY <1>0, <1>1, <2>1 DEF Follows, InOrder, Early, Underway
        <3>5. Follows(c)'
            BY <2>1, <3>1, <3>2 DEF Follows, Early, Underway
        <3>6. InOrder(c)'
            BY <1>0, <2>1, <3>1, <3>3, <3>4 DEF InOrder, Early, Underway
        <3>7. MovesOwnRow(c)
            BY <2>1, <3>1, <3>4 DEF MovesOwnRow, RowMoves, Stays, Early, Underway
        <3> QED BY <2>1, <3>5, <3>6, <3>7
    <2> QED BY <1>0, <1>6, <2>2, <2>3 DEF UpdateWrite
<1>7. CASE Build(c)
    <2>1. call[c].pc = "build" /\ UNCHANGED <<rows, debits>>
        BY <1>7 DEF Build
    <2>2. call'[c].pc \in {"AWAITING_SIGNATURE", "done"} /\ call'[c].row = c
        <3>1. ASSUME NEW s \in Calls, Built(c, s)
              PROVE  call'[c].pc = "AWAITING_SIGNATURE" /\ call'[c].row = c
            BY <1>0, <1>1, <3>1 DEF Built, CallType
        <3> QED BY <1>0, <1>7, <3>1, GotoIs DEF Build
    <2>3. Follows(c)'
        BY <1>0, <2>1, <2>2 DEF Follows
    <2> QED BY <2>1, <2>3, CallMovesAlone
<1>8. CASE Sign(c)
    <2>1. call[c].pc = "sign" /\ UNCHANGED <<rows, debits>>
        BY <1>8 DEF Sign
    <2>2. call'[c].pc \in {"SUBMITTED", "release"} /\ call'[c].row = c
        BY <1>0, <1>8, GotoIs DEF Sign
    <2>3. Follows(c)'
        BY <1>0, <2>1, <2>2 DEF Follows
    <2> QED BY <2>1, <2>3, CallMovesAlone
<1>9. CASE Submit(c)
    <2>1. call[c].pc = "submit" /\ UNCHANGED <<rows, debits>>
        BY <1>9 DEF Submit
    <2>2. call'[c].pc \in {"CONFIRMING", "release"} /\ call'[c].row = c
        BY <1>0, <1>9, GotoIs DEF Submit
    <2>3. Follows(c)'
        BY <1>0, <2>1, <2>2 DEF Follows, Early
    <2> QED BY <2>1, <2>3, CallMovesAlone
<1>10. CASE Confirm(c)
    <2>1. call[c].pc = "confirm" /\ UNCHANGED <<rows, debits>>
        BY <1>10 DEF Confirm
    <2>2. call'[c].pc \in {"finalize", "done"} /\ call'[c].row = c
        BY <1>0, <1>10, GotoIs DEF Confirm
    <2>3. Follows(c)'
        BY <1>0, <2>1, <2>2 DEF Follows
    <2> QED BY <2>1, <2>3, CallMovesAlone
<1>11. CASE Finalize(c)
    <2>1. call[c].pc = "finalize" /\ rows[c].status \in Underway
        BY <1>0, <1>11 DEF Finalize, Follows
    <2>2. call'[c].pc = "done" /\ call'[c].row = c
        BY <1>0, <1>11, GotoIs DEF Finalize
    <2>3. CASE FinalizeRow(c, call[c].sig)
        <3>1. call[c].sig # None
            BY <2>1, CallsAssumption DEF IInv, CallsKnowTheirTransaction, AfterBuild
        <3>2. /\ rows'[c].status = "CONFIRMED" /\ rows'[c].sig = call[c].sig
              /\ rows'[c].age = rows[c].age
              /\ debits'[c] = IF debits[c] = 0 THEN 1 ELSE debits[c]
              /\ \A w \in Calls \ {c} : rows'[w] = rows[w] /\ debits'[w] = debits[w]
            BY <1>1, <2>3 DEF FinalizeRow, RowType
        <3>3. \/ rows[c].status = "CONFIRMED" /\ debits[c] = 1
              \/ rows[c].status = "CONFIRMING" /\ debits[c] = 0
            BY <1>0, <1>1, <2>1 DEF IInv, ConfirmedIsBacked, InOrder, Underway
        <3>4. MovesOwnRow(c)
            BY <3>2, <3>3 DEF MovesOwnRow, RowMoves, Stays, Underway
        <3>5. Follows(c)' /\ InOrder(c)'
            BY <1>0, <2>1, <2>2, <3>1, <3>2 DEF Follows, InOrder, Underway
        <3> QED BY <2>1, <3>4, <3>5
    <2>4. CASE UNCHANGED <<rows, debits>>
        <3>1. Follows(c)'
            BY <1>0, <2>1, <2>2, <2>4 DEF Follows
        <3> QED BY <2>1, <2>4, <3>1, CallMovesAlone
    <2> QED BY <1>0, <1>11, <2>3, <2>4 DEF Finalize
<1>12. CASE Release(c)
    <2>1. call[c].pc = "release" /\ rows[c].status \in Early \cup {"FAILED"} /\ UNCHANGED debits
        BY <1>0, <1>12 DEF Release, Follows
    <2>2. call'[c].pc \in {"done", "FAILED"} /\ call'[c].row = c
        BY <1>0, <1>12, GotoIs DEF Release
    <2>3. CASE UNCHANGED rows
        <3>1. Follows(c)'
            BY <1>0, <2>1, <2>2, <2>3 DEF Follows
        <3> QED BY <2>1, <2>3, <3>1, CallMovesAlone
    <2>4. CASE rows' = [rows EXCEPT ![c].status = "FAILED"]
        <3>1. /\ rows'[c].status = "FAILED" /\ rows'[c].sig = rows[c].sig
              /\ rows'[c].age = rows[c].age
              /\ \A w \in Calls \ {c} : rows'[w] = rows[w]
            BY <1>1, <2>4 DEF RowType
        <3>2. debits[c] = 0
            BY <1>0, <1>1, <2>1 DEF InOrder, Early
        <3>3. MovesOwnRow(c)
            BY <2>1, <3>1 DEF MovesOwnRow, RowMoves, Stays, Early, Underway
        <3>4. Follows(c)' /\ InOrder(c)'
            BY <1>0, <2>1, <2>2, <3>1, <3>2 DEF Follows, InOrder, Underway
        <3> QED BY <2>1, <3>3, <3>4
    <2> QED BY <1>0, <1>12, <2>3, <2>4 DEF Release, ReleaseRow
<1>13. CASE Crash(c)
    <2>1. call[c].pc # "done" /\ UNCHANGED <<rows, debits>>
        BY <1>13 DEF Crash, Running
    <2>2. call'[c].pc = "done" /\ call'[c].row = c
        BY <1>0, <1>13, GotoIs DEF Crash
    <2>3. Follows(c)'
        BY <1>0, <2>1, <2>2 DEF Follows
    <2> QED BY <2>1, <2>3, CallMovesAlone
<1> QED BY <1>3, <1>4, <1>5, <1>6, <1>7, <1>8, <1>9, <1>10, <1>11, <1>12, <1>13, <1>14
        DEF CallStep

\* A step of a call does not disturb the batch: a row that still has a call is
\* not old, so that the batch has not been waiting for it.
LEMMA BatchKept ==
    ASSUME IInv, OwnInv, NEW c \in Calls, call[c].pc # "done", MovesOwnRow(c),
           UNCHANGED recon
    PROVE  BatchIsFresh' /\ BatchReleasesOld'
<1>1. TypeOK /\ InOrder(c)
    BY DEF IInv, OwnInv, RowsFollowCalls
<1>2. \A w \in Calls : rows[w].age \in 0 .. 2
    BY <1>1, Shapes
<1>3. rows[c].age = 0 /\ rows'[c].age = 0
    BY <1>1, <1>2 DEF InOrder, MovesOwnRow
<1>4. \A w \in Calls : rows'[w].age = rows[w].age
    BY <1>3 DEF MovesOwnRow
<1>5. BatchIsFresh'
    BY <1>2, <1>3, <1>4 DEF OwnInv, BatchIsFresh, MovesOwnRow
<1>6. BatchReleasesOld'
    BY <1>2, <1>3, <1>4 DEF OwnInv, BatchReleasesOld, MovesOwnRow
<1> QED BY <1>5, <1>6

\* A step of a call moves its own row only, and keeps the others in order.
LEMMA CallStepOwn ==
    ASSUME OwnKeys, IInv, OwnInv, NEW c \in Calls, CallStep(c) \/ Crash(c)
    PROVE  OwnInv' /\ RowStep
<1>1. /\ call[c].pc # "done" /\ MovesOwnRow(c)
      /\ Follows(c)' /\ InOrder(c)'
    BY CallMovesRow
<1>2. UNCHANGED recon /\ \A d \in Calls \ {c} : call'[d] = call[d]
    BY OneCallMoves DEF IInv
<1>3. \A d \in Calls \ {c} : Follows(d)' /\ InOrder(d)'
    BY <1>1, <1>2 DEF OwnInv, RowsFollowCalls, Follows, InOrder, MovesOwnRow
<1>4. BatchIsFresh' /\ BatchReleasesOld'
    BY <1>1, <1>2, BatchKept
<1>5. RowStep
    BY <1>1 DEF RowStep, Stays, MovesOwnRow
<1> QED BY <1>1, <1>3, <1>4, <1>5 DEF OwnInv, RowsFollowCalls

\* A step that leaves the table, the ledger and the calls alone.
LEMMA RowsAlone ==
    ASSUME OwnInv, UNCHANGED <<rows, debits, call>>
    PROVE  RowsFollowCalls' /\ RowStep
BY DEF OwnInv, RowsFollowCalls, Follows, InOrder, RowStep, Stays

\* A row of the table names no transaction but its call's, and neither does
\* the batch for it.
LEMMA OneTransactionPerRow ==
    ASSUME IInv, OwnInv, NEW w \in Calls
    PROVE  /\ rows[w].sig # None => rows[w].sig = call[w].sig
           /\ recon.seen[w] # None => recon.seen[w] = call[w].sig
<1>1. ASSUME NEW s, Carries(s, w)
      PROVE  s = call[w].sig
    BY <1>1 DEF Carries, OwnInv, RowsFollowCalls, Follows
<1> QED BY <1>1 DEF IInv, RowsNameTheirTransaction, BatchKnowsItsTransactions

\* The network and the clock: a row grows old only once its call is over, and
\* the batch sees that it has.
LEMMA WorldStepOwn ==
    ASSUME "slow" \notin Faults, IInv, OwnInv, NEW w \in Calls,
           Land(w) \/ Die(w) \/ GrowOld(w)
    PROVE  OwnInv' /\ RowStep
<1>0. TypeOK /\ \A v \in Calls : Follows(v) /\ InOrder(v)
    BY DEF IInv, OwnInv, RowsFollowCalls
<1>1. CASE Land(w) \/ Die(w)
    <2>1. UNCHANGED <<rows, debits, call, recon>>
        BY <1>1 DEF Land, Die
    <2>2. BatchIsFresh' /\ BatchReleasesOld'
        BY <2>1 DEF OwnInv, BatchIsFresh, BatchReleasesOld
    <2> QED BY <2>1, <2>2, RowsAlone DEF OwnInv
<1>2. CASE GrowOld(w)
    <2>0. rows \in [Calls -> RowType] /\ rows[w] \in RowType
          /\ recon \in ReconType /\ recon.aged \in SUBSET Calls
          /\ \A v \in Calls : rows[v].age \in 0 .. 2
        BY <1>0, Shapes
    <2>1. /\ rows' = [rows EXCEPT ![w].age = @ + 1]
          /\ Present(w) /\ w \notin recon.aged
          /\ ~(Running(w) /\ call[w].row = w)
          /\ UNCHANGED <<debits, call>>
        BY <1>2 DEF GrowOld
    <2>2. /\ rows'[w].age = rows[w].age + 1
          /\ \A v \in Calls : rows'[v].status = rows[v].status /\ rows'[v].sig = rows[v].sig
          /\ \A v \in Calls \ {w} : rows'[v] = rows[v]
        BY <2>0, <2>1 DEF RowType
    <2>3. call[w].pc = "done" /\ rows[w].status # "ABSENT"
        BY <1>0, <2>1 DEF Present, Running, Follows
    <2>4. RowsFollowCalls'
        BY <1>0, <2>0, <2>1, <2>2, <2>3 DEF RowsFollowCalls, Follows, InOrder
    <2>5. /\ recon'.pc = recon.pc /\ recon'.todo = recon.todo /\ recon'.row = recon.row
          /\ recon'.seen = recon.seen /\ recon'.age = recon.age
          /\ recon'.aged = IF w \in recon.todo \/ w = recon.row
                           THEN recon.aged \cup {w} ELSE recon.aged
        BY <1>2, <2>0 DEF GrowOld, ReconType
    <2>6. BatchIsFresh'
        <3> SUFFICES ASSUME NEW v \in Calls
                     PROVE  /\ /\ recon'.seen[v] # None
                               /\ \/ v \in recon'.todo
                                  \/ recon'.row = v /\ recon'.pc \notin {"release", "FAILED"}
                               => rows'[v].status \in Underway
                            /\ /\ v \in recon'.todo /\ recon'.seen[v] = None
                               /\ rows'[v].age > 0
                               /\ rows'[v].age = 2 \/ v \notin recon'.aged
                               => rows'[v].status \in Early
                            /\ recon'.row = v => recon'.age <= rows'[v].age
            BY <2>5 DEF OwnInv, BatchIsFresh
        <3>1. CASE v = w
            <4>1. /\ w \in recon.todo /\ recon.seen[w] = None /\ rows[w].age > 0
                  => rows[w].status \in Early
                BY <2>1 DEF OwnInv, BatchIsFresh
            <4>2. recon.row = w => recon.age <= rows[w].age
                BY DEF OwnInv, BatchIsFresh
            <4>3. rows'[w].age = 2 => rows[w].age > 0
                BY <2>0, <2>2
            <4>4. recon.row = w => recon'.age <= rows'[w].age
                BY <2>0, <1>0, Shapes, <2>2, <2>5, <4>2
            <4>5. recon.seen[w] # None
                  /\ (w \in recon.todo \/ (recon.row = w /\ recon.pc \notin {"release", "FAILED"}))
                  => rows[w].status \in Underway
                BY DEF OwnInv, BatchIsFresh
            <4>6. w \in recon.todo => w \in recon'.aged
                BY <2>5
            <4> QED BY <2>2, <2>5, <3>1, <4>1, <4>3, <4>4, <4>5, <4>6
        <3>2. CASE v # w
            <4>1. rows'[v] = rows[v] /\ (v \in recon'.aged <=> v \in recon.aged)
                BY <2>2, <2>5, <3>2
            <4> QED BY <2>5, <4>1 DEF OwnInv, BatchIsFresh
        <3> QED BY <3>1, <3>2
    <2>7. BatchReleasesOld'
        BY <2>0, <2>2, <2>5 DEF OwnInv, BatchReleasesOld
    <2>8. RowStep
        BY <2>1, <2>2 DEF RowStep, RowMoves, Stays
    <2> QED BY <2>4, <2>6, <2>7, <2>8 DEF OwnInv
<1> QED BY <1>1, <1>2

\* Moving on from a row, or ending the batch, leaves the other rows as fresh
\* as they were.
LEMMA NextRowFresh ==
    ASSUME IInv, OwnInv, recon' \in {NextRow, IdleRecon},
           \A v \in Calls : v # recon.row => rows'[v] = rows[v]
    PROVE  BatchIsFresh' /\ BatchReleasesOld'
<1>1. recon \in ReconType /\ recon.todo \in SUBSET Calls /\ None \notin Calls
      /\ recon.seen \in [Calls -> MaybeCall] /\ recon.aged \in SUBSET Calls
    BY Shapes DEF IInv
<1>2. recon.row \notin recon.todo
    BY DEF OwnInv, BatchIsFresh
<1>3. CASE recon' = NextRow
    <2>1. /\ recon'.pc = "loop" /\ recon'.row = None /\ recon'.todo = recon.todo
          /\ \A v \in Calls : v # recon.row => recon'.seen[v] = recon.seen[v]
          /\ recon'.aged = recon.aged \ {recon.row}
        BY <1>1, <1>3 DEF NextRow, ReconType
    <2>2. BatchReleasesOld'
        BY <2>1 DEF BatchReleasesOld
    <2>3. \A v \in recon.todo :
             /\ rows'[v] = rows[v] /\ recon'.seen[v] = recon.seen[v]
             /\ v \in recon'.aged <=> v \in recon.aged
        BY <1>1, <1>2, <2>1
    <2>4. BatchIsFresh'
        BY <1>1, <2>1, <2>3 DEF OwnInv, BatchIsFresh
    <2> QED BY <2>2, <2>4
<1>4. CASE recon' = IdleRecon
    <2>1. /\ recon'.pc = "idle" /\ recon'.row = None /\ recon'.todo = {}
        BY <1>4 DEF IdleRecon
    <2> QED BY <1>1, <2>1 DEF BatchIsFresh, BatchReleasesOld
<1> QED BY <1>3, <1>4

\* Releasing a row whose call is over, and which is not confirmed.
LEMMA ReleaseOwn ==
    ASSUME IInv, OwnInv, NEW w \in Calls, rows[w].age > 0, rows[w].status # "CONFIRMED",
           rows' \in {rows, [rows EXCEPT ![w].status = "FAILED"]},
           UNCHANGED <<debits, call>>
    PROVE  /\ RowsFollowCalls' /\ RowStep
           /\ rows'[w].age > 0 /\ rows'[w].status # "CONFIRMED"
           /\ \A v \in Calls \ {w} : rows'[v] = rows[v]
<1>1. CASE rows' = rows
    BY <1>1, RowsAlone
<1>2. CASE rows' = [rows EXCEPT ![w].status = "FAILED"]
    <2>1. rows \in [Calls -> RowType] /\ rows[w] \in RowType /\ debits[w] \in Nat
        BY Shapes DEF IInv
    <2>2. /\ rows'[w].status = "FAILED" /\ rows'[w].sig = rows[w].sig
          /\ rows'[w].age = rows[w].age
          /\ \A v \in Calls \ {w} : rows'[v] = rows[v]
        BY <1>2, <2>1 DEF RowType
    <2>3. /\ call[w].pc = "done" /\ debits[w] = 0
          /\ rows[w].status \in Early \cup {"CONFIRMING", "FAILED"}
          /\ Follows(w) /\ InOrder(w)
        BY <2>1 DEF OwnInv, RowsFollowCalls, Follows, InOrder, Underway
    <2>4. Follows(w)' /\ InOrder(w)'
        BY <1>2, <2>2, <2>3 DEF Follows, InOrder, Underway
    <2>5. RowsFollowCalls'
        BY <2>2, <2>4 DEF OwnInv, RowsFollowCalls, Follows, InOrder
    <2>6. RowStep
        BY <2>2, <2>3 DEF RowStep, RowMoves, Stays
    <2> QED BY <2>2, <2>5, <2>6
<1> QED BY <1>1, <1>2

\* Finalizing a row that is under way.
LEMMA FinalizeOwn ==
    ASSUME IInv, OwnInv, NEW w \in Calls, NEW s \in Calls, rows[w].status \in Underway,
           FinalizeRow(w, s), UNCHANGED call
    PROVE  /\ RowsFollowCalls' /\ RowStep
           /\ \A v \in Calls \ {w} : rows'[v] = rows[v]
<1>1. /\ rows \in [Calls -> RowType] /\ rows[w] \in RowType
      /\ debits \in [Calls -> Nat] /\ None \notin Calls
    BY Shapes DEF IInv
<1>2. /\ rows'[w].status = "CONFIRMED" /\ rows'[w].sig = s
      /\ rows'[w].age = rows[w].age
      /\ debits'[w] = IF debits[w] = 0 THEN 1 ELSE debits[w]
      /\ \A v \in Calls \ {w} : rows'[v] = rows[v] /\ debits'[v] = debits[v]
    BY <1>1 DEF FinalizeRow, RowType
<1>3. Follows(w) /\ InOrder(w)
    BY DEF OwnInv, RowsFollowCalls
<1>4. \/ rows[w].status = "CONFIRMED" /\ debits[w] = 1
      \/ rows[w].status = "CONFIRMING" /\ debits[w] = 0
    BY <1>1, <1>3 DEF IInv, ConfirmedIsBacked, InOrder, Underway
<1>5. Follows(w)' /\ InOrder(w)'
    BY <1>1, <1>2, <1>3 DEF Follows, InOrder, Early, Underway
<1>6. RowsFollowCalls'
    BY <1>2, <1>5 DEF OwnInv, RowsFollowCalls, Follows, InOrder
<1>7. RowStep
    BY <1>2, <1>4 DEF RowStep, RowMoves, Stays
<1> QED BY <1>2, <1>6, <1>7

\* The batch scans the table, and takes one row after another.
LEMMA TakeOwn ==
    ASSUME IInv, OwnInv, ScanRows \/ \E w \in Calls : TakeRow(w)
    PROVE  OwnInv' /\ RowStep
<1>0. UNCHANGED <<rows, debits, call>>
    BY DEF ScanRows, TakeRow
<1>1. RowsFollowCalls' /\ RowStep
    BY <1>0, RowsAlone
<1>2. recon \in ReconType /\ recon.todo \in SUBSET Calls /\ None \notin Calls
      /\ \A v \in Calls : rows[v].age \in 0 .. 2
    BY Shapes DEF IInv
<1>3. CASE ScanRows
    <2>1. /\ recon'.pc = "loop" /\ recon'.row = None /\ recon'.age = 0
          /\ recon'.todo = {w \in Calls : rows[w].status \in Scanned}
          /\ \A w \in recon'.todo : recon'.seen[w] = rows[w].sig
          /\ \A w \in Calls : w \notin recon'.todo => recon'.seen[w] = None
        BY <1>3 DEF ScanRows, IdleRecon
    <2>2. \A w \in recon'.todo :
             IF rows[w].sig = None THEN rows[w].status \in Early
                                   ELSE rows[w].status \in Underway
        BY <2>1 DEF OwnInv, RowsFollowCalls, Follows, InOrder, Scanned, Underway
    <2>3. BatchIsFresh'
        BY <1>0, <1>2, <2>1, <2>2 DEF BatchIsFresh
    <2>4. BatchReleasesOld'
        BY <2>1 DEF BatchReleasesOld
    <2> QED BY <1>1, <2>3, <2>4 DEF OwnInv
<1>4. CASE \E w \in Calls : TakeRow(w)
    <2>1. PICK w \in Calls : TakeRow(w)
        BY <1>4
    <2>2. /\ recon.pc = "loop" /\ w \in recon.todo
          /\ recon'.todo = recon.todo \ {w}
          /\ recon'.seen = recon.seen /\ recon'.aged = recon.aged
          /\ \/ /\ recon.seen[w] # None
                /\ recon'.pc = "parse" /\ recon'.row = w /\ recon'.age = rows[w].age
             \/ /\ recon.seen[w] = None /\ rows[w].age = 2
                /\ recon'.pc = "release" /\ recon'.row = w /\ recon'.age = 2
             \/ /\ recon'.pc = "loop" /\ recon'.row = recon.row /\ recon'.age = recon.age
        BY <1>2, <2>1 DEF TakeRow, ReconType
    <2>3. recon'.pc = "release" => rows[w].status \in Early
        BY <2>2 DEF OwnInv, BatchIsFresh
    <2>4. BatchIsFresh'
        BY <1>0, <1>2, <2>2 DEF OwnInv, BatchIsFresh
    <2>5. BatchReleasesOld'
        BY <1>0, <1>2, <2>2, <2>3 DEF BatchReleasesOld, Early
    <2> QED BY <1>1, <2>4, <2>5 DEF OwnInv
<1> QED BY <1>3, <1>4

\* The batch gives up on a row's transaction, or goes on to finalize or to
\* release it.  A row whose transaction has not landed is not confirmed.
LEMMA ParseOwn ==
    ASSUME IInv, OwnInv, NEW w \in Calls, ParseTx(w)
    PROVE  OwnInv' /\ RowStep
<1>0. UNCHANGED <<rows, debits, call>> /\ recon.pc = "parse" /\ recon.row = w
    BY DEF ParseTx
<1>1. RowsFollowCalls' /\ RowStep
    BY <1>0, RowsAlone
<1>2. recon \in ReconType /\ recon.age \in 0 .. 2
      /\ \A v \in Calls : rows[v].age \in 0 .. 2
    BY Shapes DEF IInv
<1>3. CASE recon' = NextRow
    BY <1>0, <1>1, <1>3, NextRowFresh DEF OwnInv
<1>4. CASE recon' = [recon EXCEPT !.pc = "finalize"]
    <2>1. BatchIsFresh' /\ BatchReleasesOld'
        BY <1>0, <1>2, <1>4 DEF OwnInv, BatchIsFresh, BatchReleasesOld, ReconType
    <2> QED BY <1>1, <2>1 DEF OwnInv
<1>5. CASE ~Landed(recon.seen[w]) /\ recon.age >= 1 /\ recon' = [recon EXCEPT !.pc = "release"]
    <2>1. recon.seen[w] # None
        BY <1>0, <1>2, CallsAssumption DEF IInv, BatchKnowsItsTransactions
    <2>2. rows[w].status # "CONFIRMED"
        BY <1>5, <2>1, OneTransactionPerRow DEF IInv, ConfirmedIsBacked
    <2>3. recon.age <= rows[w].age
        BY <1>0 DEF OwnInv, BatchIsFresh
    <2>4. rows[w].age > 0
        BY <1>2, <1>5, <2>3
    <2>5. recon'.pc = "release" /\ recon'.row = w /\ recon'.todo = recon.todo
          /\ recon'.seen = recon.seen /\ recon'.age = recon.age /\ recon'.aged = recon.aged
        BY <1>0, <1>2, <1>5 DEF ReconType
    <2>6. BatchIsFresh'
        BY <1>0, <2>5 DEF OwnInv, BatchIsFresh
    <2>7. BatchReleasesOld'
        BY <1>0, <2>2, <2>4, <2>5 DEF BatchReleasesOld
    <2> QED BY <1>1, <2>6, <2>7 DEF OwnInv
<1> QED BY <1>2, <1>3, <1>4, <1>5 DEF ParseTx

\* A step that changes nothing keeps the rows in order.
LEMMA StutterOwn == OwnInv /\ UNCHANGED vars => OwnInv'
BY DEF OwnInv, RowsFollowCalls, Follows, InOrder, BatchIsFresh, BatchReleasesOld, vars

\* The batch finalizes the row it has reached, or releases it.
LEMMA ReconStepOwn ==
    ASSUME IInv, OwnInv, ReconStep \/ ReconCrash
    PROVE  OwnInv' /\ RowStep
<1>0. recon \in ReconType /\ \A v \in Calls : rows[v].age \in 0 .. 2
    BY Shapes DEF IInv
<1>1. CASE EndBatch \/ ParseFails \/ ReconFinalizeFails \/ ReconCrash
    <2>1. UNCHANGED <<rows, debits, call>> /\ recon' \in {NextRow, IdleRecon}
        BY <1>1 DEF EndBatch, ParseFails, ReconFinalizeFails, ReconCrash
    <2> QED BY <2>1, RowsAlone, NextRowFresh DEF OwnInv
<1>2. CASE ReconReleaseFails
    <2>1. recon.row \in Calls /\ rows[recon.row].age > 0
          /\ rows[recon.row].status # "CONFIRMED"
        BY <1>2 DEF ReconReleaseFails, OwnInv, BatchReleasesOld
    <2>2. /\ rows' \in {rows, [rows EXCEPT ![recon.row].status = "FAILED"]}
          /\ UNCHANGED <<debits, call>>
        BY <1>2 DEF ReconReleaseFails, ReleaseRow
    <2>3. /\ RowsFollowCalls' /\ RowStep
          /\ rows'[recon.row].age > 0 /\ rows'[recon.row].status # "CONFIRMED"
          /\ \A v \in Calls \ {recon.row} : rows'[v] = rows[v]
        BY <2>1, <2>2, ReleaseOwn
    <2>4. recon'.pc = "FAILED" /\ recon.pc = "release"
          /\ recon'.row = recon.row /\ recon'.todo = recon.todo
          /\ recon'.seen = recon.seen /\ recon'.age = recon.age /\ recon'.aged = recon.aged
        BY <1>0, <1>2 DEF ReconReleaseFails, ReconType
    <2>5. \A v \in Calls : rows'[v].age = rows[v].age
        BY <1>0, <2>1, <2>2, Shapes DEF IInv, RowType
    <2>6. BatchIsFresh'
        BY <2>3, <2>4, <2>5 DEF OwnInv, BatchIsFresh
    <2>7. BatchReleasesOld'
        BY <2>1, <2>3, <2>4 DEF BatchReleasesOld
    <2> QED BY <2>3, <2>6, <2>7 DEF OwnInv
<1>3. CASE ReconUpdateCheck
    <2>1. UNCHANGED <<rows, debits, call>>
        BY <1>3 DEF ReconUpdateCheck
    <2>2. CASE recon' = Thrown
        BY <2>1, <2>2, RowsAlone, NextRowFresh DEF OwnInv, Thrown
    <2>3. CASE recon' = [recon EXCEPT !.checked = TRUE]
        <3>1. BatchIsFresh' /\ BatchReleasesOld'
            BY <1>0, <2>1, <2>3 DEF OwnInv, BatchIsFresh, BatchReleasesOld, ReconType
        <3> QED BY <2>1, <3>1, RowsAlone DEF OwnInv
    <2> QED BY <1>3, <2>2, <2>3 DEF ReconUpdateCheck
<1>4. CASE ReconUpdateWrite \/ \E w \in Calls : ReconRelease(w)
    <2>1. recon.row \in Calls /\ rows[recon.row].age > 0
          /\ rows[recon.row].status # "CONFIRMED"
        BY <1>4 DEF ReconUpdateWrite, ReconRelease, OwnInv, BatchReleasesOld
    <2>2. /\ rows' \in {rows, [rows EXCEPT ![recon.row].status = "FAILED"]}
          /\ UNCHANGED <<debits, call>>
          /\ recon' \in {NextRow, IdleRecon}
        BY <1>4 DEF ReconUpdateWrite, ReconRelease, ReleaseRow, WriteStatus, Thrown
    <2>3. /\ RowsFollowCalls' /\ RowStep
          /\ \A v \in Calls \ {recon.row} : rows'[v] = rows[v]
        BY <2>1, <2>2, ReleaseOwn
    <2> QED BY <2>2, <2>3, NextRowFresh DEF OwnInv
<1>5. CASE \E w \in Calls : ReconFinalize(w)
    <2>1. PICK w \in Calls : ReconFinalize(w)
        BY <1>5
    <2>2. /\ recon.pc = "finalize" /\ recon.row = w
          /\ FinalizeRow(w, recon.seen[w]) /\ recon' = NextRow /\ UNCHANGED call
        BY <2>1 DEF ReconFinalize
    <2>3. recon.seen[w] \in Calls /\ recon.seen[w] # None
        BY <2>2, CallsAssumption DEF IInv, BatchKnowsItsTransactions
    <2>4. rows[w].status \in Underway
        BY <2>2, <2>3 DEF OwnInv, BatchIsFresh
    <2>5. /\ RowsFollowCalls' /\ RowStep
          /\ \A v \in Calls \ {w} : rows'[v] = rows[v]
        BY <2>2, <2>3, <2>4, FinalizeOwn
    <2> QED BY <2>2, <2>5, NextRowFresh DEF OwnInv
<1>6. CASE SkipBatch
    <2>1. OwnInv'
        BY <1>6, StutterOwn DEF SkipBatch
    <2> QED BY <1>6, <2>1 DEF SkipBatch, vars, RowStep, Stays
<1> QED BY <1>1, <1>2, <1>3, <1>4, <1>5, <1>6, TakeOwn, ParseOwn
        DEF ReconStep, ReconRow

\* Nothing is inserted, and nobody has started.
LEMMA InitOwn == Init => OwnInv
<1> SUFFICES ASSUME Init PROVE OwnInv
    OBVIOUS
<1>1. \A w \in Calls :
         /\ rows[w] = [status |-> "ABSENT", sig |-> None, age |-> 0]
         /\ debits[w] = 0
         /\ call[w].pc = "idle" /\ call[w].row = w
    BY DEF Init
<1>2. recon.pc = "idle" /\ recon.row = None /\ recon.todo = {}
    BY DEF Init, IdleRecon
<1>3. RowsFollowCalls
    BY <1>1 DEF RowsFollowCalls, Follows, InOrder, Early, Underway
<1>4. BatchIsFresh /\ BatchReleasesOld
    BY <1>2, CallsAssumption DEF BatchIsFresh, BatchReleasesOld
<1> QED BY <1>3, <1>4 DEF OwnInv

\* Every step keeps the rows in order.
LEMMA StepOwn ==
    ASSUME OwnKeys, "slow" \notin Faults, IInv, OwnInv, Next
    PROVE  OwnInv' /\ RowStep
BY CallStepOwn, WorldStepOwn, ReconStepOwn DEF Next

\* OwnInv is an invariant, and every step moves the rows as RowStep says.
LEMMA OwnInvariance ==
    ASSUME OwnKeys, "slow" \notin Faults
    PROVE  Spec => [](IInv /\ OwnInv) /\ [][RowStep]_vars
<1>1. Init => OwnInv
    BY InitOwn
<1>2. IInv /\ OwnInv /\ Next => OwnInv'
    BY StepOwn
<1>3. OwnInv /\ UNCHANGED vars => OwnInv'
    BY StutterOwn
<1>4. IInv /\ OwnInv /\ [Next]_vars => [RowStep]_vars
    BY StepOwn
<1> QED BY <1>1, <1>2, <1>3, <1>4, Invariance, PTL DEF Spec

\* However calls die, replies and database answers are lost and batches are
\* cut short, no step of a call or of the reconciler changes the status of a
\* withdrawal that is over (VALID_TRANSITIONS has none from it, but the UPDATE
\* that follows the check does not look again).
THEOREM TerminalStays ==
    OwnKeys /\ "slow" \notin Faults => (Spec => TerminalIsFinal)
<1> SUFFICES ASSUME OwnKeys, "slow" \notin Faults
             PROVE  Spec => TerminalIsFinal
    OBVIOUS
<1>1. "CONFIRMING" \notin Terminal /\ "ABSENT" \notin Terminal /\ Early \cap Terminal = {}
    BY DEF Terminal, Statuses, ValidTransitions, Early
<1>2. [RowStep]_vars =>
         [\A w \in Calls : rows[w].status \in Terminal =>
                               rows'[w].status = rows[w].status]_vars
    <2>1. ASSUME NEW w \in Calls, RowMoves(w) \/ Inserts(w), rows[w].status \in Terminal
          PROVE  rows'[w].status = rows[w].status
        BY <1>1, <2>1 DEF RowMoves, Inserts, Stays
    <2> QED BY <2>1 DEF RowStep, Stays
<1> QED BY <1>2, OwnInvariance, PTL DEF TerminalIsFinal

-----------------------------------------------------------------------------
(***************************************************************************)
(* The user's balance.                                                     *)
(***************************************************************************)
\* What row w takes from its user's credits, debited or reserved.
Taken(w) == IF debits[w] > 0 \/ rows[w].status \in Reserving THEN AmountOf[w] ELSE 0

\* A row is debited, once, or reserved, but not both: its amount counts once.
LEMMA BalanceByRows ==
    ASSUME IInv, OwnInv, NEW u, Funds[u] \in Nat
    PROVE  /\ [w \in RowsOf(u) |-> Taken(w)] \in [RowsOf(u) -> Nat]
           /\ Total([w \in RowsOf(u) |-> Taken(w)]) \in Nat
           /\ Balance(u) = Funds[u] - Total([w \in RowsOf(u) |-> Taken(w)])
<1> DEFINE S == RowsOf(u)
           D == [w \in S |-> debits[w] * AmountOf[w]]
           R == [w \in S |-> IF rows[w].status \in Reserving THEN AmountOf[w] ELSE 0]
           H == [w \in S |-> Taken(w)]
<1>1. IsFiniteSet(S)
    BY CallsAssumption, FS_Subset DEF RowsOf
<1>2. \A w \in S : w \in Calls /\ AmountOf[w] \in Nat
    BY AmountsAssumption DEF RowsOf
<1>3. \A w \in S : \/ debits[w] = 0
                   \/ debits[w] = 1 /\ rows[w].status \notin Reserving
    <2> SUFFICES ASSUME NEW w \in S, debits[w] # 0
                 PROVE  debits[w] = 1 /\ rows[w].status \notin Reserving
        OBVIOUS
    <2>1. debits[w] \in Nat /\ w \in Calls
        BY <1>2, Shapes DEF IInv
    <2>2. debits[w] = 1
        BY <2>1 DEF IInv, DebitIsBacked
    <2>3. rows[w].status = "CONFIRMED"
        BY <2>1, <2>2 DEF OwnInv, RowsFollowCalls, InOrder
    <2> QED BY <2>2, <2>3 DEF Reserving
<1>4. \A w \in S : D[w] \in Nat /\ R[w] \in Nat /\ H[w] \in Nat
                   /\ H[w] = D[w] + R[w] /\ (D[w] = 0 \/ R[w] = 0)
    <2> SUFFICES ASSUME NEW w \in S
                 PROVE  D[w] \in Nat /\ R[w] \in Nat /\ H[w] \in Nat
                        /\ H[w] = D[w] + R[w] /\ (D[w] = 0 \/ R[w] = 0)
        OBVIOUS
    <2>1. CASE debits[w] = 0
        <3>1. D[w] = 0
            BY <1>2, <2>1
        <3>2. H[w] = R[w] /\ R[w] \in Nat
            BY <1>2, <2>1 DEF Taken
        <3> HIDE DEF D, R, H
        <3> QED BY <3>1, <3>2
    <2>2. CASE debits[w] = 1 /\ rows[w].status \notin Reserving
        <3>1. D[w] = AmountOf[w] /\ R[w] = 0 /\ H[w] = AmountOf[w]
            BY <1>2, <2>2 DEF Taken
        <3> HIDE DEF D, R, H
        <3> QED BY <1>2, <3>1
    <2> QED BY <1>3, <2>1, <2>2
<1>5. D \in [S -> Nat] /\ R \in [S -> Nat] /\ H \in [S -> Nat]
    BY <1>4
<1>6. Balance(u) = Funds[u] - Total(D) - Total(R)
    BY DEF Balance, Debited, Reserved
<1> HIDE DEF S, D, R, H
<1>7. Total(H) = Total(D) + Total(R)
    BY <1>1, <1>4, <1>5, TotalSplit
<1>8. Total(D) \in Nat /\ Total(R) \in Nat /\ Total(H) \in Nat
    BY <1>1, <1>5, TotalType
<1>9. Balance(u) = Funds[u] - Total(H)
    BY <1>6, <1>7, <1>8
<1> QED BY <1>5, <1>8, <1>9 DEF S, H

\* The balance of every user, by rows.
BalanceIs ==
    \A c \in Calls :
        /\ [w \in RowsOf(UserOf[c]) |-> Taken(w)] \in [RowsOf(UserOf[c]) -> Nat]
        /\ Total([w \in RowsOf(UserOf[c]) |-> Taken(w)]) \in Nat
        /\ Balance(UserOf[c]) =
              Funds[UserOf[c]] - Total([w \in RowsOf(UserOf[c]) |-> Taken(w)])

\* No step but an insertion takes from the balance, and an insertion takes the
\* amount of its row.
LEMMA BalanceKept ==
    ASSUME OwnInv, BalanceIs, BalanceIs', RowStep, NEW c \in Calls
    PROVE  /\ Balance(UserOf[c]) \in Int /\ Balance(UserOf[c])' \in Int
           /\ \/ Balance(UserOf[c])' >= Balance(UserOf[c])
              \/ \E d \in RowsOf(UserOf[c]) :
                    /\ Inserts(d)
                    /\ Balance(UserOf[c])' = Balance(UserOf[c]) - AmountOf[d]
<1> DEFINE u == UserOf[c]
           S == RowsOf(u)
           H == [w \in S |-> Taken(w)]
           G == [w \in S |-> Taken(w)']
<1>1. IsFiniteSet(S) /\ S \subseteq Calls /\ Funds[u] \in Nat
    BY CallsAssumption, AmountsAssumption, FS_Subset DEF RowsOf
<1>2. /\ H \in [S -> Nat] /\ Total(H) \in Nat /\ Balance(u) = Funds[u] - Total(H)
      /\ G \in [S -> Nat] /\ Total(G) \in Nat /\ Balance(u)' = Funds[u] - Total(G)
    BY DEF BalanceIs
<1>3. Balance(u) \in Int /\ Balance(u)' \in Int
    <2> HIDE DEF H, G, S, u
    <2> QED BY <1>1, <1>2
<1>4. \A w \in Calls : AmountOf[w] \in Nat
    BY AmountsAssumption
<1>5. CASE \A w \in Calls : RowMoves(w) \/ Stays(w)
    <2>1. ASSUME NEW w \in S
          PROVE  G[w] <= H[w]
        <3>1. (RowMoves(w) \/ Stays(w)) /\ AmountOf[w] \in Nat
            BY <1>1, <1>4, <1>5
        <3>2. \/ rows'[w].status = rows[w].status /\ debits'[w] = debits[w]
              \/ rows[w].status \in Reserving
            BY <3>1 DEF RowMoves, Stays, Early, Reserving
        <3>3. Taken(w)' = Taken(w) \/ Taken(w) = AmountOf[w]
            BY <3>2 DEF Taken
        <3>4. Taken(w)' \in {0, AmountOf[w]}
            BY DEF Taken
        <3>5. Taken(w) \in {0, AmountOf[w]}
            BY DEF Taken
        <3> QED BY <3>1, <3>3, <3>4, <3>5
    <2> HIDE DEF H, G, S
    <2>2. Total(G) <= Total(H)
        BY <1>1, <1>2, <2>1, TotalMonotone
    <2>3. Balance(u)' >= Balance(u)
        <3> HIDE DEF u
        <3> QED BY <1>1, <1>2, <2>2
    <2> QED BY <1>3, <2>3
<1>6. ASSUME NEW d \in Calls, Inserts(d), \A w \in Calls \ {d} : Stays(w)
      PROVE  \/ Balance(u)' >= Balance(u)
             \/ d \in S /\ Balance(u)' = Balance(u) - AmountOf[d]
    <2>1. \A w \in Calls \ {d} : Taken(w)' = Taken(w)
        BY <1>6 DEF Stays, Taken
    <2>2. Taken(d) = 0
        BY <1>6 DEF Inserts, OwnInv, RowsFollowCalls, InOrder, Taken, Reserving
    <2>3. Taken(d)' = AmountOf[d]
        BY <1>6 DEF Inserts, Taken, Reserving
    <2>4. \A w \in S \ {d} : G[w] = H[w]
        BY <1>1, <2>1
    <2>5. CASE d \in S
        <3>1. G[d] = AmountOf[d] /\ H[d] = 0
            BY <2>2, <2>3, <2>5
        <3> HIDE DEF H, G, S
        <3>2. Total(G) = Total(H) + AmountOf[d]
            BY <1>1, <1>2, <1>4, <2>4, <2>5, <3>1, TotalAdded
        <3>3. Balance(u)' = Balance(u) - AmountOf[d]
            <4> HIDE DEF u
            <4> QED BY <1>1, <1>2, <1>4, <1>6, <3>2
        <3> QED BY <2>5, <3>3
    <2>6. CASE d \notin S
        <3>1. G = H
            BY <2>4, <2>6
        <3> HIDE DEF H, G, S, u
        <3> QED BY <1>1, <1>2, <1>3, <3>1
    <2> QED BY <2>5, <2>6
<1> QED BY <1>3, <1>5, <1>6 DEF RowStep

\* The ledger changes by a first DEBIT, which a reservation between its two
\* sums overlooks.
FirstDebit(w) ==
    /\ debits[w] = 0 /\ debits' = [debits EXCEPT ![w] = 1]
    /\ missed' = IF Summing(UserOf[w]) THEN missed \cup {w} ELSE missed

LedgerStep == UNCHANGED <<debits, missed>> \/ \E w \in Calls : FirstDebit(w)

LEMMA LedgerMoves ==
    ASSUME TypeOK, Next
    PROVE  LedgerStep
<1>1. ASSUME NEW w \in Calls, NEW s, FinalizeRow(w, s)
      PROVE  LedgerStep
    <2>1. CASE debits[w] = 0
        BY <1>1, <2>1 DEF FinalizeRow, FirstDebit, LedgerStep
    <2>2. CASE debits[w] # 0
        BY <1>1, <2>2 DEF FinalizeRow, LedgerStep, TypeOK
    <2> QED BY <2>1, <2>2
<1>2. ASSUME NEW c \in Calls, CallStep(c) \/ Crash(c)
      PROVE  LedgerStep
    <2>1. call[c].row \in Calls
        BY DEF TypeOK, CallType
    <2>2. UNCHANGED <<debits, missed>> \/ FinalizeRow(call[c].row, call[c].sig)
        BY <1>2 DEF CallStep, Crash, Lookup, SumDebits, SumReserved, InsertReservation,
                    UpdateCheck, UpdateWrite, Build, Sign, Submit, Confirm, Finalize, Release
    <2> QED BY <1>1, <2>1, <2>2 DEF LedgerStep
<1>3. ASSUME NEW x \in Calls, Land(x) \/ Die(x) \/ GrowOld(x)
      PROVE  LedgerStep
    BY <1>3 DEF Land, Die, GrowOld, LedgerStep
<1>4. CASE ReconStep \/ ReconCrash
    <2>1. UNCHANGED <<debits, missed>> \/ \E w \in Calls : FinalizeRow(w, recon.seen[w])
        BY <1>4
           DEF ReconStep, ReconCrash, ReconRow, SkipBatch, vars, ScanRows, EndBatch, ParseFails,
               ReconFinalizeFails, ReconReleaseFails, ReconUpdateCheck, ReconUpdateWrite,
               TakeRow, ParseTx, ReconFinalize, ReconRelease
    <2> QED BY <1>1, <2>1 DEF LedgerStep
<1> QED BY <1>2, <1>3, <1>4 DEF Next

\* What has been overlooked stays overlooked.
LEMMA OverlookedGrows ==
    ASSUME TypeOK, TypeOK', LedgerStep, NEW u
    PROVE  /\ Overlooked(u) \in Nat /\ Overlooked(u)' \in Nat
           /\ Overlooked(u)' >= Overlooked(u)
<1> DEFINE M == [w \in RowsOf(u) |-> IF w \in missed THEN AmountOf[w] ELSE 0]
           N == [w \in RowsOf(u) |-> IF w \in missed' THEN AmountOf[w] ELSE 0]
<1>1. IsFiniteSet(RowsOf(u)) /\ RowsOf(u) \subseteq Calls
    BY SumTypes DEF TypeOK
<1>2. missed \subseteq missed'
    BY DEF LedgerStep, FirstDebit
<1>3. \A w \in Calls : AmountOf[w] \in Nat
    BY AmountsAssumption
<1>4. M \in [RowsOf(u) -> Nat] /\ N \in [RowsOf(u) -> Nat] /\ \A w \in RowsOf(u) : M[w] <= N[w]
    BY <1>1, <1>2, <1>3
<1>5. Overlooked(u) = Total(M) /\ Overlooked(u)' = Total(N)
    BY DEF Overlooked, RowsOf
<1> HIDE DEF M, N
<1>6. Total(M) <= Total(N) /\ Total(M) \in Nat /\ Total(N) \in Nat
    BY <1>1, <1>4, TotalMonotone, TotalType
<1> QED BY <1>5, <1>6

\* While a reservation is between its two sums, a new DEBIT of its user is one
\* that it overlooks.
LEMMA SumStaysGood ==
    ASSUME TypeOK, TypeOK', LedgerStep, NEW u, Summing(u), \A w \in missed : debits[w] > 0
    PROVE  /\ Debited(u) \in Nat /\ Debited(u)' \in Nat
           /\ Overlooked(u) \in Nat /\ Overlooked(u)' \in Nat
           /\ Debited(u)' - Overlooked(u)' = Debited(u) - Overlooked(u)
<1> DEFINE S == RowsOf(u)
           D == [w \in S |-> debits[w] * AmountOf[w]]
           E == [w \in S |-> debits'[w] * AmountOf[w]]
           M == [w \in S |-> IF w \in missed THEN AmountOf[w] ELSE 0]
           N == [w \in S |-> IF w \in missed' THEN AmountOf[w] ELSE 0]
<1>1. IsFiniteSet(S) /\ S \subseteq Calls
    BY SumTypes DEF TypeOK
<1>2. /\ Debited(u) = Total(D) /\ Debited(u)' = Total(E)
      /\ Overlooked(u) = Total(M) /\ Overlooked(u)' = Total(N)
    BY DEF Debited, Overlooked, RowsOf
<1>3. \A w \in Calls : AmountOf[w] \in Nat /\ debits[w] \in Nat /\ debits'[w] \in Nat
    BY AmountsAssumption DEF TypeOK
<1>4. /\ D \in [S -> Nat] /\ E \in [S -> Nat] /\ M \in [S -> Nat] /\ N \in [S -> Nat]
    <2>1. \A w \in Calls : debits[w] * AmountOf[w] \in Nat /\ debits'[w] * AmountOf[w] \in Nat
        BY <1>3
    <2> QED BY <1>1, <1>3, <2>1
<1>5. /\ Total(D) \in Nat /\ Total(E) \in Nat /\ Total(M) \in Nat /\ Total(N) \in Nat
    <2> HIDE DEF S, D, E, M, N
    <2> QED BY <1>1, <1>4, TotalType
<1>6. CASE D = E /\ M = N
    <2> HIDE DEF S, D, E, M, N
    <2> QED BY <1>2, <1>5, <1>6
<1>7. ASSUME NEW w \in S, FirstDebit(w)
      PROVE  Debited(u)' - Overlooked(u)' = Debited(u) - Overlooked(u)
    <2>1. /\ debits[w] = 0 /\ debits'[w] = 1 /\ w \in Calls
          /\ \A v \in Calls \ {w} : debits'[v] = debits[v]
          /\ w \notin missed /\ missed' = missed \cup {w}
        BY <1>1, <1>7 DEF FirstDebit, TypeOK, RowsOf
    <2>2. /\ D[w] = 0 /\ E[w] = AmountOf[w] /\ M[w] = 0 /\ N[w] = AmountOf[w]
          /\ \A v \in S \ {w} : E[v] = D[v] /\ N[v] = M[v]
        BY <1>1, <1>3, <2>1
    <2> HIDE DEF S, D, E, M, N
    <2>3. Total(E) = Total(D) + AmountOf[w]
        BY <1>1, <1>3, <1>4, <1>7, <2>1, <2>2, TotalAdded
    <2>4. Total(N) = Total(M) + AmountOf[w]
        BY <1>1, <1>3, <1>4, <1>7, <2>1, <2>2, TotalAdded
    <2> QED BY <1>2, <1>3, <1>5, <2>1, <2>3, <2>4
<1>8. ASSUME NEW w \in Calls \ S, FirstDebit(w)
      PROVE  D = E /\ M = N
    BY <1>1, <1>8 DEF FirstDebit, TypeOK
<1>9. UNCHANGED <<debits, missed>> => D = E /\ M = N
    OBVIOUS
<1> HIDE DEF S, D, E, M, N
<1> QED BY <1>1, <1>2, <1>5, <1>6, <1>7, <1>8, <1>9 DEF LedgerStep

-----------------------------------------------------------------------------
(***************************************************************************)
(* One reservation of a user at a time: what it finds covered stays so.    *)
(***************************************************************************)
\* A call comes to sum what is reserved, or to insert its row, by the two steps
\* of reserve_withdrawal_atomic that lead there.
LEMMA CallReserves ==
    ASSUME TypeOK, Next, NEW c \in Calls, call'[c].pc \in {"sum", "insert"}
    PROVE  \/ call'[c] = call[c]
           \/ /\ SumDebits(c) /\ call'[c].pc = "sum"
              /\ call'[c].free = Funds[UserOf[c]] - Debited(UserOf[c])
              /\ UNCHANGED <<rows, debits, missed>>
           \/ /\ SumReserved(c) /\ call[c].pc = "sum" /\ call'[c].pc = "insert"
              /\ call[c].free - Reserved(UserOf[c]) >= AmountOf[c]
              /\ UNCHANGED <<rows, debits, missed>>
<1>0. call \in [Calls -> CallType] /\ call[c] \in CallType
    BY DEF TypeOK
<1>1. ASSUME NEW d \in Calls, CallStep(d) \/ Crash(d), d # c
      PROVE  call'[c] = call[c]
    BY <1>1, OneCallMoves
<1>2. ASSUME NEW x \in Calls, Land(x) \/ Die(x) \/ GrowOld(x)
      PROVE  call'[c] = call[c]
    BY <1>2 DEF Land, Die, GrowOld
<1>3. ASSUME ReconStep \/ ReconCrash
      PROVE  call'[c] = call[c]
    BY <1>3 DEF ReconStep, ReconCrash, ReconRow, SkipBatch, vars, ScanRows, EndBatch, ParseFails,
               ReconFinalizeFails, ReconReleaseFails, ReconUpdateCheck, ReconUpdateWrite,
               TakeRow, ParseTx, ReconFinalize, ReconRelease
<1>4. ASSUME NEW p, Goto(c, p)
      PROVE  p \in {"sum", "insert"}
    BY <1>4, GotoIs
<1>5. CASE SumDebits(c)
    <2>1. ASSUME NEW w, call' = [call EXCEPT ![c] = [@ EXCEPT !.pc = "BUILDING", !.row = w]]
          PROVE  FALSE
        BY <1>0, <2>1 DEF CallType
    <2>4. ~Goto(c, "done")
        BY <1>4
    <2>2. call' = [call EXCEPT ![c] = [@ EXCEPT !.pc = "sum",
                                              !.free = Funds[UserOf[c]] - Debited(UserOf[c])]]
        BY <1>5, <2>1, <2>4 DEF SumDebits
    <2>3. call'[c].pc = "sum" /\ call'[c].free = Funds[UserOf[c]] - Debited(UserOf[c])
        BY <1>0, <2>2 DEF CallType
    <2> QED BY <1>5, <2>3 DEF SumDebits
<1>6. CASE SumReserved(c)
    <2> DEFINE covered == call[c].free - Reserved(UserOf[c]) >= AmountOf[c]
    <2>1. call' = [call EXCEPT ![c] = [@ EXCEPT !.pc = IF covered THEN "insert" ELSE "done",
                                                !.free = 0]]
        BY <1>6 DEF SumReserved
    <2>2. call'[c].pc = IF covered THEN "insert" ELSE "done"
        <3> HIDE DEF covered
        <3> QED BY <1>0, <2>1 DEF CallType
    <2> QED BY <1>6, <2>2 DEF SumReserved
<1>7. CASE UpdateCheck(c)
    <2>1. call[c].pc \notin {"sum", "insert"}
        BY <1>7, Tables DEF UpdateCheck
    <2>2. CASE call' = [call EXCEPT ![c].checked = TRUE]
        BY <1>0, <2>1, <2>2 DEF CallType
    <2>3. CASE Goto(c, "done")
        BY <1>4, <2>3
    <2> QED BY <1>7, <2>2, <2>3 DEF UpdateCheck
<1>8. CASE UpdateWrite(c)
    <2>1. \A p \in Updates : AfterUpdate[p] \notin {"sum", "insert"}
        BY DEF Updates, AfterUpdate
    <2> QED BY <1>4, <1>8, <2>1 DEF UpdateWrite
<1>9. CASE Build(c)
    <2>1. ASSUME NEW s, Built(c, s)
          PROVE  FALSE
        BY <1>0, <2>1 DEF Built, CallType
    <2> QED BY <1>4, <1>9, <2>1 DEF Build
<1>10. ASSUME \/ Lookup(c) \/ InsertReservation(c) \/ Sign(c) \/ Submit(c) \/ Confirm(c)
              \/ Finalize(c) \/ Release(c) \/ Crash(c)
       PROVE  FALSE
    BY <1>4, <1>10 DEF Lookup, InsertReservation, Sign, Submit, Confirm, Finalize, Release, Crash
<1>11. CASE CallStep(c) \/ Crash(c)
    BY <1>5, <1>6, <1>7, <1>8, <1>9, <1>10, <1>11 DEF CallStep
<1> QED BY <1>1, <1>2, <1>3, <1>11 DEF Next

\* The user's lock lets one reservation of a user sum and insert at a time ...
OneReserves ==
    \A c, d \in Calls :
        c # d /\ UserOf[c] = UserOf[d] /\ call[c].pc \in {"sum", "insert"}
        => call[d].pc \notin {"sum", "insert"}

\* ... the sum it has made is right but for what it overlooks ...
SumIsGood ==
    \A c \in Calls : call[c].pc = "sum" =>
        call[c].free <= Funds[UserOf[c]] - Debited(UserOf[c]) + Overlooked(UserOf[c])

\* ... and so is the balance it has found to cover its row.
CheckIsGood ==
    \A c \in Calls : call[c].pc = "insert" =>
        AmountOf[c] <= Balance(UserOf[c]) + Overlooked(UserOf[c])

Covered ==
    /\ OneReserves
    /\ \A w \in missed : debits[w] > 0
    /\ SumIsGood
    /\ CheckIsGood
    /\ NoOverdraft

\* Every step keeps the reservations of a user one at a time ...
LEMMA OneReservesKept ==
    ASSUME "no_lock" \notin Faults, TypeOK, OneReserves, Next
    PROVE  OneReserves'
<1> SUFFICES ASSUME NEW c \in Calls, NEW d \in Calls, c # d, UserOf[c] = UserOf[d],
                    call'[c].pc \in {"sum", "insert"}, call'[d].pc \in {"sum", "insert"}
             PROVE  FALSE
    BY DEF OneReserves
<1>1. ASSUME NEW e \in Calls, NEW f \in Calls, e # f, UserOf[e] = UserOf[f],
             call'[f].pc \in {"sum", "insert"}, SumDebits(e) \/ SumReserved(e)
      PROVE  FALSE
    <2>1. call[f].pc \in {"sum", "insert"}
        BY <1>1, OneCallMoves DEF CallStep
    <2>2. ~SumDebits(e)
        BY <1>1, <2>1 DEF SumDebits, UserLocked, RowsOf
    <2>3. ~SumReserved(e)
        BY <1>1, <2>1 DEF SumReserved, OneReserves
    <2> QED BY <1>1, <2>2, <2>3
<1>2. call'[c] = call[c] /\ call'[d] = call[d]
    BY <1>1, CallReserves
<1> QED BY <1>2 DEF OneReserves

\* ... and all the rest.
LEMMA CoveredKept ==
    ASSUME "no_lock" \notin Faults, TypeOK, TypeOK', OwnInv, BalanceIs, BalanceIs', Covered,
           Next, RowStep
    PROVE  Covered'
<1>1. LedgerStep
    BY LedgerMoves
<1>2. OneReserves'
    BY OneReservesKept DEF Covered
<1>3. \A w \in missed' : debits'[w] > 0
    BY <1>1 DEF Covered, LedgerStep, FirstDebit, TypeOK
<1>4. ASSUME NEW c \in Calls
      PROVE  /\ Funds[UserOf[c]] \in Nat /\ AmountOf[c] \in Nat /\ call[c].free \in Int
             /\ Debited(UserOf[c]) \in Nat /\ Debited(UserOf[c])' \in Nat
             /\ Reserved(UserOf[c]) \in Nat
             /\ Overlooked(UserOf[c]) \in Nat /\ Overlooked(UserOf[c])' \in Nat
             /\ Overlooked(UserOf[c])' >= Overlooked(UserOf[c])
             /\ Balance(UserOf[c]) = Funds[UserOf[c]] - Debited(UserOf[c]) - Reserved(UserOf[c])
    <2>1. RowsOf(UserOf[c])' = RowsOf(UserOf[c])
        BY DEF RowsOf
    <2>2. Debited(UserOf[c])' \in Nat
        <3> DEFINE S == RowsOf(UserOf[c])
                   E == [w \in S |-> debits'[w] * AmountOf[w]]
        <3>1. IsFiniteSet(S) /\ S \subseteq Calls
            BY SumTypes DEF TypeOK
        <3>2. \A w \in Calls : AmountOf[w] \in Nat /\ debits'[w] \in Nat /\ debits'[w] * AmountOf[w] \in Nat
            BY AmountsAssumption DEF TypeOK
        <3>3. E \in [S -> Nat]
            BY <3>1, <3>2
        <3>4. Debited(UserOf[c])' = Total(E)
            BY DEF Debited, RowsOf
        <3> HIDE DEF E, S
        <3> QED BY <3>1, <3>3, <3>4, TotalType
    <2> QED BY <1>1, <2>2, SumTypes, OverlookedGrows, AmountsAssumption DEF TypeOK, CallType, Balance
<1>5. ASSUME NEW c \in Calls, call'[c].pc = "sum"
      PROVE  call'[c].free <= Funds[UserOf[c]] - Debited(UserOf[c])' + Overlooked(UserOf[c])'
    <2>1. CASE call'[c] = call[c]
        <3>1. call[c].free <= Funds[UserOf[c]] - Debited(UserOf[c]) + Overlooked(UserOf[c])
            BY <1>5, <2>1 DEF Covered, SumIsGood
        <3>2. Summing(UserOf[c])
            BY <1>5, <2>1 DEF Summing, RowsOf
        <3>3. Debited(UserOf[c])' - Overlooked(UserOf[c])' = Debited(UserOf[c]) - Overlooked(UserOf[c])
            BY <1>1, <3>2, SumStaysGood DEF Covered
        <3> QED BY <1>4, <2>1, <3>1, <3>3
    <2>2. CASE /\ call'[c].free = Funds[UserOf[c]] - Debited(UserOf[c])
               /\ UNCHANGED <<rows, debits, missed>>
        <3>1. Debited(UserOf[c])' = Debited(UserOf[c])
            BY <2>2 DEF Debited, RowsOf
        <3> QED BY <1>4, <2>2, <3>1
    <2> QED BY <1>5, <2>1, <2>2, CallReserves
<1>6. ASSUME NEW c \in Calls
      PROVE  /\ Balance(UserOf[c]) \in Int /\ Balance(UserOf[c])' \in Int
             /\ \/ Balance(UserOf[c])' >= Balance(UserOf[c])
                \/ \E d \in Calls :
                      /\ UserOf[d] = UserOf[c] /\ Inserts(d)
                      /\ Balance(UserOf[c])' = Balance(UserOf[c]) - AmountOf[d]
    BY BalanceKept DEF RowsOf
<1>7. ASSUME NEW c \in Calls, call'[c].pc = "insert"
      PROVE  AmountOf[c] <= Balance(UserOf[c])' + Overlooked(UserOf[c])'
    <2>1. CASE call'[c] = call[c]
        <3>1. AmountOf[c] <= Balance(UserOf[c]) + Overlooked(UserOf[c])
            BY <1>7, <2>1 DEF Covered, CheckIsGood
        <3>2. ASSUME NEW d \in Calls, UserOf[d] = UserOf[c], Inserts(d)
              PROVE  FALSE
            BY <1>7, <2>1, <3>2 DEF Inserts, Covered, OneReserves
        <3> QED BY <1>4, <1>6, <3>1, <3>2
    <2>2. CASE /\ call[c].pc = "sum" /\ call[c].free - Reserved(UserOf[c]) >= AmountOf[c]
               /\ UNCHANGED <<rows, debits, missed>>
        <3>1. call[c].free <= Funds[UserOf[c]] - Debited(UserOf[c]) + Overlooked(UserOf[c])
            BY <2>2 DEF Covered, SumIsGood
        <3>2. Balance(UserOf[c])' = Balance(UserOf[c])
            BY <2>2 DEF Balance, Debited, Reserved, RowsOf
        <3> QED BY <1>4, <2>2, <3>1, <3>2
    <2> QED BY <1>7, <2>1, <2>2, CallReserves
<1>8. ASSUME NEW c \in Calls
      PROVE  Balance(UserOf[c])' + Overlooked(UserOf[c])' >= 0
    <2>1. Balance(UserOf[c]) + Overlooked(UserOf[c]) >= 0
        BY DEF Covered, NoOverdraft
    <2>2. ASSUME NEW d \in Calls, UserOf[d] = UserOf[c], Inserts(d)
          PROVE  AmountOf[d] <= Balance(UserOf[c]) + Overlooked(UserOf[c]) /\ AmountOf[d] \in Nat
        BY <1>4, <2>2 DEF Inserts, Covered, CheckIsGood
    <2> QED BY <1>4, <1>6, <2>1, <2>2
<1>9. SumIsGood'
    BY <1>5 DEF SumIsGood
<1>10. CheckIsGood'
    BY <1>7 DEF CheckIsGood
<1>11. NoOverdraft'
    BY <1>8 DEF NoOverdraft
<1> QED BY <1>2, <1>3, <1>9, <1>10, <1>11 DEF Covered

\* At first nothing is debited or reserved.
LEMMA InitCovered ==
    ASSUME Init, BalanceIs
    PROVE  Covered
<1>1. NoOverdraft
    <2> SUFFICES ASSUME NEW c \in Calls
                 PROVE  Balance(UserOf[c]) + Overlooked(UserOf[c]) >= 0
        BY DEF NoOverdraft
    <2> DEFINE S == RowsOf(UserOf[c])
               H == [w \in S |-> Taken(w)]
    <2>1. \A w \in S : H[w] = 0
        <3>1. \A w \in S : debits[w] = 0 /\ rows[w].status = "ABSENT"
            BY DEF Init, RowsOf
        <3> QED BY <3>1 DEF Taken, Reserving
    <2>2. UnitsOf(H) = {}
        BY <2>1 DEF UnitsOf
    <2>3. Total(H) = 0
        BY <2>2, FS_EmptySet DEF Total
    <2>4. Funds[UserOf[c]] \in Nat /\ Balance(UserOf[c]) = Funds[UserOf[c]] - Total(H)
        BY AmountsAssumption DEF BalanceIs
    <2>5. Overlooked(UserOf[c]) \in Nat
        BY InitType, SumTypes DEF TypeOK
    <2> HIDE DEF H
    <2> QED BY <2>3, <2>4, <2>5
<1>2. missed = {} /\ \A c \in Calls : call[c].pc = "idle"
    BY DEF Init
<1> QED BY <1>1, <1>2 DEF Covered, OneReserves, SumIsGood, CheckIsGood

LEMMA StutterCovered == Covered /\ UNCHANGED vars => Covered'
BY DEF Covered, OneReserves, SumIsGood, CheckIsGood, NoOverdraft, Balance, Debited, Reserved,
       Overlooked, RowsOf, vars

\* As long as reservations wait for the lock of their user, what they find
\* covered is, but for what they overlook.
LEMMA CoveredInvariance ==
    ASSUME OwnKeys, {"slow", "no_lock"} \cap Faults = {}
    PROVE  Spec => [](IInv /\ OwnInv /\ Covered) /\ [][RowStep]_vars
<1>1. IInv /\ OwnInv => TypeOK /\ BalanceIs
    BY BalanceByRows, AmountsAssumption DEF BalanceIs, IInv
<1>2. Init /\ BalanceIs => Covered
    BY InitCovered
<1>3. TypeOK /\ TypeOK' /\ OwnInv /\ BalanceIs /\ BalanceIs' /\ Covered /\ Next /\ RowStep => Covered'
    BY CoveredKept
<1>4. Covered /\ UNCHANGED vars => Covered'
    BY StutterCovered
<1>5. "slow" \notin Faults
    OBVIOUS
<1>6. Spec => [](IInv /\ OwnInv) /\ [][RowStep]_vars
    BY <1>5, OwnInvariance
<1>7. IInv /\ OwnInv /\ Next => RowStep
    BY <1>5, StepOwn
<1> QED BY <1>1, <1>2, <1>3, <1>4, <1>6, <1>7, PTL DEF Spec

\* However the calls of a user interleave, die and are retried, and whatever
\* the reconciler makes of them, what is debited and reserved exceeds the
\* user's credits by no more than the withdrawals that were finalized between
\* the two sums of a reservation (reserve_withdrawal_atomic sums under the lock
\* of the user, which finalize_withdrawal_atomic does not take).
THEOREM NeverOverdrawn ==
    OwnKeys /\ {"slow", "no_lock"} \cap Faults = {} => (Spec => []NoOverdraft)
<1> SUFFICES ASSUME OwnKeys, {"slow", "no_lock"} \cap Faults = {}
             PROVE  Spec => []NoOverdraft
    OBVIOUS
<1>1. Covered => NoOverdraft
    BY DEF Covered
<1> QED BY <1>1, CoveredInvariance, PTL

-----------------------------------------------------------------------------
(***************************************************************************)
(* Without faults a released row never pays, and the pipeline implements   *)
(* WithdrawalContract.                                                     *)
(***************************************************************************)
\* A transaction that was sent belongs to a row that is, or is about to be,
\* CONFIRMING, and it has died before its row is five minutes old.
Known(c) ==
    /\ chain[c].state # "none" => call[c].sig = c
    /\ chain[c].state \in {"pending", "landed"} =>
          call[c].pc = "CONFIRMING" \/ rows[c].status \in Underway
    /\ Live(c) => rows[c].age = 0

TransfersAreKnown == \A c \in Calls : Known(c)

\* What is released has no transaction that could still land, and no plain
\* update to FAILED is ever needed.
ReleasesAreDead ==
    /\ recon.pc = "release" => chain[recon.row].state \in {"none", "dead"}
    /\ recon.pc # "FAILED"
    /\ \A c \in Calls : call[c].pc # "FAILED"

SureInv ==
    /\ OwnTransactions
    /\ TransfersAreKnown
    /\ ReleasesAreDead

\* Without faults a call sends no transaction but its own, and only as it goes
\* on to CONFIRMING.
LEMMA CallSendsOwn ==
    ASSUME Faults = {}, IInv, SureInv, NEW c \in Calls, CallStep(c)
    PROVE  /\ \A d \in Calls \ {c} : chain'[d] = chain[d]
           /\ \/ chain'[c] = chain[c]
              \/ /\ chain[c].state = "none" /\ chain'[c].state = "built"
                 /\ call'[c].sig = c
              \/ /\ Live(c) /\ chain'[c].state = "pending"
                 /\ call'[c].sig = c /\ call'[c].pc = "CONFIRMING"
<1>0. TypeOK /\ call[c] \in CallType /\ None \notin Calls /\ call \in [Calls -> CallType]
      /\ chain \in [Calls -> ChainType] /\ chain[c] \in ChainType
    BY Shapes DEF IInv, TypeOK
<1>1. CASE Build(c)
    <2>1. CASE UNCHANGED chain
        BY <2>1
    <2>2. CASE Built(c, c) /\ chain' = [chain EXCEPT ![c].state = "built"]
        <3>1. chain[c].state = "none"
            BY <1>1 DEF Build, IInv, CallsKnowTheirTransaction, BeforeBuild
        <3> QED BY <1>0, <2>2, <3>1 DEF Built, CallType, ChainType
    <2> QED BY <1>1, <2>1, <2>2 DEF Build
<1>2. CASE Submit(c)
    <2>1. CASE UNCHANGED chain
        BY <2>1
    <2>2. CASE Broadcast(call[c].sig) /\ Goto(c, "CONFIRMING")
        <3>1. call[c].sig = c
            BY <1>0, <1>2 DEF Submit, IInv, CallsKnowTheirTransaction, AfterBuild,
                              SureInv, OwnTransactions
        <3>2. call'[c].pc = "CONFIRMING" /\ call'[c].sig = c
            BY <1>0, <2>2, <3>1, GotoIs
        <3>3. CASE Live(c) /\ chain' = [chain EXCEPT ![c].state = "pending"]
            BY <1>0, <3>2, <3>3 DEF ChainType
        <3> QED BY <2>1, <2>2, <3>1, <3>3 DEF Broadcast
    <2> QED BY <1>2, <2>1, <2>2 DEF Submit
<1> QED BY <1>1, <1>2 DEF CallStep, Lookup, SumDebits, SumReserved, InsertReservation,
                         UpdateCheck, UpdateWrite, Sign, Confirm, Finalize, Release

\* Without faults a call needs no plain update to FAILED, and one that has
\* sent its transaction goes on to write CONFIRMING.
LEMMA CallGoesOn ==
    ASSUME Faults = {}, IInv, OwnInv, SureInv, NEW c \in Calls, CallStep(c)
    PROVE  /\ call'[c].pc # "FAILED"
           /\ call[c].pc = "CONFIRMING" =>
                 call'[c].pc = "CONFIRMING" \/ rows'[c].status = "CONFIRMING"
<1>0. /\ TypeOK /\ call[c] \in CallType /\ call \in [Calls -> CallType]
      /\ rows \in [Calls -> RowType] /\ rows[c] \in RowType
      /\ call[c].pc # "FAILED" /\ call[c].row = c
    BY Shapes DEF IInv, OwnInv, RowsFollowCalls, Follows, SureInv, ReleasesAreDead
<1>1. CASE UpdateCheck(c)
    <2>1. CASE call' = [call EXCEPT ![c].checked = TRUE]
        BY <1>0, <2>1 DEF CallType
    <2>2. CASE /\ call[c].pc \notin ValidTransitions[rows[call[c].row].status]
               /\ Goto(c, "done")
        <3>1. call[c].pc # "CONFIRMING"
            BY <1>0, <2>2 DEF OwnInv, RowsFollowCalls, Follows, ValidTransitions
        <3> QED BY <1>0, <2>2, <3>1, GotoIs
    <2> QED BY <1>1, <2>1, <2>2 DEF UpdateCheck
<1>2. CASE UpdateWrite(c)
    <2>1. /\ WriteStatus(c, call[c].pc, call[c].sig)
          /\ Goto(c, AfterUpdate[call[c].pc]) /\ call[c].pc \in Updates
        BY <1>0, <1>2 DEF UpdateWrite
    <2>2. \A p \in Updates : AfterUpdate[p] # "FAILED"
        BY DEF Updates, AfterUpdate
    <2>3. call[c].pc = "CONFIRMING" => rows'[c].status = "CONFIRMING"
        BY <1>0, <2>1 DEF WriteStatus, RowType
    <2> QED BY <1>0, <2>1, <2>2, <2>3, GotoIs
<1>3. CASE Build(c)
    <2>1. ASSUME NEW s \in Calls, Built(c, s)
          PROVE  call'[c].pc = "AWAITING_SIGNATURE"
        BY <1>0, <2>1 DEF Built, CallType
    <2>2. Goto(c, "done") \/ Built(c, c)
        BY <1>3 DEF Build
    <2> QED BY <1>0, <1>3, <2>1, <2>2, GotoIs DEF Build
<1>4. CASE SumDebits(c) \/ SumReserved(c) \/ InsertReservation(c)
    BY <1>0, <1>4, ReserveMoves
<1>5. CASE Lookup(c) \/ Sign(c) \/ Submit(c)
    BY <1>0, <1>5, GotoIs DEF Lookup, Sign, Submit
<1>6. CASE Confirm(c) \/ Finalize(c) \/ Release(c)
    BY <1>0, <1>6, GotoIs DEF Confirm, Finalize, Release
<1> QED BY <1>1, <1>2, <1>3, <1>4, <1>5, <1>6 DEF CallStep

\* A step of a call keeps what is known about the transfers.
LEMMA CallStepSure ==
    ASSUME OwnKeys, Faults = {}, IInv, OwnInv, SureInv, NEW c \in Calls, CallStep(c)
    PROVE  TransfersAreKnown' /\ ReleasesAreDead'
<1>1. /\ call[c].pc # "done" /\ MovesOwnRow(c)
      /\ Follows(c)' /\ InOrder(c)'
    BY CallMovesRow
<1>2. /\ UNCHANGED recon /\ \A d \in Calls \ {c} : call'[d] = call[d]
      /\ call'[c].sig \in {call[c].sig, c}
    BY OneCallMoves DEF IInv
<1>3. /\ \A d \in Calls \ {c} : chain'[d] = chain[d]
      /\ \/ chain'[c] = chain[c]
         \/ /\ chain[c].state = "none" /\ chain'[c].state = "built"
            /\ call'[c].sig = c
         \/ /\ Live(c) /\ chain'[c].state = "pending"
            /\ call'[c].sig = c /\ call'[c].pc = "CONFIRMING"
    BY CallSendsOwn
<1>4. /\ call'[c].pc # "FAILED"
      /\ call[c].pc = "CONFIRMING" =>
            call'[c].pc = "CONFIRMING" \/ rows'[c].status = "CONFIRMING"
    BY CallGoesOn
<1>5. rows[c].age = 0 /\ rows'[c].age = 0
    BY <1>1, Shapes DEF IInv, OwnInv, RowsFollowCalls, InOrder, MovesOwnRow
<1>6. Known(c)
    BY DEF SureInv, TransfersAreKnown
<1>7. Known(c)'
    <2>1. CASE chain'[c] = chain[c]
        BY <1>1, <1>2, <1>4, <1>5, <1>6, <2>1 DEF Known, Live, MovesOwnRow, Underway
    <2>2. CASE chain'[c] # chain[c]
        BY <1>3, <1>5, <2>2 DEF Known, Live
    <2> QED BY <2>1, <2>2
<1>8. \A d \in Calls \ {c} : Known(d)'
    BY <1>1, <1>2, <1>3 DEF SureInv, TransfersAreKnown, Known, Live, MovesOwnRow
<1>9. recon.pc = "release" => recon.row \in Calls \ {c}
    <2>1. recon.pc = "release" => recon.row \in Calls /\ rows[recon.row].age > 0
        BY DEF OwnInv, BatchReleasesOld
    <2> QED BY <1>5, <2>1
<1>10. ReleasesAreDead'
    BY <1>2, <1>3, <1>4, <1>9 DEF SureInv, ReleasesAreDead
<1> QED BY <1>7, <1>8, <1>10 DEF TransfersAreKnown

\* The network and the clock: only a sent transaction lands, and a row whose
\* transaction could still land does not grow old.
LEMMA WorldStepSure ==
    ASSUME Faults = {}, IInv, OwnInv, SureInv, NEW w \in Calls,
           Land(w) \/ Die(w) \/ GrowOld(w)
    PROVE  TransfersAreKnown' /\ ReleasesAreDead'
<1>0. /\ chain \in [Calls -> ChainType] /\ chain[w] \in ChainType
      /\ rows \in [Calls -> RowType] /\ recon \in ReconType
      /\ \A v \in Calls : rows[v].age \in 0 .. 2
    BY Shapes DEF IInv, TypeOK
<1>1. CASE Land(w) \/ Die(w)
    <2>1. /\ \A v \in Calls \ {w} : chain'[v] = chain[v]
          /\ \/ chain[w].state = "pending" /\ chain'[w].state = "landed"
             \/ Live(w) /\ chain'[w].state = "dead"
          /\ UNCHANGED <<rows, debits, call, recon>>
        BY <1>0, <1>1 DEF Land, Die, ChainType
    <2>2. TransfersAreKnown'
        BY <2>1 DEF SureInv, TransfersAreKnown, Known, Live
    <2>3. ReleasesAreDead'
        BY <2>1 DEF SureInv, ReleasesAreDead, OwnInv, BatchReleasesOld, Live
    <2> QED BY <2>2, <2>3
<1>2. CASE GrowOld(w)
    <2>1. /\ {s \in Calls : Live(s) /\ Carries(s, w)} = {}
          /\ rows' = [rows EXCEPT ![w].age = @ + 1]
          /\ UNCHANGED <<debits, call>>
        BY <1>2 DEF GrowOld
    <2>2. \A s \in Calls : chain'[s] = chain[s]
        BY <1>2, <2>1 DEF GrowOld
    <2>3. recon'.pc = recon.pc /\ recon'.row = recon.row
        BY <1>0, <1>2 DEF GrowOld, ReconType
    <2>4. ~Live(w)
        <3>1. Live(w) => Carries(w, w)
            BY DEF Live, Carries, SureInv, TransfersAreKnown, Known,
                   OwnInv, RowsFollowCalls, Follows
        <3> QED BY <2>1, <3>1
    <2>5. /\ \A v \in Calls : rows'[v].status = rows[v].status
          /\ \A v \in Calls \ {w} : rows'[v] = rows[v]
        BY <1>0, <2>1 DEF RowType
    <2>6. TransfersAreKnown'
        BY <2>1, <2>2, <2>4, <2>5 DEF SureInv, TransfersAreKnown, Known, Live
    <2>7. ReleasesAreDead'
        BY <2>1, <2>2, <2>3 DEF SureInv, ReleasesAreDead, OwnInv, BatchReleasesOld
    <2> QED BY <2>6, <2>7
<1> QED BY <1>1, <1>2

\* The reconciler leaves the calls and the chain alone, and the rows as old as
\* they were; it moves one row, which it finalizes or releases.
LEMMA ReconMovesOne ==
    ASSUME Faults = {}, IInv, OwnInv, SureInv, ReconStep
    PROVE  /\ UNCHANGED <<call, chain>>
           /\ \/ UNCHANGED rows
              \/ \E w \in Calls :
                    /\ \A v \in Calls \ {w} : rows'[v] = rows[v]
                    /\ rows'[w].age = rows[w].age
                    /\ \/ rows'[w].status = "CONFIRMED"
                       \/ recon.pc = "release" /\ recon.row = w
<1>0. rows \in [Calls -> RowType] /\ \A w \in Calls : rows[w] \in RowType
    BY Shapes DEF IInv
<1>1. CASE \E w \in Calls : ReconFinalize(w)
    BY <1>0, <1>1 DEF ReconFinalize, FinalizeRow, RowType
<1>2. CASE \E w \in Calls : ReconRelease(w)
    BY <1>0, <1>2 DEF ReconRelease, ReleaseRow, RowType
<1>3. recon.pc # "FAILED"
    BY DEF SureInv, ReleasesAreDead
<1> QED BY <1>1, <1>2, <1>3 DEF ReconStep, ReconRow, SkipBatch, vars, ScanRows, EndBatch, ParseFails,
       ReconFinalizeFails, ReconReleaseFails, ReconUpdateCheck, ReconUpdateWrite,
       TakeRow, ParseTx

\* The reconciler begins to release a row only when its transaction is dead, or
\* was never built.
LEMMA ReleaseBegins ==
    ASSUME Faults = {}, IInv, OwnInv, SureInv, ReconStep
    PROVE  /\ recon'.pc # "FAILED"
           /\ recon'.pc = "release" =>
                 recon'.row \in Calls /\ chain[recon'.row].state \in {"none", "dead"}
<1>0. /\ recon \in ReconType /\ recon.age \in 0 .. 2 /\ recon.pc # "FAILED"
      /\ chain \in [Calls -> ChainType] /\ \A v \in Calls : rows[v].age \in 0 .. 2
      /\ None \notin Calls /\ recon.todo \in SUBSET Calls
    BY Shapes DEF IInv, TypeOK, SureInv, ReleasesAreDead
<1>1. NextRow.pc = "loop" /\ IdleRecon.pc = "idle"
    BY <1>0 DEF NextRow, IdleRecon, ReconType
<1>2. \A w \in Calls : chain[w].state \in TxStates
    BY <1>0 DEF ChainType
<1>3. ASSUME NEW w \in Calls, TakeRow(w), recon'.pc = "release"
      PROVE  recon'.row = w /\ chain[w].state \in {"none", "dead"}
    <2>1. recon'.row = w /\ rows[w].age = 2 /\ recon.seen[w] = None /\ w \in recon.todo
        BY <1>0, <1>3 DEF TakeRow, ReconType
    <2>2. call[w].pc = "done" /\ rows[w].status \in Early
        BY <2>1 DEF OwnInv, RowsFollowCalls, InOrder, BatchIsFresh
    <2>3. Known(w)
        BY DEF SureInv, TransfersAreKnown
    <2> QED BY <1>2, <2>1, <2>2, <2>3 DEF Known, Live, Early, Underway, TxStates
<1>4. ASSUME NEW w \in Calls, ParseTx(w), recon'.pc = "release"
      PROVE  recon'.row = w /\ chain[w].state \in {"none", "dead"}
    <2>1. /\ recon.row = w /\ recon.pc = "parse" /\ ~Landed(recon.seen[w])
          /\ recon.age >= 1 /\ recon'.row = w
        BY <1>0, <1>1, <1>4 DEF ParseTx, ReconType
    <2>2. recon.seen[w] = w
        <3>1. recon.seen[w] \in Calls
            BY <2>1 DEF IInv, BatchKnowsItsTransactions
        <3>2. recon.seen[w] = call[w].sig
            BY <1>0, <3>1, OneTransactionPerRow
        <3> QED BY <1>0, <3>1, <3>2 DEF SureInv, OwnTransactions
    <2>3. rows[w].age >= 1
        <3>1. recon.age <= rows[w].age
            BY <2>1 DEF OwnInv, BatchIsFresh
        <3> QED BY <1>0, <2>1, <3>1
    <2>4. Known(w)
        BY DEF SureInv, TransfersAreKnown
    <2> QED BY <1>2, <2>1, <2>2, <2>3, <2>4 DEF Known, Live, Landed, TxStates
<1>5. CASE \E w \in Calls : TakeRow(w) \/ ParseTx(w)
    <2>1. PICK w \in Calls : TakeRow(w) \/ ParseTx(w)
        BY <1>5
    <2>2. recon'.pc # "FAILED"
        BY <1>0, <1>1, <2>1 DEF TakeRow, ParseTx, ReconType
    <2> QED BY <1>3, <1>4, <2>1, <2>2
<1>6. CASE ScanRows
    BY <1>6 DEF ScanRows, IdleRecon
<1>8. CASE SkipBatch
    BY <1>8 DEF SkipBatch, vars
<1>7. CASE EndBatch \/ ParseFails \/ \E w \in Calls : ReconFinalize(w) \/ ReconRelease(w)
    BY <1>1, <1>7 DEF EndBatch, ParseFails, ReconFinalize, ReconRelease
<1> QED BY <1>0, <1>5, <1>6, <1>7, <1>8 DEF ReconStep, ReconRow, ReconFinalizeFails,
       ReconReleaseFails, ReconUpdateCheck, ReconUpdateWrite

\* A step of the reconciler keeps what is known about the transfers.
LEMMA ReconStepSure ==
    ASSUME Faults = {}, IInv, OwnInv, SureInv, ReconStep
    PROVE  TransfersAreKnown' /\ ReleasesAreDead'
<1>1. /\ UNCHANGED <<call, chain>>
      /\ \/ UNCHANGED rows
         \/ \E w \in Calls :
               /\ \A v \in Calls \ {w} : rows'[v] = rows[v]
               /\ rows'[w].age = rows[w].age
               /\ \/ rows'[w].status = "CONFIRMED"
                  \/ recon.pc = "release" /\ recon.row = w
    BY ReconMovesOne
<1>2. recon.pc = "release" => chain[recon.row].state \in {"none", "dead"}
    BY DEF SureInv, ReleasesAreDead
<1>3. TransfersAreKnown'
    BY <1>1, <1>2 DEF SureInv, TransfersAreKnown, Known, Live, Underway
<1>4. ReleasesAreDead'
    BY <1>1, ReleaseBegins DEF SureInv, ReleasesAreDead
<1> QED BY <1>3, <1>4

LEMMA InitSure == Init => SureInv
BY DEF Init, SureInv, OwnTransactions, TransfersAreKnown, Known, Live, ReleasesAreDead, IdleRecon

LEMMA StepSure ==
    ASSUME OwnKeys, Faults = {}, IInv, OwnInv, SureInv, Next
    PROVE  SureInv'
<1>1. OwnTransactions'
    BY OwnTransactionsKept DEF SureInv
<1>2. TransfersAreKnown' /\ ReleasesAreDead'
    BY CallStepSure, WorldStepSure, ReconStepSure DEF Next, Crash, ReconCrash
<1> QED BY <1>1, <1>2 DEF SureInv

LEMMA StutterSure == SureInv /\ UNCHANGED vars => SureInv'
BY DEF SureInv, OwnTransactions, TransfersAreKnown, Known, Live, ReleasesAreDead, vars

LEMMA SureInvariance ==
    ASSUME OwnKeys, Faults = {}
    PROVE  Spec => [](IInv /\ OwnInv /\ SureInv)
<1>1. Init => SureInv
    BY InitSure
<1>2. IInv /\ OwnInv /\ SureInv /\ Next => SureInv'
    BY StepSure
<1>3. SureInv /\ UNCHANGED vars => SureInv'
    BY StutterSure
<1>4. "slow" \notin Faults
    OBVIOUS
<1>5. Spec => [](IInv /\ OwnInv) /\ [][RowStep]_vars
    BY <1>4, OwnInvariance
<1> QED BY <1>1, <1>2, <1>3, <1>5, PTL DEF Spec

\* The money of a row has moved when its call's transaction has landed; then it
\* is not released, and if it is confirmed it has.
MoneyIsKnown ==
    /\ Moved = {w \in Calls : Landed(w)}
    /\ \A w \in Calls : Landed(w) => Present(w) /\ rows[w].status # "FAILED"
    /\ \A w \in Calls : rows[w].status = "CONFIRMED" => Landed(w)

LEMMA SureMoney ==
    ASSUME IInv, OwnInv, SureInv
    PROVE  MoneyIsKnown
<1>1. \A w \in Calls : Follows(w) /\ Known(w) /\ call[w].sig \in {None, w}
    BY DEF OwnInv, RowsFollowCalls, SureInv, TransfersAreKnown, OwnTransactions
<1>2. \A s \in Calls, w \in Calls : Landed(s) => (Carries(s, w) <=> s = w)
    BY <1>1, CallsAssumption DEF Carries, Follows, Known, Landed
<1>3. Moved = {w \in Calls : Landed(w)}
    BY <1>2 DEF Moved
<1>4. \A w \in Calls : Landed(w) => Present(w) /\ rows[w].status # "FAILED"
    BY <1>1 DEF Landed, Known, Follows, Present, Underway
<1>5. ASSUME NEW w \in Calls, rows[w].status = "CONFIRMED"
      PROVE  Landed(w)
    <2>1. rows[w].sig # None /\ Landed(rows[w].sig)
        BY <1>5 DEF IInv, ConfirmedIsBacked
    <2> QED BY <1>1, <2>1, OneTransactionPerRow
<1> QED BY <1>3, <1>4, <1>5 DEF MoneyIsKnown

\* With no crash, no lost reply, no slow call, no failing database and a fresh
\* blockhash for every call, a withdrawal whose reservation went back to the
\* user has no transaction on-chain, however the calls, the network and the
\* reconciler interleave (releaseReservation).
THEOREM ReleasedUnpaid ==
    OwnKeys /\ Faults = {} => (Spec => []ReleasedNeverPaid)
<1> SUFFICES ASSUME OwnKeys, Faults = {}
             PROVE  Spec => []ReleasedNeverPaid
    OBVIOUS
<1>1. IInv /\ OwnInv /\ SureInv => ReleasedNeverPaid
    <2> SUFFICES ASSUME MoneyIsKnown, NEW w \in Calls, rows[w].status = "FAILED",
                        NEW s \in Calls, Landed(s), Carries(s, w)
                 PROVE  FALSE
        BY SureMoney DEF ReleasedNeverPaid
    <2>1. w \in Moved
        BY DEF Moved
    <2> QED BY <2>1 DEF MoneyIsKnown
<1> QED BY <1>1, SureInvariance, PTL

-----------------------------------------------------------------------------
(***************************************************************************)
(* The refinement of WithdrawalContract, step by step.                     *)
(***************************************************************************)
\* A step puts at most one transaction on-chain, and then moves no row.
LEMMA LandsOne ==
    ASSUME Faults = {}, IInv, OwnInv, SureInv, Next
    PROVE  \/ \A s \in Calls : Landed(s)' <=> Landed(s)
           \/ \E s \in Calls : Land(s)
<1>0. chain \in [Calls -> ChainType]
    BY DEF IInv, TypeOK
<1>1. ASSUME NEW c \in Calls, CallStep(c), ~(\A s \in Calls : Landed(s)' <=> Landed(s))
      PROVE  FALSE
    <2>1. /\ \A d \in Calls \ {c} : chain'[d] = chain[d]
          /\ \/ chain'[c] = chain[c]
             \/ chain[c].state = "none" /\ chain'[c].state = "built"
             \/ Live(c) /\ chain'[c].state = "pending"
        BY <1>1, CallSendsOwn
    <2> QED BY <1>1, <2>1 DEF Landed, Live
<1>2. ASSUME NEW w \in Calls, Die(w) \/ GrowOld(w)
      PROVE  \A s \in Calls : Landed(s)' <=> Landed(s)
    BY <1>0, <1>2 DEF Die, GrowOld, Landed, Live, ChainType
<1>3. ASSUME ReconStep
      PROVE  UNCHANGED chain
    BY <1>3, ReconMovesOne
<1> QED BY <1>1, <1>2, <1>3 DEF Next, Crash, ReconCrash, Landed

\* Without its statuses, a row is held while it is neither confirmed nor
\* released.
LEMMA PhaseIs ==
    ASSUME NEW w
    PROVE  /\ Phase(w) = "none"     <=> rows[w].status = "ABSENT"
           /\ Phase(w) = "settled"  <=> rows[w].status = "CONFIRMED"
           /\ Phase(w) = "returned" <=> rows[w].status = "FAILED"
           /\ Phase(w) = "held"     <=> rows[w].status \notin {"ABSENT", "CONFIRMED", "FAILED"}
BY DEF Phase

\* What the contract calls held or settled is what the service reserves or has
\* debited, and it overlooks the same.
FreeIs ==
    \A c \in Calls : /\ Contract!Free(UserOf[c]) = Balance(UserOf[c])
                     /\ Contract!Slack(UserOf[c]) = Overlooked(UserOf[c])

LEMMA ContractFree ==
    ASSUME IInv, OwnInv
    PROVE  FreeIs
<1> SUFFICES ASSUME NEW c \in Calls
             PROVE  /\ Contract!Free(UserOf[c]) = Balance(UserOf[c])
                    /\ Contract!Slack(UserOf[c]) = Overlooked(UserOf[c])
    BY DEF FreeIs
<1> DEFINE u == UserOf[c]
<1>1. ASSUME NEW w \in Calls
      PROVE  (IF Phase(w) \in {"held", "settled"} THEN AmountOf[w] ELSE 0) = Taken(w)
    <2>1. Follows(w) /\ InOrder(w) /\ debits[w] \in Nat
        BY Shapes DEF IInv, OwnInv, RowsFollowCalls
    <2>2. rows[w].status = "CONFIRMED" => debits[w] = 1
        BY DEF IInv, ConfirmedIsBacked
    <2>3. debits[w] > 0 => rows[w].status = "CONFIRMED"
        BY <2>1 DEF InOrder
    <2>4. rows[w].status \in Early \cup Underway \cup {"ABSENT", "FAILED"}
        BY <2>1 DEF Follows
    <2>5. Phase(w) \in {"held", "settled"} <=> debits[w] > 0 \/ rows[w].status \in Reserving
        BY <2>2, <2>3, <2>4, PhaseIs DEF Early, Underway, Reserving
    <2> QED BY <2>5 DEF Taken
<1> DEFINE K == [w \in RowsOf(u) |-> IF [v \in Calls |-> Phase(v)][w] \in {"held", "settled"}
                                    THEN AmountOf[w] ELSE 0]
           H == [w \in RowsOf(u) |-> Taken(w)]
<1>2. K = H
    BY <1>1 DEF RowsOf
<1>3. Contract!Free(u) = Funds[u] - Total(K)
    BY DEF Contract!Free, Contract!Own, RowsOf
<1>4. Balance(u) = Funds[u] - Total(H)
    BY BalanceByRows, AmountsAssumption
<1>5. Contract!Slack(u) = Overlooked(u)
    BY DEF Contract!Slack, Contract!Own, Overlooked, RowsOf
<1> QED BY <1>2, <1>3, <1>4, <1>5

\* One row's phase changes.
LEMMA PhaseMoves ==
    ASSUME NEW w \in Calls, NEW p, Phase(w)' = p,
           \A v \in Calls \ {w} : rows'[v].status = rows[v].status
    PROVE  [v \in Calls |-> Phase(v)]' = [[v \in Calls |-> Phase(v)] EXCEPT ![w] = p]
<1>1. \A v \in Calls \ {w} : Phase(v)' = Phase(v)
    BY DEF Phase
<1> QED BY <1>1

\* Every step of the pipeline is one of the contract, or none: a row that is
\* inserted is held, a transaction that lands moves its row's money, finalizing
\* settles and releasing returns.
LEMMA StepRefines ==
    ASSUME Faults = {}, IInv, OwnInv, SureInv, Covered, FreeIs, MoneyIsKnown, MoneyIsKnown',
           Next, RowStep
    PROVE  \/ Contract!Next
           \/ UNCHANGED <<[w \in Calls |-> Phase(w)], Moved, missed>>
<1> DEFINE phases == [w \in Calls |-> Phase(w)]
<1>0. \A w \in Calls : phases[w] = Phase(w)
    OBVIOUS
<1>3. LedgerStep /\ debits \in [Calls -> Nat]
    BY LedgerMoves DEF IInv, TypeOK
<1>4. (\A w \in Calls : debits'[w] = debits[w]) => UNCHANGED missed
    BY <1>3 DEF LedgerStep, FirstDebit
<1>1. CASE \E s \in Calls : Land(s)
    <2>1. PICK s \in Calls : Land(s)
        BY <1>1
    <2>2. chain \in [Calls -> ChainType] /\ chain[s] \in ChainType
        BY DEF IInv, TypeOK
    <2>3. /\ UNCHANGED rows /\ ~Landed(s) /\ Landed(s)'
          /\ \A t \in Calls \ {s} : Landed(t)' <=> Landed(t)
        BY <2>1, <2>2 DEF Land, Landed, ChainType
    <2>4. s \notin Moved /\ Moved' = Moved \cup {s}
        BY <2>3 DEF MoneyIsKnown
    <2>5. UNCHANGED phases
        BY <2>3 DEF Phase
    <2>6. Phase(s) = "held"
        <3>1. rows[s].status \notin {"ABSENT", "CONFIRMED", "FAILED"}
            BY <2>3 DEF MoneyIsKnown, Present
        <3> QED BY <3>1, PhaseIs
    <2>7. Contract!Move(s)
        BY <1>0, <2>1, <2>4, <2>5, <2>6 DEF Contract!Move, Land
    <2> QED BY <2>7 DEF Contract!Next
<1>2. CASE \A s \in Calls : Landed(s)' <=> Landed(s)
    <2>1. Moved' = Moved
        BY <1>2 DEF MoneyIsKnown
    <2>2. CASE \A w \in Calls : Stays(w)
        <3>1. \A w \in Calls : Phase(w)' = Phase(w)
            BY <2>2 DEF Stays, Phase
        <3>2. UNCHANGED missed
            BY <1>4, <2>2 DEF Stays
        <3> QED BY <2>1, <3>1, <3>2
    <2>3. ASSUME NEW c \in Calls, RowMoves(c) \/ Inserts(c), \A w \in Calls \ {c} : Stays(w)
          PROVE  Contract!Next \/ UNCHANGED <<phases, Moved, missed>>
        <3>0. /\ \A v \in Calls \ {c} : rows'[v].status = rows[v].status
              /\ c \in Moved <=> Landed(c)
            BY <2>3 DEF Stays, MoneyIsKnown
        <3>6. debits'[c] = debits[c] => UNCHANGED missed
            BY <1>4, <2>3 DEF Stays
        <3>1. CASE Inserts(c)
            <4>1. Phase(c) = "none" /\ Phase(c)' = "held"
                BY <3>1 DEF Inserts, Phase
            <4>2. AmountOf[c] <= Contract!Free(UserOf[c]) + Contract!Slack(UserOf[c])
                BY <3>1 DEF Inserts, FreeIs, Covered, CheckIsGood
            <4>3. phases' = [phases EXCEPT ![c] = "held"]
                BY <3>0, <4>1, PhaseMoves
            <4>4. Contract!Hold(c)
                BY <1>0, <2>1, <3>1, <3>6, <4>1, <4>2, <4>3 DEF Contract!Hold, Inserts
            <4> QED BY <4>4 DEF Contract!Next
        <3>2. CASE Phase(c)' = Phase(c)
            <4>1. \A w \in Calls : Phase(w)' = Phase(w)
                BY <3>0, <3>2 DEF Phase
            <4>2. UNCHANGED missed
                BY <2>3, <3>2, <3>6 DEF RowMoves, Inserts, Stays, Phase
            <4> QED BY <2>1, <4>1, <4>2
        <3>3. CASE /\ rows[c].status \in Early \cup {"CONFIRMING"}
                   /\ rows'[c].status = "FAILED"
            <4>1. Phase(c) = "held" /\ Phase(c)' = "returned"
                BY <3>3 DEF Early, Phase
            <4>2. c \notin Moved
                BY <1>2, <3>0, <3>3 DEF MoneyIsKnown
            <4>3. phases' = [phases EXCEPT ![c] = "returned"]
                BY <3>0, <4>1, PhaseMoves
            <4>5. UNCHANGED missed
                BY <2>3, <3>3, <3>6 DEF RowMoves, Inserts, Stays, Early
            <4>4. Contract!Return(c)
                BY <1>0, <2>1, <4>1, <4>2, <4>3, <4>5 DEF Contract!Return
            <4> QED BY <4>4 DEF Contract!Next
        <3>4. CASE rows[c].status = "CONFIRMING" /\ rows'[c].status = "CONFIRMED"
            <4>1. Phase(c) = "held" /\ Phase(c)' = "settled"
                BY <3>4 DEF Phase
            <4>2. c \in Moved
                BY <1>2, <3>0, <3>4 DEF MoneyIsKnown
            <4>3. phases' = [phases EXCEPT ![c] = "settled"]
                BY <3>0, <4>1, PhaseMoves
            <4>4. missed' \in {missed, missed \cup {c}}
                BY <1>3, <2>3 DEF LedgerStep, FirstDebit, Stays
            <4>5. Contract!Settle(c)
                BY <1>0, <2>1, <4>1, <4>2, <4>3, <4>4 DEF Contract!Settle
            <4> QED BY <4>5 DEF Contract!Next
        <3>5. \/ Inserts(c) \/ Phase(c)' = Phase(c)
              \/ rows[c].status \in Early \cup {"CONFIRMING"} /\ rows'[c].status = "FAILED"
              \/ rows[c].status = "CONFIRMING" /\ rows'[c].status = "CONFIRMED"
            BY <2>3 DEF RowMoves, Stays, Phase, Early
        <3> QED BY <3>1, <3>2, <3>3, <3>4, <3>5
    <2> QED BY <2>2, <2>3 DEF RowStep
<1> QED BY <1>1, <1>2, LandsOne

\* Under the same hypotheses the whole pipeline, its statuses, calls, retries
\* and batches, implements WithdrawalContract: money is held before it moves
\* and within the user's credits, but for what a check overlooks, it moves at
\* most once, what has moved is settled and what is returned never moves.
THEOREM Refinement ==
    OwnKeys /\ Faults = {} => (Spec => ImplementsContract)
<1> SUFFICES ASSUME OwnKeys, Faults = {}
             PROVE  Spec => ImplementsContract
    OBVIOUS
<1>1. Init => Contract!Init
    <2> SUFFICES ASSUME Init
                 PROVE  /\ [w \in Calls |-> Phase(w)] = [w \in Calls |-> "none"]
                        /\ Moved = {} /\ missed = {}
        BY DEF Contract!Init
    <2>1. missed = {} /\ \A w \in Calls : rows[w].status = "ABSENT" /\ chain[w].state = "none"
        BY DEF Init
    <2> QED BY <2>1 DEF Phase, Moved, Landed
<1>2. IInv /\ OwnInv => FreeIs
    BY ContractFree
<1>3. IInv /\ OwnInv /\ SureInv => MoneyIsKnown
    BY SureMoney
<1>4. /\ IInv /\ OwnInv /\ SureInv /\ Covered /\ FreeIs /\ MoneyIsKnown /\ MoneyIsKnown'
      /\ [Next]_vars /\ [RowStep]_vars
      => [Contract!Next]_<<[w \in Calls |-> Phase(w)], Moved, missed>>
    <2>1. UNCHANGED vars => UNCHANGED <<[w \in Calls |-> Phase(w)], Moved, missed>>
        BY DEF vars, Phase, Moved, Landed, Carries
    <2> QED BY <2>1, StepRefines
<1>5. {"slow", "no_lock"} \cap Faults = {}
    OBVIOUS
<1>6. Spec => [](IInv /\ OwnInv /\ Covered) /\ [][RowStep]_vars
    BY <1>5, CoveredInvariance
<1> QED BY <1>1, <1>2, <1>3, <1>4, <1>6, SureInvariance, PTL
        DEF Spec, ImplementsContract, Contract!Spec

===============================================================================
