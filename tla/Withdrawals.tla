----------------------------- MODULE Withdrawals -----------------------------
(***************************************************************************)
(* The withdrawal pipeline of the ZEGA API: WithdrawalService              *)
(* .executeWithdrawal, the stored procedures it calls, the Solana network  *)
(* it broadcasts to and the background ReconciliationService that finishes *)
(* or releases what a call left behind.                                    *)
(*                                                                         *)
(* A call is one POST /api/withdrawals.  A withdrawal row is named after   *)
(* the call that inserted it and a transaction after the first call that   *)
(* built it, so Calls serves as the set of calls, rows and signatures.     *)
(* Every await of the code is a step boundary: calls, reconciler, network  *)
(* and clock interleave freely between them.                               *)
(***************************************************************************)
EXTENDS Integers, FiniteSets, Totals

CONSTANTS
    Calls,      \* POST /api/withdrawals requests
    None,       \* no signature, no idempotency key, no row
    KeyOf,      \* [Calls -> keys or None], tenant-scoped by the route
    UserOf,     \* [Calls -> users]
    AmountOf,   \* [Calls -> Nat], in base units
    Funds,      \* [users -> Nat], the user's ledger credits
    Faults      \* which environment faults may occur, of FaultKinds

\* crash:      the process dies, or a reconciliation batch is cut short
\* lost_reply: sendTransaction reaches the network but no provider of the
\*             RPC pool answers, so that it is reported as failed
\* slow:       five minutes may pass while a call is still running, or while
\*             one batch of the reconciler is
\* twin:       two calls with the same transfer get the same blockhash, from
\*             one slot of the chain or one request that the RPC pool shared
\*             between them, so that they sign one and the same transaction
\* db:         a request to the database fails, or its answer is lost
\* no_lock:    reserve_withdrawal_atomic is the one of
\*             20260811_remediate_lifecycle_consistency.sql, which takes no
\*             advisory lock, instead of the one of 20260811_final_remediation
FaultKinds == {"crash", "lost_reply", "slow", "twin", "db", "no_lock"}

ASSUME CallsAssumption ==
    /\ IsFiniteSet(Calls)
    /\ None \notin Calls
    /\ Faults \subseteq FaultKinds

ASSUME AmountsAssumption ==
    /\ AmountOf \in [Calls -> Nat]
    /\ \A c \in Calls : Funds[UserOf[c]] \in Nat

(***************************************************************************)
(* Statuses of a withdrawal row and the transition table the service       *)
(* checks them with.  ABSENT stands for a row that was never inserted.     *)
(***************************************************************************)
ValidTransitions == [
    REQUESTED          |-> {"VALIDATING", "FAILED", "CANCELLED"},
    VALIDATING         |-> {"BUILDING", "FAILED", "CANCELLED"},
    BUILDING           |-> {"AWAITING_SIGNATURE", "FAILED", "CANCELLED"},
    AWAITING_SIGNATURE |-> {"SIGNED", "SUBMITTED", "FAILED", "CANCELLED", "EXPIRED"},
    SIGNED             |-> {"SUBMITTED", "FAILED"},
    SUBMITTED          |-> {"CONFIRMING", "FAILED"},
    CONFIRMING         |-> {"CONFIRMED", "FAILED"},
    CONFIRMED          |-> {},
    FAILED             |-> {},
    REJECTED           |-> {},
    EXPIRED            |-> {},
    CANCELLED          |-> {} ]

Statuses == DOMAIN ValidTransitions
Terminal == {s \in Statuses : ValidTransitions[s] = {}}

\* Mutant: the scan forgets the status rows are inserted with.
Scanned_NotValidating == {"SUBMITTED", "CONFIRMING", "AWAITING_SIGNATURE",
                          "BUILDING", "REQUESTED"}

\* What reserve_withdrawal_atomic counts as reserved ...
Reserving == {"REQUESTED", "VALIDATING", "BUILDING", "AWAITING_SIGNATURE",
              "SUBMITTED", "CONFIRMING"}
\* ... and what reconcileBatch scans.
Scanned == {"SUBMITTED", "CONFIRMING", "AWAITING_SIGNATURE", "BUILDING",
            "REQUESTED", "VALIDATING"}

VARIABLES
    rows,    \* the withdrawals table: status, signature and age of each row
    debits,  \* number of ledger DEBIT entries that reference each row
    missed,  \* history: rows first debited while a reservation of their user
             \* stood between its sum of the debits and its sum of what is
             \* reserved, so that it counts them in neither
    chain,   \* each transaction's state, and the rows whose age has advanced
             \* since its blockhash was fetched
    call,    \* the local state of each executeWithdrawal
    recon    \* the local state of reconcileBatch

vars == <<rows, debits, missed, chain, call, recon>>

(***************************************************************************)
(* A call's pc is the step it takes next.  A pc that is a status is an     *)
(* updateWithdrawalStatus to that status; `checked` tells its SELECT and   *)
(* transition check (FALSE) from its UPDATE (TRUE).                        *)
(***************************************************************************)
AfterUpdate == [BUILDING           |-> "build",
                AWAITING_SIGNATURE |-> "sign",
                SUBMITTED          |-> "submit",
                CONFIRMING         |-> "confirm",
                FAILED             |-> "done"]
Updates == DOMAIN AfterUpdate
CallPcs == Updates \cup {"idle", "reserve", "sum", "insert", "build",
                         "sign", "submit", "confirm", "finalize", "release", "done"}
ReconPcs == {"idle", "loop", "parse", "finalize", "release", "FAILED"}

\* Row ages: 0 up to five minutes after created_at, 1 up to ten, 2 beyond.
Ages == 0 .. 2

MaybeCall == Calls \cup {None}
RowType   == [status : Statuses \cup {"ABSENT"}, sig : MaybeCall, age : Ages]
TxStates  == {"none", "built", "pending", "landed", "dead"}
ChainType == [state : TxStates, aged : SUBSET Calls]
\* free: v_credit_sum - v_debit_sum of a reservation that is under way.
CallType  == [pc : CallPcs, checked : BOOLEAN, row : Calls, sig : MaybeCall, free : Int]
ReconType == [pc : ReconPcs, checked : BOOLEAN, todo : SUBSET Calls,
              seen : [Calls -> MaybeCall], row : MaybeCall, age : Ages,
              aged : SUBSET Calls]

TypeOK ==
    /\ rows \in [Calls -> RowType]
    /\ debits \in [Calls -> Nat]
    /\ missed \subseteq Calls
    /\ chain \in [Calls -> ChainType]
    /\ call \in [Calls -> CallType]
    /\ recon \in ReconType

IdleRecon == [pc |-> "idle", checked |-> FALSE, todo |-> {},
              seen |-> [w \in Calls |-> None], row |-> None, age |-> 0,
              aged |-> {}]

Init ==
    /\ rows   = [w \in Calls |-> [status |-> "ABSENT", sig |-> None, age |-> 0]]
    /\ debits = [w \in Calls |-> 0]
    /\ missed = {}
    /\ chain  = [s \in Calls |-> [state |-> "none", aged |-> {}]]
    /\ call   = [c \in Calls |-> [pc |-> "idle", checked |-> FALSE,
                                  row |-> c, sig |-> None, free |-> 0]]
    /\ recon  = IdleRecon

Present(w)  == rows[w].status # "ABSENT"
Live(s)     == chain[s].state \in {"built", "pending"}
Landed(s)   == chain[s].state = "landed"
Running(c)  == call[c].pc \notin {"idle", "done"}

\* The transactions that were built on behalf of row w.
Carries(s, w) == \E c \in Calls : call[c].row = w /\ call[c].sig = s

-----------------------------------------------------------------------------
(***************************************************************************)
(* The stored procedures: each is one database transaction.                *)
(***************************************************************************)
WithKey(k) == {w \in Calls : Present(w) /\ k # None /\ KeyOf[w] = k}

\* The two sums of reserve_withdrawal_atomic over the rows of a user.
RowsOf(u)   == {w \in Calls : UserOf[w] = u}
Debited(u)  == Total([w \in RowsOf(u) |-> debits[w] * AmountOf[w]])
Reserved(u) == Total([w \in RowsOf(u) |->
                        IF rows[w].status \in Reserving THEN AmountOf[w] ELSE 0])

\* The reservations of user u that are under way.
Summing(u)    == \E d \in RowsOf(u) : call[d].pc = "sum"
UserLocked(u) == \E d \in RowsOf(u) : call[d].pc \in {"sum", "insert"}

\* It inserts row c.
InsertRow(c) == rows' = [rows EXCEPT ![c].status = "VALIDATING"]

\* Mutant: finalizing inserts the DEBIT without looking for an earlier one.
FinalizeRow_AlwaysDebits(w, s) ==
    /\ rows' = [rows EXCEPT ![w] = [@ EXCEPT !.status = "CONFIRMED", !.sig = s]]
    /\ debits' = [debits EXCEPT ![w] = @ + 1]
    /\ UNCHANGED missed

\* finalize_withdrawal_atomic: no condition on the row's status.  It locks the
\* row, and not the user.
FinalizeRow(w, s) ==
    /\ rows' = [rows EXCEPT ![w] = [@ EXCEPT !.status = "CONFIRMED", !.sig = s]]
    /\ debits' = [debits EXCEPT ![w] = IF @ = 0 THEN 1 ELSE @]
    /\ missed' = IF debits[w] = 0 /\ Summing(UserOf[w]) THEN missed \cup {w} ELSE missed

\* Mutant: a release writes a status the transition table does not know.
ReleaseRow_OtherStatus(w) ==
    IF rows[w].status \in {"CONFIRMED", "FAILED", "CANCELLED"}
    THEN UNCHANGED rows
    ELSE rows' = [rows EXCEPT ![w].status = "RELEASED"]

\* release_withdrawal_reservation_atomic.
ReleaseRow(w) ==
    IF rows[w].status \in {"CONFIRMED", "FAILED", "CANCELLED"}
    THEN UNCHANGED rows
    ELSE rows' = [rows EXCEPT ![w].status = "FAILED"]

\* The UPDATE of updateWithdrawalStatus, with the signature when there is one.
WriteStatus(w, status, s) ==
    rows' = IF status = "CONFIRMING"
            THEN [rows EXCEPT ![w] = [@ EXCEPT !.status = status, !.sig = s]]
            ELSE [rows EXCEPT ![w].status = status]

-----------------------------------------------------------------------------
(***************************************************************************)
(* executeWithdrawal                                                       *)
(***************************************************************************)
Goto(c, pc) == call' = [call EXCEPT ![c] = [@ EXCEPT !.pc = pc, !.checked = FALSE]]

\* The idempotency SELECT, then validation and ensureUserSolanaWallet, any
\* of which may end the call.  A failed SELECT reads as "no such row".
Lookup(c) ==
    /\ call[c].pc = "idle"
    /\ \/ Goto(c, "done")
       \/ /\ WithKey(KeyOf[c]) = {} \/ "db" \in Faults
          /\ Goto(c, "reserve")
    /\ UNCHANGED <<rows, debits, missed, chain, recon>>

\* Mutant: the procedure does not wait for the user's lock.
SumDebits_NoLock(c) ==
    LET existing == WithKey(KeyOf[c])
        u        == UserOf[c]
    IN  /\ call[c].pc = "reserve"
        /\ \/ \E w \in existing :
                 call' = [call EXCEPT ![c] = [@ EXCEPT !.pc = "BUILDING", !.row = w]]
           \/ /\ existing = {}
              /\ call' = [call EXCEPT ![c] = [@ EXCEPT !.pc = "sum",
                                                       !.free = Funds[u] - Debited(u)]]
           \/ "db" \in Faults /\ Goto(c, "done")
        /\ UNCHANGED <<rows, debits, missed, chain, recon>>

\* reserve_withdrawal_atomic, one step for each of its statements that another
\* transaction may commit in between: they read under READ COMMITTED, each what
\* is committed by then.  The procedure first waits for the user's lock.  It
\* returns the row of an earlier request with the same key whatever its status,
\* or sums credits and debits.
SumDebits(c) ==
    LET existing == WithKey(KeyOf[c])
        u        == UserOf[c]
    IN  /\ call[c].pc = "reserve"
        /\ "no_lock" \in Faults \/ ~UserLocked(u)
        /\ \/ \E w \in existing :
                 call' = [call EXCEPT ![c] = [@ EXCEPT !.pc = "BUILDING", !.row = w]]
           \/ /\ existing = {}
              /\ call' = [call EXCEPT ![c] = [@ EXCEPT !.pc = "sum",
                                                       !.free = Funds[u] - Debited(u)]]
           \/ "db" \in Faults /\ Goto(c, "done")
        /\ UNCHANGED <<rows, debits, missed, chain, recon>>

\* It sums what is reserved, and raises INSUFFICIENT_FUNDS or goes on.
SumReserved(c) ==
    /\ call[c].pc = "sum"
    /\ LET covered == call[c].free - Reserved(UserOf[c]) >= AmountOf[c]
       IN  call' = [call EXCEPT ![c] = [@ EXCEPT !.pc = IF covered THEN "insert" ELSE "done",
                                                 !.free = 0]]
    /\ UNCHANGED <<rows, debits, missed, chain, recon>>

\* It inserts the row, unless another user's request has inserted one with the
\* same key by now, and commits.  A request that fails may have taken effect.
InsertReservation(c) ==
    /\ call[c].pc = "insert"
    /\ \/ /\ WithKey(KeyOf[c]) = {}
          /\ InsertRow(c)
          /\ \/ Goto(c, "BUILDING")
             \/ "db" \in Faults /\ Goto(c, "done")
       \/ /\ WithKey(KeyOf[c]) # {} \/ "db" \in Faults
          /\ Goto(c, "done")
          /\ UNCHANGED rows
    /\ UNCHANGED <<debits, missed, chain, recon>>

\* updateWithdrawalStatus, first half: SELECT status and check the
\* transition.  A failed SELECT skips the check.
UpdateCheck(c) ==
    /\ call[c].pc \in Updates /\ ~call[c].checked
    /\ LET ok == call[c].pc \in ValidTransitions[rows[call[c].row].status]
       IN  \/ /\ ok \/ "db" \in Faults
              /\ call' = [call EXCEPT ![c].checked = TRUE]
           \/ ~ok /\ Goto(c, "done")
    /\ UNCHANGED <<rows, debits, missed, chain, recon>>

\* updateWithdrawalStatus, second half: UPDATE by id, whatever the status
\* has become since.
UpdateWrite(c) ==
    /\ call[c].pc \in Updates /\ call[c].checked
    /\ \/ /\ WriteStatus(call[c].row, call[c].pc, call[c].sig)
          /\ \/ Goto(c, AfterUpdate[call[c].pc])
             \/ "db" \in Faults /\ Goto(c, "done")
       \/ "db" \in Faults /\ Goto(c, "done") /\ UNCHANGED rows
    /\ UNCHANGED <<debits, missed, chain, recon>>

\* The call holds an unsigned transaction, which fixes its signature.
Built(c, s) ==
    call' = [call EXCEPT ![c] = [@ EXCEPT !.pc = "AWAITING_SIGNATURE", !.sig = s]]

\* Mutant: blockhashes are served from the cache, so identical transfers made
\* within its lifetime sign the same transaction.
Build_CachedBlockhash(c) ==
    LET cached == {s \in Calls : /\ Live(s)
                                 /\ UserOf[s] = UserOf[c]
                                 /\ AmountOf[s] = AmountOf[c]}
    IN  /\ call[c].pc = "build"
        /\ \E s \in IF cached = {} THEN {c} ELSE cached :
              /\ Built(c, s)
              /\ chain' = [chain EXCEPT ![s].state = IF s = c THEN "built" ELSE @]
        /\ UNCHANGED <<rows, debits, missed, recon>>

\* buildTransactionData fetches a blockhash, or fails.  With the blockhash of
\* another call's identical transfer the two transactions are the same.
Build(c) ==
    /\ call[c].pc = "build"
    /\ \/ Goto(c, "done") /\ UNCHANGED chain
       \/ /\ Built(c, c)
          /\ chain' = [chain EXCEPT ![c].state = "built"]
       \/ /\ "twin" \in Faults
          /\ \E s \in Calls \ {c} :
                /\ Live(s)
                /\ UserOf[s] = UserOf[c] /\ AmountOf[s] = AmountOf[c]
                /\ Built(c, s)
          /\ UNCHANGED chain
    /\ UNCHANGED <<rows, debits, missed, recon>>

\* Privy signs, or fails and the reservation is released.
Sign(c) ==
    /\ call[c].pc = "sign"
    /\ Goto(c, "SUBMITTED") \/ Goto(c, "release")
    /\ UNCHANGED <<rows, debits, missed, chain, recon>>

\* The node accepts a transaction whose blockhash is still valid.
Broadcast(s) ==
    \/ Live(s) /\ chain' = [chain EXCEPT ![s].state = "pending"]
    \/ Landed(s) /\ UNCHANGED chain

\* submitSignedTransaction: the signature comes back, or an error does.
Submit(c) ==
    /\ call[c].pc = "submit"
    /\ \/ Broadcast(call[c].sig) /\ Goto(c, "CONFIRMING")
       \/ UNCHANGED chain /\ Goto(c, "release")
       \/ "lost_reply" \in Faults /\ Broadcast(call[c].sig) /\ Goto(c, "release")
    /\ UNCHANGED <<rows, debits, missed, recon>>

\* Mutant: a confirmation that times out releases the reservation.
Confirm_TimeoutReleases(c) ==
    /\ call[c].pc = "confirm"
    /\ \/ Landed(call[c].sig) /\ Goto(c, "finalize")
       \/ Goto(c, "release")
    /\ UNCHANGED <<rows, debits, missed, chain, recon>>

\* confirmTransactionSignature: confirmed, or failed on-chain or timed out,
\* which leaves the row in CONFIRMING for the reconciler.
Confirm(c) ==
    /\ call[c].pc = "confirm"
    /\ \/ Landed(call[c].sig) /\ Goto(c, "finalize")
       \/ Goto(c, "done")
    /\ UNCHANGED <<rows, debits, missed, chain, recon>>

Finalize(c) ==
    /\ call[c].pc = "finalize"
    /\ \/ FinalizeRow(call[c].row, call[c].sig)
       \/ "db" \in Faults /\ UNCHANGED <<rows, debits, missed>>
    /\ Goto(c, "done")
    /\ UNCHANGED <<chain, recon>>

\* releaseReservation: the RPC, or on its failure (with or without effect) a
\* plain update to FAILED.
Release(c) ==
    /\ call[c].pc = "release"
    /\ \/ ReleaseRow(call[c].row) /\ Goto(c, "done")
       \/ /\ "db" \in Faults
          /\ ReleaseRow(call[c].row) \/ UNCHANGED rows
          /\ Goto(c, "FAILED")
    /\ UNCHANGED <<debits, missed, chain, recon>>

CallStep(c) ==
    \/ Lookup(c) \/ SumDebits(c) \/ SumReserved(c) \/ InsertReservation(c)
    \/ UpdateCheck(c) \/ UpdateWrite(c)
    \/ Build(c) \/ Sign(c) \/ Submit(c) \/ Confirm(c)
    \/ Finalize(c) \/ Release(c)

\* A process restart loses the call; nothing of it is persisted but the row.
Crash(c) ==
    /\ "crash" \in Faults
    /\ Running(c)
    /\ Goto(c, "done")
    /\ UNCHANGED <<rows, debits, missed, chain, recon>>

-----------------------------------------------------------------------------
(***************************************************************************)
(* The Solana network and the clock                                        *)
(***************************************************************************)
Land(s) ==
    /\ chain[s].state = "pending"
    /\ chain' = [chain EXCEPT ![s].state = "landed"]
    /\ UNCHANGED <<rows, debits, missed, call, recon>>

\* The blockhash expires or the transaction fails on-chain: it never lands.
Die(s) ==
    /\ Live(s)
    /\ chain' = [chain EXCEPT ![s].state = "dead"]
    /\ UNCHANGED <<rows, debits, missed, call, recon>>

\* Row w passes the five or the ten minute mark.  A blockhash is valid for
\* some ninety seconds, so a live transaction of the row has seen at most one
\* of the two marks go by, and none unless its call is slow.  A batch sees at
\* most one mark of a row between its scan and its visit, unless it is slow.
GrowOld(w) ==
    LET carriers == {s \in Calls : Live(s) /\ Carries(s, w)}
        inBatch  == w \in recon.todo \/ w = recon.row
    IN  /\ Present(w)
        /\ rows[w].age < 2
        /\ \A s \in carriers : w \notin chain[s].aged
        /\ \/ "slow" \in Faults
           \/ /\ carriers = {}
              /\ \A c \in Calls : ~(Running(c) /\ call[c].row = w)
              /\ w \notin recon.aged
        /\ rows' = [rows EXCEPT ![w].age = @ + 1]
        /\ chain' = [s \in Calls |-> IF s \in carriers
                                     THEN [chain[s] EXCEPT !.aged = @ \cup {w}]
                                     ELSE chain[s]]
        /\ recon' = IF inBatch /\ "slow" \notin Faults
                    THEN [recon EXCEPT !.aged = @ \cup {w}] ELSE recon
        /\ UNCHANGED <<debits, missed, call>>

-----------------------------------------------------------------------------
(***************************************************************************)
(* reconcileBatch, withdrawals part.  The batch works on the rows and the  *)
(* signatures its first SELECT returned, one row at a time.                *)
(***************************************************************************)
\* The loop moves on to the rows that are left.
NextRow == [recon EXCEPT !.pc = "loop", !.checked = FALSE, !.row = None, !.age = 0,
                         !.seen = [@ EXCEPT ![recon.row] = None],
                         !.aged = @ \ {recon.row}]

\* The RPC of pg_try_advisory_lock answers false, or is not there to be called:
\* the batch is skipped.
SkipBatch ==
    /\ recon.pc = "idle"
    /\ UNCHANGED vars

\* It answers true, and the batch begins.
ScanRows ==
    LET found == {w \in Calls : rows[w].status \in Scanned}
    IN  /\ recon.pc = "idle"
        /\ recon' = [IdleRecon EXCEPT
                        !.pc = "loop",
                        !.todo = found,
                        !.seen = [w \in Calls |-> IF w \in found THEN rows[w].sig
                                                                 ELSE None]]
        /\ UNCHANGED <<rows, debits, missed, chain, call>>

EndBatch ==
    /\ recon.pc = "loop" /\ recon.todo = {}
    /\ recon' = IdleRecon
    /\ UNCHANGED <<rows, debits, missed, chain, call>>

\* Mutant: a row without a signature is released whatever its age.
TakeRow_NoTimeout(w) ==
    LET rest == [recon EXCEPT !.todo = @ \ {w}, !.row = w, !.age = rows[w].age]
    IN  /\ recon.pc = "loop" /\ w \in recon.todo
        /\ recon' = [rest EXCEPT !.pc = IF recon.seen[w] # None THEN "parse"
                                                                ELSE "release"]
        /\ UNCHANGED <<rows, debits, missed, chain, call>>

\* The age is taken as the loop reaches the row.  Without a signature only a
\* row older than ten minutes is acted upon.
TakeRow(w) ==
    LET rest == [recon EXCEPT !.todo = @ \ {w}]
    IN  /\ recon.pc = "loop" /\ w \in recon.todo
        /\ recon' = IF recon.seen[w] # None
                    THEN [rest EXCEPT !.pc = "parse", !.row = w, !.age = rows[w].age]
                    ELSE IF rows[w].age = 2
                    THEN [rest EXCEPT !.pc = "release", !.row = w, !.age = 2]
                    ELSE rest
        /\ UNCHANGED <<rows, debits, missed, chain, call>>

\* Mutant: a transaction that is not found yet is released at once.
ParseTx_NoGrace(w) ==
    /\ recon.pc = "parse" /\ recon.row = w
    /\ recon' = [recon EXCEPT !.pc = IF Landed(recon.seen[w]) THEN "finalize"
                                                              ELSE "release"]
    /\ UNCHANGED <<rows, debits, missed, chain, call>>

\* Mutant: any answer about the transaction counts as verified.
ParseTx_AnyAnswer(w) ==
    /\ recon.pc = "parse" /\ recon.row = w
    /\ recon' = [recon EXCEPT !.pc = "finalize"]
    /\ UNCHANGED <<rows, debits, missed, chain, call>>

\* parseAndVerifyTransaction answers.  A transaction that is not there, or
\* failed, is released after five minutes.
ParseTx(w) ==
    /\ recon.pc = "parse" /\ recon.row = w
    /\ recon' = IF Landed(recon.seen[w]) THEN [recon EXCEPT !.pc = "finalize"]
                ELSE IF recon.age >= 1   THEN [recon EXCEPT !.pc = "release"]
                ELSE NextRow
    /\ UNCHANGED <<rows, debits, missed, chain, call>>

\* The RPC pool fails: the row is left to the next batch.
ParseFails ==
    /\ recon.pc = "parse"
    /\ recon' = NextRow
    /\ UNCHANGED <<rows, debits, missed, chain, call>>

ReconFinalize(w) ==
    /\ recon.pc = "finalize" /\ recon.row = w
    /\ FinalizeRow(w, recon.seen[w])
    /\ recon' = NextRow
    /\ UNCHANGED <<chain, call>>

ReconFinalizeFails ==
    /\ "db" \in Faults
    /\ recon.pc = "finalize"
    /\ recon' = NextRow
    /\ UNCHANGED <<rows, debits, missed, chain, call>>

ReconRelease(w) ==
    /\ recon.pc = "release" /\ recon.row = w
    /\ ReleaseRow(w)
    /\ recon' = NextRow
    /\ UNCHANGED <<debits, missed, chain, call>>

\* releaseReservation falls back to updateWithdrawalStatus(FAILED), whether
\* the RPC took effect or not.
ReconReleaseFails ==
    /\ "db" \in Faults
    /\ recon.pc = "release"
    /\ ReleaseRow(recon.row) \/ UNCHANGED rows
    /\ recon' = [recon EXCEPT !.pc = "FAILED"]
    /\ UNCHANGED <<debits, missed, chain, call>>

\* An exception is caught per row only where the row has a signature;
\* elsewhere it ends the batch.
Thrown == IF recon.seen[recon.row] # None THEN NextRow ELSE IdleRecon

ReconUpdateCheck ==
    /\ recon.pc = "FAILED" /\ ~recon.checked
    /\ LET ok == "FAILED" \in ValidTransitions[rows[recon.row].status]
       IN  recon' \in (IF ok \/ "db" \in Faults
                       THEN {[recon EXCEPT !.checked = TRUE]} ELSE {})
                      \cup (IF ok THEN {} ELSE {Thrown})
    /\ UNCHANGED <<rows, debits, missed, chain, call>>

ReconUpdateWrite ==
    /\ recon.pc = "FAILED" /\ recon.checked
    /\ \/ WriteStatus(recon.row, "FAILED", None) /\ recon' \in {NextRow, Thrown}
       \/ UNCHANGED rows /\ recon' = Thrown
    /\ UNCHANGED <<debits, missed, chain, call>>

\* The batch is cut short by a restart; the next one starts from a new scan.
ReconCrash ==
    /\ "crash" \in Faults
    /\ recon.pc # "idle"
    /\ recon' = IdleRecon
    /\ UNCHANGED <<rows, debits, missed, chain, call>>

ReconRow(w) == TakeRow(w) \/ ParseTx(w) \/ ReconFinalize(w) \/ ReconRelease(w)

ReconStep ==
    \/ SkipBatch \/ ScanRows \/ EndBatch
    \/ ParseFails \/ ReconFinalizeFails \/ ReconReleaseFails
    \/ ReconUpdateCheck \/ ReconUpdateWrite
    \/ \E w \in Calls : ReconRow(w)

-----------------------------------------------------------------------------
Next ==
    \/ \E c \in Calls : CallStep(c) \/ Crash(c)
    \/ \E s \in Calls : Land(s) \/ Die(s)
    \/ \E w \in Calls : GrowOld(w)
    \/ ReconStep
    \/ ReconCrash

Spec == Init /\ [][Next]_vars

(***************************************************************************)
(* Fairness.  A batch goes on to its next row (weak).  An RPC pool or a    *)
(* database that keeps failing is assumed to succeed again and again on    *)
(* each row (strong).  Time passes, and a blockhash expires.  A call goes  *)
(* on or is lost: one that hangs for ever is as good as one that crashed.  *)
(* Nothing is assumed of restarts, nor that a batch obtains its lock.      *)
(***************************************************************************)
Fairness ==
    /\ WF_vars(EndBatch \/ ReconUpdateCheck \/ ReconUpdateWrite \/ \E w \in Calls : TakeRow(w))
    /\ \A w \in Calls :
          /\ SF_vars(ParseTx(w))
          /\ SF_vars(ReconFinalize(w) \/ ReconRelease(w))
          /\ WF_vars(GrowOld(w))
          /\ WF_vars(Land(w) \/ Die(w))
          /\ WF_vars(CallStep(w) \/ Crash(w))

FairSpec == Spec /\ Fairness

-----------------------------------------------------------------------------
(***************************************************************************)
(* Properties that hold whatever faults occur                              *)
(***************************************************************************)
\* A confirmed withdrawal (finalize_withdrawal_atomic) names a transaction
\* that is on-chain, and the ledger holds its one DEBIT.
ConfirmedIsBacked ==
    \A w \in Calls : rows[w].status = "CONFIRMED" =>
        rows[w].sig # None /\ Landed(rows[w].sig) /\ debits[w] = 1

\* Whoever finalizes, and however often, the ledger debits a withdrawal at
\* most once, and only for a transaction of its own that has landed.
DebitIsBacked ==
    \A w \in Calls : debits[w] > 0 =>
        debits[w] = 1 /\ \E s \in Calls : Landed(s) /\ Carries(s, w)

\* Batches are run again and again, and not each of them is cut short where it
\* has neither come to its end nor thrown an exception.
BatchesRun ==
    /\ []<><<ScanRows>>_vars
    /\ <>[][ReconCrash => EndBatch \/ ReconUpdateCheck \/ ReconUpdateWrite]_vars

\* As long as batches run, no withdrawal keeps the user's money reserved for
\* ever: a call that died, or gave up waiting, is finished by the reconciler,
\* also when rows before it end batch after batch by an exception.
EveryWithdrawalSettles ==
    BatchesRun => \A w \in Calls :
        rows[w].status \in Reserving ~> rows[w].status \in Terminal

\* ConfirmedIsBacked and DebitIsBacked are not inductive: what makes them hold
\* is that every place a finalize can start from knows a transaction of the
\* row it finalizes.  A call that has not built one has none in its name ...
BeforeBuild == {"idle", "reserve", "sum", "insert", "BUILDING", "build"}
\* ... a call that has built one keeps it, and finalizes once it has landed ...
AfterBuild  == {"AWAITING_SIGNATURE", "sign", "SUBMITTED", "submit",
                "CONFIRMING", "confirm", "finalize"}
CallsKnowTheirTransaction ==
    \A c \in Calls :
        /\ call[c].pc \in BeforeBuild => call[c].sig = None /\ chain[c].state = "none"
        /\ call[c].pc \in AfterBuild => call[c].sig \in Calls
        /\ call[c].pc = "finalize" => Landed(call[c].sig)
\* ... a row never names the transaction of another row ...
RowsNameTheirTransaction ==
    \A w \in Calls : rows[w].sig # None => Carries(rows[w].sig, w)
\* ... and neither does the reconciler's batch, however old its scan is.
BatchKnowsItsTransactions ==
    /\ \A w \in Calls : recon.seen[w] # None => Carries(recon.seen[w], w)
    /\ recon.pc \in {"parse", "finalize"} =>
          recon.row \in Calls /\ recon.seen[recon.row] \in Calls
    /\ recon.pc = "finalize" => Landed(recon.seen[recon.row])

IInv ==
    /\ TypeOK
    /\ CallsKnowTheirTransaction
    /\ RowsNameTheirTransaction
    /\ BatchKnowsItsTransactions
    /\ ConfirmedIsBacked
    /\ DebitIsBacked

(***************************************************************************)
(* Properties of the pipeline without faults                               *)
(***************************************************************************)
\* What is left of the user's funds by the two sums, taken together.
Balance(u) == Funds[u] - Debited(u) - Reserved(u)

\* What the reservations of the user did not count.
Overlooked(u) == Total([w \in RowsOf(u) |-> IF w \in missed THEN AmountOf[w] ELSE 0])

\* What is debited and reserved exceeds the user's credits by no more than the
\* withdrawals that were finalized while a reservation of that user was between
\* its two sums: the lock on the user leaves no other way past the check of
\* reserve_withdrawal_atomic.
NoOverdraft == \A c \in Calls : Balance(UserOf[c]) + Overlooked(UserOf[c]) >= 0

\* The user's balance never becomes negative (reserve_withdrawal_atomic: "Enforce
\* balance safety").
BalanceIsSafe == \A c \in Calls : Balance(UserOf[c]) >= 0

\* No transfer pays for two withdrawals: rows whose DEBIT is on the ledger
\* have transactions of their own (getLatestBlockhash asks for a fresh
\* blockhash, which tells identical transfers apart).
OneDebitPerTransfer ==
    \A v, w \in Calls :
        v # w /\ debits[v] > 0 /\ debits[w] > 0 => rows[v].sig # rows[w].sig

\* A FAILED withdrawal, whose reservation went back to the user, has no
\* transaction on-chain (releaseReservation: "when execution fails before
\* broadcast").
ReleasedNeverPaid ==
    \A w \in Calls : rows[w].status = "FAILED" =>
        \A s \in Calls : Landed(s) => ~Carries(s, w)

\* Requests with one idempotency key put at most one transaction on-chain.
OneTransferPerKey ==
    \A c, d \in Calls :
        /\ KeyOf[c] = KeyOf[d] /\ KeyOf[c] # None
        /\ call[c].sig # None /\ Landed(call[c].sig)
        /\ call[d].sig # None /\ Landed(call[d].sig)
        => call[c].sig = call[d].sig

\* No step leaves a terminal status.
TerminalIsFinal ==
    [][\A w \in Calls : rows[w].status \in Terminal =>
                           rows'[w].status = rows[w].status]_vars

\* The pipeline implements WithdrawalContract: what is held is what may still
\* be debited or released, and money has moved once a transaction of the row
\* is on-chain.
Phase(w) == CASE rows[w].status = "ABSENT"    -> "none"
              [] rows[w].status = "CONFIRMED" -> "settled"
              [] rows[w].status = "FAILED"    -> "returned"
              [] OTHER                        -> "held"

Moved == {w \in Calls : \E s \in Calls : Landed(s) /\ Carries(s, w)}

Contract == INSTANCE WithdrawalContract WITH
    Ids   <- Calls,
    phase <- [w \in Calls |-> Phase(w)],
    moved <- Moved,
    overlooked <- missed

ImplementsContract == Contract!Spec
=============================================================================
