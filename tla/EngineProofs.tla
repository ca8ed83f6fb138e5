----------------------------- MODULE EngineProofs -----------------------------
(***************************************************************************)
(* Theorems about TransactionEngine, for any requests, users, keys and     *)
(* processes.                                                              *)
(***************************************************************************)
EXTENDS TransactionEngine, TLAPS

SameTransfer(r, s) ==
    UserOf[r] = UserOf[s] /\ IdemKeyOf[r] = IdemKeyOf[s] /\ IdemKeyOf[r] # NoKey

\* What is confirmed has landed, and is still being recorded, under the lock,
\* or is in the memory of the process.
ConfirmedIsKept ==
    \A n \in Nodes : \A r \in confirmed[n] :
        /\ NodeOf[r] = n
        /\ tx[r] = "landed"
        /\ \/ xfer[r].pc \in {"CONFIRMED", "SAVED"}
           \/ IdemKeyOf[r] # NoKey => memory[n][IdemKeyOf[r]] # NoRequest

\* While a request holds the lock, no other one for its user and key has been
\* confirmed.
NoneBeside ==
    \A r \in Requests : xfer[r].pc \in Active =>
        \A s \in confirmed[NodeOf[r]] : s # r => ~ SameTransfer(r, s)

ConfirmedOnce ==
    \A n \in Nodes : \A r, s \in confirmed[n] : r # s => ~ SameTransfer(r, s)

\* Only responses of transfers that landed are saved.
SavedIsPaid ==
    /\ \A n \in Nodes : \A k \in IdemKeys \cup {NoKey} :
          memory[n][k] \in Requests => tx[memory[n][k]] = "landed"
    /\ \A k \in IdemKeys \cup {NoKey} : table[k] \in Requests => tx[table[k]] = "landed"
    /\ \A r \in Requests : xfer[r].pc \in {"CONFIRMED", "SAVED"} => tx[r] = "landed"

\* Nothing is sent before it is signed.
UnsentUntilSigned ==
    \A r \in Requests :
        xfer[r].pc \in {"idle", "enter", "VALIDATING", "BUILDING", "AWAITING_SIGNATURE", "SIGNED"}
            => tx[r] = "none"

EngineInv ==
    /\ EngineTypeOK
    /\ LockMatchesTransfer
    /\ UnsentUntilSigned
    /\ ConfirmedIsKept
    /\ NoneBeside
    /\ ConfirmedOnce
    /\ SavedIsPaid
    /\ RepliesArePaid

USE DEF XferType

LEMMA EngineInitInv == EngineInit => EngineInv
<1> SUFFICES ASSUME EngineInit PROVE EngineInv
    OBVIOUS
<1>1. EngineTypeOK
    BY EngineAssumption DEF EngineInit, EngineTypeOK, NothingSaved, Replies, XferPcs
<1>2. LockMatchesTransfer
    BY DEF EngineInit, LockMatchesTransfer, Active, Working, Ending
<1>3. ConfirmedIsKept /\ NoneBeside /\ ConfirmedOnce
    BY EngineAssumption DEF EngineInit, ConfirmedIsKept, NoneBeside, ConfirmedOnce
<1>4. SavedIsPaid /\ RepliesArePaid /\ UnsentUntilSigned
    BY EngineAssumption
    DEF EngineInit, SavedIsPaid, RepliesArePaid, UnsentUntilSigned, NothingSaved
<1> QED BY <1>1, <1>2, <1>3, <1>4 DEF EngineInv

-----------------------------------------------------------------------------
(***************************************************************************)
(* Types                                                                   *)
(***************************************************************************)
LEMMA Pcs ==
    /\ Active = {"VALIDATING", "BUILDING", "AWAITING_SIGNATURE", "SIGNED", "CONFIRMING",
                 "CONFIRMED", "SAVED", "FAILED"}
    /\ DOMAIN NextStatus = {"VALIDATING", "BUILDING", "AWAITING_SIGNATURE"}
    /\ \A s \in DOMAIN NextStatus : NextStatus[s] \in {"BUILDING", "AWAITING_SIGNATURE", "SIGNED"}
    /\ Working \subseteq Active
    /\ Active \subseteq XferPcs
    /\ {"enter", "returned", "thrown", "lost"} \subseteq XferPcs
BY DEF Active, Working, Ending, NextStatus, XferPcs

\* A request that moves on stays well-typed,
LEMMA XferToType ==
    ASSUME EngineTypeOK, NEW r \in Requests, NEW pc \in XferPcs, XferTo(r, pc)
    PROVE  xfer' \in [Requests -> XferType]
BY DEF EngineTypeOK, XferTo

\* and so does one that is answered with what was saved.
LEMMA ReplayType ==
    ASSUME EngineTypeOK, NEW r \in Requests, NEW saved \in Requests, Replay(r, saved)
    PROVE  xfer' \in [Requests -> XferType]
BY Pcs DEF EngineTypeOK, Replay, Replies

LEMMA EngineTypeStep == EngineTypeOK /\ [EngineNext]_engineVars => EngineTypeOK'
<1> SUFFICES ASSUME EngineTypeOK, [EngineNext]_engineVars PROVE EngineTypeOK'
    OBVIOUS
<1>1. ASSUME NEW r \in Requests, XferStep(r) PROVE EngineTypeOK'
    <2>0. /\ IdemKeyOf[r] \in IdemKeys \cup {NoKey} /\ NodeOf[r] \in Nodes
          /\ LockOf(r) \in Nodes \X Users
          /\ table[IdemKeyOf[r]] \in Replies /\ memory[NodeOf[r]][IdemKeyOf[r]] \in Replies
        BY EngineAssumption DEF EngineTypeOK, LockOf
    <2>1. CASE LookupTable(r)
        BY <2>1, <2>0, XferToType, ReplayType, Pcs DEF LookupTable, EngineTypeOK, Replies
    <2>2. CASE LookupTableFails(r)
        BY <2>2, XferToType, Pcs DEF LookupTableFails, EngineTypeOK
    <2>3. CASE LookupMemory(r)
        BY <2>3, <2>0, ReplayType DEF LookupMemory, EngineTypeOK, Replies
    <2>4. CASE RefuseLocked(r)
        BY <2>4, XferToType, Pcs DEF RefuseLocked, EngineTypeOK
    <2>5. CASE Enter(r)
        BY <2>5, <2>0, XferToType, Pcs DEF Enter, EngineTypeOK
    <2>6. CASE Advance(r)
        BY <2>6, XferToType, Pcs DEF Advance, EngineTypeOK
    <2>7. CASE Submit(r)
        BY <2>7, XferToType, Pcs DEF Submit, EngineTypeOK
    <2>8. CASE Confirm(r)
        BY <2>8, XferToType, Pcs DEF Confirm, EngineTypeOK
    <2>9. CASE Throw(r)
        BY <2>9, XferToType, Pcs DEF Throw, EngineTypeOK
    <2>10. CASE SaveTable(r)
        BY <2>10, XferToType, Pcs DEF SaveTable, EngineTypeOK, Replies
    <2>11. CASE Return(r)
        BY <2>11, Pcs DEF Return, EngineTypeOK, Replies
    <2>12. CASE Rethrow(r)
        BY <2>12, XferToType, Pcs DEF Rethrow, EngineTypeOK
    <2> QED BY <1>1, <2>1, <2>2, <2>3, <2>4, <2>5, <2>6, <2>7, <2>8, <2>9, <2>10,
               <2>11, <2>12 DEF XferStep
<1>2. ASSUME NEW r \in Requests, Land(r) \/ Die(r) PROVE EngineTypeOK'
    BY <1>2 DEF Land, Die, EngineTypeOK
<1>3. ASSUME NEW n \in Nodes, Restart(n) PROVE EngineTypeOK'
    BY <1>3, Pcs DEF Restart, EngineTypeOK, NothingSaved, Replies
<1>4. CASE UNCHANGED engineVars
    BY <1>4 DEF engineVars, EngineTypeOK
<1> QED BY <1>1, <1>2, <1>3, <1>4 DEF EngineNext, EngineDone

-----------------------------------------------------------------------------
(***************************************************************************)
(* The lock                                                                *)
(***************************************************************************)
\* A step that leaves alone both the lock and who is active.
LEMMA LockKept ==
    ASSUME LockMatchesTransfer, locks' = locks,
           \A r \in Requests : (xfer[r].pc \in Active)' <=> xfer[r].pc \in Active
    PROVE  LockMatchesTransfer'
BY DEF LockMatchesTransfer, LockOf

\* What a saved response does to the request it answers.
LEMMA ReplayEffect ==
    ASSUME EngineTypeOK, NEW r \in Requests, NEW saved, Replay(r, saved)
    PROVE  /\ \/ xfer'[r].pc = "thrown"
              \/ /\ HashOf[saved] = HashOf[r]
                 /\ xfer'[r] = [pc |-> "returned", reply |-> saved]
           /\ \A s \in Requests \ {r} : xfer'[s] = xfer[s]
           /\ xfer'[r].pc \in {"returned", "thrown"}
<1>1. CASE HashOf[saved] = HashOf[r]
    <2>1. xfer' = [xfer EXCEPT ![r] = [pc |-> "returned", reply |-> saved]]
        BY <1>1 DEF Replay
    <2> QED BY <1>1, <2>1 DEF EngineTypeOK
<1>2. CASE HashOf[saved] # HashOf[r]
    <2>1. xfer' = [xfer EXCEPT ![r] = [pc |-> "thrown", reply |-> NoRequest]]
        BY <1>2 DEF Replay
    <2> QED BY <2>1 DEF EngineTypeOK
<1> QED BY <1>1, <1>2

\* A step that ends the transfer of one active request and frees its lock.
LEMMA LockFreed ==
    ASSUME LockMatchesTransfer, NEW r \in Requests, xfer[r].pc \in Active,
           locks' = locks \ {LockOf(r)}, xfer'[r].pc \notin Active,
           \A s \in Requests \ {r} : xfer'[s] = xfer[s]
    PROVE  LockMatchesTransfer'
BY DEF LockMatchesTransfer, LockOf

LEMMA LockStep ==
    EngineTypeOK /\ LockMatchesTransfer /\ [EngineNext]_engineVars => LockMatchesTransfer'
<1> SUFFICES ASSUME EngineTypeOK, LockMatchesTransfer, [EngineNext]_engineVars
             PROVE  LockMatchesTransfer'
    OBVIOUS
<1>1. ASSUME NEW r \in Requests, XferStep(r) PROVE LockMatchesTransfer'
    <2>1. CASE LookupTable(r)
        <3>1. CASE XferTo(r, "enter")
            BY <2>1, <3>1, LockKept, Pcs DEF LookupTable, EngineTypeOK, XferTo
        <3>2. CASE Replay(r, table[IdemKeyOf[r]])
            BY <2>1, <3>2, LockKept, ReplayEffect, Pcs DEF LookupTable
        <3> QED BY <2>1, <3>1, <3>2 DEF LookupTable
    <2>2. CASE LookupTableFails(r)
        BY <2>2, LockKept, Pcs DEF LookupTableFails, EngineTypeOK, XferTo
    <2>3. CASE LookupMemory(r)
        <3>1. /\ xfer[r].pc = "enter" /\ xfer'[r].pc \in {"returned", "thrown"}
              /\ \A s \in Requests \ {r} : xfer'[s] = xfer[s]
              /\ locks' = locks
            BY <2>3, ReplayEffect DEF LookupMemory
        <3> QED BY <3>1, LockKept, Pcs
    <2>4. CASE RefuseLocked(r)
        BY <2>4, LockKept, Pcs DEF RefuseLocked, EngineTypeOK, XferTo
    <2>5. CASE Enter(r)
        <3>1. /\ xfer'[r].pc \in Active
              /\ \A s \in Requests \ {r} : xfer'[s] = xfer[s]
              /\ locks' = locks \cup {LockOf(r)}
            BY <2>5, Pcs DEF Enter, EngineTypeOK, XferTo
        <3> QED BY <2>5, <3>1 DEF Enter, LockMatchesTransfer, LockOf
    <2>6. CASE Advance(r)
        BY <2>6, LockKept, Pcs DEF Advance, EngineTypeOK, XferTo
    <2>7. CASE Submit(r)
        BY <2>7, LockKept, Pcs DEF Submit, EngineTypeOK, XferTo
    <2>8. CASE Confirm(r)
        BY <2>8, LockKept, Pcs DEF Confirm, EngineTypeOK, XferTo
    <2>9. CASE Throw(r)
        BY <2>9, LockKept, Pcs DEF Throw, EngineTypeOK, XferTo
    <2>10. CASE SaveTable(r)
        BY <2>10, LockKept, Pcs DEF SaveTable, EngineTypeOK, XferTo
    <2>11. CASE Return(r)
        BY <2>11, LockFreed, Pcs DEF Return, EngineTypeOK
    <2>12. CASE Rethrow(r)
        BY <2>12, LockFreed, Pcs DEF Rethrow, EngineTypeOK, XferTo
    <2> QED BY <1>1, <2>1, <2>2, <2>3, <2>4, <2>5, <2>6, <2>7, <2>8, <2>9, <2>10,
               <2>11, <2>12 DEF XferStep
<1>2. ASSUME NEW r \in Requests, Land(r) \/ Die(r) PROVE LockMatchesTransfer'
    BY <1>2, LockKept DEF Land, Die
<1>3. ASSUME NEW n \in Nodes, Restart(n) PROVE LockMatchesTransfer'
    <2>1. \A r \in Requests : xfer'[r].pc \in Active <=> xfer[r].pc \in Active /\ NodeOf[r] # n
        BY <1>3, Pcs DEF Restart, EngineTypeOK
    <2>2. \A r \in Requests : LockOf(r)[1] = NodeOf[r]
        BY DEF LockOf
    <2>3. locks' = {l \in locks : l[1] # n}
        BY <1>3 DEF Restart
    <2> QED BY <2>1, <2>2, <2>3 DEF LockMatchesTransfer, LockOf
<1>4. CASE UNCHANGED engineVars
    BY <1>4 DEF engineVars, LockMatchesTransfer, LockOf
<1> QED BY <1>1, <1>2, <1>3, <1>4 DEF EngineNext, EngineDone

\* The order of the steps of a transfer.
LEMMA UnsentStep ==
    EngineTypeOK /\ UnsentUntilSigned /\ [EngineNext]_engineVars => UnsentUntilSigned'
<1> SUFFICES ASSUME EngineTypeOK, UnsentUntilSigned, [EngineNext]_engineVars
             PROVE  UnsentUntilSigned'
    OBVIOUS
<1>1. ASSUME NEW r \in Requests, XferStep(r) PROVE UnsentUntilSigned'
    <2>0. ASSUME \A s \in Requests \ {r} : xfer'[s] = xfer[s] /\ tx'[s] = tx[s],
                 \/ xfer'[r].pc \in {"returned", "thrown", "CONFIRMING", "CONFIRMED", "SAVED",
                                     "FAILED"}
                 \/ /\ xfer[r].pc \in {"idle", "enter", "VALIDATING", "BUILDING",
                                        "AWAITING_SIGNATURE"}
                    /\ tx'[r] = tx[r]
          PROVE  UnsentUntilSigned'
        BY <2>0 DEF UnsentUntilSigned
    <2>1. CASE LookupTable(r)
        <3>1. CASE XferTo(r, "enter")
            BY <2>1, <3>1, <2>0 DEF LookupTable, EngineTypeOK, XferTo
        <3>2. CASE Replay(r, table[IdemKeyOf[r]])
            BY <2>1, <3>2, <2>0, ReplayEffect DEF LookupTable
        <3> QED BY <2>1, <3>1, <3>2 DEF LookupTable
    <2>2. CASE LookupTableFails(r)
        BY <2>2, <2>0 DEF LookupTableFails, EngineTypeOK, XferTo
    <2>3. CASE LookupMemory(r)
        BY <2>3, <2>0, ReplayEffect DEF LookupMemory
    <2>4. CASE RefuseLocked(r)
        BY <2>4, <2>0 DEF RefuseLocked, EngineTypeOK, XferTo
    <2>5. CASE Enter(r)
        BY <2>5, <2>0 DEF Enter, EngineTypeOK, XferTo
    <2>6. CASE Advance(r)
        BY <2>6, <2>0, Pcs DEF Advance, EngineTypeOK, XferTo
    <2>7. CASE Submit(r)
        BY <2>7, <2>0 DEF Submit, EngineTypeOK, XferTo
    <2>8. CASE Confirm(r)
        BY <2>8, <2>0 DEF Confirm, EngineTypeOK, XferTo
    <2>9. CASE Throw(r)
        BY <2>9, <2>0 DEF Throw, EngineTypeOK, XferTo
    <2>10. CASE SaveTable(r)
        BY <2>10, <2>0 DEF SaveTable, EngineTypeOK, XferTo
    <2>11. CASE Return(r)
        BY <2>11, <2>0 DEF Return, EngineTypeOK
    <2>12. CASE Rethrow(r)
        BY <2>12, <2>0 DEF Rethrow, EngineTypeOK, XferTo
    <2> QED BY <1>1, <2>1, <2>2, <2>3, <2>4, <2>5, <2>6, <2>7, <2>8, <2>9, <2>10,
               <2>11, <2>12 DEF XferStep
<1>2. ASSUME NEW r \in Requests, Land(r) \/ Die(r) PROVE UnsentUntilSigned'
    BY <1>2 DEF Land, Die, UnsentUntilSigned, EngineTypeOK
<1>3. ASSUME NEW n \in Nodes, Restart(n) PROVE UnsentUntilSigned'
    <2>1. \A r \in Requests : xfer'[r].pc \in {xfer[r].pc, "lost"}
        BY <1>3 DEF Restart, EngineTypeOK
    <2> QED BY <1>3, <2>1 DEF Restart, UnsentUntilSigned
<1>4. CASE UNCHANGED engineVars
    BY <1>4 DEF engineVars, UnsentUntilSigned
<1> QED BY <1>1, <1>2, <1>3, <1>4 DEF EngineNext, EngineDone

-----------------------------------------------------------------------------
(***************************************************************************)
(* What is confirmed, saved and returned                                   *)
(***************************************************************************)
Payment == ConfirmedIsKept /\ NoneBeside /\ ConfirmedOnce /\ SavedIsPaid /\ RepliesArePaid

\* A confirmed request stays accounted for as long as its process keeps its
\* memory and the request does not leave its last statuses.
LEMMA KeptWhileHeld ==
    ASSUME EngineTypeOK, ConfirmedIsKept, UNCHANGED <<memory, confirmed>>,
           \A s \in Requests : tx[s] = "landed" => tx'[s] = "landed",
           \A s \in Requests :
               xfer[s].pc \in {"CONFIRMED", "SAVED"} => xfer'[s].pc \in {"CONFIRMED", "SAVED"}
    PROVE  ConfirmedIsKept'
<1> SUFFICES ASSUME NEW n \in Nodes, NEW s \in confirmed[n]
             PROVE  /\ NodeOf[s] = n
                    /\ tx'[s] = "landed"
                    /\ \/ xfer'[s].pc \in {"CONFIRMED", "SAVED"}
                       \/ IdemKeyOf[s] # NoKey => memory[n][IdemKeyOf[s]] # NoRequest
    BY DEF ConfirmedIsKept
<1>1. s \in Requests
    BY DEF EngineTypeOK
<1>2. /\ NodeOf[s] = n
      /\ tx[s] = "landed"
      /\ \/ xfer[s].pc \in {"CONFIRMED", "SAVED"}
         \/ IdemKeyOf[s] # NoKey => memory[n][IdemKeyOf[s]] # NoRequest
    BY DEF ConfirmedIsKept
<1> QED BY <1>1, <1>2

\* A step of a request that confirms nothing, saves nothing, returns nothing and
\* does not enter: it only moves among the steps of the transfer, or out of it
\* unconfirmed.
LEMMA PaymentKept ==
    ASSUME EngineTypeOK, EngineTypeOK', Payment, NEW r \in Requests,
           UNCHANGED <<memory, table, confirmed>>,
           \A s \in Requests : tx[s] = "landed" => tx'[s] = "landed",
           \A s \in Requests \ {r} : xfer'[s] = xfer[s],
           xfer'[r].pc \in Active => xfer[r].pc \in Active,
           xfer'[r].pc # "returned",
           xfer[r].pc \in {"CONFIRMED", "SAVED"} <=> xfer'[r].pc \in {"CONFIRMED", "SAVED"}
    PROVE  Payment'
<1>1. ConfirmedIsKept'
    <2>1. \A s \in Requests :
             xfer[s].pc \in {"CONFIRMED", "SAVED"} => xfer'[s].pc \in {"CONFIRMED", "SAVED"}
        OBVIOUS
    <2> QED BY <2>1, KeptWhileHeld DEF Payment
<1>2. NoneBeside'
    BY DEF Payment, NoneBeside, SameTransfer
<1>3. ConfirmedOnce'
    BY DEF Payment, ConfirmedOnce, SameTransfer
<1>4. SavedIsPaid'
    BY DEF Payment, SavedIsPaid
<1>5. RepliesArePaid'
    BY DEF Payment, RepliesArePaid
<1> QED BY <1>1, <1>2, <1>3, <1>4, <1>5 DEF Payment

\* The moves of such a step: on to the lock or away from it, among the steps of
\* the transfer, and from its failure to the caller.
LEMMA PaymentMoved ==
    ASSUME EngineTypeOK, EngineTypeOK', Payment, NEW r \in Requests,
           UNCHANGED <<memory, table, confirmed>>,
           \A s \in Requests : tx[s] = "landed" => tx'[s] = "landed",
           \A s \in Requests \ {r} : xfer'[s] = xfer[s],
           \/ xfer[r].pc = "idle" /\ xfer'[r].pc = "enter"
           \/ xfer[r].pc = "enter" /\ xfer'[r].pc = "thrown"
           \/ xfer[r].pc \in Working /\ xfer'[r].pc \in Working \cup {"FAILED"}
           \/ xfer[r].pc = "FAILED" /\ xfer'[r].pc = "thrown"
    PROVE  Payment'
<1>1. /\ xfer'[r].pc \in Active => xfer[r].pc \in Active
      /\ xfer'[r].pc # "returned"
      /\ xfer[r].pc \in {"CONFIRMED", "SAVED"} <=> xfer'[r].pc \in {"CONFIRMED", "SAVED"}
    BY Pcs DEF Working
<1> QED BY <1>1, PaymentKept

\* A request that is answered with a saved response gets one that was paid.
LEMMA PaymentReplayed ==
    ASSUME EngineTypeOK, Payment, NEW r \in Requests, NEW saved \in Requests,
           tx[saved] = "landed", xfer[r].pc \in {"idle", "enter"}, Replay(r, saved),
           UNCHANGED <<memory, table, confirmed, tx>>
    PROVE  Payment'
<1>0. /\ \/ xfer'[r].pc = "thrown"
         \/ HashOf[saved] = HashOf[r] /\ xfer'[r] = [pc |-> "returned", reply |-> saved]
      /\ \A s \in Requests \ {r} : xfer'[s] = xfer[s]
      /\ xfer'[r].pc \in {"returned", "thrown"}
    BY ReplayEffect
<1>1. ConfirmedIsKept'
    <2>1. \A s \in Requests :
             xfer[s].pc \in {"CONFIRMED", "SAVED"} => xfer'[s].pc \in {"CONFIRMED", "SAVED"}
        BY <1>0
    <2> QED BY <2>1, KeptWhileHeld DEF Payment
<1>2. NoneBeside'
    BY <1>0, Pcs DEF Payment, NoneBeside, SameTransfer
<1>3. ConfirmedOnce'
    BY DEF Payment, ConfirmedOnce, SameTransfer
<1>4. SavedIsPaid'
    BY <1>0 DEF Payment, SavedIsPaid
<1>5. RepliesArePaid'
    BY <1>0 DEF Payment, RepliesArePaid
<1> QED BY <1>1, <1>2, <1>3, <1>4, <1>5 DEF Payment

LEMMA PaymentStep ==
    ASSUME EngineTypeOK, EngineTypeOK', LockMatchesTransfer, UnsentUntilSigned, Payment,
           [EngineNext]_engineVars
    PROVE  Payment'
<1>1. ASSUME NEW r \in Requests, XferStep(r) PROVE Payment'
    <2>0. /\ IdemKeyOf[r] \in IdemKeys \cup {NoKey} /\ NodeOf[r] \in Nodes
          /\ table[IdemKeyOf[r]] \in Replies /\ memory[NodeOf[r]][IdemKeyOf[r]] \in Replies
        BY EngineAssumption DEF EngineTypeOK
    <2>1. CASE LookupTable(r)
        <3>1. CASE table[IdemKeyOf[r]] = NoRequest
            <4>1. xfer' = [xfer EXCEPT ![r].pc = "enter"]
                BY <2>1, <3>1 DEF LookupTable, XferTo
            <4>2. /\ xfer[r].pc = "idle" /\ xfer'[r].pc = "enter"
                  /\ \A s \in Requests \ {r} : xfer'[s] = xfer[s]
                  /\ UNCHANGED <<memory, table, tx, confirmed>>
                BY <2>1, <4>1 DEF LookupTable, EngineTypeOK
            <4> QED BY <4>2, PaymentMoved
        <3>2. CASE table[IdemKeyOf[r]] # NoRequest
            <4>1. tx[table[IdemKeyOf[r]]] = "landed"
                BY <2>0, <3>2 DEF Payment, SavedIsPaid, Replies
            <4> QED BY <2>0, <2>1, <3>2, <4>1, PaymentReplayed DEF LookupTable, Replies
        <3> QED BY <3>1, <3>2
    <2>2. CASE LookupTableFails(r)
        <3>1. /\ xfer[r].pc = "idle" /\ xfer'[r].pc = "enter"
              /\ \A s \in Requests \ {r} : xfer'[s] = xfer[s]
              /\ UNCHANGED <<memory, table, tx, confirmed>>
            BY <2>2 DEF LookupTableFails, EngineTypeOK, XferTo
        <3> QED BY <3>1, PaymentMoved
    <2>3. CASE LookupMemory(r)
        <3>1. tx[memory[NodeOf[r]][IdemKeyOf[r]]] = "landed"
            BY <2>0, <2>3 DEF LookupMemory, Payment, SavedIsPaid, Replies
        <3> QED BY <2>0, <2>3, <3>1, PaymentReplayed DEF LookupMemory, Replies
    <2>4. CASE RefuseLocked(r)
        <3>1. /\ xfer[r].pc = "enter" /\ xfer'[r].pc = "thrown"
              /\ \A s \in Requests \ {r} : xfer'[s] = xfer[s]
              /\ UNCHANGED <<memory, table, tx, confirmed>>
            BY <2>4 DEF RefuseLocked, EngineTypeOK, XferTo
        <3> QED BY <3>1, PaymentMoved
    <2>5. CASE Enter(r)
        <3>0. /\ xfer'[r].pc = "VALIDATING" /\ xfer[r].pc = "enter"
              /\ \A s \in Requests \ {r} : xfer'[s] = xfer[s]
              /\ UNCHANGED <<memory, table, confirmed, tx>>
            BY <2>5 DEF Enter, EngineTypeOK, XferTo
        <3>1. ConfirmedIsKept'
            <4>1. \A s \in Requests :
                     xfer[s].pc \in {"CONFIRMED", "SAVED"} => xfer'[s].pc \in {"CONFIRMED", "SAVED"}
                BY <3>0
            <4>2. \A s \in Requests : tx[s] = "landed" => tx'[s] = "landed"
                BY <3>0
            <4>3. ConfirmedIsKept /\ UNCHANGED <<memory, confirmed>>
                BY <3>0 DEF Payment
            <4> QED BY <4>1, <4>2, <4>3, KeptWhileHeld
        <3>2. ASSUME NEW s \in confirmed[NodeOf[r]], s # r PROVE ~ SameTransfer(r, s)
            <4>0. s \in Requests /\ NodeOf[s] = NodeOf[r]
                BY <2>0, <3>2 DEF EngineTypeOK, Payment, ConfirmedIsKept
            <4>1. CASE xfer[s].pc \in {"CONFIRMED", "SAVED"}
                BY <2>5, <4>0, <4>1, Pcs DEF Enter, LockMatchesTransfer, LockOf, SameTransfer
            <4>2. CASE IdemKeyOf[s] # NoKey => memory[NodeOf[r]][IdemKeyOf[s]] # NoRequest
                BY <2>5, <4>2 DEF Enter, NotSaved, SameTransfer
            <4> QED BY <2>0, <3>2, <4>1, <4>2 DEF Payment, ConfirmedIsKept
        <3>3. NoneBeside'
            BY <3>0, <3>2 DEF Payment, NoneBeside, SameTransfer
        <3>4. ConfirmedOnce' /\ SavedIsPaid' /\ RepliesArePaid'
            BY <3>0 DEF Payment, ConfirmedOnce, SavedIsPaid, RepliesArePaid, SameTransfer
        <3> QED BY <3>1, <3>3, <3>4 DEF Payment
    <2>6. CASE Advance(r)
        <3>1. /\ xfer[r].pc \in Working /\ xfer'[r].pc \in Working
              /\ \A s \in Requests \ {r} : xfer'[s] = xfer[s]
              /\ UNCHANGED <<memory, table, tx, confirmed>>
            BY <2>6, Pcs DEF Advance, EngineTypeOK, XferTo, Working
        <3> QED BY <3>1, PaymentMoved
    <2>7. CASE Submit(r)
        <3>1. /\ tx[r] # "landed"
              /\ xfer[r].pc = "SIGNED"
              /\ xfer'[r].pc \in {"CONFIRMING", "FAILED"}
              /\ \A s \in Requests \ {r} : xfer'[s] = xfer[s]
              /\ tx' = [tx EXCEPT ![r] = "sent"]
              /\ UNCHANGED <<memory, table, confirmed>>
            BY <2>7 DEF Submit, EngineTypeOK, XferTo, UnsentUntilSigned
        <3>2. \A s \in Requests : tx[s] = "landed" => tx'[s] = "landed"
            BY <3>1 DEF EngineTypeOK
        <3>3. xfer[r].pc \in Working /\ xfer'[r].pc \in Working \cup {"FAILED"}
            BY <3>1 DEF Working
        <3> QED BY <3>1, <3>2, <3>3, PaymentMoved
    <2>8. CASE Confirm(r)
        <3>0. /\ xfer'[r].pc = "CONFIRMED" /\ xfer[r].pc = "CONFIRMING" /\ tx[r] = "landed"
              /\ \A s \in Requests \ {r} : xfer'[s] = xfer[s]
              /\ UNCHANGED <<memory, table, tx, locks>>
              /\ \A n \in Nodes : confirmed'[n] = IF n = NodeOf[r] THEN confirmed[n] \cup {r}
                                                   ELSE confirmed[n]
            BY <2>8 DEF Confirm, EngineTypeOK, XferTo
        <3>1. ConfirmedIsKept'
            <4> SUFFICES ASSUME NEW n \in Nodes, NEW s \in confirmed'[n]
                         PROVE  /\ NodeOf[s] = n
                                /\ tx[s] = "landed"
                                /\ \/ xfer'[s].pc \in {"CONFIRMED", "SAVED"}
                                   \/ IdemKeyOf[s] # NoKey => memory[n][IdemKeyOf[s]] # NoRequest
                BY <3>0 DEF ConfirmedIsKept
            <4>1. CASE s = r
                BY <3>0, <4>1 DEF Payment, ConfirmedIsKept
            <4>2. CASE s # r
                <5>1. s \in confirmed[n]
                    BY <3>0, <4>2
                <5>2. s \in Requests
                    BY <5>1 DEF EngineTypeOK
                <5> QED BY <3>0, <4>2, <5>1, <5>2 DEF Payment, ConfirmedIsKept
            <4> QED BY <4>1, <4>2
        <3>2. ASSUME NEW s \in Requests, s # r, SameTransfer(s, r), NodeOf[s] = NodeOf[r]
              PROVE  xfer[s].pc \notin Active
            BY <3>0, <3>2, Pcs DEF LockMatchesTransfer, LockOf, SameTransfer
        <3>3. NoneBeside'
            <4> SUFFICES ASSUME NEW q \in Requests, xfer'[q].pc \in Active,
                                NEW s \in confirmed'[NodeOf[q]], s # q
                         PROVE  ~ SameTransfer(q, s)
                BY DEF NoneBeside, SameTransfer
            <4>1. xfer[q].pc \in Active /\ NodeOf[q] \in Nodes
                BY <3>0, EngineAssumption, Pcs
            <4>2. CASE s \in confirmed[NodeOf[q]]
                BY <4>1, <4>2 DEF Payment, NoneBeside
            <4>3. CASE s = r /\ NodeOf[q] = NodeOf[r]
                BY <3>2, <4>1, <4>3
            <4> QED BY <3>0, <4>1, <4>2, <4>3
        <3>4. ASSUME NEW s \in confirmed[NodeOf[r]], s # r
              PROVE  ~ SameTransfer(r, s) /\ ~ SameTransfer(s, r)
            BY <3>0, <3>4, Pcs DEF Payment, NoneBeside, SameTransfer
        <3>5. ConfirmedOnce'
            <4> SUFFICES ASSUME NEW n \in Nodes, NEW s \in confirmed'[n], NEW t \in confirmed'[n],
                                s # t
                         PROVE  ~ SameTransfer(s, t)
                BY DEF ConfirmedOnce, SameTransfer
            <4>1. CASE s \in confirmed[n] /\ t \in confirmed[n]
                BY <4>1 DEF Payment, ConfirmedOnce
            <4>2. CASE n = NodeOf[r] /\ (s = r \/ t = r)
                BY <3>0, <3>4, <4>2
            <4> QED BY <3>0, <4>1, <4>2
        <3>6. SavedIsPaid' /\ RepliesArePaid'
            BY <3>0 DEF Payment, SavedIsPaid, RepliesArePaid
        <3> QED BY <3>1, <3>3, <3>5, <3>6 DEF Payment
    <2>9. CASE Throw(r)
        <3>1. /\ xfer[r].pc \in Working /\ xfer'[r].pc = "FAILED"
              /\ \A s \in Requests \ {r} : xfer'[s] = xfer[s]
              /\ UNCHANGED <<memory, table, tx, confirmed>>
            BY <2>9 DEF Throw, EngineTypeOK, XferTo
        <3> QED BY <3>1, PaymentMoved
    <2>10. CASE SaveTable(r)
        <3>0. /\ xfer'[r].pc = "SAVED" /\ xfer[r].pc = "CONFIRMED" /\ tx[r] = "landed"
              /\ \A s \in Requests \ {r} : xfer'[s] = xfer[s]
              /\ UNCHANGED <<memory, tx, confirmed>>
              /\ \A k \in IdemKeys \cup {NoKey} : table'[k] \in {table[k], r}
            BY <2>10 DEF SaveTable, EngineTypeOK, XferTo, Payment, SavedIsPaid
        <3>1. ConfirmedIsKept'
            <4>1. \A s \in Requests :
                     xfer[s].pc \in {"CONFIRMED", "SAVED"} => xfer'[s].pc \in {"CONFIRMED", "SAVED"}
                BY <3>0
            <4>2. \A s \in Requests : tx[s] = "landed" => tx'[s] = "landed"
                BY <3>0
            <4>3. ConfirmedIsKept /\ UNCHANGED <<memory, confirmed>>
                BY <3>0 DEF Payment
            <4> QED BY <4>1, <4>2, <4>3, KeptWhileHeld
        <3>2. NoneBeside' /\ ConfirmedOnce'
            BY <3>0, Pcs DEF Payment, NoneBeside, ConfirmedOnce, SameTransfer
        <3>3. SavedIsPaid' /\ RepliesArePaid'
            BY <3>0 DEF Payment, SavedIsPaid, RepliesArePaid
        <3> QED BY <3>1, <3>2, <3>3 DEF Payment
    <2>11. CASE Return(r)
        <3>0. /\ xfer'[r] = [pc |-> "returned", reply |-> r] /\ xfer[r].pc = "SAVED"
              /\ tx[r] = "landed"
              /\ \A s \in Requests \ {r} : xfer'[s] = xfer[s]
              /\ UNCHANGED <<table, tx, confirmed>>
            BY <2>11 DEF Return, EngineTypeOK, Payment, SavedIsPaid
        <3>1. \A n \in Nodes : \A k \in IdemKeys \cup {NoKey} :
                 \/ memory'[n][k] = memory[n][k] /\ ~ (n = NodeOf[r] /\ k = IdemKeyOf[r] /\ k # NoKey)
                 \/ memory'[n][k] = r /\ n = NodeOf[r] /\ k = IdemKeyOf[r] /\ k # NoKey
            BY <2>11, <2>0 DEF Return, EngineTypeOK
        <3>2. ConfirmedIsKept'
            <4> SUFFICES ASSUME NEW n \in Nodes, NEW s \in confirmed[n]
                         PROVE  /\ NodeOf[s] = n
                                /\ tx[s] = "landed"
                                /\ \/ xfer'[s].pc \in {"CONFIRMED", "SAVED"}
                                   \/ IdemKeyOf[s] # NoKey => memory'[n][IdemKeyOf[s]] # NoRequest
                BY <3>0 DEF ConfirmedIsKept
            <4>1. /\ s \in Requests /\ IdemKeyOf[s] \in IdemKeys \cup {NoKey}
                  /\ r # NoRequest
                BY EngineAssumption DEF EngineTypeOK
            <4>2. /\ NodeOf[s] = n
                  /\ tx[s] = "landed"
                  /\ \/ xfer[s].pc \in {"CONFIRMED", "SAVED"}
                     \/ IdemKeyOf[s] # NoKey => memory[n][IdemKeyOf[s]] # NoRequest
                BY DEF Payment, ConfirmedIsKept
            <4>3. CASE s = r
                BY <3>1, <4>1, <4>2, <4>3
            <4>4. CASE s # r
                BY <3>0, <3>1, <4>1, <4>2, <4>4
            <4> QED BY <4>3, <4>4
        <3>3. NoneBeside' /\ ConfirmedOnce'
            BY <3>0, Pcs DEF Payment, NoneBeside, ConfirmedOnce, SameTransfer
        <3>4. SavedIsPaid' /\ RepliesArePaid'
            BY <3>0, <3>1 DEF Payment, SavedIsPaid, RepliesArePaid
        <3> QED BY <3>2, <3>3, <3>4 DEF Payment
    <2>12. CASE Rethrow(r)
        <3>1. /\ xfer[r].pc = "FAILED" /\ xfer'[r].pc = "thrown"
              /\ \A s \in Requests \ {r} : xfer'[s] = xfer[s]
              /\ UNCHANGED <<memory, table, tx, confirmed>>
            BY <2>12 DEF Rethrow, EngineTypeOK, XferTo
        <3> QED BY <3>1, PaymentMoved
    <2> QED BY <1>1, <2>1, <2>2, <2>3, <2>4, <2>5, <2>6, <2>7, <2>8, <2>9, <2>10,
               <2>11, <2>12 DEF XferStep
<1>2. ASSUME NEW r \in Requests, Land(r) \/ Die(r) PROVE Payment'
    <2>1. /\ \A s \in Requests : tx[s] = "landed" => tx'[s] = "landed"
          /\ UNCHANGED <<locks, memory, table, xfer, confirmed>>
        BY <1>2 DEF Land, Die, EngineTypeOK
    <2> QED BY <2>1, EngineAssumption DEF Payment, ConfirmedIsKept, NoneBeside, ConfirmedOnce,
            SavedIsPaid, RepliesArePaid, SameTransfer, EngineTypeOK
<1>3. ASSUME NEW n \in Nodes, Restart(n) PROVE Payment'
    <2>0. /\ \A r \in Requests :
              \/ xfer'[r] = xfer[r] /\ (NodeOf[r] = n => xfer[r].pc \notin Active)
              \/ NodeOf[r] = n /\ xfer'[r].pc = "lost"
          /\ confirmed' = [confirmed EXCEPT ![n] = {}]
          /\ memory' = [memory EXCEPT ![n] = NothingSaved]
          /\ UNCHANGED <<table, tx>>
        BY <1>3 DEF Restart, EngineTypeOK
    <2>1. ConfirmedIsKept'
        BY <2>0 DEF Payment, ConfirmedIsKept, EngineTypeOK
    <2>2. NoneBeside' /\ ConfirmedOnce'
        BY <2>0, EngineAssumption, Pcs
        DEF Payment, NoneBeside, ConfirmedOnce, SameTransfer, EngineTypeOK
    <2>3. \A q \in Nodes : \A k \in IdemKeys \cup {NoKey} :
             memory'[q][k] \in {memory[q][k], NoRequest}
        BY <2>0 DEF EngineTypeOK, NothingSaved
    <2>4. SavedIsPaid'
        BY <2>0, <2>3, EngineAssumption DEF Payment, SavedIsPaid
    <2>5. RepliesArePaid'
        BY <2>0 DEF Payment, RepliesArePaid
    <2> QED BY <2>1, <2>2, <2>4, <2>5 DEF Payment
<1>4. CASE UNCHANGED engineVars
    BY <1>4 DEF engineVars, Payment, ConfirmedIsKept, NoneBeside, ConfirmedOnce, SavedIsPaid,
       RepliesArePaid, SameTransfer
<1> QED BY <1>1, <1>2, <1>3, <1>4 DEF EngineNext, EngineDone

-----------------------------------------------------------------------------
LEMMA EngineInvariant == EngineSpec => []EngineInv
<1>1. EngineInv /\ [EngineNext]_engineVars => EngineInv'
    BY EngineTypeStep, LockStep, UnsentStep, PaymentStep DEF EngineInv, Payment
<1> QED BY EngineInitInv, <1>1, PTL DEF EngineSpec

\* The variables of executeTransaction keep their types.
THEOREM EngineTypes == EngineSpec => []EngineTypeOK
BY EngineInvariant, PTL DEF EngineInv

\* A process runs one transfer of a user at a time, and no way out leaks its
\* lock or frees another's.
THEOREM EngineLocks == EngineSpec => []LockMatchesTransfer
BY EngineInvariant, PTL DEF EngineInv

\* A living process confirms at most one transfer of a user for a key.
THEOREM EngineConfirmsOnce == EngineSpec => []KeyConfirmedOnce
<1>1. EngineInv => KeyConfirmedOnce
    BY DEF EngineInv, ConfirmedOnce, KeyConfirmedOnce, SameTransfer
<1> QED BY EngineInvariant, <1>1, PTL

\* What a caller is given, its own record or a saved one, was paid and is what
\* it asked for.
THEOREM EngineRepliesPaid == EngineSpec => []RepliesArePaid
BY EngineInvariant, PTL DEF EngineInv
==============================================================================
