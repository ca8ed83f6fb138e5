-------------------------- MODULE TransactionEngine --------------------------
(***************************************************************************)
(* executeTransaction, the second transfer pipeline: a lock per user and a *)
(* store of responses, both in the memory of one API process, and a table  *)
(* of responses behind that store.  Requests run concurrently, on several  *)
(* processes, which may restart.                                           *)
(***************************************************************************)
EXTENDS Integers

CONSTANTS
    Requests,   \* POST /api/transactions/... requests
    Users,
    IdemKeys,   \* idempotency keys
    Nodes,      \* API processes
    NoKey,      \* the request carries no key
    NoRequest,  \* no saved response
    UserOf,     \* [Requests -> Users]
    IdemKeyOf,  \* [Requests -> IdemKeys or NoKey]
    NodeOf,     \* [Requests -> Nodes], the process that serves it
    HashOf      \* [Requests -> Requests], equal for requests that ask the same

ASSUME EngineAssumption ==
    /\ NoKey \notin IdemKeys
    /\ NoRequest \notin Requests
    /\ UserOf \in [Requests -> Users]
    /\ IdemKeyOf \in [Requests -> IdemKeys \cup {NoKey}]
    /\ NodeOf \in [Requests -> Nodes]
    /\ HashOf \in [Requests -> Requests]

VARIABLES
    locks,      \* activeTransactionLocks: pairs of a process and a user
    memory,     \* localMemoryMap: the request whose response a process holds for a key
    table,      \* idempotency_keys: the request whose response is stored for a key
    xfer,       \* the local state of each request
    tx,         \* the Solana transaction of each request
    confirmed   \* the requests each process has confirmed since it started (history)

engineVars == <<locks, memory, table, xfer, tx, confirmed>>

\* The statuses in which a transfer holds its user's lock: while it waits for
\* the wallet and the fee, the blockhash, the signature, the submission, the
\* confirmation, and while its end is being recorded.
Working  == {"VALIDATING", "BUILDING", "AWAITING_SIGNATURE", "SIGNED", "CONFIRMING"}
Ending   == {"CONFIRMED", "SAVED", "FAILED"}
Active   == Working \cup Ending
XferPcs  == {"idle", "enter", "returned", "thrown", "lost"} \cup Active
Replies  == Requests \cup {NoRequest}
XferType == [pc : XferPcs, reply : Replies]

\* Mutant: a signed transfer moves on by itself.
NextStatus_PastSigned ==
    [VALIDATING |-> "BUILDING", BUILDING |-> "AWAITING_SIGNATURE",
     AWAITING_SIGNATURE |-> "SIGNED", SIGNED |-> "SUBMITTED"]

NextStatus == [VALIDATING |-> "BUILDING", BUILDING |-> "AWAITING_SIGNATURE",
               AWAITING_SIGNATURE |-> "SIGNED"]

EngineTypeOK ==
    /\ locks \subseteq Nodes \X Users
    /\ memory \in [Nodes -> [IdemKeys \cup {NoKey} -> Replies]]
    /\ table \in [IdemKeys \cup {NoKey} -> Replies]
    /\ xfer \in [Requests -> XferType]
    /\ tx \in [Requests -> {"none", "sent", "landed", "dead"}]
    /\ confirmed \in [Nodes -> SUBSET Requests]

NothingSaved == [k \in IdemKeys \cup {NoKey} |-> NoRequest]

EngineInit ==
    /\ locks = {}
    /\ memory = [n \in Nodes |-> NothingSaved]
    /\ table = NothingSaved
    /\ xfer = [r \in Requests |-> [pc |-> "idle", reply |-> NoRequest]]
    /\ tx = [r \in Requests |-> "none"]
    /\ confirmed = [n \in Nodes |-> {}]

LockOf(r) == <<NodeOf[r], UserOf[r]>>

XferTo(r, pc) == xfer' = [xfer EXCEPT ![r].pc = pc]

\* Mutant: whatever was saved for the key is returned.
Replay_AnyPayload(r, saved) ==
    xfer' = [xfer EXCEPT ![r] = [pc |-> "returned", reply |-> saved]]

\* A response saved for the key answers a request for the same; any other use
\* of the key is refused.
Replay(r, saved) ==
    xfer' = [xfer EXCEPT ![r] = IF HashOf[saved] = HashOf[r]
                                THEN [pc |-> "returned", reply |-> saved]
                                ELSE [pc |-> "thrown", reply |-> NoRequest]]

-----------------------------------------------------------------------------
(***************************************************************************)
(* The checks: the table, and after that answer, in one turn of the event  *)
(* loop, the memory and the lock                                           *)
(***************************************************************************)
\* checkIdempotency asks the table, unless there is no key.
LookupTable(r) ==
    LET saved == table[IdemKeyOf[r]]
    IN  /\ xfer[r].pc = "idle"
        /\ IF saved # NoRequest THEN Replay(r, saved) ELSE XferTo(r, "enter")
        /\ UNCHANGED <<locks, memory, table, tx, confirmed>>

\* The table cannot be asked: on with the memory alone.
LookupTableFails(r) ==
    /\ xfer[r].pc = "idle"
    /\ XferTo(r, "enter")
    /\ UNCHANGED <<locks, memory, table, tx, confirmed>>

LookupMemory(r) ==
    LET saved == memory[NodeOf[r]][IdemKeyOf[r]]
    IN  /\ xfer[r].pc = "enter"
        /\ saved # NoRequest
        /\ Replay(r, saved)
        /\ UNCHANGED <<locks, memory, table, tx, confirmed>>

NotSaved(r) == memory[NodeOf[r]][IdemKeyOf[r]] = NoRequest

\* Mutant: a request that finds the lock taken leaves through the finally block.
RefuseLocked_Unlocks(r) ==
    /\ xfer[r].pc = "enter" /\ NotSaved(r)
    /\ LockOf(r) \in locks
    /\ XferTo(r, "thrown")
    /\ locks' = locks \ {LockOf(r)}
    /\ UNCHANGED <<memory, table, tx, confirmed>>

\* CONCURRENCY_LOCK: thrown before the try block, so the lock stays.
RefuseLocked(r) ==
    /\ xfer[r].pc = "enter" /\ NotSaved(r)
    /\ LockOf(r) \in locks
    /\ XferTo(r, "thrown")
    /\ UNCHANGED <<locks, memory, table, tx, confirmed>>

Enter(r) ==
    /\ xfer[r].pc = "enter" /\ NotSaved(r)
    /\ LockOf(r) \notin locks
    /\ locks' = locks \cup {LockOf(r)}
    /\ XferTo(r, "VALIDATING")
    /\ UNCHANGED <<memory, table, tx, confirmed>>

-----------------------------------------------------------------------------
(***************************************************************************)
(* The transfer                                                            *)
(***************************************************************************)
Advance(r) ==
    /\ xfer[r].pc \in DOMAIN NextStatus
    /\ XferTo(r, NextStatus[xfer[r].pc])
    /\ UNCHANGED <<locks, memory, table, tx, confirmed>>

\* sendTransaction reaches the network; its answer may be lost all the same.
Submit(r) ==
    /\ xfer[r].pc = "SIGNED"
    /\ tx' = [tx EXCEPT ![r] = "sent"]
    /\ XferTo(r, "CONFIRMING") \/ XferTo(r, "FAILED")
    /\ UNCHANGED <<locks, memory, table, confirmed>>

\* Mutant: a poll that ends without an answer counts as confirmed.
Confirm_OnTimeout(r) ==
    /\ xfer[r].pc = "CONFIRMING"
    /\ confirmed' = [confirmed EXCEPT ![NodeOf[r]] = @ \cup {r}]
    /\ XferTo(r, "CONFIRMED")
    /\ UNCHANGED <<locks, memory, table, tx>>

Confirm(r) ==
    /\ xfer[r].pc = "CONFIRMING" /\ tx[r] = "landed"
    /\ confirmed' = [confirmed EXCEPT ![NodeOf[r]] = @ \cup {r}]
    /\ XferTo(r, "CONFIRMED")
    /\ UNCHANGED <<locks, memory, table, tx>>

\* Any await of the transfer may throw, and the confirmation may time out,
\* whether the transaction lands afterwards or not.
Throw(r) ==
    /\ xfer[r].pc \in Working
    /\ XferTo(r, "FAILED")
    /\ UNCHANGED <<locks, memory, table, tx, confirmed>>

\* saveIdempotency upserts the row first; an error of the database is not seen.
SaveTable(r) ==
    /\ xfer[r].pc = "CONFIRMED"
    /\ \/ /\ IdemKeyOf[r] # NoKey
          /\ table' = [table EXCEPT ![IdemKeyOf[r]] = r]
       \/ UNCHANGED table
    /\ XferTo(r, "SAVED")
    /\ UNCHANGED <<locks, memory, tx, confirmed>>

\* Mutant: only the table is written.
Return_NoMemory(r) ==
    /\ xfer[r].pc = "SAVED"
    /\ locks' = locks \ {LockOf(r)}
    /\ xfer' = [xfer EXCEPT ![r] = [pc |-> "returned", reply |-> r]]
    /\ UNCHANGED <<memory, table, tx, confirmed>>

\* Then it writes the memory, the finally block unlocks, and the record is returned.
Return(r) ==
    /\ xfer[r].pc = "SAVED"
    /\ memory' = IF IdemKeyOf[r] = NoKey THEN memory
                 ELSE [memory EXCEPT ![NodeOf[r]][IdemKeyOf[r]] = r]
    /\ locks' = locks \ {LockOf(r)}
    /\ xfer' = [xfer EXCEPT ![r] = [pc |-> "returned", reply |-> r]]
    /\ UNCHANGED <<table, tx, confirmed>>

\* A failure is recorded, saves no response, and unlocks.
Rethrow(r) ==
    /\ xfer[r].pc = "FAILED"
    /\ locks' = locks \ {LockOf(r)}
    /\ XferTo(r, "thrown")
    /\ UNCHANGED <<memory, table, tx, confirmed>>

-----------------------------------------------------------------------------
(***************************************************************************)
(* The network and the processes                                           *)
(***************************************************************************)
Land(r) ==
    /\ tx[r] = "sent"
    /\ tx' = [tx EXCEPT ![r] = "landed"]
    /\ UNCHANGED <<locks, memory, table, xfer, confirmed>>

Die(r) ==
    /\ tx[r] = "sent"
    /\ tx' = [tx EXCEPT ![r] = "dead"]
    /\ UNCHANGED <<locks, memory, table, xfer, confirmed>>

\* A process restarts: its locks, its saved responses and its requests are gone.
Restart(n) ==
    /\ \E r \in Requests : NodeOf[r] = n /\ xfer[r].pc # "idle"
    /\ locks' = {l \in locks : l[1] # n}
    /\ memory' = [memory EXCEPT ![n] = NothingSaved]
    /\ xfer' = [r \in Requests |->
                   IF NodeOf[r] = n /\ xfer[r].pc \in Active \cup {"enter"}
                   THEN [xfer[r] EXCEPT !.pc = "lost"] ELSE xfer[r]]
    /\ confirmed' = [confirmed EXCEPT ![n] = {}]
    /\ UNCHANGED <<table, tx>>

XferStep(r) ==
    \/ LookupTable(r) \/ LookupTableFails(r) \/ LookupMemory(r)
    \/ RefuseLocked(r) \/ Enter(r) \/ Advance(r) \/ Submit(r) \/ Confirm(r)
    \/ Throw(r) \/ SaveTable(r) \/ Return(r) \/ Rethrow(r)

EngineDone ==
    /\ \A r \in Requests : xfer[r].pc \in {"returned", "thrown", "lost"}
    /\ UNCHANGED engineVars

EngineNext ==
    \/ \E r \in Requests : XferStep(r) \/ Land(r) \/ Die(r)
    \/ \E n \in Nodes : Restart(n)
    \/ EngineDone

EngineSpec == EngineInit /\ [][EngineNext]_engineVars

-----------------------------------------------------------------------------
\* A process runs one transfer of a user at a time, and its lock is held
\* exactly as long: no way out of executeTransaction leaks the lock or frees
\* that of another request.
LockMatchesTransfer ==
    /\ \A r \in Requests : xfer[r].pc \in Active => LockOf(r) \in locks
    /\ \A r, s \in Requests :
          r # s /\ xfer[r].pc \in Active /\ xfer[s].pc \in Active => LockOf(r) # LockOf(s)
    /\ \A l \in locks : \E r \in Requests : xfer[r].pc \in Active /\ LockOf(r) = l

\* While a process lives it confirms at most one transfer of a user for a key,
\* although the table is asked before the lock is taken, and whether or not
\* the database works.
KeyConfirmedOnce ==
    \A n \in Nodes : \A r, s \in confirmed[n] :
        r # s /\ UserOf[r] = UserOf[s] => IdemKeyOf[r] # IdemKeyOf[s] \/ IdemKeyOf[r] = NoKey

\* A caller that is answered has been paid for: the record it is given,
\* its own or a saved one that outlived restarts, is of a transfer that landed
\* and that asked for the same.
RepliesArePaid ==
    \A r \in Requests :
        xfer[r].pc = "returned" =>
            /\ xfer[r].reply \in Requests
            /\ tx[xfer[r].reply] = "landed"
            /\ HashOf[xfer[r].reply] = HashOf[r]
=============================================================================
