--------------------------- MODULE ZeroClawWithdraw ---------------------------
(***************************************************************************)
(* The withdrawal routes of ZeroClaw: an intent is prepared, confirmed     *)
(* with a code and used by POST /withdraw, which checks it in layers and   *)
(* broadcasts the transaction the client signed.  Intents, the in-flight   *)
(* locks and the rate counters are in the memory of one process; requests  *)
(* interleave wherever a handler awaits an answer.                         *)
(*                                                                         *)
(* A request comes with an identity, which is compared with the intent's   *)
(* without regard to case and blanks, but locked and counted as spelled.   *)
(* Requests with somebody else's identity are refused first and left out.  *)
(***************************************************************************)
EXTENDS Integers

CONSTANTS
    Withdraws,      \* POST /withdraw requests
    Intents,        \* withdrawalIds
    Identities,     \* userEmail, as a request spells it
    IntentOf,       \* [Withdraws -> Intents]
    IdentityOf,     \* [Withdraws -> Identities]
    WithCode,       \* the requests that carry a six-digit code
    WithdrawLimit   \* WITHDRAWAL_RATE_LIMIT

ASSUME WithdrawAssumption ==
    /\ IntentOf \in [Withdraws -> Intents]
    /\ IdentityOf \in [Withdraws -> Identities]
    /\ WithCode \subseteq Withdraws
    /\ WithdrawLimit \in Nat \ {0}

VARIABLES
    intent,     \* serverWithdrawalIntents
    replayLock, \* antiReplayHashSet: the locks that are held
    counted,    \* withdrawalRateLimiter: withdrawals of an identity's window
    wreq,       \* where each request is
    saved,      \* zeroclaw_withdrawals: the status saved for a request
    cleared     \* locks that the timer took from their holder (history)

withdrawVars == <<intent, replayLock, counted, wreq, saved, cleared>>

IntentStatuses == {"none", "AWAITING_SIGNATURE", "CONSUMED", "COMPLETED", "EXPIRED"}
IntentType == [status : IntentStatuses, otpVerified : BOOLEAN, overdue : BOOLEAN]

\* A request that has used its intent is in one of the last of these.
Using == {"checking", "broadcasting", "failing", "saving", "stopped", "failed", "completed"}
WithdrawPcs == {"idle", "verifying", "refused"} \cup Using

WithdrawTypeOK ==
    /\ intent \in [Intents -> IntentType]
    /\ replayLock \subseteq Identities \X Intents
    /\ counted \in [Identities -> 0..WithdrawLimit]
    /\ wreq \in [Withdraws -> WithdrawPcs]
    /\ saved \in [Withdraws -> {"none", "completed", "failed"}]
    /\ cleared \subseteq Identities \X Intents

WithdrawInit ==
    /\ intent = [i \in Intents |-> [status |-> "none", otpVerified |-> FALSE, overdue |-> FALSE]]
    /\ replayLock = {}
    /\ counted = [o \in Identities |-> 0]
    /\ wreq = [r \in Withdraws |-> "idle"]
    /\ saved = [r \in Withdraws |-> "none"]
    /\ cleared = {}

Move(r, pc) == wreq' = [wreq EXCEPT ![r] = pc]

UsersOf(i) == {r \in Withdraws : IntentOf[r] = i /\ wreq[r] \in Using}

\* activeLockKey: the identity as the request spells it, and the intent.
ReplayLockOf(r) == <<IdentityOf[r], IntentOf[r]>>

BroadcastsUnder(k) == {r \in Withdraws : ReplayLockOf(r) = k /\ wreq[r] = "broadcasting"}

-----------------------------------------------------------------------------
(* The life of an intent apart from its use *)

\* POST /withdraw/prepare stores the intent.
Prepare(i) ==
    /\ intent[i].status = "none"
    /\ intent' = [intent EXCEPT ![i].status = "AWAITING_SIGNATURE"]
    /\ UNCHANGED <<replayLock, counted, wreq, saved, cleared>>

\* Mutant: confirming opens the intent for a signature again.
ConfirmOtp_Renews(i) ==
    /\ intent[i].status # "none"
    /\ intent' = [intent EXCEPT ![i] =
                    [status |-> "AWAITING_SIGNATURE", otpVerified |-> TRUE, overdue |-> @.overdue]]
    /\ UNCHANGED <<replayLock, counted, wreq, saved, cleared>>

\* POST /withdraw/confirm-otp accepts the code in any status of the intent.
ConfirmOtp(i) ==
    /\ intent[i].status # "none"
    /\ intent' = [intent EXCEPT ![i].otpVerified = TRUE]
    /\ UNCHANGED <<replayLock, counted, wreq, saved, cleared>>

\* Five minutes have passed since the intent was prepared.
Overdue(i) ==
    /\ intent[i].status # "none" /\ ~intent[i].overdue
    /\ intent' = [intent EXCEPT ![i].overdue = TRUE]
    /\ UNCHANGED <<replayLock, counted, wreq, saved, cleared>>

-----------------------------------------------------------------------------
(* POST /withdraw, up to the use of the intent *)

RefuseUsed(r) ==
    /\ wreq[r] = "idle"
    /\ intent[IntentOf[r]].status \in {"none", "CONSUMED", "COMPLETED"}
    /\ Move(r, "refused")
    /\ UNCHANGED <<intent, replayLock, counted, saved, cleared>>

Usable(i) == intent[i].status \notin {"none", "CONSUMED", "COMPLETED"}

\* Mutant: the expiry is looked at before the status.
RefuseOverdue_First(r) ==
    /\ wreq[r] = "idle" /\ intent[IntentOf[r]].overdue
    /\ intent' = [intent EXCEPT ![IntentOf[r]].status = "EXPIRED"]
    /\ Move(r, "refused")
    /\ UNCHANGED <<replayLock, counted, saved, cleared>>

RefuseOverdue(r) ==
    LET i == IntentOf[r]
    IN  /\ wreq[r] = "idle" /\ Usable(i) /\ intent[i].overdue
        /\ intent' = [intent EXCEPT ![i].status = "EXPIRED"]
        /\ Move(r, "refused")
        /\ UNCHANGED <<replayLock, counted, saved, cleared>>

\* The intent passes the checks of layer 0 that come before the code.
Admitted(r) == wreq[r] = "idle" /\ Usable(IntentOf[r]) /\ ~intent[IntentOf[r]].overdue

\* The request's own code is verified while the handler waits.
VerifyCode(r) ==
    /\ Admitted(r) /\ ~intent[IntentOf[r]].otpVerified /\ r \in WithCode
    /\ Move(r, "verifying")
    /\ UNCHANGED <<intent, replayLock, counted, saved, cleared>>

CodeIsValid(r) ==
    /\ wreq[r] = "verifying"
    /\ \/ /\ intent' = [intent EXCEPT ![IntentOf[r]] =
                           [status |-> "CONSUMED", otpVerified |-> TRUE, overdue |-> @.overdue]]
          /\ Move(r, "checking")
       \/ /\ intent' = [intent EXCEPT ![IntentOf[r]].otpVerified = TRUE]
          /\ Move(r, "refused")  \* amount or address is not the intent's
    /\ UNCHANGED <<replayLock, counted, saved, cleared>>

\* A wrong code does not matter if the intent has been confirmed meanwhile.
CodeIsWrong(r) ==
    /\ wreq[r] = "verifying"
    /\ \/ /\ intent[IntentOf[r]].otpVerified
          /\ intent' = [intent EXCEPT ![IntentOf[r]].status = "CONSUMED"]
          /\ Move(r, "checking")
       \/ Move(r, "refused") /\ UNCHANGED intent
    /\ UNCHANGED <<replayLock, counted, saved, cleared>>

\* Mutant: the status is set when the layers have passed.
Use_Late(r) ==
    /\ Admitted(r) /\ intent[IntentOf[r]].otpVerified
    /\ Move(r, "checking")
    /\ UNCHANGED <<intent, replayLock, counted, saved, cleared>>

\* "Single-use authorization lock": set in the turn in which it was looked at.
Use(r) ==
    /\ Admitted(r) /\ intent[IntentOf[r]].otpVerified
    /\ intent' = [intent EXCEPT ![IntentOf[r]].status = "CONSUMED"]
    /\ Move(r, "checking")
    /\ UNCHANGED <<replayLock, counted, saved, cleared>>

\* No code, or the request's amount or address is not the intent's.
RefuseUnverified(r) ==
    /\ Admitted(r)
    /\ ~intent[IntentOf[r]].otpVerified => r \notin WithCode
    /\ Move(r, "refused")
    /\ UNCHANGED <<intent, replayLock, counted, saved, cleared>>

-----------------------------------------------------------------------------
(* POST /withdraw, the layers *)

\* Layers 2 to 4: not the owner's wallet, or not enough money in it.
FailLayer(r) ==
    /\ wreq[r] = "checking"
    /\ Move(r, "stopped")
    /\ UNCHANGED <<intent, replayLock, counted, saved, cleared>>

\* Mutant: the lock is released by whoever leaves.
RefuseInFlight_Releases(r) ==
    /\ wreq[r] = "checking" /\ ReplayLockOf(r) \in replayLock
    /\ replayLock' = replayLock \ {ReplayLockOf(r)}
    /\ Move(r, "stopped")
    /\ UNCHANGED <<intent, counted, saved, cleared>>

\* Layer 5: another request of the intent, spelled the same, holds the lock.
RefuseInFlight(r) ==
    /\ wreq[r] = "checking" /\ ReplayLockOf(r) \in replayLock
    /\ Move(r, "stopped")
    /\ UNCHANGED <<intent, replayLock, counted, saved, cleared>>

\* Mutant: one withdrawal more than the limit is counted.
SubmitWithdraw_OneMore(r) ==
    LET o == IdentityOf[r]
    IN  /\ wreq[r] = "checking" /\ ReplayLockOf(r) \notin replayLock
        /\ replayLock' = replayLock \cup {ReplayLockOf(r)}
        /\ IF counted[o] <= WithdrawLimit
           THEN /\ counted' = [counted EXCEPT ![o] = @ + 1]
                /\ Move(r, "broadcasting")
           ELSE Move(r, "stopped") /\ UNCHANGED counted
        /\ UNCHANGED <<intent, saved, cleared>>

\* Layers 5 to 7 in one turn: take the lock, count, verify the signature and
\* submit.  A request that is stopped here leaves the lock behind.
SubmitWithdraw(r) ==
    LET o == IdentityOf[r]
    IN  /\ wreq[r] = "checking" /\ ReplayLockOf(r) \notin replayLock
        /\ replayLock' = replayLock \cup {ReplayLockOf(r)}
        /\ IF counted[o] < WithdrawLimit
           THEN /\ counted' = [counted EXCEPT ![o] = @ + 1]
                /\ \/ Move(r, "broadcasting")
                   \/ Move(r, "stopped")    \* not signed as the intent says
           ELSE Move(r, "stopped") /\ UNCHANGED counted
        /\ UNCHANGED <<intent, saved, cleared>>

BroadcastSucceeds(r) ==
    /\ wreq[r] = "broadcasting"
    /\ intent' = [intent EXCEPT ![IntentOf[r]].status = "COMPLETED"]
    /\ replayLock' = replayLock \ {ReplayLockOf(r)}
    /\ Move(r, "saving")
    /\ UNCHANGED <<counted, saved, cleared>>

\* The intent stays CONSUMED and the lock is left to the timer.
BroadcastFails(r) ==
    /\ wreq[r] = "broadcasting"
    /\ Move(r, "failing")
    /\ UNCHANGED <<intent, replayLock, counted, saved, cleared>>

\* The row is inserted, or the database refuses it (twice), which is ignored.
SaveRow(r) ==
    /\ \/ wreq[r] = "saving" /\ Move(r, "completed")
          /\ saved' \in {saved, [saved EXCEPT ![r] = "completed"]}
       \/ wreq[r] = "failing" /\ Move(r, "failed")
          /\ saved' \in {saved, [saved EXCEPT ![r] = "failed"]}
    /\ UNCHANGED <<intent, replayLock, counted, cleared>>

-----------------------------------------------------------------------------
(* Time *)

\* Every thirty seconds all locks are dropped, of requests in flight too.
ClearLocks ==
    /\ replayLock # {}
    /\ replayLock' = {}
    /\ cleared' = cleared \cup {k \in replayLock : BroadcastsUnder(k) # {}}
    /\ UNCHANGED <<intent, counted, wreq, saved>>

WindowEnds(o) ==
    /\ counted[o] # 0
    /\ counted' = [counted EXCEPT ![o] = 0]
    /\ UNCHANGED <<intent, replayLock, wreq, saved, cleared>>

-----------------------------------------------------------------------------
WithdrawStep(r) ==
    \/ RefuseUsed(r)
    \/ RefuseOverdue(r)
    \/ VerifyCode(r)
    \/ CodeIsValid(r)
    \/ CodeIsWrong(r)
    \/ Use(r)
    \/ RefuseUnverified(r)
    \/ FailLayer(r)
    \/ RefuseInFlight(r)
    \/ SubmitWithdraw(r)
    \/ BroadcastSucceeds(r)
    \/ BroadcastFails(r)
    \/ SaveRow(r)

WithdrawDone ==
    /\ \A r \in Withdraws : wreq[r] \in {"idle", "refused", "stopped", "failed", "completed"}
    /\ UNCHANGED withdrawVars

WithdrawNext ==
    \/ \E r \in Withdraws : WithdrawStep(r)
    \/ \E i \in Intents : Prepare(i) \/ ConfirmOtp(i) \/ Overdue(i)
    \/ \E o \in Identities : WindowEnds(o)
    \/ ClearLocks
    \/ WithdrawDone

WithdrawSpec == WithdrawInit /\ [][WithdrawNext]_withdrawVars

-----------------------------------------------------------------------------
(* An authorization is used once: a request finds it unused unless the     *)
(* request had been waiting for the verification of its own code, after    *)
(* which the handler does not look at the status again.                    *)
OnlyLateCodesReuse ==
    [][\A r \in Withdraws :
         wreq[r] = "idle" /\ wreq'[r] \in Using => UsersOf(IntentOf[r]) = {}]_withdrawVars

(* Two requests of one intent, that both passed the single-use mark, never *)
(* broadcast at a time, if they spell the identity alike and the timer has *)
(* not dropped the lock under a broadcast: a completed request releases    *)
(* the lock it holds, not one that another has taken.  Under two spellings *)
(* they do.                                                                *)
OneBroadcastPerLock ==
    \A k \in (Identities \X Intents) \ cleared : \A r, s \in BroadcastsUnder(k) : r = s

(* No request of an intent is refused for lack of the code once the intent *)
(* has been used: an intent in use has been confirmed and stays so, in     *)
(* whatever order codes, confirmations and expiry come.                    *)
UsedIsConfirmed ==
    \A i \in Intents : UsersOf(i) # {} =>
        intent[i].otpVerified /\ intent[i].status \in {"CONSUMED", "COMPLETED"}
===============================================================================
