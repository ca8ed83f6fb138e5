----------------------------- MODULE ZeroClawProofs -----------------------------
(***************************************************************************)
(* The theorems about ZeroClaw: first its withdrawal routes, for any       *)
(* requests, intents, identities and limit, then its signature monitor.    *)
(***************************************************************************)
EXTENDS ZeroClawWithdraw, SignatureMonitor, TLAPS

(* While the timer has not dropped its lock, a broadcasting request holds it. *)
BroadcastHoldsLock ==
    \A k \in (Identities \X Intents) \ cleared : BroadcastsUnder(k) # {} => k \in replayLock

WithdrawInv ==
    /\ WithdrawTypeOK
    /\ UsedIsConfirmed
    /\ BroadcastHoldsLock
    /\ OneBroadcastPerLock

LEMMA WithdrawInitInv == WithdrawInit => WithdrawInv
  BY WithdrawAssumption
  DEF WithdrawInit, WithdrawInv, WithdrawTypeOK, UsedIsConfirmed, BroadcastHoldsLock,
      OneBroadcastPerLock, UsersOf, BroadcastsUnder, IntentType, IntentStatuses,
      WithdrawPcs, Using

(* A step of a request keeps the types. *)
LEMMA WithdrawTypeStep ==
  ASSUME WithdrawTypeOK, [WithdrawNext]_withdrawVars
  PROVE  WithdrawTypeOK'
  <1> USE WithdrawAssumption DEF WithdrawTypeOK, IntentType, IntentStatuses, WithdrawPcs, Using
  <1>1. ASSUME NEW r \in Withdraws, WithdrawStep(r) PROVE WithdrawTypeOK'
    <2>0. IntentOf[r] \in Intents /\ IdentityOf[r] \in Identities
          /\ ReplayLockOf(r) \in Identities \X Intents
      BY DEF ReplayLockOf
    <2>1. CASE RefuseUsed(r) BY <2>1, <2>0 DEF RefuseUsed, Move
    <2>2. CASE RefuseOverdue(r) BY <2>2, <2>0 DEF RefuseOverdue, Move
    <2>3. CASE VerifyCode(r) BY <2>3, <2>0 DEF VerifyCode, Move
    <2>4. CASE CodeIsValid(r)
      <3>1. wreq' \in [Withdraws -> WithdrawPcs] BY <2>4 DEF CodeIsValid, Move
      <3>2. intent' \in [Intents -> IntentType]
        <4> DEFINE i == IntentOf[r]
        <4>1. intent[i] \in IntentType BY <2>0
        <4>2. PICK b \in {TRUE, FALSE} :
                intent' = [intent EXCEPT ![i] =
                  IF b THEN [status |-> "CONSUMED", otpVerified |-> TRUE, overdue |-> @.overdue]
                       ELSE [@ EXCEPT !.otpVerified = TRUE]]
          BY <2>4 DEF CodeIsValid
        <4>3. CASE b = TRUE
          <5>1. intent' = [intent EXCEPT ![i] =
                  [status |-> "CONSUMED", otpVerified |-> TRUE, overdue |-> @.overdue]]
            BY <4>2, <4>3
          <5> QED BY <5>1, <4>1, <2>0
        <4>4. CASE b = FALSE
          <5>1. intent' = [intent EXCEPT ![i].otpVerified = TRUE]
            BY <4>2, <4>4
          <5> QED BY <5>1, <4>1, <2>0
        <4> QED BY <4>3, <4>4
      <3> QED BY <3>1, <3>2, <2>4 DEF CodeIsValid
    <2>5. CASE CodeIsWrong(r)
      <3>1. wreq' \in [Withdraws -> WithdrawPcs] BY <2>5 DEF CodeIsWrong, Move
      <3>2. intent' \in [Intents -> IntentType]
        <4> DEFINE i == IntentOf[r]
                   v == intent'[i]
        <4>1. intent[i] \in IntentType BY <2>0
        <4>2. v \in IntentType /\ intent' = [intent EXCEPT ![i] = v]
          BY <4>1, <2>0, <2>5 DEF CodeIsWrong
        <4> HIDE DEF v
        <4> QED BY <4>2, <2>0
      <3> QED BY <3>1, <3>2, <2>5 DEF CodeIsWrong
    <2>6. CASE Use(r) BY <2>6, <2>0 DEF Use, Move
    <2>7. CASE RefuseUnverified(r) BY <2>7, <2>0 DEF RefuseUnverified, Move
    <2>8. CASE FailLayer(r) BY <2>8, <2>0 DEF FailLayer, Move
    <2>9. CASE RefuseInFlight(r) BY <2>9, <2>0 DEF RefuseInFlight, Move
    <2>10. CASE SubmitWithdraw(r)
      <3>1. wreq' \in [Withdraws -> WithdrawPcs] BY <2>10 DEF SubmitWithdraw, Move
      <3>2. counted' \in [Identities -> 0..WithdrawLimit]
        <4> DEFINE o == IdentityOf[r]
                   n == counted[o] + 1
        <4>1. CASE counted[o] < WithdrawLimit
          <5>1. n \in 0..WithdrawLimit BY <4>1, <2>0
          <5>2. counted' = [counted EXCEPT ![o] = n] BY <4>1, <2>10 DEF SubmitWithdraw
          <5> HIDE DEF n
          <5> QED BY <5>1, <5>2
        <4>2. CASE ~(counted[o] < WithdrawLimit)
          BY <4>2, <2>10 DEF SubmitWithdraw
        <4> QED BY <4>1, <4>2
      <3> QED BY <3>1, <3>2, <2>10, <2>0 DEF SubmitWithdraw
    <2>11. CASE BroadcastSucceeds(r) BY <2>11, <2>0 DEF BroadcastSucceeds, Move
    <2>12. CASE BroadcastFails(r) BY <2>12, <2>0 DEF BroadcastFails, Move
    <2>13. CASE SaveRow(r) BY <2>13, <2>0 DEF SaveRow, Move
    <2> QED BY <1>1, <2>1, <2>2, <2>3, <2>4, <2>5, <2>6, <2>7, <2>8, <2>9, <2>10, <2>11,
               <2>12, <2>13 DEF WithdrawStep
  <1>2. ASSUME NEW i \in Intents, Prepare(i) \/ ConfirmOtp(i) \/ Overdue(i)
        PROVE  WithdrawTypeOK'
    <2>1. CASE Prepare(i) BY <2>1 DEF Prepare
    <2>2. CASE ConfirmOtp(i) BY <2>2 DEF ConfirmOtp
    <2>3. CASE Overdue(i) BY <2>3 DEF Overdue
    <2> QED BY <1>2, <2>1, <2>2, <2>3
  <1>3. ASSUME NEW o \in Identities, WindowEnds(o) PROVE WithdrawTypeOK'
    BY <1>3 DEF WindowEnds
  <1>4. CASE ClearLocks
    BY <1>4 DEF ClearLocks
  <1>5. CASE WithdrawDone \/ UNCHANGED withdrawVars
    BY <1>5 DEF WithdrawDone, withdrawVars
  <1> QED BY <1>1, <1>2, <1>3, <1>4, <1>5 DEF WithdrawNext

(* What a request's step does to the intents and to the other requests. *)
LEMMA WithdrawStepFrame ==
  ASSUME WithdrawTypeOK, NEW r \in Withdraws, WithdrawStep(r)
  PROVE  /\ \A s \in Withdraws \ {r} : wreq'[s] = wreq[s]
         /\ \A i \in Intents \ {IntentOf[r]} : intent'[i] = intent[i]
         /\ cleared' = cleared
         /\ wreq'[r] \in Using => wreq[r] \in Using \cup {"idle", "verifying"}
         /\ wreq[r] \in Using => wreq'[r] \in Using
         /\ intent[IntentOf[r]].otpVerified => intent'[IntentOf[r]].otpVerified
         /\ intent[IntentOf[r]].status \in {"CONSUMED", "COMPLETED"}
              => intent'[IntentOf[r]].status \in {"CONSUMED", "COMPLETED"}
         /\ wreq'[r] \in Using /\ wreq[r] \notin Using
              => intent'[IntentOf[r]].otpVerified
                 /\ intent'[IntentOf[r]].status = "CONSUMED"
  <1> USE WithdrawAssumption DEF WithdrawTypeOK, IntentType, IntentStatuses, WithdrawPcs, Using
  <1>0. IntentOf[r] \in Intents OBVIOUS
  <1>1. CASE RefuseUsed(r) BY <1>1, <1>0 DEF RefuseUsed, Move
  <1>2. CASE RefuseOverdue(r) BY <1>2, <1>0 DEF RefuseOverdue, Move, Usable
  <1>3. CASE VerifyCode(r) BY <1>3, <1>0 DEF VerifyCode, Move, Admitted
  <1>4. CASE CodeIsValid(r) BY <1>4, <1>0 DEF CodeIsValid, Move
  <1>5. CASE CodeIsWrong(r) BY <1>5, <1>0 DEF CodeIsWrong, Move
  <1>6. CASE Use(r) BY <1>6, <1>0 DEF Use, Move, Admitted
  <1>7. CASE RefuseUnverified(r) BY <1>7, <1>0 DEF RefuseUnverified, Move, Admitted
  <1>8. CASE FailLayer(r) BY <1>8, <1>0 DEF FailLayer, Move
  <1>9. CASE RefuseInFlight(r) BY <1>9, <1>0 DEF RefuseInFlight, Move
  <1>10. CASE SubmitWithdraw(r) BY <1>10, <1>0 DEF SubmitWithdraw, Move
  <1>11. CASE BroadcastSucceeds(r) BY <1>11, <1>0 DEF BroadcastSucceeds, Move
  <1>12. CASE BroadcastFails(r) BY <1>12, <1>0 DEF BroadcastFails, Move
  <1>13. CASE SaveRow(r) BY <1>13, <1>0 DEF SaveRow, Move
  <1> QED BY <1>1, <1>2, <1>3, <1>4, <1>5, <1>6, <1>7, <1>8, <1>9, <1>10, <1>11, <1>12,
             <1>13 DEF WithdrawStep

LEMMA UsedIsConfirmedStep ==
  ASSUME WithdrawTypeOK, UsedIsConfirmed, [WithdrawNext]_withdrawVars
  PROVE  UsedIsConfirmed'
  <1> USE WithdrawAssumption DEF UsedIsConfirmed, UsersOf
  <1>1. ASSUME NEW r \in Withdraws, WithdrawStep(r) PROVE UsedIsConfirmed'
    <2> SUFFICES ASSUME NEW i \in Intents, NEW s \in Withdraws, IntentOf[s] = i, wreq'[s] \in Using
                 PROVE  intent'[i].otpVerified /\ intent'[i].status \in {"CONSUMED", "COMPLETED"}
      OBVIOUS
    <2>1. CASE wreq[s] \in Using
      <3>1. intent[i].otpVerified /\ intent[i].status \in {"CONSUMED", "COMPLETED"}
        BY <2>1
      <3> QED BY <3>1, <1>1, WithdrawStepFrame
    <2>2. CASE wreq[s] \notin Using
      <3>1. s = r BY <2>2, <1>1, WithdrawStepFrame
      <3> QED BY <3>1, <2>2, <1>1, WithdrawStepFrame
    <2> QED BY <2>1, <2>2
  <1>2. ASSUME NEW i \in Intents, Prepare(i) \/ ConfirmOtp(i) \/ Overdue(i)
        PROVE  UsedIsConfirmed'
    BY <1>2 DEF Prepare, ConfirmOtp, Overdue, WithdrawTypeOK, IntentType, IntentStatuses
  <1>3. ASSUME NEW o \in Identities, WindowEnds(o) PROVE UsedIsConfirmed'
    BY <1>3 DEF WindowEnds
  <1>4. CASE ClearLocks BY <1>4 DEF ClearLocks
  <1>5. CASE WithdrawDone \/ UNCHANGED withdrawVars
    BY <1>5 DEF WithdrawDone, withdrawVars
  <1> QED BY <1>1, <1>2, <1>3, <1>4, <1>5 DEF WithdrawNext

LEMMA BroadcastStep ==
  ASSUME WithdrawTypeOK, BroadcastHoldsLock, OneBroadcastPerLock,
         [WithdrawNext]_withdrawVars
  PROVE  BroadcastHoldsLock' /\ OneBroadcastPerLock'
  <1> USE WithdrawAssumption DEF BroadcastHoldsLock, OneBroadcastPerLock, BroadcastsUnder
  <1>1. ASSUME NEW r \in Withdraws, WithdrawStep(r)
        PROVE  BroadcastHoldsLock' /\ OneBroadcastPerLock'
    <2>0. /\ \A s \in Withdraws \ {r} : wreq'[s] = wreq[s]
          /\ cleared' = cleared
          /\ ReplayLockOf(r) \in Identities \X Intents
      BY <1>1, WithdrawStepFrame DEF ReplayLockOf
    <2>1. CASE SubmitWithdraw(r)
      <3>1. /\ replayLock' = replayLock \cup {ReplayLockOf(r)}
            /\ ReplayLockOf(r) \notin replayLock
            /\ wreq'[r] \in {"broadcasting", "stopped"}
        BY <2>1 DEF SubmitWithdraw, Move, WithdrawTypeOK
      <3>2. ReplayLockOf(r) \notin cleared => BroadcastsUnder(ReplayLockOf(r)) = {}
        BY <3>1, <2>0
      <3> QED BY <3>1, <3>2, <2>0
    <2>2. CASE BroadcastSucceeds(r)
      <3>1. /\ replayLock' = replayLock \ {ReplayLockOf(r)}
            /\ wreq[r] = "broadcasting" /\ wreq'[r] = "saving"
        BY <2>2 DEF BroadcastSucceeds, Move, WithdrawTypeOK
      <3>2. ReplayLockOf(r) \notin cleared => BroadcastsUnder(ReplayLockOf(r)) = {r}
        BY <3>1, <2>0
      <3> QED BY <3>1, <3>2, <2>0
    <2>3. CASE ~SubmitWithdraw(r) /\ ~BroadcastSucceeds(r)
      <3>1. replayLock' = replayLock /\ wreq'[r] # "broadcasting"
        BY <2>3, <1>1
        DEF WithdrawStep, RefuseUsed, RefuseOverdue, VerifyCode, CodeIsValid, CodeIsWrong,
            Use, RefuseUnverified, FailLayer, RefuseInFlight, BroadcastFails, SaveRow,
            Move, WithdrawTypeOK
      <3> QED BY <3>1, <2>0
    <2> QED BY <2>1, <2>2, <2>3
  <1>2. ASSUME NEW i \in Intents, Prepare(i) \/ ConfirmOtp(i) \/ Overdue(i)
        PROVE  BroadcastHoldsLock' /\ OneBroadcastPerLock'
    BY <1>2 DEF Prepare, ConfirmOtp, Overdue
  <1>3. ASSUME NEW o \in Identities, WindowEnds(o)
        PROVE  BroadcastHoldsLock' /\ OneBroadcastPerLock'
    BY <1>3 DEF WindowEnds
  <1>4. CASE ClearLocks
    <2>1. /\ wreq' = wreq
          /\ cleared' = cleared \cup {k \in replayLock : BroadcastsUnder(k) # {}}
      BY <1>4 DEF ClearLocks
    <2>2. ASSUME NEW k \in (Identities \X Intents) \ cleared' PROVE BroadcastsUnder(k) = {}
      BY <2>1
    <2> QED BY <2>1, <2>2
  <1>5. CASE WithdrawDone \/ UNCHANGED withdrawVars
    BY <1>5 DEF WithdrawDone, withdrawVars
  <1> QED BY <1>1, <1>2, <1>3, <1>4, <1>5 DEF WithdrawNext

LEMMA WithdrawSpecInv == WithdrawSpec => []WithdrawInv
  <1>1. WithdrawInv /\ [WithdrawNext]_withdrawVars => WithdrawInv'
    BY WithdrawTypeStep, UsedIsConfirmedStep, BroadcastStep DEF WithdrawInv
  <1> QED BY WithdrawInitInv, <1>1, PTL DEF WithdrawSpec

(* Every variable of the routes keeps its type. *)
THEOREM WithdrawTypes == WithdrawSpec => []WithdrawTypeOK
  BY WithdrawSpecInv, PTL DEF WithdrawInv

(* An intent a request has used was confirmed, and is never available again. *)
THEOREM WithdrawUsesConfirmed == WithdrawSpec => []UsedIsConfirmed
  BY WithdrawSpecInv, PTL DEF WithdrawInv

(* No two requests of one intent and one spelling of the identity broadcast  *)
(* at a time, unless the timer dropped their lock.                           *)
THEOREM WithdrawBroadcastsOnce == WithdrawSpec => []OneBroadcastPerLock
  BY WithdrawSpecInv, PTL DEF WithdrawInv

(* A request that did not wait for its own code finds the intent unused. *)
THEOREM WithdrawReuse == WithdrawSpec => OnlyLateCodesReuse
  <1>1. WithdrawInv /\ [WithdrawNext]_withdrawVars =>
          [\A r \in Withdraws :
             wreq[r] = "idle" /\ wreq'[r] \in Using => UsersOf(IntentOf[r]) = {}]_withdrawVars
    <2> SUFFICES ASSUME WithdrawInv, WithdrawNext, NEW r \in Withdraws,
                        wreq[r] = "idle", wreq'[r] \in Using
                 PROVE  UsersOf(IntentOf[r]) = {}
      OBVIOUS
    <2> USE WithdrawAssumption DEF WithdrawInv, WithdrawTypeOK, Using
    <2>1. ASSUME NEW s \in Withdraws, WithdrawStep(s) PROVE Use(r)
      <3>1. s = r BY <2>1, WithdrawStepFrame
      <3> QED BY <3>1, <2>1
              DEF WithdrawStep, RefuseUsed, RefuseOverdue, VerifyCode, CodeIsValid, CodeIsWrong,
                  RefuseUnverified, FailLayer, RefuseInFlight, SubmitWithdraw, BroadcastSucceeds,
                  BroadcastFails, SaveRow, Move
    <2>2. Use(r)
      BY <2>1 DEF WithdrawNext, Prepare, ConfirmOtp, Overdue, WindowEnds, ClearLocks,
                  WithdrawDone, withdrawVars
    <2>3. intent[IntentOf[r]].status \notin {"CONSUMED", "COMPLETED"}
      BY <2>2 DEF Use, Admitted, Usable
    <2> QED BY <2>3 DEF UsedIsConfirmed
  <1> QED BY <1>1, WithdrawSpecInv, PTL DEF WithdrawSpec, OnlyLateCodesReuse

-----------------------------------------------------------------------------
(***************************************************************************)
(* The signature monitor, for any polls, payments, reference keys and      *)
(* bound on its troubles.                                                  *)
(***************************************************************************)
(* Where a poll works on a signature.                                      *)
AtSignature == {"lookup", "guards", "upsert", "patch"}

(* A poll works on an address, and on payments that mention it.            *)
PollMatches(q) ==
    /\ q.pc \in AtSignature \cup {"fetch"} => q.addr \in Addresses
    /\ q.pc \in AtSignature => q.sig \in Sigs /\ q.addr \in Mentions[q.sig]
    /\ \A s \in q.sigs : q.addr \in Mentions[s]

PollsMatch == \A p \in Polls : PollMatches(poll[p])

(* A payment is recorded, unless the database refused its user, a request  *)
(* failed or another route settles invoices.                               *)
Kept(s) == Recorded(s) \/ s \in refused \/ faults > 0 \/ Settled

(* Until another route settles an invoice, a row of the settlements table   *)
(* names a payment that mentions its address, so that no other payment     *)
(* overwrites the row of a lone one ...                                    *)
SettlementsMatch ==
    \A a \in Addresses :
        settlements[a] # NoSig => a \in Mentions[settlements[a]] \/ Settled

(* ... a poll that is about to send a receipt finds the payment recorded   *)
(* whoever recorded it ...                                                 *)
PatchesAreRecorded ==
    \A p \in Polls : poll[p].pc = "patch" /\ Lone(poll[p].sig) => Kept(poll[p].sig)

(* ... and a receipt that was sent is remembered.                          *)
ReceiptsAreNotified ==
    \A s \in Sigs : receipts[s] > 0 => s \in notified /\ receipts[s] = 1

MonitorInv ==
    /\ MonitorTypeOK
    /\ PollsMatch
    /\ SettlementsMatch
    /\ PatchesAreRecorded
    /\ ReceiptsAreNotified
    /\ ReceiptsAreRecorded
    /\ ProcessedIsRecorded

LEMMA MonitorInitInv == MonitorInit => MonitorInv
  BY MonitorAssumption
  DEF MonitorInit, MonitorInv, MonitorTypeOK, PollType, PollPcs, OffPoll, PollsMatch,
      PollMatches, AtSignature, SettlementsMatch, PatchesAreRecorded, ReceiptsAreNotified,
      ReceiptsAreRecorded, ProcessedIsRecorded, Addresses, Entries, Seed, System

(* The states a poll goes on to, between addresses ...                     *)
LEMMA NextAddressIs ==
  ASSUME NEW items \in [Addresses -> Entries], NEW todo \in SUBSET Addresses,
         NEW q \in NextAddress(items, todo)
  PROVE  q \in PollType /\ PollMatches(q) /\ q.pc \in {"off", "fetch"}
  <1> USE DEF OffPoll, PollType, PollPcs, PollMatches, AtSignature, Entries
  <1>1. CASE todo = {}
    BY <1>1 DEF NextAddress
  <1>2. CASE todo # {}
    <2>1. PICK a \in todo :
            q = [OffPoll EXCEPT !.pc = "fetch", !.items = items, !.todo = todo \ {a}, !.addr = a]
      BY <1>2 DEF NextAddress
    <2> QED BY <2>1
  <1> QED BY <1>1, <1>2

(* ... and between signatures.                                             *)
LEMMA NextSignatureIs ==
  ASSUME MonitorTypeOK, NEW p \in Polls, NEW sigs \in SUBSET Sigs, NEW seen,
         poll[p].addr \in Addresses, \A s \in sigs : poll[p].addr \in Mentions[s],
         NextSignature(p, sigs, seen)
  PROVE  \E q \in PollType : /\ poll' = [poll EXCEPT ![p] = q]
                             /\ PollMatches(q)
                             /\ q.pc \in {"off", "fetch", "lookup"}
  <1> DEFINE left == sigs \ seen
  <1>0. /\ poll[p] \in PollType /\ poll[p].todo \in SUBSET Addresses
        /\ poll[p].items \in [Addresses -> Entries]
    BY DEF MonitorTypeOK, PollType
  <1>1. CASE left = {}
    <2>1. PICK q \in NextAddress(poll[p].items, poll[p].todo) : poll' = [poll EXCEPT ![p] = q]
      BY <1>1 DEF NextSignature
    <2> QED BY <1>0, <2>1, NextAddressIs
  <1>2. CASE left # {}
    <2>1. PICK s \in left : poll' = [poll EXCEPT ![p] =
            [poll[p] EXCEPT !.pc = "lookup", !.sigs = left \ {s}, !.sig = s]]
      BY <1>2 DEF NextSignature
    <2> DEFINE q == [poll[p] EXCEPT !.pc = "lookup", !.sigs = left \ {s}, !.sig = s]
    <2>2. q \in PollType /\ q.pc = "lookup" /\ q.sig = s /\ q.sigs = left \ {s}
          /\ q.addr = poll[p].addr
      BY <1>0, <2>1 DEF PollType, PollPcs
    <2>3. PollMatches(q)
      <3> HIDE DEF q
      <3> QED BY <2>2 DEF PollMatches, AtSignature
    <2> HIDE DEF q
    <2> QED BY <2>1, <2>2, <2>3 DEF q
  <1> QED BY <1>1, <1>2

(* The loop over the signatures goes on with those that are left.          *)
LEMMA ContinueIs ==
  ASSUME MonitorTypeOK, PollsMatch, NEW p \in Polls, NEW seen,
         poll[p].pc \in AtSignature, Continue(p, seen)
  PROVE  \E q \in PollType : /\ poll' = [poll EXCEPT ![p] = q]
                             /\ PollMatches(q)
                             /\ q.pc \in {"off", "fetch", "lookup"}
  <1>1. poll[p].sigs \in SUBSET Sigs
    BY DEF MonitorTypeOK, PollType
  <1>2. poll[p].addr \in Addresses /\ \A s \in poll[p].sigs : poll[p].addr \in Mentions[s]
    BY DEF PollsMatch, PollMatches
  <1> QED BY <1>1, <1>2, NextSignatureIs DEF Continue

(* A poll that only moves on to another await of the same signature.       *)
LEMMA MovesOn ==
  ASSUME MonitorTypeOK, PollsMatch, NEW p \in Polls, NEW pc \in AtSignature,
         poll[p].pc \in AtSignature, Goto(p, pc)
  PROVE  \E q \in PollType : /\ poll' = [poll EXCEPT ![p] = q]
                             /\ PollMatches(q)
                             /\ q.pc = pc /\ q.sig = poll[p].sig /\ q.addr = poll[p].addr
  <1> DEFINE q == [poll[p] EXCEPT !.pc = pc]
  <1>1. q \in PollType /\ q.pc = pc /\ q.sig = poll[p].sig /\ q.addr = poll[p].addr
        /\ q.sigs = poll[p].sigs
    BY DEF MonitorTypeOK, PollType, PollPcs, AtSignature
  <1>2. poll' = [poll EXCEPT ![p] = q]
    BY DEF Goto
  <1> HIDE DEF q
  <1>3. PollMatches(q)
    BY <1>1 DEF PollsMatch, PollMatches
  <1> QED BY <1>1, <1>2, <1>3

(* A payment that is kept stays so if no other mentions its addresses: only *)
(* a payment that mentions an address writes its row.                      *)
LEMMA LoneStaysKept ==
  ASSUME MonitorTypeOK, SettlementsMatch, NEW s \in Sigs, Lone(s), Kept(s),
         refused \subseteq refused', faults' \in Nat, faults' >= faults, Settled => Settled',
         \/ UNCHANGED settlements
         \/ \E a \in Addresses, t \in Sigs :
              a \in Mentions[t] /\ settlements' = [settlements EXCEPT ![a] = t]
  PROVE  Kept(s)'
  <1>0. faults \in Nat
    BY DEF MonitorTypeOK
  <1>1. CASE ~Recorded(s) \/ Settled
    BY <1>0, <1>1 DEF Kept
  <1>2. CASE Recorded(s) /\ ~Settled
    <2>1. PICK b \in Addresses : settlements[b] = s
      BY <1>2 DEF Recorded
    <2>2. CASE UNCHANGED settlements
      BY <2>1, <2>2 DEF Recorded, Kept
    <2>3. CASE \E a \in Addresses, t \in Sigs :
                 a \in Mentions[t] /\ settlements' = [settlements EXCEPT ![a] = t]
      <3>1. PICK a \in Addresses, t \in Sigs :
              a \in Mentions[t] /\ settlements' = [settlements EXCEPT ![a] = t]
        BY <2>3
      <3>2. b \in Mentions[s]
        BY <1>2, <2>1, MonitorAssumption DEF SettlementsMatch
      <3>3. a = b => t = s
        BY <3>1, <3>2 DEF Lone
      <3>4. settlements'[b] = s
        BY <2>1, <3>1, <3>3 DEF MonitorTypeOK
      <3> QED BY <3>4 DEF Recorded, Kept
    <2> QED BY <2>2, <2>3
  <1> QED BY <1>1, <1>2

(* What keeps the invariant when one poll moves: it is where it should be, *)
(* it does not go on from a payment it accepted unless the payment is kept, *)
(* and what it marks as processed is kept, accepted or has no invoice.     *)
LEMMA PollMoves ==
  ASSUME MonitorInv, MonitorTypeOK', NEW p \in Polls, NEW q \in PollType,
         poll' = [poll EXCEPT ![p] = q], PollMatches(q),
         notified \subseteq notified', refused \subseteq refused', faults' >= faults,
         UNCHANGED bills,
         q.pc = "patch" /\ Lone(q.sig) => Kept(q.sig)',
         \A s \in Sigs : poll[p].pc = "upsert" /\ poll[p].sig = s /\ Lone(s) => Kept(s)',
         \A s \in processed' \ processed : \A a \in Refs : Lone(s) /\ Mentions[s] = {a} =>
            Kept(s)' \/ bills[a] = "unstored" \/ (q.pc = "upsert" /\ q.sig = s),
         \/ UNCHANGED settlements
         \/ \E a \in Addresses, t \in Sigs :
              a \in Mentions[t] /\ settlements' = [settlements EXCEPT ![a] = t],
         \/ UNCHANGED receipts
         \/ /\ poll[p].pc = "patch" /\ poll[p].sig \notin notified
            /\ poll[p].sig \in notified'
            /\ receipts' = [receipts EXCEPT ![poll[p].sig] = @ + 1]
  PROVE  MonitorInv'
  <1> USE DEF MonitorInv
  <1>0. /\ faults \in Nat /\ faults' \in Nat
        /\ \A s \in Sigs : receipts[s] \in Nat
        /\ poll \in [Polls -> PollType]
        /\ processed' \subseteq Sigs
        /\ Settled' <=> Settled
    BY DEF MonitorTypeOK, Settled
  <1>1. \A r \in Polls \ {p} : poll'[r] = poll[r]
    BY <1>0
  <1>2. poll'[p] = q
    BY <1>0
  <1>3. PollsMatch'
    BY <1>1, <1>2 DEF PollsMatch, PollMatches
  <1>4. SettlementsMatch'
    BY <1>0, MonitorAssumption DEF SettlementsMatch, MonitorTypeOK
  <1>5. \A s \in Sigs : Lone(s) /\ Kept(s) => Kept(s)'
    BY <1>0, LoneStaysKept
  <1>6. \A r \in Polls : poll[r].pc = "patch" => poll[r].sig \in Sigs
    BY DEF PollsMatch, PollMatches, AtSignature
  <1>7. PatchesAreRecorded'
    <2> SUFFICES ASSUME NEW r \in Polls, poll'[r].pc = "patch", Lone(poll'[r].sig)
                 PROVE  Kept(poll[r].sig)'
      BY DEF PatchesAreRecorded, Lone
    <2>1. CASE r = p
      BY <1>2, <2>1 DEF Kept, Recorded
    <2>2. CASE r # p
      <3>1. poll'[r] = poll[r] /\ poll[r].sig \in Sigs
        BY <1>1, <1>6, <2>2
      <3>2. Kept(poll[r].sig)
        BY <3>1 DEF PatchesAreRecorded
      <3>3. Kept(poll[r].sig) => Kept(poll[r].sig)'
        BY <1>5, <3>1 DEF Kept, Recorded
      <3> QED BY <3>2, <3>3
    <2> QED BY <2>1, <2>2
  <1>8. ReceiptsAreNotified' /\ ReceiptsAreRecorded'
    <2>1. CASE UNCHANGED receipts
      BY <1>0, <1>5, <2>1 DEF ReceiptsAreNotified, ReceiptsAreRecorded, Lone, Kept
    <2>2. CASE /\ poll[p].pc = "patch" /\ poll[p].sig \notin notified
               /\ poll[p].sig \in notified'
               /\ receipts' = [receipts EXCEPT ![poll[p].sig] = @ + 1]
      <3> DEFINE s == poll[p].sig
      <3>1. s \in Sigs /\ receipts[s] = 0
        BY <1>0, <1>6, <2>2 DEF ReceiptsAreNotified
      <3>2. receipts'[s] = 1 /\ \A t \in Sigs \ {s} : receipts'[t] = receipts[t]
        BY <2>2, <3>1 DEF MonitorTypeOK
      <3>3. Lone(s) => Kept(s)
        BY <2>2 DEF PatchesAreRecorded
      <3>4. s \in notified'
        BY <2>2
      <3> HIDE DEF s
      <3>5. ReceiptsAreNotified'
        BY <3>2, <3>4 DEF ReceiptsAreNotified
      <3>6. ASSUME NEW t \in Sigs, Lone(t), receipts'[t] > 0
            PROVE  Kept(t)'
        <4>1. Kept(t)
          BY <3>1, <3>2, <3>3, <3>6 DEF ReceiptsAreRecorded, Kept
        <4> QED BY <1>5, <3>6, <4>1
      <3> QED BY <3>5, <3>6 DEF ReceiptsAreRecorded, Lone, Kept
    <2> QED BY <2>1, <2>2
  <1>9. ProcessedIsRecorded'
    <2> SUFFICES ASSUME NEW s \in processed', NEW a \in Refs, Lone(s), Mentions[s] = {a}
                 PROVE  \/ Kept(s)' \/ bills[a] = "unstored"
                        \/ \E r \in Polls : poll'[r].pc = "upsert" /\ poll'[r].sig = s
      BY DEF ProcessedIsRecorded, Lone, Kept
    <2>0. s \in Sigs
      BY <1>0
    <2>1. CASE s \notin processed
      BY <1>2, <2>1
    <2>2. CASE s \in processed /\ (Kept(s) \/ bills[a] = "unstored")
      BY <1>5, <2>0, <2>2
    <2>3. CASE \E r \in Polls : poll[r].pc = "upsert" /\ poll[r].sig = s
      <3>1. PICK r \in Polls : poll[r].pc = "upsert" /\ poll[r].sig = s
        BY <2>3
      <3>2. CASE r = p
        BY <2>0, <3>1, <3>2
      <3>3. CASE r # p
        BY <1>1, <3>1, <3>3
      <3> QED BY <3>2, <3>3
    <2> QED BY <2>1, <2>2, <2>3 DEF ProcessedIsRecorded, Kept
  <1> QED BY <1>3, <1>4, <1>7, <1>8, <1>9

(* Every step of a poll keeps the types and the invariant.                 *)
LEMMA PollStepKeeps ==
  ASSUME MonitorInv, NEW p \in Polls, PollStep(p)
  PROVE  MonitorInv'
  <1> USE MonitorAssumption DEF MonitorInv
  <1>0. /\ poll \in [Polls -> PollType] /\ poll[p] \in PollType
        /\ stops \in Nat /\ faults \in Nat /\ stops + faults <= MaxTroubles
        /\ \A q \in PollType : [poll EXCEPT ![p] = q] \in [Polls -> PollType]
    BY DEF MonitorTypeOK
  <1>1. Fault => faults' \in Nat /\ faults' > 0 /\ faults' >= faults
                 /\ stops + faults' <= MaxTroubles
    BY <1>0 DEF Fault
  <1>2. poll[p].pc \in AtSignature =>
          /\ poll[p].sig \in Sigs /\ poll[p].addr \in Addresses
          /\ poll[p].addr \in Mentions[poll[p].sig]
    BY DEF PollsMatch, PollMatches
  <1>3. CASE StartPoll(p)
    <2>1. [OffPoll EXCEPT !.pc = "invoices", !.items = monitored,
                          !.todo = {a \in Addresses : monitored[a] # NoAddr}] \in PollType
      BY DEF OffPoll, PollType, PollPcs, MonitorTypeOK, Entries
    <2>2. PICK q \in PollType : /\ poll' = [poll EXCEPT ![p] = q] /\ PollMatches(q)
                                /\ q.pc = "invoices"
      BY <1>3, <2>1 DEF StartPoll, OffPoll, PollMatches, AtSignature
    <2>3. MonitorTypeOK'
      BY <1>0, <1>3, <2>2 DEF StartPoll, MonitorTypeOK
    <2>4. /\ poll[p].pc = "off" /\ faults' >= faults
          /\ UNCHANGED <<receipts, settlements, notified, refused, processed, bills>>
      BY <1>0, <1>3 DEF StartPoll
    <2> QED BY <2>2, <2>3, <2>4, PollMoves
  <1>4. CASE RegisterInvoices(p)
    <2>1. poll[p].todo \in SUBSET Addresses /\ poll[p].items \in [Addresses -> Entries]
      BY <1>0 DEF PollType
    <2>2. PICK q \in NextAddress(poll[p].items, poll[p].todo) : poll' = [poll EXCEPT ![p] = q]
      BY <1>4 DEF RegisterInvoices
    <2>3. q \in PollType /\ PollMatches(q) /\ q.pc \in {"off", "fetch"}
      BY <2>1, <2>2, NextAddressIs
    <2>4. /\ poll[p].pc = "invoices" /\ faults' >= faults
          /\ UNCHANGED <<receipts, settlements, notified, refused, processed, bills>>
      BY <1>0, <1>4 DEF RegisterInvoices
    <2>5. MonitorTypeOK'
      BY <1>0, <1>4, <2>2, <2>3 DEF RegisterInvoices, MonitorTypeOK
    <2> QED BY <2>2, <2>3, <2>4, <2>5, PollMoves
  <1>5. CASE ListSignatures(p)
    <2>1. poll[p].addr \in Addresses
      BY <1>5 DEF ListSignatures, PollsMatch, PollMatches
    <2>2. PICK sigs \in SUBSET Sigs : /\ \A s \in sigs : poll[p].addr \in Mentions[s]
                                      /\ NextSignature(p, sigs, processed)
      <3>1. {s \in landed : poll[p].addr \in Mentions[s]} \in SUBSET Sigs
        BY DEF MonitorTypeOK
      <3> QED BY <1>5, <3>1 DEF ListSignatures
    <2>3. PICK q \in PollType : /\ poll' = [poll EXCEPT ![p] = q] /\ PollMatches(q)
                                /\ q.pc \in {"off", "fetch", "lookup"}
      BY <2>1, <2>2, NextSignatureIs
    <2>4. faults' \in Nat /\ faults' >= faults /\ stops + faults' <= MaxTroubles
      BY <1>0, <1>1, <1>5 DEF ListSignatures
    <2>5. /\ poll[p].pc = "fetch"
          /\ UNCHANGED <<receipts, settlements, notified, refused, processed, bills>>
      BY <1>5 DEF ListSignatures
    <2>6. MonitorTypeOK'
      BY <1>0, <1>5, <2>3, <2>4 DEF ListSignatures, MonitorTypeOK
    <2> QED BY <2>3, <2>4, <2>5, <2>6, PollMoves
  <1>6. CASE LookupSettlement(p)
    <2>1. poll[p].pc \in AtSignature /\ poll[p].pc = "lookup"
      BY <1>6 DEF LookupSettlement, AtSignature
    <2>2. PICK q \in PollType : /\ poll' = [poll EXCEPT ![p] = q] /\ PollMatches(q)
                                /\ q.pc \in {"off", "fetch", "lookup", "guards"}
      <3>1. Continue(p, processed') \/ Goto(p, "guards")
        BY <1>6 DEF LookupSettlement
      <3>2. "guards" \in AtSignature
        BY DEF AtSignature
      <3>3. CASE Goto(p, "guards")
        BY <2>1, <3>2, <3>3, MovesOn
      <3>4. CASE Continue(p, processed')
        BY <2>1, <3>4, ContinueIs
      <3> QED BY <3>1, <3>3, <3>4
    <2>3. faults' \in Nat /\ faults' >= faults /\ stops + faults' <= MaxTroubles
      BY <1>0, <1>1, <1>6 DEF LookupSettlement
    <2>4. processed' \subseteq Sigs /\ notified' \subseteq Sigs /\ notified \subseteq notified'
      BY <1>2, <1>6, <2>1 DEF LookupSettlement, MonitorTypeOK
    <2>5. MonitorTypeOK'
      BY <1>0, <1>6, <2>2, <2>3, <2>4 DEF LookupSettlement, MonitorTypeOK
    <2>6. UNCHANGED <<receipts, settlements, refused, bills>>
      BY <1>6 DEF LookupSettlement
    <2>7. \A s \in processed' \ processed : Kept(s)'
      BY <1>6, <2>6 DEF LookupSettlement, Kept, Recorded
    <2> QED BY <2>1, <2>2, <2>3, <2>4, <2>5, <2>6, <2>7, PollMoves
  <1>7. CASE ParseFails(p)
    <2>1. poll[p].pc \in AtSignature /\ poll[p].pc = "guards"
      BY <1>7 DEF ParseFails, AtSignature
    <2>2. PICK q \in PollType : /\ poll' = [poll EXCEPT ![p] = q] /\ PollMatches(q)
                                /\ q.pc \in {"off", "fetch", "lookup"}
      BY <1>7, <2>1, ContinueIs DEF ParseFails
    <2>3. MonitorTypeOK'
      BY <1>0, <1>1, <1>7, <2>2 DEF ParseFails, MonitorTypeOK
    <2>4. faults' >= faults /\ UNCHANGED <<receipts, settlements, notified, refused, processed, bills>>
      BY <1>1, <1>7 DEF ParseFails
    <2> QED BY <2>1, <2>2, <2>3, <2>4, PollMoves
  <1>8. CASE SkipSignature(p)
    <2>1. poll[p].pc \in AtSignature /\ poll[p].pc = "guards"
      BY <1>8 DEF SkipSignature, AtSignature
    <2>2. PICK q \in PollType : /\ poll' = [poll EXCEPT ![p] = q] /\ PollMatches(q)
                                /\ q.pc \in {"off", "fetch", "lookup"}
      BY <1>8, <2>1, ContinueIs DEF SkipSignature
    <2>3. faults' \in Nat /\ faults' >= faults /\ stops + faults' <= MaxTroubles
      BY <1>0, <1>1, <1>8 DEF SkipSignature
    <2>4. processed' \subseteq Sigs
      BY <1>2, <1>8, <2>1 DEF SkipSignature, MonitorTypeOK
    <2>5. MonitorTypeOK'
      BY <1>0, <1>8, <2>2, <2>3, <2>4 DEF SkipSignature, MonitorTypeOK
    <2>6. UNCHANGED <<receipts, settlements, notified, refused, bills>>
      BY <1>8 DEF SkipSignature
    <2>7. ASSUME NEW s \in processed' \ processed, NEW a \in Refs, Mentions[s] = {a}
          PROVE  Kept(s)' \/ bills[a] = "unstored"
      <3>1. s = poll[p].sig
        BY <1>8, <2>7 DEF SkipSignature
      <3>2. poll[p].addr = a /\ a # Merchant
        BY <1>2, <2>1, <2>7, <3>1
      <3>3. ~Passes(s, a)
        BY <1>8, <3>1, <3>2 DEF SkipSignature
      <3>4. bills[a] = "unstored" \/ Settled
        BY <3>2, <3>3 DEF Passes, Settled
      <3> QED BY <2>6, <3>4 DEF Settled, Kept
    <2> QED BY <2>1, <2>2, <2>3, <2>5, <2>6, <2>7, PollMoves
  <1>9. CASE Accept(p)
    <2>1. poll[p].pc \in AtSignature /\ poll[p].pc = "guards" /\ "upsert" \in AtSignature
      BY <1>9 DEF Accept, AtSignature
    <2>2. PICK q \in PollType : /\ poll' = [poll EXCEPT ![p] = q] /\ PollMatches(q)
                                /\ q.pc = "upsert" /\ q.sig = poll[p].sig
      BY <1>9, <2>1, MovesOn DEF Accept
    <2>3. processed' \subseteq Sigs
      BY <1>2, <1>9, <2>1 DEF Accept, MonitorTypeOK
    <2>4. faults' \in Nat /\ faults' >= faults /\ stops + faults' <= MaxTroubles
      BY <1>0, <1>1, <1>9 DEF Accept
    <2>5. MonitorTypeOK'
      BY <1>0, <1>9, <2>2, <2>3, <2>4 DEF Accept, MonitorTypeOK
    <2>6. /\ UNCHANGED <<receipts, settlements, notified, refused, bills>>
          /\ \A s \in processed' \ processed : s = q.sig
      BY <1>9, <2>2 DEF Accept
    <2> QED BY <2>1, <2>2, <2>4, <2>5, <2>6, PollMoves
  <1>10. CASE UpsertSettlement(p)
    <2>1. poll[p].pc \in AtSignature /\ "patch" \in AtSignature
      BY <1>10 DEF UpsertSettlement, AtSignature
    <2>2. PICK a \in Addresses, s \in Sigs :
            a = poll[p].addr /\ s = poll[p].sig /\ a \in Mentions[s]
      BY <1>2, <2>1
    <2>3. PICK q \in PollType : /\ poll' = [poll EXCEPT ![p] = q] /\ PollMatches(q)
                                /\ q.pc = "patch" => q.sig = s
      <3>1. CASE Goto(p, "patch")
        BY <2>1, <2>2, <3>1, MovesOn
      <3>2. CASE Continue(p, processed)
        BY <2>1, <3>2, ContinueIs
      <3> QED BY <1>10, <3>1, <3>2 DEF UpsertSettlement
    <2>4. faults' \in Nat /\ faults' >= faults /\ stops + faults' <= MaxTroubles
      BY <1>0, <1>1, <1>10 DEF UpsertSettlement
    <2>5. UNCHANGED settlements \/ settlements' = [settlements EXCEPT ![a] = s]
      BY <1>10, <2>2 DEF UpsertSettlement
    <2>6. Kept(s)'
      <3>1. CASE settlements' = [settlements EXCEPT ![a] = s]
        <4>1. settlements'[a] = s
          BY <2>2, <3>1 DEF MonitorTypeOK
        <4> QED BY <2>2, <4>1 DEF Recorded, Kept
      <3>2. CASE UNCHANGED settlements /\ \E b \in Addresses \ {a} : settlements[b] = s
        BY <3>2 DEF Recorded, Kept
      <3>3. CASE Fault
        BY <1>1, <3>3 DEF Kept
      <3>4. CASE s \in refused'
        BY <3>4 DEF Kept
      <3> QED BY <1>10, <2>2, <3>1, <3>2, <3>3, <3>4 DEF UpsertSettlement
    <2>7. MonitorTypeOK'
      <3>1. settlements' \in [Addresses -> Sigs \cup {NoSig}] /\ refused' \subseteq Sigs
        BY <1>10, <2>2, <2>5 DEF MonitorTypeOK, UpsertSettlement
      <3> QED BY <1>0, <1>10, <2>3, <2>4, <3>1 DEF UpsertSettlement, MonitorTypeOK
    <2>8. UNCHANGED <<receipts, notified, processed, bills>> /\ refused \subseteq refused'
      BY <1>10 DEF UpsertSettlement
    <2>9. /\ q.pc = "patch" /\ Lone(q.sig) => Kept(q.sig)'
          /\ \A u \in Sigs : poll[p].sig = u => Kept(u)'
      BY <2>2, <2>3, <2>6 DEF Kept, Recorded
    <2>10. \/ UNCHANGED settlements
           \/ \E b \in Addresses, u \in Sigs :
                b \in Mentions[u] /\ settlements' = [settlements EXCEPT ![b] = u]
      BY <2>2, <2>5
    <2> QED BY <2>3, <2>4, <2>7, <2>8, <2>9, <2>10, PollMoves
  <1>11. CASE Notify(p)
    <2>1. poll[p].pc \in AtSignature /\ poll[p].pc = "patch"
      BY <1>11 DEF Notify, AtSignature
    <2>2. PICK q \in PollType : /\ poll' = [poll EXCEPT ![p] = q] /\ PollMatches(q)
                                /\ q.pc \in {"off", "fetch", "lookup"}
      BY <1>11, <2>1, ContinueIs DEF Notify
    <2>3. faults' \in Nat /\ faults' >= faults /\ stops + faults' <= MaxTroubles
      BY <1>0, <1>1, <1>11 DEF Notify
    <2>4. notified' \subseteq Sigs /\ receipts' \in [Sigs -> Nat] /\ notified \subseteq notified'
      BY <1>2, <1>11, <2>1 DEF Notify, MonitorTypeOK
    <2>5. MonitorTypeOK'
      BY <1>0, <1>11, <2>2, <2>3, <2>4 DEF Notify, MonitorTypeOK
    <2>6. \/ UNCHANGED receipts
          \/ /\ poll[p].pc = "patch" /\ poll[p].sig \notin notified
             /\ poll[p].sig \in notified'
             /\ receipts' = [receipts EXCEPT ![poll[p].sig] = @ + 1]
      BY <1>11, <2>1 DEF Notify
    <2>7. UNCHANGED <<settlements, refused, processed, bills>>
      BY <1>11 DEF Notify
    <2> QED BY <2>1, <2>2, <2>3, <2>4, <2>5, <2>6, <2>7, PollMoves
  <1> QED BY <1>3, <1>4, <1>5, <1>6, <1>7, <1>8, <1>9, <1>10, <1>11 DEF PollStep

(* So do the customers, the checkout, the other routes and a restart.      *)
LEMMA MonitorNextKeeps ==
  ASSUME MonitorInv, [MonitorNext]_monitorVars
  PROVE  MonitorInv'
  <1> USE MonitorAssumption
      DEF MonitorInv, PollsMatch, PollMatches, SettlementsMatch, PatchesAreRecorded,
          ReceiptsAreNotified, ReceiptsAreRecorded, ProcessedIsRecorded, Recorded, Lone, Kept
  <1>1. ASSUME NEW a \in Refs, Bill(a) PROVE MonitorInv'
    <2>1. MonitorTypeOK'
      BY <1>1 DEF Bill, MonitorTypeOK, Entries, System, Addresses
    <2>2. /\ Settled => Settled'
          /\ \A b \in Refs : bills[b] = "unstored" => bills'[b] = "unstored"
      BY <1>1 DEF Bill, Settled, MonitorTypeOK
    <2> QED BY <1>1, <2>1, <2>2 DEF Bill
  <1>2. ASSUME NEW a \in Refs, NEW s \in Sigs, SettleBill(a, s) PROVE MonitorInv'
    <2>1. MonitorTypeOK'
      BY <1>2 DEF SettleBill, MonitorTypeOK, Addresses
    <2>2. Settled'
      BY <1>2 DEF SettleBill, Settled, MonitorTypeOK
    <2>3. ReceiptsAreNotified'
      BY <1>2 DEF SettleBill, MonitorTypeOK
    <2>4. UNCHANGED poll
      BY <1>2 DEF SettleBill
    <2> QED BY <2>1, <2>2, <2>3, <2>4
  <1>3. ASSUME NEW s \in Sigs, Pay(s) PROVE MonitorInv'
    BY <1>3 DEF Pay, MonitorTypeOK, Settled
  <1>4. CASE Stop
    <2>1. OffPoll \in PollType /\ OffPoll.pc = "off" /\ OffPoll.sigs = {}
      BY DEF OffPoll, PollType, PollPcs, Entries
    <2>2. \A p \in Polls : poll'[p] = OffPoll
      BY <1>4 DEF Stop
    <2>3. MonitorTypeOK'
      BY <1>4, <2>1 DEF Stop, MonitorTypeOK, Addresses, Seed, Entries, System
    <2> QED BY <1>4, <2>1, <2>2, <2>3 DEF Stop, AtSignature, MonitorTypeOK, Settled
  <1>5. CASE UNCHANGED monitorVars
    BY <1>5 DEF monitorVars, MonitorTypeOK, Settled
  <1> QED BY <1>1, <1>2, <1>3, <1>4, <1>5, PollStepKeeps DEF MonitorNext

LEMMA MonitorSpecInv == MonitorSpec => []MonitorInv
  BY MonitorInitInv, MonitorNextKeeps, PTL DEF MonitorSpec

(* Every variable of the monitor keeps its type.                           *)
THEOREM MonitorTypes == MonitorSpec => []MonitorTypeOK
  BY MonitorSpecInv, PTL DEF MonitorInv

(* However many polls overlap, whatever fails and whichever of its         *)
(* addresses finds a payment, its customer gets one receipt while the      *)
(* process runs (sentTelegramReceiptSignatures).                           *)
THEOREM MonitorSendsOneReceipt == MonitorSpec => []OneReceipt
  <1>1. MonitorInv => OneReceipt
    BY DEF MonitorInv, MonitorTypeOK, ReceiptsAreNotified, OneReceipt
  <1> QED BY <1>1, MonitorSpecInv, PTL

(* A receipt is sent for a payment that is recorded, whichever of the polls *)
(* that work on it has stored the row, unless the database has refused the  *)
(* row for its user, a request has failed or another route settles invoices *)
(* (reconcileDiscoveredSettlement).                                         *)
THEOREM MonitorRecordsReceipts == MonitorSpec => []ReceiptsAreRecorded
  BY MonitorSpecInv, PTL DEF MonitorInv

(* A payment marked processed before its row is stored has the row, or is   *)
(* about to, with those exceptions, although the process may stop between.  *)
THEOREM MonitorRecordsProcessed == MonitorSpec => []ProcessedIsRecorded
  BY MonitorSpecInv, PTL DEF MonitorInv
================================================================================
