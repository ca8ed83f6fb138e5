------------------------------ MODULE PoolProofs ------------------------------
(***************************************************************************)
(* Theorems about SolanaRpcPool, for any callers, keys, providers and      *)
(* number of retries.                                                      *)
(***************************************************************************)
EXTENDS SolanaRpcPool, TLAPS

Fetching == {"attempt", "backoff", "sleep", "request", "hung", "settled"}

\* A provider whose cooldown lies ahead is in its cooldown.
CoolingInv == \A p \in cooling : provider[p].status = "cooldown"

\* What holds of a call, whatever the others do.
CallInv ==
    \A c \in Callers :
        /\ rpc[c].pc \in Fetching =>
              inFlight[KeyOf[c]] = c /\ rpc[c].fetch = begun[KeyOf[c]] /\ rpc[c].fetch # 0
        /\ rpc[c].pc \in {"backoff", "request"} => rpc[c].at \in Providers
        /\ rpc[c].fetch # 0 =>
              /\ rpc[c].seen < rpc[c].fetch /\ rpc[c].fresh < rpc[c].fetch
              /\ rpc[c].answer \in {0, rpc[c].fetch}
        /\ rpc[c].pc = "idle" => rpc[c].fetch = 0 /\ rpc[c].answer = 0
        /\ rpc[c].answer <= begun[KeyOf[c]]
        /\ cached[KeyOf[c]] = 0 \/ rpc[c].answer <= cached[KeyOf[c]]
        /\ rpc[c].pc = "done" /\ rpc[c].answer # 0 =>
              /\ rpc[c].answer >= rpc[c].seen
              /\ c \in SkipCache => rpc[c].answer > rpc[c].fresh

\* A call that waits for another's fetch joined it while it was in flight.
JoinInv ==
    \A c \in Callers : rpc[c].pc = "joined" =>
        /\ rpc[c].leader \in Callers
        /\ KeyOf[rpc[c].leader] = KeyOf[c]
        /\ rpc[rpc[c].leader].pc \in Fetching \cup {"done"}
        /\ rpc[rpc[c].leader].fetch # 0
        /\ rpc[c].seen <= rpc[rpc[c].leader].fetch
        /\ rpc[c].fresh < rpc[rpc[c].leader].fetch
        /\ rpc[c].fetch = 0

\* The fetch in flight for a key is the last one begun.
KeyInv ==
    \A k \in Keys :
        /\ inFlight[k] # NoCaller =>
              /\ KeyOf[inFlight[k]] = k
              /\ rpc[inFlight[k]].pc \in Fetching
              /\ begun[k] = returned[k] + 1
        /\ inFlight[k] = NoCaller => begun[k] = returned[k]
        /\ cached[k] <= begun[k]
        /\ told[k] <= begun[k]
        /\ cached[k] = 0 \/ told[k] <= cached[k]

PoolInv == PoolTypeOK /\ CoolingInv /\ CallInv /\ JoinInv /\ KeyInv

LEMMA PoolInitInv == PoolInit => PoolInv
<1> SUFFICES ASSUME PoolInit PROVE PoolInv
    OBVIOUS
<1>1. PoolTypeOK
    BY PoolAssumption DEF PoolInit, PoolTypeOK, IdleRpc, RpcType, RpcPcs, MetricsType
<1>2. CoolingInv
    BY DEF PoolInit, CoolingInv
<1>3. CallInv /\ JoinInv /\ KeyInv
    BY PoolAssumption DEF PoolInit, CallInv, JoinInv, KeyInv, IdleRpc, Fetching
<1> QED BY <1>1, <1>2, <1>3 DEF PoolInv

-----------------------------------------------------------------------------
(***************************************************************************)
(* The metrics of a provider                                               *)
(***************************************************************************)
\* Success and failure keep metrics well-typed, and neither ends a cooldown.
LEMMA MetricsChange ==
    ASSUME NEW m \in MetricsType
    PROVE  /\ Succeeded(m) \in MetricsType
           /\ m.status = "cooldown" => Succeeded(m).status = "cooldown"
           /\ \A penalty \in Penalties :
                 Failed(m, penalty) \in MetricsType /\ Failed(m, penalty).status = "cooldown"
<1> DEFINE score == IF m.score + 5 > 100 THEN 100 ELSE m.score + 5
<1>1. /\ m.score \in 0..100 /\ m.failures \in Nat
      /\ m.status \in {"healthy", "degraded", "cooldown"}
    BY DEF MetricsType
<1>2. score \in 0..100
    BY <1>1
<1> DEFINE status == IF m.status = "degraded" /\ score >= 80 THEN "healthy" ELSE m.status
<1>3. Succeeded(m) = [status |-> status, score |-> score, failures |-> 0]
    <2>1. Succeeded(m) = [m EXCEPT !.failures = 0, !.score = score, !.status = status]
        BY DEF Succeeded
    <2> HIDE DEF score, status
    <2> QED BY <2>1 DEF MetricsType
<1>4. ASSUME NEW penalty \in Penalties
      PROVE  Failed(m, penalty) \in MetricsType /\ Failed(m, penalty).status = "cooldown"
    <2>1. penalty \in {50, 30, 20}
        BY DEF Penalties
    <2> DEFINE low == IF m.score > penalty THEN m.score - penalty ELSE 0
    <2>2. low \in 0..100
        BY <1>1, <2>1
    <2>3. Failed(m, penalty) = [m EXCEPT !.failures = @ + 1, !.score = low, !.status = "cooldown"]
        BY DEF Failed
    <2> HIDE DEF low
    <2>4. Failed(m, penalty) =
             [status |-> "cooldown", score |-> low, failures |-> m.failures + 1]
        BY <2>3 DEF MetricsType
    <2>5. m.failures + 1 \in Nat
        BY <1>1
    <2> QED BY <2>2, <2>4, <2>5 DEF MetricsType
<1>5. status \in {"healthy", "degraded", "cooldown"}
      /\ (m.status = "cooldown" => status = "cooldown")
    BY <1>1
<1> HIDE DEF status, score
<1> QED BY <1>1, <1>2, <1>3, <1>4, <1>5 DEF MetricsType

\* Every step keeps the metrics well-typed, and a provider leaves its cooldown
\* only when that has passed.
LEMMA ProviderStep ==
    ASSUME PoolTypeOK, CoolingInv, CallInv, [PoolNext]_poolVars
    PROVE  provider' \in [Providers -> MetricsType] /\ CoolingInv'
<1>1. CASE UNCHANGED <<provider, cooling>>
    BY <1>1 DEF PoolTypeOK, CoolingInv
<1>2. ASSUME NEW c \in Callers, DegradeRecovered(c), UNCHANGED cooling
      PROVE  provider' \in [Providers -> MetricsType] /\ CoolingInv'
    <2>1. \A p \in Providers :
             provider'[p] \in {provider[p], [provider[p] EXCEPT !.status = "degraded"]}
        BY <1>2 DEF DegradeRecovered
    <2>2. \A p \in Providers : [provider[p] EXCEPT !.status = "degraded"] \in MetricsType
        BY DEF PoolTypeOK, MetricsType
    <2>3. \A p \in cooling : p \in Providers /\ provider'[p] = provider[p]
        BY <1>2 DEF DegradeRecovered, Recovered, PoolTypeOK
    <2>4. provider' \in [Providers -> MetricsType]
        BY <1>2, <2>1, <2>2 DEF DegradeRecovered, PoolTypeOK
    <2> QED BY <1>2, <2>3, <2>4 DEF CoolingInv
<1>4. ASSUME NEW c \in Callers, Answer(c) \/ AnswerNull(c) \/ Fail(c)
      PROVE  provider' \in [Providers -> MetricsType] /\ CoolingInv'
    <2>1. rpc[c].at \in Providers
        BY <1>4 DEF Answer, AnswerNull, Fail, CallInv
    <2> DEFINE p == rpc[c].at
    <2>2. CASE Answer(c) \/ AnswerNull(c)
        <3>1. provider' = [provider EXCEPT ![p] = Succeeded(provider[p])] /\ UNCHANGED cooling
            BY <2>1, <2>2 DEF Answer, AnswerNull, PoolTypeOK
        <3>2. /\ Succeeded(provider[p]) \in MetricsType
              /\ provider[p].status = "cooldown" => Succeeded(provider[p]).status = "cooldown"
            BY <2>1, MetricsChange DEF PoolTypeOK
        <3> QED BY <2>1, <3>1, <3>2 DEF PoolTypeOK, CoolingInv
    <2>3. CASE Fail(c)
        <3>1. PICK penalty \in Penalties :
                 provider' = [provider EXCEPT ![rpc[c].at] = Failed(@, penalty)]
            BY <2>3 DEF Fail
        <3>2. provider' = [provider EXCEPT ![p] = Failed(provider[p], penalty)]
              /\ cooling' = cooling \cup {p}
            BY <2>1, <2>3, <3>1 DEF Fail, PoolTypeOK
        <3>3. /\ Failed(provider[p], penalty) \in MetricsType
              /\ Failed(provider[p], penalty).status = "cooldown"
            BY <2>1, MetricsChange DEF PoolTypeOK
        <3> QED BY <2>1, <3>2, <3>3 DEF PoolTypeOK, CoolingInv
    <2> QED BY <1>4, <2>2, <2>3
<1>5. ASSUME NEW c \in Callers, RpcStep(c), ~ (Answer(c) \/ AnswerNull(c) \/ Fail(c))
      PROVE  UNCHANGED cooling /\ (UNCHANGED provider \/ DegradeRecovered(c))
    BY <1>5 DEF RpcStep, CacheHit, Join, Lead, Joined, Leave, Try, TryWithoutToken, FallAsleep,
       Wake, Backoff, Hang, GiveUp
<1>6. ASSUME NEW p \in Providers, CooldownEnds(p)
      PROVE  provider' \in [Providers -> MetricsType] /\ CoolingInv'
    BY <1>6 DEF CooldownEnds, PoolTypeOK, CoolingInv
<1>7. CASE \E k \in Keys : CacheExpires(k)
    BY <1>1, <1>7 DEF CacheExpires
<1>8. CASE PoolDone \/ UNCHANGED poolVars
    BY <1>1, <1>8 DEF PoolDone, poolVars
<1> QED BY <1>1, <1>2, <1>4, <1>5, <1>6, <1>7, <1>8 DEF PoolNext

-----------------------------------------------------------------------------
(***************************************************************************)
(* Types                                                                   *)
(***************************************************************************)
LEMMA PoolTypeStep ==
    ASSUME PoolTypeOK, CoolingInv, CallInv, JoinInv, [PoolNext]_poolVars
    PROVE  PoolTypeOK'
<1>0. provider' \in [Providers -> MetricsType]
    BY ProviderStep
<1>1. ASSUME NEW c \in Callers, RpcStep(c) PROVE PoolTypeOK'
    <2>0. /\ rpc[c] \in RpcType /\ KeyOf[c] \in Keys
          /\ rpc[c].fetch \in Nat /\ rpc[c].answer \in Nat /\ rpc[c].attempt \in Nat
          /\ told[KeyOf[c]] \in Nat /\ returned[KeyOf[c]] \in Nat /\ begun[KeyOf[c]] \in Nat
          /\ cached[KeyOf[c]] \in Nat /\ inFlight[KeyOf[c]] \in Callers \cup {NoCaller}
          /\ rpc[c].attempt + 1 \in Nat
        BY PoolAssumption DEF PoolTypeOK, RpcType
    <2>t. ASSUME NEW n \in Nat, Tell(KeyOf[c], n) PROVE told' \in [Keys -> Nat]
        BY <2>0, <2>t DEF Tell, PoolTypeOK
    <2>n. NextAttempt(c) \in RpcType
        BY <2>0 DEF NextAttempt, RpcType, RpcPcs
    <2>1. CASE CacheHit(c)
        <3>1. rpc' \in [Callers -> RpcType]
            BY <2>0, <2>1 DEF CacheHit, Arrive, PoolTypeOK, RpcType, RpcPcs
        <3> QED BY <1>0, <2>0, <2>t, <2>1, <3>1 DEF CacheHit, PoolTypeOK
    <2>2. CASE Join(c)
        <3>1. rpc' \in [Callers -> RpcType]
            BY <2>0, <2>2 DEF Join, Arrive, PoolTypeOK, RpcType, RpcPcs
        <3> QED BY <1>0, <2>2, <3>1 DEF Join, PoolTypeOK
    <2>3. CASE Lead(c)
        <3>0. begun[KeyOf[c]] + 1 \in Nat
            BY <2>0
        <3>1. rpc' \in [Callers -> RpcType]
            BY <2>0, <3>0, <2>3 DEF Lead, Arrive, PoolTypeOK, RpcType, RpcPcs
        <3> QED BY <1>0, <2>0, <2>3, <3>0, <3>1 DEF Lead, PoolTypeOK
    <2>4. CASE Joined(c)
        <3>0. rpc[rpc[c].leader].answer \in Nat
            BY <2>4 DEF Joined, JoinInv, PoolTypeOK, RpcType
        <3>1. rpc' \in [Callers -> RpcType]
            BY <2>0, <2>4, <3>0 DEF Joined, PoolTypeOK, RpcType, RpcPcs
        <3> QED BY <1>0, <2>t, <2>4, <3>0, <3>1 DEF Joined, PoolTypeOK
    <2>5. CASE Leave(c)
        <3>1. rpc' \in [Callers -> RpcType]
            BY <2>0, <2>5 DEF Leave, PoolTypeOK, RpcType, RpcPcs
        <3> QED BY <1>0, <2>0, <2>t, <2>5, <3>1 DEF Leave, PoolTypeOK
    <2>6. CASE Try(c) \/ TryWithoutToken(c)
        <3>1. PICK p \in Best(c) :
                 rpc' \in {[rpc EXCEPT ![c] = [Attempting(c, p) EXCEPT !.pc = "request"]],
                          [rpc EXCEPT ![c] = [Attempting(c, p) EXCEPT !.pc = "backoff"]],
                          [rpc EXCEPT ![c] = [Attempting(c, p) EXCEPT !.attempt = rpc[c].attempt + 1]]}
            BY <2>6 DEF Try, TryWithoutToken
        <3>2. p \in Providers
            BY <3>1 DEF Best, Candidates
        <3>3. Attempting(c, p) \in RpcType
            BY <2>0, <3>2 DEF Attempting, RpcType
        <3>4. /\ [Attempting(c, p) EXCEPT !.pc = "request"] \in RpcType
              /\ [Attempting(c, p) EXCEPT !.pc = "backoff"] \in RpcType
              /\ [Attempting(c, p) EXCEPT !.attempt = rpc[c].attempt + 1] \in RpcType
            BY <2>0, <3>3 DEF RpcType, RpcPcs
        <3>5. rpc' \in [Callers -> RpcType]
            BY <3>1, <3>4 DEF PoolTypeOK
        <3> QED BY <1>0, <2>6, <3>5 DEF Try, TryWithoutToken, PoolTypeOK
    <2>7. CASE FallAsleep(c) \/ Backoff(c) \/ Hang(c) \/ GiveUp(c)
        <3>1. rpc' \in [Callers -> RpcType]
            BY <2>0, <2>7 DEF FallAsleep, Backoff, Hang, GiveUp, PoolTypeOK, RpcType, RpcPcs
        <3> QED BY <1>0, <2>7, <3>1 DEF FallAsleep, Backoff, Hang, GiveUp, PoolTypeOK
    <2>10. CASE Wake(c)
        <3>1. [NextAttempt(c) EXCEPT !.tried = {}] \in RpcType
            BY <2>n DEF RpcType
        <3>3. rpc' \in [Callers -> RpcType]
            BY <2>10, <3>1 DEF Wake, PoolTypeOK
        <3> QED BY <1>0, <2>10, <3>3 DEF Wake, PoolTypeOK
    <2>8. CASE Answer(c)
        <3>1. rpc' \in [Callers -> RpcType]
            BY <2>0, <2>8 DEF Answer, PoolTypeOK, RpcType, RpcPcs
        <3> QED BY <1>0, <2>0, <2>8, <3>1 DEF Answer, Cache, PoolTypeOK
    <2>11. CASE AnswerNull(c)
        <3>1. rpc' \in [Callers -> RpcType]
            BY <2>0, <2>11 DEF AnswerNull, PoolTypeOK, RpcType, RpcPcs
        <3> QED BY <1>0, <2>11, <3>1 DEF AnswerNull, PoolTypeOK
    <2>9. CASE Fail(c)
        <3>3. rpc' \in [Callers -> RpcType]
            BY <2>n, <2>9 DEF Fail, PoolTypeOK
        <3>4. rpc[c].at \in Providers
            BY <2>9 DEF Fail, CallInv
        <3> QED BY <1>0, <2>9, <3>3, <3>4 DEF Fail, PoolTypeOK
    <2> QED BY <1>1, <2>1, <2>2, <2>3, <2>4, <2>5, <2>6, <2>7, <2>8, <2>9, <2>10,
               <2>11 DEF RpcStep
<1>2. ASSUME NEW p \in Providers, CooldownEnds(p) PROVE PoolTypeOK'
    BY <1>0, <1>2 DEF CooldownEnds, PoolTypeOK
<1>3. ASSUME NEW k \in Keys, CacheExpires(k) PROVE PoolTypeOK'
    BY <1>0, <1>3 DEF CacheExpires, PoolTypeOK
<1>4. CASE UNCHANGED poolVars
    BY <1>4 DEF poolVars, PoolTypeOK
<1> QED BY <1>1, <1>2, <1>3, <1>4 DEF PoolNext, PoolDone

-----------------------------------------------------------------------------
(***************************************************************************)
(* Fetches and answers                                                     *)
(***************************************************************************)
FetchInv == CallInv /\ JoinInv /\ KeyInv

\* A step inside a fetch that neither answers nor throws, or throws.
LEMMA FetchGoesOn ==
    ASSUME PoolTypeOK, PoolTypeOK', FetchInv, NEW c \in Callers,
           rpc[c].pc \in Fetching, rpc'[c].pc \in Fetching,
           rpc'[c].pc \in {"backoff", "request"} => rpc'[c].at \in Providers,
           rpc'[c].fetch = rpc[c].fetch, rpc'[c].answer = rpc[c].answer,
           rpc'[c].seen = rpc[c].seen, rpc'[c].fresh = rpc[c].fresh,
           \A d \in Callers \ {c} : rpc'[d] = rpc[d],
           UNCHANGED <<cached, inFlight, begun, returned, told>>
    PROVE  FetchInv'
<1>1. CallInv'
    BY DEF FetchInv, CallInv, Fetching
<1>2. JoinInv'
    BY DEF FetchInv, JoinInv, Fetching
<1>3. KeyInv'
    BY DEF FetchInv, KeyInv, PoolTypeOK
<1> QED BY <1>1, <1>2, <1>3 DEF FetchInv

LEMMA FetchStep ==
    ASSUME PoolTypeOK, PoolTypeOK', FetchInv, [PoolNext]_poolVars
    PROVE  FetchInv'
<1>1. ASSUME NEW c \in Callers, RpcStep(c) PROVE FetchInv'
    <2> DEFINE k == KeyOf[c]
    <2>0. /\ rpc[c] \in RpcType /\ k \in Keys
          /\ rpc[c].fetch \in Nat /\ rpc[c].answer \in Nat
          /\ told[k] \in Nat /\ returned[k] \in Nat /\ begun[k] \in Nat
          /\ cached[k] \in Nat /\ inFlight[k] \in Callers \cup {NoCaller}
          /\ \A d \in Callers : KeyOf[d] \in Keys /\ d # NoCaller
        BY PoolAssumption DEF PoolTypeOK, RpcType
    <2>1. CASE CacheHit(c)
        <3>0. /\ rpc[c].pc = "idle" /\ c \notin SkipCache /\ cached[k] # 0
              /\ rpc'[c].pc = "done" /\ rpc'[c].answer = cached[k] /\ rpc'[c].fetch = rpc[c].fetch
              /\ rpc'[c].seen = told[k] /\ rpc'[c].fresh = returned[k]
              /\ \A d \in Callers \ {c} : rpc'[d] = rpc[d]
              /\ Tell(k, cached[k])
              /\ UNCHANGED <<cached, inFlight, begun, returned>>
            BY <2>0, <2>1 DEF CacheHit, CanUseCache, Arrive, PoolTypeOK, RpcType
        <3>4. told'[k] \in {told[k], cached[k]} /\ \A j \in Keys \ {k} : told'[j] = told[j]
            BY <2>0, <3>0 DEF Tell, PoolTypeOK
        <3>1. CallInv'
            BY <2>0, <3>0 DEF FetchInv, CallInv, KeyInv, Fetching
        <3>2. JoinInv'
            BY <2>0, <3>0 DEF FetchInv, JoinInv, Fetching
        <3>3. KeyInv'
            BY <2>0, <3>0, <3>4 DEF FetchInv, KeyInv, PoolTypeOK, Fetching
        <3> QED BY <3>1, <3>2, <3>3 DEF FetchInv
    <2>2. CASE Join(c)
        <3>0. /\ rpc[c].pc = "idle" /\ inFlight[k] # NoCaller
              /\ rpc'[c].pc = "joined" /\ rpc'[c].answer = rpc[c].answer
              /\ rpc'[c].fetch = rpc[c].fetch /\ rpc'[c].leader = inFlight[k]
              /\ rpc'[c].seen = told[k] /\ rpc'[c].fresh = returned[k]
              /\ \A d \in Callers \ {c} : rpc'[d] = rpc[d]
              /\ UNCHANGED <<told, cached, inFlight, begun, returned>>
            BY <2>0, <2>2 DEF Join, CanJoin, Arrive, PoolTypeOK, RpcType
        <3>1. CallInv'
            BY <2>0, <3>0 DEF FetchInv, CallInv, Fetching
        <3>2. JoinInv'
            <4>1. /\ inFlight[k] \in Callers /\ KeyOf[inFlight[k]] = k
                  /\ rpc[inFlight[k]].pc \in Fetching /\ begun[k] = returned[k] + 1
                  /\ told[k] <= begun[k]
                BY <2>0, <3>0 DEF FetchInv, KeyInv
            <4>2. rpc[inFlight[k]].fetch = begun[k] /\ rpc[inFlight[k]].fetch # 0
                BY <4>1 DEF FetchInv, CallInv
            <4>3. rpc[c].fetch = 0
                BY <3>0 DEF FetchInv, CallInv
            <4> QED BY <2>0, <3>0, <4>1, <4>2, <4>3 DEF FetchInv, JoinInv, Fetching
        <3>3. KeyInv'
            BY <2>0, <3>0 DEF FetchInv, KeyInv, PoolTypeOK, Fetching
        <3> QED BY <3>1, <3>2, <3>3 DEF FetchInv
    <2>3. CASE Lead(c)
        <3>0. /\ rpc[c].pc = "idle" /\ inFlight[k] = NoCaller
              /\ rpc'[c].pc = "attempt" /\ rpc'[c].answer = rpc[c].answer
              /\ rpc'[c].fetch = begun[k] + 1
              /\ rpc'[c].seen = told[k] /\ rpc'[c].fresh = returned[k]
              /\ \A d \in Callers \ {c} : rpc'[d] = rpc[d]
              /\ inFlight' = [inFlight EXCEPT ![k] = c]
              /\ begun' = [begun EXCEPT ![k] = @ + 1]
              /\ UNCHANGED <<told, cached, returned>>
            BY <2>0, <2>3 DEF Lead, CanJoin, Arrive, PoolTypeOK, RpcType
        <3>1. begun[k] = returned[k] /\ told[k] <= begun[k] /\ rpc[c].answer = 0
            BY <2>0, <3>0 DEF FetchInv, KeyInv, CallInv
        <3>2. \A d \in Callers : KeyOf[d] = k => rpc[d].pc \notin Fetching
            BY <3>0, <2>0 DEF FetchInv, CallInv
        <3>3. inFlight'[k] = c /\ begun'[k] = begun[k] + 1
            BY <2>0, <3>0 DEF PoolTypeOK
        <3>4. \A j \in Keys \ {k} : inFlight'[j] = inFlight[j] /\ begun'[j] = begun[j]
            BY <3>0 DEF PoolTypeOK
        <3>5. CallInv'
            <4> SUFFICES ASSUME NEW d \in Callers PROVE CallInv!(d)'
                BY DEF CallInv
            <4> QED BY <2>0, <3>0, <3>1, <3>2, <3>3, <3>4
                    DEF FetchInv, CallInv, Fetching, PoolTypeOK, RpcType
        <3>6. JoinInv'
            BY <2>0, <3>0 DEF FetchInv, JoinInv, Fetching
        <3>7. KeyInv'
            BY <2>0, <3>0, <3>1, <3>3, <3>4 DEF FetchInv, KeyInv, Fetching, PoolTypeOK
        <3> QED BY <3>5, <3>6, <3>7 DEF FetchInv
    <2>4. CASE Joined(c)
        <3> DEFINE l == rpc[c].leader
        <3>0. /\ rpc[c].pc = "joined" /\ rpc[l].pc \in {"settled", "done"}
              /\ rpc'[c].pc = "done" /\ rpc'[c].answer = rpc[l].answer
              /\ rpc'[c].fetch = rpc[c].fetch
              /\ rpc'[c].seen = rpc[c].seen /\ rpc'[c].fresh = rpc[c].fresh
              /\ \A d \in Callers \ {c} : rpc'[d] = rpc[d]
              /\ Tell(k, rpc[l].answer)
              /\ UNCHANGED <<cached, inFlight, begun, returned>>
            BY <2>0, <2>4 DEF Joined, PoolTypeOK, RpcType
        <3>1. /\ l \in Callers /\ KeyOf[l] = k /\ rpc[l].fetch # 0 /\ rpc[c].fetch = 0
              /\ rpc[c].seen <= rpc[l].fetch /\ rpc[c].fresh < rpc[l].fetch
            BY <3>0 DEF FetchInv, JoinInv
        <3>2. /\ rpc[l].answer \in {0, rpc[l].fetch} /\ rpc[l].answer \in Nat
              /\ rpc[l].answer <= begun[k]
              /\ cached[k] = 0 \/ rpc[l].answer <= cached[k]
            BY <3>1 DEF FetchInv, CallInv, PoolTypeOK, RpcType
        <3>3. told'[k] \in {told[k], rpc[l].answer} /\ \A j \in Keys \ {k} : told'[j] = told[j]
            BY <2>0, <3>0 DEF Tell, PoolTypeOK
        <3> HIDE DEF l
        <3>4. CallInv'
            BY <2>0, <3>0, <3>1, <3>2 DEF FetchInv, CallInv, Fetching
        <3>5. JoinInv'
            BY <2>0, <3>0 DEF FetchInv, JoinInv, Fetching
        <3>6. KeyInv'
            BY <2>0, <3>0, <3>2, <3>3 DEF FetchInv, KeyInv, PoolTypeOK, Fetching
        <3> QED BY <3>4, <3>5, <3>6 DEF FetchInv
    <2>5. CASE Leave(c)
        <3>0. /\ rpc[c].pc = "settled" /\ rpc'[c].pc = "done"
              /\ rpc'[c].answer = rpc[c].answer /\ rpc'[c].fetch = rpc[c].fetch
              /\ rpc'[c].seen = rpc[c].seen /\ rpc'[c].fresh = rpc[c].fresh
              /\ \A d \in Callers \ {c} : rpc'[d] = rpc[d]
              /\ inFlight' = [inFlight EXCEPT ![k] = NoCaller]
              /\ returned' = [returned EXCEPT ![k] = rpc[c].fetch]
              /\ Tell(k, rpc[c].answer)
              /\ UNCHANGED <<cached, begun>>
            BY <2>0, <2>5 DEF Leave, PoolTypeOK, RpcType
        <3>1. /\ inFlight[k] = c /\ rpc[c].fetch = begun[k] /\ rpc[c].fetch # 0
              /\ rpc[c].answer \in {0, rpc[c].fetch} /\ rpc[c].answer <= begun[k]
              /\ rpc[c].seen < rpc[c].fetch /\ rpc[c].fresh < rpc[c].fetch
              /\ cached[k] = 0 \/ rpc[c].answer <= cached[k]
            BY <3>0 DEF FetchInv, CallInv, Fetching
        <3>2. told'[k] \in {told[k], rpc[c].answer} /\ \A j \in Keys \ {k} : told'[j] = told[j]
            BY <2>0, <3>0 DEF Tell, PoolTypeOK
        <3>3. /\ inFlight'[k] = NoCaller /\ returned'[k] = rpc[c].fetch
              /\ \A j \in Keys \ {k} : inFlight'[j] = inFlight[j] /\ returned'[j] = returned[j]
            BY <2>0, <3>0 DEF PoolTypeOK
        <3>4. \A d \in Callers \ {c} : KeyOf[d] = k => rpc[d].pc \notin Fetching
            BY <3>1 DEF FetchInv, CallInv
        <3>5. CallInv'
            <4> SUFFICES ASSUME NEW d \in Callers PROVE CallInv!(d)'
                BY DEF CallInv
            <4>1. CASE d = c
                <5>1. /\ rpc'[c].answer \in Nat /\ cached'[k] = cached[k] /\ begun'[k] = begun[k]
                      /\ rpc'[c].pc = "done" /\ rpc'[c].answer \in {0, rpc'[c].fetch}
                      /\ rpc'[c].seen < rpc'[c].fetch /\ rpc'[c].fresh < rpc'[c].fetch
                      /\ rpc'[c].answer <= begun'[k]
                      /\ cached'[k] = 0 \/ rpc'[c].answer <= cached'[k]
                    BY <2>0, <3>0, <3>1
                <5>2. rpc'[c].seen \in Nat /\ rpc'[c].fresh \in Nat /\ rpc'[c].fetch \in Nat
                    BY <2>0, <3>0 DEF RpcType
                <5> QED BY <4>1, <5>1, <5>2 DEF Fetching
            <4>2. CASE d # c
                BY <4>2, <2>0, <3>0, <3>3, <3>4 DEF FetchInv, CallInv
            <4> QED BY <4>1, <4>2
        <3>6. JoinInv'
            BY <2>0, <3>0 DEF FetchInv, JoinInv, Fetching
        <3>7. KeyInv'
            <4> SUFFICES ASSUME NEW j \in Keys PROVE KeyInv!(j)'
                BY DEF KeyInv
            <4>1. CASE j = k
                BY <4>1, <2>0, <3>0, <3>1, <3>2, <3>3 DEF FetchInv, KeyInv
            <4>2. CASE j # k
                <5>1. inFlight[j] # c
                    BY <4>2, <2>0 DEF FetchInv, KeyInv
                <5> QED BY <4>2, <5>1, <2>0, <3>0, <3>2, <3>3 DEF FetchInv, KeyInv, PoolTypeOK
            <4> QED BY <4>1, <4>2
        <3> QED BY <3>5, <3>6, <3>7 DEF FetchInv
    <2>6. CASE Try(c)
        <3>1. PICK p \in Best(c) :
                 rpc' \in {[rpc EXCEPT ![c] = [Attempting(c, p) EXCEPT !.pc = "request"]],
                          [rpc EXCEPT ![c] = [Attempting(c, p) EXCEPT !.pc = "backoff"]]}
            BY <2>6 DEF Try
        <3>2. p \in Providers
            BY <3>1 DEF Best, Candidates
        <3>3. /\ Attempting(c, p).at = p
              /\ Attempting(c, p).fetch = rpc[c].fetch /\ Attempting(c, p).answer = rpc[c].answer
              /\ Attempting(c, p).seen = rpc[c].seen /\ Attempting(c, p).fresh = rpc[c].fresh
              /\ Attempting(c, p) \in RpcType
            BY <2>0, <3>2 DEF Attempting, RpcType
        <3>4. rpc[c].pc = "attempt" /\ UNCHANGED <<cached, inFlight, begun, returned, told>>
            BY <2>6 DEF Try
        <3>5. /\ rpc'[c].pc \in {"request", "backoff"} /\ rpc'[c].at = p
              /\ rpc'[c].fetch = rpc[c].fetch /\ rpc'[c].answer = rpc[c].answer
              /\ rpc'[c].seen = rpc[c].seen /\ rpc'[c].fresh = rpc[c].fresh
              /\ \A d \in Callers \ {c} : rpc'[d] = rpc[d]
            BY <3>1, <3>3 DEF PoolTypeOK, RpcType
        <3> QED BY <3>2, <3>4, <3>5, FetchGoesOn DEF Fetching
    <2>7. CASE TryWithoutToken(c)
        <3>1. PICK p \in Best(c) :
                 rpc' = [rpc EXCEPT ![c] = [Attempting(c, p) EXCEPT !.attempt = rpc[c].attempt + 1]]
            BY <2>7 DEF TryWithoutToken
        <3> QED BY <2>0, <2>7, <3>1, FetchGoesOn
                DEF TryWithoutToken, Attempting, PoolTypeOK, RpcType, Fetching
    <2>8. CASE FallAsleep(c)
        BY <2>0, <2>8, FetchGoesOn DEF FallAsleep, PoolTypeOK, RpcType, Fetching
    <2>9. CASE Wake(c)
        BY <2>0, <2>9, FetchGoesOn DEF Wake, NextAttempt, PoolTypeOK, RpcType, Fetching
    <2>10. CASE Backoff(c)
        <3>1. rpc[c].at \in Providers
            BY <2>10 DEF Backoff, FetchInv, CallInv
        <3> QED BY <2>0, <2>10, <3>1, FetchGoesOn DEF Backoff, PoolTypeOK, RpcType, Fetching
    <2>11. CASE Fail(c)
        BY <2>0, <2>11, FetchGoesOn DEF Fail, NextAttempt, PoolTypeOK, RpcType, Fetching
    <2>12. CASE Hang(c) \/ GiveUp(c)
        BY <2>0, <2>12, FetchGoesOn DEF Hang, GiveUp, PoolTypeOK, RpcType, Fetching
    <2>14. CASE AnswerNull(c)
        BY <2>0, <2>14, FetchGoesOn DEF AnswerNull, PoolTypeOK, RpcType, Fetching
    <2>13. CASE Answer(c)
        <3>0. /\ rpc[c].pc = "request" /\ rpc'[c].pc = "settled"
              /\ rpc'[c].answer = rpc[c].fetch /\ rpc'[c].fetch = rpc[c].fetch
              /\ rpc'[c].seen = rpc[c].seen /\ rpc'[c].fresh = rpc[c].fresh
              /\ \A d \in Callers \ {c} : rpc'[d] = rpc[d]
              /\ cached' = [cached EXCEPT ![k] = rpc[c].fetch]
              /\ UNCHANGED <<inFlight, begun, returned, told>>
            BY <2>0, <2>13 DEF Answer, Cache, PoolTypeOK, RpcType
        <3>1. rpc[c].fetch = begun[k] /\ rpc[c].fetch # 0
            BY <3>0 DEF FetchInv, CallInv, Fetching
        <3>2. cached'[k] = begun[k] /\ \A j \in Keys \ {k} : cached'[j] = cached[j]
            BY <2>0, <3>0, <3>1 DEF PoolTypeOK
        <3>3. CallInv'
            BY <2>0, <3>0, <3>1, <3>2 DEF FetchInv, CallInv, Fetching
        <3>4. JoinInv'
            BY <2>0, <3>0 DEF FetchInv, JoinInv, Fetching
        <3>5. KeyInv'
            BY <2>0, <3>0, <3>1, <3>2 DEF FetchInv, KeyInv, PoolTypeOK, Fetching
        <3> QED BY <3>3, <3>4, <3>5 DEF FetchInv
    <2> QED BY <1>1, <2>1, <2>2, <2>3, <2>4, <2>5, <2>6, <2>7, <2>8, <2>9, <2>10, <2>11,
               <2>12, <2>13, <2>14 DEF RpcStep
<1>2. ASSUME NEW p \in Providers, CooldownEnds(p) PROVE FetchInv'
    BY <1>2 DEF CooldownEnds, FetchInv, CallInv, JoinInv, KeyInv
<1>3. ASSUME NEW k \in Keys, CacheExpires(k) PROVE FetchInv'
    <2>1. \A j \in Keys : cached'[j] \in {0, cached[j]} /\ begun[j] \in Nat
        BY <1>3 DEF CacheExpires, PoolTypeOK
    <2>2. \A c \in Callers : KeyOf[c] \in Keys
        BY PoolAssumption
    <2>3. CallInv'
        BY <1>3, <2>1, <2>2 DEF CacheExpires, FetchInv, CallInv
    <2>4. JoinInv' /\ KeyInv'
        BY <1>3, <2>1 DEF CacheExpires, FetchInv, JoinInv, KeyInv
    <2> QED BY <2>3, <2>4 DEF FetchInv
<1>4. CASE UNCHANGED poolVars
    BY <1>4 DEF poolVars, FetchInv, CallInv, JoinInv, KeyInv
<1> QED BY <1>1, <1>2, <1>3, <1>4 DEF PoolNext, PoolDone

-----------------------------------------------------------------------------
LEMMA PoolInvariant == PoolSpec => []PoolInv
<1>1. PoolInv /\ [PoolNext]_poolVars => PoolInv'
    BY ProviderStep, PoolTypeStep, FetchStep DEF PoolInv, FetchInv
<1> QED BY PoolInitInv, <1>1, PTL DEF PoolSpec

\* The pool keeps its types: scores stay between 0 and 100.
THEOREM PoolTypes == PoolSpec => []PoolTypeOK
BY PoolInvariant, PTL DEF PoolInv

\* A key has at most one fetch at a time.
THEOREM PoolSharesFetches == PoolSpec => []OneFetchPerKey
<1>1. PoolInv => OneFetchPerKey
    BY DEF PoolInv, CallInv, OneFetchPerKey, Fetching
<1> QED BY PoolInvariant, <1>1, PTL

\* Answers of a key never go back to an earlier fetch.
THEOREM PoolAnswersInOrder == PoolSpec => []AnswersDoNotGoBack
<1>1. PoolInv => AnswersDoNotGoBack
    BY DEF PoolInv, CallInv, AnswersDoNotGoBack
<1> QED BY PoolInvariant, <1>1, PTL

\* A call that skips the cache is never answered by a fetch over when it began.
THEOREM PoolSkipsCache == PoolSpec => []SkippedCacheIsFresh
<1>1. PoolInv => SkippedCacheIsFresh
    BY PoolAssumption DEF PoolInv, CallInv, SkippedCacheIsFresh
<1> QED BY PoolInvariant, <1>1, PTL

\* A call takes up only providers whose cooldown has passed.
LEMMA TakesUp ==
    ASSUME PoolTypeOK, CoolingInv, NEW c \in Callers, [PoolNext]_poolVars
    PROVE  (rpc'[c].tried \ rpc[c].tried) \cap cooling = {}
<1>1. ASSUME NEW d \in Callers, RpcStep(d), d # c PROVE rpc'[c] = rpc[c]
    BY <1>1 DEF RpcStep, CacheHit, Join, Lead, Arrive, Joined, Leave, Try, TryWithoutToken,
       FallAsleep, Wake, Backoff, Answer, AnswerNull, Fail, Hang, GiveUp, PoolTypeOK
<1>2. ASSUME Try(c) \/ TryWithoutToken(c) PROVE (rpc'[c].tried \ rpc[c].tried) \cap cooling = {}
    <2>1. PICK p \in Best(c) :
             rpc' \in {[rpc EXCEPT ![c] = [Attempting(c, p) EXCEPT !.pc = "request"]],
                      [rpc EXCEPT ![c] = [Attempting(c, p) EXCEPT !.pc = "backoff"]],
                      [rpc EXCEPT ![c] = [Attempting(c, p) EXCEPT !.attempt = rpc[c].attempt + 1]]}
        BY <1>2 DEF Try, TryWithoutToken
    <2>2. p \notin cooling
        BY DEF Best, Candidates, CoolingInv
    <2>3. /\ Attempting(c, p).tried = rpc[c].tried \cup {p}
          /\ [Attempting(c, p) EXCEPT !.pc = "request"].tried = Attempting(c, p).tried
          /\ [Attempting(c, p) EXCEPT !.pc = "backoff"].tried = Attempting(c, p).tried
          /\ [Attempting(c, p) EXCEPT !.attempt = rpc[c].attempt + 1].tried
                 = Attempting(c, p).tried
        <3>1. rpc[c] \in RpcType
            BY DEF PoolTypeOK
        <3> QED BY <3>1 DEF Attempting, RpcType
    <2>4. rpc'[c].tried = rpc[c].tried \cup {p}
        BY <2>1, <2>3 DEF PoolTypeOK
    <2> QED BY <2>2, <2>4
<1>3. ASSUME RpcStep(c), ~ (Try(c) \/ TryWithoutToken(c))
      PROVE  rpc'[c].tried \in {rpc[c].tried, {}}
    <2>0. rpc[c] \in RpcType /\ rpc \in [Callers -> RpcType]
        BY DEF PoolTypeOK
    <2>1. CASE CacheHit(c)
        BY <2>0, <2>1 DEF CacheHit, Arrive, RpcType
    <2>6. CASE Join(c)
        BY <2>0, <2>6 DEF Join, Arrive, RpcType
    <2>7. CASE Lead(c)
        BY <2>0, <2>7 DEF Lead, Arrive, RpcType
    <2>2. CASE Joined(c) \/ Leave(c) \/ FallAsleep(c) \/ Backoff(c)
        BY <2>0, <2>2 DEF Joined, Leave, FallAsleep, Backoff, RpcType
    <2>3. CASE Wake(c)
        BY <2>0, <2>3 DEF Wake, NextAttempt, RpcType
    <2>4. CASE Answer(c) \/ AnswerNull(c) \/ Hang(c) \/ GiveUp(c)
        BY <2>0, <2>4 DEF Answer, AnswerNull, Hang, GiveUp, RpcType
    <2>5. CASE Fail(c)
        BY <2>0, <2>5 DEF Fail, NextAttempt, RpcType
    <2> QED BY <1>3, <2>1, <2>2, <2>3, <2>4, <2>5, <2>6, <2>7 DEF RpcStep
<1>4. CASE \E d \in Callers : RpcStep(d)
    BY <1>1, <1>2, <1>3, <1>4
<1>5. CASE \/ \E p \in Providers : CooldownEnds(p)
           \/ \E k \in Keys : CacheExpires(k)
           \/ PoolDone \/ UNCHANGED poolVars
    BY <1>5 DEF CooldownEnds, CacheExpires, PoolDone, poolVars
<1> QED BY <1>4, <1>5 DEF PoolNext

\* A provider is not chosen while its cooldown lies ahead, whichever of the
\* requests sent to it before are still answered.
THEOREM PoolCircuitStaysOpen == PoolSpec => CoolingIsNotChosen
<1>1. PoolInv /\ [PoolNext]_poolVars
         => [\A c \in Callers : (rpc'[c].tried \ rpc[c].tried) \cap cooling = {}]_poolVars
    BY TakesUp DEF PoolInv
<1> QED BY PoolInvariant, <1>1, PTL DEF PoolSpec, CoolingIsNotChosen
==============================================================================
