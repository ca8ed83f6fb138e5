---------------------------- MODULE SolanaRpcPool ----------------------------
(***************************************************************************)
(* SolanaRpcManager: a call for a key (a method with its parameters) is    *)
(* answered from the cache, joins the fetch of that key in flight, or      *)
(* leads a fetch, which tries the providers of the pool in turn.  A        *)
(* provider that fails is put into a cooldown.                             *)
(*                                                                         *)
(* An answer is named by the fetch that got it: fetches of a key are       *)
(* numbered as they begin.  Durations are not modelled: a sleep, a cache   *)
(* entry, a cooldown or a shortage of tokens may end at any time.          *)
(***************************************************************************)
EXTENDS Integers

CONSTANTS
    Callers,        \* calls of callRpc
    Keys,           \* cache keys
    Providers,      \* the endpoints of the pool
    KeyOf,          \* [Callers -> Keys]
    SkipCache,      \* the callers that pass skipCache
    MaxRetries,     \* config.maxRetries
    NoCaller,       \* no caller
    NoProvider      \* no provider

ASSUME PoolAssumption ==
    /\ KeyOf \in [Callers -> Keys]
    /\ SkipCache \subseteq Callers
    /\ MaxRetries \in Nat \ {0}
    /\ NoCaller \notin Callers
    /\ NoProvider \notin Providers

VARIABLES
    provider,   \* the metrics of each provider
    cooling,    \* providers whose cooldownUntil lies ahead
    cached,     \* the fetch whose answer is cached for a key; 0 if none is valid
    inFlight,   \* the caller that leads the fetch in flight for a key
    rpc,        \* the local state of each call
    begun,      \* the number of fetches begun for each key (history)
    returned,   \* the latest of them that has left inFlightRequests (history)
    told        \* the latest fetch whose answer a caller has been given (history)

poolVars == <<provider, cooling, cached, inFlight, rpc, begun, returned, told>>

RpcPcs      == {"idle", "attempt", "backoff", "sleep", "request", "hung", "settled", "joined",
                "done"}
Penalties   == {50, 30, 20}     \* too many requests, timeout, any other failure
MetricsType == [status : {"healthy", "degraded", "cooldown"}, score : 0..100, failures : Nat]

\* leader is the call whose promise this one awaits; answer is a fetch, or 0
\* when the call throws or the result is null; seen and fresh are told and
\* returned as the call found them.
RpcType == [pc : RpcPcs, leader : Callers \cup {NoCaller}, attempt : Nat,
            tried : SUBSET Providers, at : Providers \cup {NoProvider},
            fetch : Nat, answer : Nat, seen : Nat, fresh : Nat]

PoolTypeOK ==
    /\ provider \in [Providers -> MetricsType]
    /\ cooling \subseteq Providers
    /\ cached \in [Keys -> Nat]
    /\ inFlight \in [Keys -> Callers \cup {NoCaller}]
    /\ rpc \in [Callers -> RpcType]
    /\ begun \in [Keys -> Nat]
    /\ returned \in [Keys -> Nat]
    /\ told \in [Keys -> Nat]

IdleRpc == [pc |-> "idle", leader |-> NoCaller, attempt |-> 1, tried |-> {},
            at |-> NoProvider, fetch |-> 0, answer |-> 0, seen |-> 0, fresh |-> 0]

PoolInit ==
    /\ provider = [p \in Providers |-> [status |-> "healthy", score |-> 100, failures |-> 0]]
    /\ cooling = {}
    /\ cached = [k \in Keys |-> 0]
    /\ inFlight = [k \in Keys |-> NoCaller]
    /\ rpc = [c \in Callers |-> IdleRpc]
    /\ begun = [k \in Keys |-> 0]
    /\ returned = [k \in Keys |-> 0]
    /\ told = [k \in Keys |-> 0]

-----------------------------------------------------------------------------
(***************************************************************************)
(* callRpc                                                                 *)
(***************************************************************************)
\* What a call finds when it begins is remembered with it.
Arrive(c, state) ==
    rpc' = [rpc EXCEPT ![c] = [state EXCEPT !.seen = told[KeyOf[c]],
                                            !.fresh = returned[KeyOf[c]]]]

Tell(k, n) == told' = [told EXCEPT ![k] = IF n > @ THEN n ELSE @]

\* Mutant: skipCache is not looked at.
CanUseCache_Always(c) == cached[KeyOf[c]] # 0

CanUseCache(c) == c \notin SkipCache /\ cached[KeyOf[c]] # 0

\* Mutant: a call that skips the cache does not look for a fetch in flight.
CanJoin_NotIfSkipping(c) == c \notin SkipCache /\ inFlight[KeyOf[c]] # NoCaller

CanJoin(c) == inFlight[KeyOf[c]] # NoCaller

\* A valid cache entry answers the call at once.
CacheHit(c) ==
    LET n == cached[KeyOf[c]]
    IN  /\ rpc[c].pc = "idle"
        /\ CanUseCache(c)
        /\ Arrive(c, [rpc[c] EXCEPT !.pc = "done", !.answer = n])
        /\ Tell(KeyOf[c], n)
        /\ UNCHANGED <<provider, cooling, cached, inFlight, begun, returned>>

\* Otherwise the call joins the fetch in flight for its key ...
Join(c) ==
    /\ rpc[c].pc = "idle"
    /\ ~ CanUseCache(c)
    /\ CanJoin(c)
    /\ Arrive(c, [rpc[c] EXCEPT !.pc = "joined", !.leader = inFlight[KeyOf[c]]])
    /\ UNCHANGED <<provider, cooling, cached, inFlight, begun, returned, told>>

\* ... or leads one of its own.
Lead(c) ==
    LET k == KeyOf[c]
    IN  /\ rpc[c].pc = "idle"
        /\ ~ CanUseCache(c)
        /\ ~ CanJoin(c)
        /\ inFlight' = [inFlight EXCEPT ![k] = c]
        /\ begun' = [begun EXCEPT ![k] = @ + 1]
        /\ Arrive(c, [rpc[c] EXCEPT !.pc = "attempt", !.fetch = begun[k] + 1])
        /\ UNCHANGED <<provider, cooling, cached, returned, told>>

\* The promise a call joined has settled.
Joined(c) ==
    LET l == rpc[c].leader
        n == rpc[l].answer
    IN  /\ rpc[c].pc = "joined"
        /\ rpc[l].pc \in {"settled", "done"}
        /\ rpc' = [rpc EXCEPT ![c] = [@ EXCEPT !.pc = "done", !.answer = n]]
        /\ Tell(KeyOf[c], n)
        /\ UNCHANGED <<provider, cooling, cached, inFlight, begun, returned>>

\* The finally block of the leader, and its return.
Leave(c) ==
    LET k == KeyOf[c]
    IN  /\ rpc[c].pc = "settled"
        /\ inFlight' = [inFlight EXCEPT ![k] = NoCaller]
        /\ rpc' = [rpc EXCEPT ![c].pc = "done"]
        /\ returned' = [returned EXCEPT ![k] = rpc[c].fetch]
        /\ Tell(k, rpc[c].answer)
        /\ UNCHANGED <<provider, cooling, cached, begun>>

-----------------------------------------------------------------------------
(***************************************************************************)
(* executeRpcWithFailover and the metrics it keeps                         *)
(***************************************************************************)
\* selectBestProvider: providers whose cooldown has passed become degraded on
\* the way, and one with the best score is chosen.
Recovered(c) ==
    {p \in Providers \ rpc[c].tried : provider[p].status = "cooldown" /\ p \notin cooling}

Candidates(c) ==
    {p \in Providers \ rpc[c].tried : provider[p].status = "cooldown" => p \notin cooling}

Best(c) == {p \in Candidates(c) :
                \A q \in Candidates(c) : provider[p].score >= provider[q].score}

DegradeRecovered(c) ==
    provider' = [p \in Providers |->
                    IF p \in Recovered(c) THEN [provider[p] EXCEPT !.status = "degraded"]
                    ELSE provider[p]]

Attempting(c, p) == [rpc[c] EXCEPT !.at = p, !.tried = rpc[c].tried \cup {p}]

\* The loop of the fetch goes on to its next attempt.
NextAttempt(c) == [rpc[c] EXCEPT !.pc = "attempt", !.attempt = rpc[c].attempt + 1]

\* There is a provider, and a token for it: the request is sent, after a
\* backoff if this is not the first attempt.
Try(c) ==
    /\ rpc[c].pc = "attempt" /\ rpc[c].attempt <= MaxRetries
    /\ \E p \in Best(c) :
          rpc' = [rpc EXCEPT ![c] =
                    [Attempting(c, p) EXCEPT
                        !.pc = IF rpc[c].attempt = 1 THEN "request" ELSE "backoff"]]
    /\ DegradeRecovered(c)
    /\ UNCHANGED <<cooling, cached, inFlight, begun, returned, told>>

\* There is a provider, but its token bucket is empty: on to the next attempt.
TryWithoutToken(c) ==
    /\ rpc[c].pc = "attempt" /\ rpc[c].attempt <= MaxRetries
    /\ \E p \in Best(c) :
          rpc' = [rpc EXCEPT ![c] = [Attempting(c, p) EXCEPT !.attempt = rpc[c].attempt + 1]]
    /\ DegradeRecovered(c)
    /\ UNCHANGED <<cooling, cached, inFlight, begun, returned, told>>

\* There is none: the attempt is spent on waiting.
FallAsleep(c) ==
    /\ rpc[c].pc = "attempt" /\ rpc[c].attempt <= MaxRetries
    /\ Candidates(c) = {}
    /\ rpc' = [rpc EXCEPT ![c].pc = "sleep"]
    /\ UNCHANGED <<provider, cooling, cached, inFlight, begun, returned, told>>

Wake(c) ==
    /\ rpc[c].pc = "sleep"
    /\ rpc' = [rpc EXCEPT ![c] = [NextAttempt(c) EXCEPT !.tried = {}]]
    /\ UNCHANGED <<provider, cooling, cached, inFlight, begun, returned, told>>

Backoff(c) ==
    /\ rpc[c].pc = "backoff"
    /\ rpc' = [rpc EXCEPT ![c].pc = "request"]
    /\ UNCHANGED <<provider, cooling, cached, inFlight, begun, returned, told>>

\* Mutant: the score is not capped.
Succeeded_NoCap(m) ==
    [m EXCEPT !.failures = 0,
              !.score = @ + 5,
              !.status = IF m.status = "degraded" /\ m.score >= 75 THEN "healthy" ELSE @]

\* Mutant: a success also heals a provider in its cooldown.
Succeeded_InCooldown(m) ==
    LET score == IF m.score + 5 > 100 THEN 100 ELSE m.score + 5
    IN  [m EXCEPT !.failures = 0,
                  !.score = score,
                  !.status = IF score >= 80 THEN "healthy" ELSE @]

\* recordSuccess: the metrics m of a provider after a success,
Succeeded(m) ==
    LET score == IF m.score + 5 > 100 THEN 100 ELSE m.score + 5
    IN  [m EXCEPT !.failures = 0,
                  !.score = score,
                  !.status = IF m.status = "degraded" /\ score >= 80 THEN "healthy"
                             ELSE m.status]

\* and recordFailure: after a failure.
Failed(m, penalty) ==
    [m EXCEPT !.failures = @ + 1,
              !.score = IF m.score > penalty THEN m.score - penalty ELSE 0,
              !.status = "cooldown"]

\* Mutant: the answer is not cached when the cache was skipped.
Cache_NotIfSkipping(c) ==
    IF c \in SkipCache THEN UNCHANGED cached
    ELSE cached' = [cached EXCEPT ![KeyOf[c]] = rpc[c].fetch]

\* Every result is cached, whether the call that led the fetch skips the cache or not.
Cache(c) == cached' = [cached EXCEPT ![KeyOf[c]] = rpc[c].fetch]

Answer(c) ==
    /\ rpc[c].pc = "request"
    /\ provider' = [provider EXCEPT ![rpc[c].at] = Succeeded(@)]
    /\ Cache(c)
    /\ rpc' = [rpc EXCEPT ![c] = [@ EXCEPT !.pc = "settled", !.answer = rpc[c].fetch]]
    /\ UNCHANGED <<cooling, inFlight, begun, returned, told>>

\* A result that is null is not cached.
AnswerNull(c) ==
    /\ rpc[c].pc = "request"
    /\ provider' = [provider EXCEPT ![rpc[c].at] = Succeeded(@)]
    /\ rpc' = [rpc EXCEPT ![c].pc = "settled"]
    /\ UNCHANGED <<cooling, cached, inFlight, begun, returned, told>>

\* The request fails, in one of three ways, or its socket is idle too long.
Fail(c) ==
    /\ rpc[c].pc = "request"
    /\ \E penalty \in Penalties :
          provider' = [provider EXCEPT ![rpc[c].at] = Failed(@, penalty)]
    /\ cooling' = cooling \cup {rpc[c].at}
    /\ rpc' = [rpc EXCEPT ![c] = NextAttempt(c)]
    /\ UNCHANGED <<cached, inFlight, begun, returned, told>>

\* The response is cut off, or keeps arriving in pieces: no listener hears of
\* the first, and the timeout is one of inactivity.  The promise never settles.
Hang(c) ==
    /\ rpc[c].pc = "request"
    /\ rpc' = [rpc EXCEPT ![c].pc = "hung"]
    /\ UNCHANGED <<provider, cooling, cached, inFlight, begun, returned, told>>

\* Mutant: the loop goes on until some provider has answered.
GiveUp_Never(c) == FALSE /\ UNCHANGED poolVars

\* No attempt is left: the fetch throws, and nothing is cached.
GiveUp(c) ==
    /\ rpc[c].pc = "attempt" /\ rpc[c].attempt > MaxRetries
    /\ rpc' = [rpc EXCEPT ![c].pc = "settled"]
    /\ UNCHANGED <<provider, cooling, cached, inFlight, begun, returned, told>>

-----------------------------------------------------------------------------
(***************************************************************************)
(* The passage of time                                                     *)
(***************************************************************************)
CooldownEnds(p) ==
    /\ p \in cooling
    /\ cooling' = cooling \ {p}
    /\ UNCHANGED <<provider, cached, inFlight, rpc, begun, returned, told>>

CacheExpires(k) ==
    /\ cached[k] # 0
    /\ cached' = [cached EXCEPT ![k] = 0]
    /\ UNCHANGED <<provider, cooling, inFlight, rpc, begun, returned, told>>

-----------------------------------------------------------------------------
RpcStep(c) ==
    \/ CacheHit(c) \/ Join(c) \/ Lead(c) \/ Joined(c) \/ Leave(c)
    \/ Try(c) \/ TryWithoutToken(c) \/ FallAsleep(c) \/ Wake(c) \/ Backoff(c)
    \/ Answer(c) \/ AnswerNull(c) \/ Fail(c) \/ Hang(c) \/ GiveUp(c)

\* The call waits for ever: for its own request, or for that of the call whose
\* promise it has joined.
Stuck(c) ==
    \/ rpc[c].pc = "hung"
    \/ rpc[c].pc = "joined" /\ rpc[rpc[c].leader].pc = "hung"

PoolDone ==
    /\ \A c \in Callers : rpc[c].pc \in {"idle", "done"} \/ Stuck(c)
    /\ UNCHANGED poolVars

PoolNext ==
    \/ \E c \in Callers : RpcStep(c)
    \/ \E p \in Providers : CooldownEnds(p)
    \/ \E k \in Keys : CacheExpires(k)
    \/ PoolDone

PoolSpec == PoolInit /\ [][PoolNext]_poolVars

\* A call that has been made goes on: sleeps end, promises that have settled
\* are noticed, and a request is answered, fails or hangs.
PoolFairness == \A c \in Callers : WF_poolVars(rpc[c].pc # "idle" /\ RpcStep(c))

-----------------------------------------------------------------------------
\* However calls overlap, a key has one fetch at a time, the one stored for it
\* in inFlightRequests: concurrent identical calls cost one request.
OneFetchPerKey ==
    \A c \in Callers :
        rpc[c].pc \in {"attempt", "backoff", "sleep", "request", "hung", "settled"} =>
            inFlight[KeyOf[c]] = c

\* A caller that asks after another has been answered is not given an older
\* answer, although one is read from the cache and the other skips it, and
\* although entries expire and fetches fail in between.
AnswersDoNotGoBack ==
    \A c \in Callers :
        rpc[c].pc = "done" /\ rpc[c].answer # 0 => rpc[c].answer >= rpc[c].seen

\* A call that skips the cache is never answered by a fetch that was over
\* when it began, although it may share the one in flight.
SkippedCacheIsFresh ==
    \A c \in SkipCache :
        rpc[c].pc = "done" /\ rpc[c].answer # 0 => rpc[c].answer > rpc[c].fresh

\* While the cooldown of a provider lies ahead no call chooses it, although
\* requests sent to it before it failed are still answered and raise its score:
\* a late success does not close the circuit.
CoolingIsNotChosen ==
    [][\A c \in Callers : (rpc'[c].tried \ rpc[c].tried) \cap cooling = {}]_poolVars

\* A call that has been made returns or throws, however providers fail and
\* whoever's fetch it waits for, unless the request it waits for hangs.
EveryCallReturns ==
    <>[](\A c \in Callers : rpc[c].pc \in {"idle", "done"} \/ Stuck(c))
=============================================================================
