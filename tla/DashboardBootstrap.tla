-------------------------- MODULE DashboardBootstrap --------------------------
(***************************************************************************)
(* DashboardBootstrapCoordinator of the web application: it waits for the  *)
(* sign-in, resolves the user's store and then, in the background, a chat. *)
(* A lost session and a sign-out start a new generation, and what a run of *)
(* an older generation still learns is to be dropped.  (The abort signals  *)
(* say the same: whatever aborts a run also starts a generation.)          *)
(*                                                                         *)
(* The store is resolved by getCanonicalTenantContext.  It answers with    *)
(* the user's own store, from the database, but also with whatever store   *)
(* it finds in memory or in localStorage; and before it answers it has put *)
(* the store into TenantContext, without a look at the generation.         *)
(***************************************************************************)
EXTENDS Integers

CONSTANTS
    People,         \* users who sign in in one browser; each has a store
    NoPerson,
    Runs,           \* runs of the pipeline that may be under way at a time
    NoRun,
    MaxGeneration   \* bound: generations

ASSUME BootAssumption ==
    /\ NoPerson \notin People
    /\ {"WAITING", "AUTH_REQUIRED", "AUTH_ERROR"} \cap (People \cup {NoPerson}) = {}
    /\ NoRun \notin Runs
    /\ MaxGeneration \in Nat \ {0}

VARIABLES
    auth,           \* canonicalAuthManager: who is signed in, or why nobody is
    boot,           \* state: the bootstrap state shown to the dashboard
    generation,     \* bootstrapGeneration
    promise,        \* bootstrapPromise
    runs,           \* the local state of each run
    chats,          \* chats being resolved in the background
    tenant,         \* TenantContext: the store the service layer works with
    known,          \* who signed in since the page was loaded, or was restored
                    \* with it: their stores may be remembered, or still be on
                    \* their way (history)
    remembered,     \* whom this generation took from there (history)
    switched        \* one user replaced another without a sign-out (history)

bootVars == <<auth, boot, generation, promise, runs, chats, tenant, known,
              remembered, switched>>

BootSteps == {"IDLE", "WAITING_AUTH", "TENANT_RESOLVING", "BOOTSTRAP_READY",
              "AUTH_REQUIRED", "BOOTSTRAP_FAILED"}
Person   == People \cup {NoPerson}
BootType == [step : BootSteps, authReady : BOOLEAN, user : Person, tenantReady : BOOLEAN,
             store : Person, chat : Person]
RunType  == [pc : {"off", "auth", "tenant", "resolved"}, gen : 1..MaxGeneration,
             user : Person, store : Person, verified : BOOLEAN]
TenantType == [user : Person, store : Person, ready : BOOLEAN]

BootTypeOK ==
    /\ auth \in People \cup {"WAITING", "AUTH_REQUIRED", "AUTH_ERROR"}
    /\ boot \in BootType
    /\ generation \in 1..MaxGeneration
    /\ promise \in Runs \cup {NoRun}
    /\ runs \in [Runs -> RunType]
    /\ chats \subseteq [gen : 1..MaxGeneration, store : People]
    /\ tenant \in TenantType
    /\ known \subseteq People /\ remembered \subseteq People
    /\ switched \in BOOLEAN

Cleared(step) == [step |-> step, authReady |-> FALSE, user |-> NoPerson,
                  tenantReady |-> FALSE, store |-> NoPerson, chat |-> NoPerson]

OffRun == [pc |-> "off", gen |-> 1, user |-> NoPerson, store |-> NoPerson,
           verified |-> FALSE]

\* No store yet, for the user (or for nobody).
NoStore(u) == [user |-> u, store |-> NoPerson, ready |-> FALSE]

\* The store the browser kept in localStorage is there again, of whomever it is.
Restored == {NoStore(NoPerson)} \cup [user : Person, store : People, ready : {TRUE}]

BootInit ==
    /\ auth = "WAITING"
    /\ boot = Cleared("IDLE")
    /\ generation = 1
    /\ promise = NoRun
    /\ runs = [r \in Runs |-> OffRun]
    /\ chats = {}
    /\ tenant \in Restored
    /\ known = {tenant.user, tenant.store} \cap People
    /\ remembered = {} /\ switched = FALSE

-----------------------------------------------------------------------------
(* executeBootstrap, up to its first await.  (No caller sets forceRefresh.) *)

\* A run that is under way is joined; a dashboard that is ready needs none.
Needless == (boot.step = "BOOTSTRAP_READY" /\ boot.tenantReady) \/ promise # NoRun

\* assertTenantReadyInvariant, of the store in memory.  Neither a session nor a
\* generation is kept with it that could be compared.
TenantReady == tenant.ready /\ tenant.user # NoPerson

\* The store in memory is taken if it is ready.
FastPath ==
    /\ TenantReady
    /\ boot' = [boot EXCEPT !.step = "BOOTSTRAP_READY", !.authReady = TRUE,
                            !.user = tenant.user, !.tenantReady = TRUE, !.store = tenant.store]
    /\ chats' = chats \cup {[gen |-> generation, store |-> tenant.store]}
    /\ remembered' = remembered \cup {tenant.user, tenant.store}
    /\ UNCHANGED <<generation, promise, runs>>

\* A new run waits for the sign-in.
StartRun(r) ==
    /\ ~TenantReady
    /\ runs[r].pc = "off"
    /\ promise' = r
    /\ runs' = [runs EXCEPT ![r] = [OffRun EXCEPT !.pc = "auth", !.gen = generation]]
    /\ boot' = [boot EXCEPT !.step = "WAITING_AUTH"]
    /\ UNCHANGED <<generation, chats, remembered>>

ExecuteBootstrap == ~Needless /\ (FastPath \/ \E r \in Runs : StartRun(r))

\* A dashboard is mounted.
Mount ==
    /\ ExecuteBootstrap
    /\ UNCHANGED <<auth, tenant, known, switched>>

-----------------------------------------------------------------------------
(* The sign-in changes, and the coordinator's listener runs at once *)

\* Somebody is signed in, here or in another tab.
SignIn(u) ==
    /\ auth # u
    /\ auth' = u
    /\ known' = known \cup {u}
    /\ switched' = (switched \/ auth \in People)
    /\ IF boot.step \in {"WAITING_AUTH", "IDLE"} /\ ~Needless
       THEN ExecuteBootstrap
       ELSE UNCHANGED <<boot, generation, promise, runs, chats, remembered>>
    /\ UNCHANGED tenant

\* The session is being restored again.
AwaitSession ==
    /\ auth \in {"AUTH_REQUIRED", "AUTH_ERROR"}
    /\ auth' = "WAITING"
    /\ boot' = IF boot.step = "IDLE" \/ ~boot.authReady
               THEN [boot EXCEPT !.step = "WAITING_AUTH", !.authReady = FALSE] ELSE boot
    /\ UNCHANGED <<generation, promise, runs, chats, tenant, known, remembered, switched>>

\* The session cannot be read; the coordinator does not react.
AuthError ==
    /\ auth = "WAITING"
    /\ auth' = "AUTH_ERROR"
    /\ UNCHANGED <<boot, generation, promise, runs, chats, tenant, known, remembered, switched>>

\* Mutant: a lost session does not count as a new generation.
SessionLost_SameGeneration ==
    /\ auth # "AUTH_REQUIRED"
    /\ auth' = "AUTH_REQUIRED"
    /\ promise' = NoRun
    /\ boot' = Cleared("AUTH_REQUIRED")
    /\ remembered' = {} /\ switched' = FALSE
    /\ UNCHANGED <<generation, runs, chats, tenant, known>>

SessionLost ==
    /\ auth # "AUTH_REQUIRED" /\ generation < MaxGeneration
    /\ auth' = "AUTH_REQUIRED"
    /\ generation' = generation + 1
    /\ promise' = NoRun
    /\ boot' = Cleared("AUTH_REQUIRED")
    /\ remembered' = {} /\ switched' = FALSE
    /\ UNCHANGED <<runs, chats, tenant, known>>

\* signOut, after its first await: the managers, then the coordinator, are
\* reset.  (The generation is counted up more than once; only whether it is
\* still the same matters.)
SignOut ==
    /\ generation < MaxGeneration
    /\ auth' = "AUTH_REQUIRED"
    /\ generation' = generation + 1
    /\ promise' = NoRun
    /\ boot' = Cleared("IDLE")
    /\ remembered' = {} /\ switched' = FALSE
    /\ UNCHANGED <<runs, chats, tenant, known>>

-----------------------------------------------------------------------------
(* A run goes on.  When it ends, its finally block clears the promise,     *)
(* whoever's it is.                                                        *)

Stale(r) == runs[r].gen # generation

EndRun(r) ==
    /\ promise' = NoRun
    /\ runs' = [runs EXCEPT ![r] = OffRun]

\* A stale run ends; it does nothing but clear the promise.
DropRun(r) ==
    /\ runs[r].pc \in {"auth", "resolved"} /\ Stale(r)
    /\ EndRun(r)
    /\ UNCHANGED <<auth, boot, generation, chats, tenant, known, remembered, switched>>

\* After ten seconds, or because the session is known to be absent.
AuthMissing(r) ==
    /\ runs[r].pc = "auth" /\ ~Stale(r) /\ auth \notin People
    /\ boot' = [boot EXCEPT !.step = IF auth = "WAITING" THEN "WAITING_AUTH" ELSE "AUTH_REQUIRED",
                            !.authReady = FALSE, !.user = NoPerson]
    /\ EndRun(r)
    /\ UNCHANGED <<auth, generation, chats, tenant, known, remembered, switched>>

\* Mutant: the store is asked for whether or not somebody is signed in.
AuthAnswered_Unchecked(r) ==
    /\ runs[r].pc = "auth" /\ ~Stale(r)
    /\ runs' = [runs EXCEPT ![r].pc = "tenant", ![r].user = auth]
    /\ boot' = [boot EXCEPT !.step = "TENANT_RESOLVING", !.authReady = TRUE, !.user = auth]
    /\ UNCHANGED <<auth, generation, promise, chats, tenant, known, remembered, switched>>

\* The user is signed in: the store is asked for.  The resolver first gives up
\* the store in memory if it is another user's, unless the bridge has it wait.
AuthAnswered(r) ==
    /\ runs[r].pc = "auth" /\ ~Stale(r) /\ auth \in People
    /\ runs' = [runs EXCEPT ![r].pc = "tenant", ![r].user = auth]
    /\ boot' = [boot EXCEPT !.step = "TENANT_RESOLVING", !.authReady = TRUE, !.user = auth]
    /\ \/ UNCHANGED tenant
       \/ tenant.user \notin {NoPerson, auth} /\ tenant' = NoStore(auth)
    /\ UNCHANGED <<auth, generation, promise, chats, known, remembered, switched>>

-----------------------------------------------------------------------------
(* The store is resolved *)

\* setActiveTenant with a store that is ready.  A store of another user is not
\* replaced at once but given up.
SetActiveTenant(u, st) ==
    tenant' = IF tenant.user \in {NoPerson, u}
              THEN [user |-> u, store |-> st, ready |-> TRUE] ELSE NoStore(u)

\* setActiveTenant without one: a store that is ready stays.
AnnounceTenant(u) ==
    tenant' = IF tenant.ready /\ tenant.user \in {NoPerson, u}
              THEN [tenant EXCEPT !.user = u] ELSE NoStore(u)

\* getCanonicalTenantContext comes to its result, whatever happened to the run
\* since it was asked.
Resolved(r, st, ok) ==
    runs' = [runs EXCEPT ![r].pc = "resolved", ![r].store = st, ![r].verified = ok]

\* The user's own store, found in the database or provisioned, is set first.
ResolveOwn(r) ==
    /\ Resolved(r, runs[r].user, TRUE)
    /\ SetActiveTenant(runs[r].user, runs[r].user)

\* A store found in memory, in localStorage or among earlier results is said to
\* be the user's, and verified, without a look at whose it is.
ResolveRemembered(r) ==
    \E st \in known :
        /\ Resolved(r, st, TRUE)
        /\ UNCHANGED tenant \/ SetActiveTenant(runs[r].user, st)

\* The lookup fails, or there is nothing that could be verified.
ResolveNothing(r) ==
    /\ \E st \in {NoPerson, tenant.store} : Resolved(r, st, FALSE)
    /\ UNCHANGED tenant

ResolveTenant(r) ==
    /\ runs[r].pc = "tenant"
    /\ ResolveOwn(r) \/ ResolveRemembered(r) \/ ResolveNothing(r)
    /\ UNCHANGED <<auth, boot, generation, promise, chats, known, remembered, switched>>

\* What a run was given that is not its user's own: it was in memory.
Foreign(r) == {runs[r].store} \ {runs[r].user, NoPerson}

\* Mutant: a resolved store is shown whatever happened since it was asked for.
TenantAnswered_Late(r) ==
    LET st == runs[r].store
    IN  /\ runs[r].pc = "resolved" /\ runs[r].verified
        /\ SetActiveTenant(runs[r].user, st)
        /\ boot' = [boot EXCEPT !.step = "BOOTSTRAP_READY", !.tenantReady = TRUE, !.store = st]
        /\ chats' = chats \cup {[gen |-> runs[r].gen, store |-> st]}
        /\ remembered' = remembered \cup Foreign(r)
        /\ EndRun(r)
        /\ UNCHANGED <<auth, generation, known, switched>>

TenantAnswered(r) ==
    LET st == runs[r].store
    IN  /\ runs[r].pc = "resolved" /\ ~Stale(r) /\ runs[r].verified
        /\ SetActiveTenant(runs[r].user, st)
        /\ boot' = [boot EXCEPT !.step = "BOOTSTRAP_READY", !.tenantReady = TRUE, !.store = st]
        /\ chats' = chats \cup {[gen |-> runs[r].gen, store |-> st]}
        /\ remembered' = remembered \cup Foreign(r)
        /\ EndRun(r)
        /\ UNCHANGED <<auth, generation, known, switched>>

\* The store is not ready, or there is none.
TenantUnverified(r) ==
    /\ runs[r].pc = "resolved" /\ ~Stale(r) /\ ~runs[r].verified
    /\ boot' = [boot EXCEPT !.step = "BOOTSTRAP_FAILED", !.tenantReady = FALSE,
                            !.store = runs[r].store]
    /\ remembered' = remembered \cup Foreign(r)
    /\ EndRun(r)
    /\ UNCHANGED <<auth, generation, chats, tenant, known, switched>>

\* An exception is shown without a look at the generation.
RunThrows(r) ==
    /\ runs[r].pc # "off"
    /\ boot' = [boot EXCEPT !.step = "BOOTSTRAP_FAILED"]
    /\ EndRun(r)
    /\ UNCHANGED <<auth, generation, chats, tenant, known, remembered, switched>>

-----------------------------------------------------------------------------
(* The background chat *)

\* Mutant: the chat of an older generation is shown too.
ChatAnswered_Late(c) ==
    /\ c \in chats
    /\ chats' = chats \ {c}
    /\ boot' = [boot EXCEPT !.step = "BOOTSTRAP_READY", !.chat = c.store]
    /\ UNCHANGED <<auth, generation, promise, runs, tenant, known, remembered, switched>>

\* A chat of this generation makes the step ready whatever it was.
ChatAnswered(c) ==
    /\ c \in chats
    /\ chats' = chats \ {c}
    /\ boot' = IF c.gen = generation
               THEN [boot EXCEPT !.step = "BOOTSTRAP_READY", !.chat = c.store] ELSE boot
    /\ UNCHANGED <<auth, generation, promise, runs, tenant, known, remembered, switched>>

\* No session, no chat, or an exception.
ChatFails(c) ==
    /\ c \in chats
    /\ chats' = chats \ {c}
    /\ UNCHANGED <<auth, boot, generation, promise, runs, tenant, known, remembered, switched>>

-----------------------------------------------------------------------------
(* What else changes the store in memory *)

\* A view announces a user, resolves a store by itself (which may come late,
\* for a user who has signed out since) or names the store to work with.
ProvideTenant ==
    /\ \E u, st \in known :
          \/ AnnounceTenant(u)
          \/ SetActiveTenant(u, st)
          \/ tenant' = [tenant EXCEPT !.store = st, !.ready = TRUE]
    /\ UNCHANGED <<auth, boot, generation, promise, runs, chats, known, remembered, switched>>

RunStep(r) ==
    \/ DropRun(r)
    \/ AuthAnswered(r)
    \/ AuthMissing(r)
    \/ ResolveTenant(r)
    \/ TenantAnswered(r)
    \/ TenantUnverified(r)
    \/ RunThrows(r)

BootDone == generation = MaxGeneration /\ UNCHANGED bootVars

BootNext ==
    \/ Mount
    \/ \E u \in People : SignIn(u)
    \/ AwaitSession
    \/ AuthError
    \/ SessionLost
    \/ SignOut
    \/ \E r \in Runs : RunStep(r)
    \/ \E c \in chats : ChatAnswered(c) \/ ChatFails(c)
    \/ ProvideTenant
    \/ BootDone

BootSpec == BootInit /\ [][BootNext]_bootVars

-----------------------------------------------------------------------------
(* The user, the store and the chat on the screen are the signed-in user's *)
(* own, or were in the memory of the browser when this generation took     *)
(* them from there: the answers of runs and chats that outlive a sign-out  *)
(* do not themselves come to the screen of the next user.  (They come to   *)
(* the memory, from which the next user may be given them.  A user who     *)
(* replaces another without a sign-out is not covered.)                    *)
ShownIsSignedIn ==
    ~switched => {boot.user, boot.store, boot.chat} \subseteq {NoPerson, auth} \cup remembered

(* "Singleflight ... pipeline": two runs of one generation are never under *)
(* way together.                                                           *)
SingleFlight ==
    \A r, s \in Runs :
        runs[r].pc # "off" /\ runs[s].pc # "off" /\ ~Stale(r) /\ ~Stale(s) => r = s
===============================================================================
