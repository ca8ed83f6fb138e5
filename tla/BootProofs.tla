------------------------------ MODULE BootProofs ------------------------------
(***************************************************************************)
(* The bootstrap itself brings nobody else's store to the screen, for any  *)
(* users and runs and any number of generations.                           *)
(***************************************************************************)
EXTENDS DashboardBootstrap, TLAPS

(* No run and no chat is of a generation to come. *)
NoneAhead ==
    /\ \A r \in Runs : runs[r].gen <= generation
    /\ \A c \in chats : c.gen <= generation

(* Whoever a store is resolved for is a user, and so is whoever has one. *)
StoresHaveUsers ==
    /\ \A r \in Runs : runs[r].pc \in {"tenant", "resolved"} => runs[r].user \in People
    /\ \A r \in Runs : runs[r].verified => runs[r].store \in People
    /\ tenant.ready => tenant.store \in People

(* A run of this generation that resolves a store does so for the user who *)
(* is signed in and shown.                                                 *)
RunsAreOfUser ==
    ~switched => \A r \in Runs :
        runs[r].pc \in {"tenant", "resolved"} /\ runs[r].gen = generation =>
            runs[r].user = auth /\ auth \in People

(* A chat of this generation is the signed-in user's, or a remembered one's. *)
ChatsAreOfUser ==
    ~switched => \A c \in chats : c.gen = generation => c.store \in {auth} \cup remembered

BootInv == /\ BootTypeOK
           /\ NoneAhead
           /\ StoresHaveUsers
           /\ RunsAreOfUser
           /\ ChatsAreOfUser
           /\ ShownIsSignedIn

LEMMA BootInitInv == BootInit => BootInv
  <1> SUFFICES ASSUME BootInit PROVE BootInv
    OBVIOUS
  <1> USE BootAssumption DEF BootInit
  <1>1. boot \in BootType
    BY DEF Cleared, BootType, BootSteps, Person
  <1>2. OffRun \in RunType
    BY DEF OffRun, RunType, Person
  <1>3. BootTypeOK
    <2>1. runs \in [Runs -> RunType]
      BY <1>2
    <2>2. generation \in 1..MaxGeneration
      OBVIOUS
    <2>3. tenant \in TenantType
      <3>1. CASE tenant = NoStore(NoPerson)
        BY <3>1 DEF NoStore, TenantType, Person
      <3>2. CASE tenant \in [user : Person, store : People, ready : {TRUE}]
        BY <3>2 DEF TenantType, Person
      <3> QED BY <3>1, <3>2 DEF Restored
    <2> QED BY <1>1, <2>1, <2>2, <2>3 DEF BootTypeOK
  <1>4. NoneAhead /\ StoresHaveUsers /\ RunsAreOfUser /\ ChatsAreOfUser
    <2>1. tenant.ready => tenant.store \in People
      <3>1. CASE tenant = NoStore(NoPerson)
        BY <3>1 DEF NoStore
      <3>2. CASE tenant \in [user : Person, store : People, ready : {TRUE}]
        BY <3>2
      <3> QED BY <3>1, <3>2 DEF Restored
    <2> QED BY <2>1 DEF NoneAhead, StoresHaveUsers, RunsAreOfUser, ChatsAreOfUser, OffRun
  <1>5. ShownIsSignedIn
    BY DEF ShownIsSignedIn, Cleared
  <1> QED BY <1>3, <1>4, <1>5 DEF BootInv

-----------------------------------------------------------------------------
(* The sign-in stays, or somebody is signed in: the two ways in which      *)
(* executeBootstrap is called.                                             *)
AuthStep ==
    \/ auth' = auth /\ switched' = switched /\ known' = known
    \/ /\ auth' \in People /\ known' = known \cup {auth'}
       /\ switched' = (switched \/ auth \in People)

LEMMA FastPathInv ==
  ASSUME BootInv, FastPath, tenant' = tenant, AuthStep
  PROVE  BootInv'
  <1> USE BootAssumption DEF BootInv, BootTypeOK
  <1>1. /\ tenant.user \in People /\ tenant.store \in People
        /\ remembered' = remembered \cup {tenant.user, tenant.store}
    BY DEF FastPath, TenantReady, TenantType, Person, StoresHaveUsers
  <1>2. /\ boot' \in BootType /\ boot'.user = tenant.user
        /\ boot'.store = tenant.store /\ boot'.chat = boot.chat
    BY <1>1 DEF FastPath, BootType, BootSteps, Person
  <1>3. BootTypeOK'
    <2>1. chats' \subseteq [gen : 1..MaxGeneration, store : People]
      BY <1>1 DEF FastPath
    <2> QED BY <1>1, <1>2, <2>1 DEF FastPath, AuthStep
  <1>4. NoneAhead'
    BY DEF FastPath, NoneAhead
  <1>5. StoresHaveUsers'
    BY DEF FastPath, StoresHaveUsers
  <1>6. RunsAreOfUser'
    BY <1>1 DEF FastPath, RunsAreOfUser, AuthStep
  <1>7. ChatsAreOfUser'
    <2>1. \A c \in chats : c.store \in People
      OBVIOUS
    <2>2. chats' = chats \cup {[gen |-> generation, store |-> tenant.store]}
          /\ generation' = generation
      BY DEF FastPath
    <2> SUFFICES ASSUME ~switched', NEW c \in chats', c.gen = generation
                 PROVE  c.store \in {auth'} \cup remembered'
      BY <2>2 DEF ChatsAreOfUser
    <2>3. CASE c \in chats
      BY <1>1, <2>1, <2>3 DEF ChatsAreOfUser, AuthStep
    <2>4. CASE c \notin chats
      BY <1>1, <2>2, <2>4
    <2> QED BY <2>3, <2>4
  <1>8. ShownIsSignedIn'
    <2>1. boot.chat \in Person
      BY DEF BootType
    <2> QED BY <1>1, <1>2, <2>1 DEF ShownIsSignedIn, AuthStep, Person
  <1> QED BY <1>3, <1>4, <1>5, <1>6, <1>7, <1>8

LEMMA StartRunInv ==
  ASSUME BootInv, NEW r \in Runs, StartRun(r), tenant' = tenant, AuthStep
  PROVE  BootInv'
  <1> USE BootAssumption DEF BootInv, BootTypeOK
  <1>1. BootTypeOK'
    <2>1. boot' \in BootType
      BY DEF StartRun, BootType, BootSteps
    <2>2. runs' \in [Runs -> RunType]
      BY DEF StartRun, OffRun, RunType, Person
    <2> QED BY <2>1, <2>2 DEF StartRun, AuthStep
  <1>2. /\ \A s \in Runs \ {r} : runs'[s] = runs[s]
        /\ runs'[r].pc = "auth" /\ runs'[r].gen = generation /\ ~runs'[r].verified
    BY DEF StartRun, OffRun
  <1>3. /\ boot'.user = boot.user
        /\ boot'.store = boot.store /\ boot'.chat = boot.chat
    BY DEF StartRun, BootType
  <1>4. NoneAhead'
    BY <1>2 DEF StartRun, NoneAhead
  <1>5. StoresHaveUsers'
    BY <1>2 DEF StoresHaveUsers
  <1>6. RunsAreOfUser'
    BY <1>2, <1>3 DEF StartRun, RunsAreOfUser, AuthStep
  <1>7. ChatsAreOfUser'
    BY DEF StartRun, ChatsAreOfUser, AuthStep
  <1>8. ShownIsSignedIn'
    <2>1. boot.user \in Person /\ boot.store \in Person /\ boot.chat \in Person
      BY DEF BootType
    <2> QED BY <1>3, <2>1 DEF StartRun, ShownIsSignedIn, AuthStep, Person
  <1> QED BY <1>1, <1>4, <1>5, <1>6, <1>7, <1>8

-----------------------------------------------------------------------------
(* The steps of the sign-in *)

LEMMA SignInInv ==
  ASSUME BootInv, NEW u \in People, SignIn(u)
  PROVE  BootInv'
  <1> USE BootAssumption DEF BootInv, BootTypeOK
  <1>1. AuthStep /\ tenant' = tenant
    BY DEF SignIn, AuthStep
  <1>2. CASE ExecuteBootstrap
    BY <1>1, <1>2, FastPathInv, StartRunInv DEF ExecuteBootstrap
  <1>3. CASE UNCHANGED <<boot, generation, promise, runs, chats, remembered>>
    <2>1. BootTypeOK' /\ NoneAhead' /\ StoresHaveUsers'
      BY <1>1, <1>3 DEF SignIn, NoneAhead, StoresHaveUsers
    <2>2. RunsAreOfUser' /\ ChatsAreOfUser'
      BY <1>3 DEF SignIn, RunsAreOfUser, ChatsAreOfUser
    <2>3. ShownIsSignedIn'
      <3>1. boot.user \in Person /\ boot.store \in Person /\ boot.chat \in Person
        BY DEF BootType
      <3> QED BY <1>3, <3>1 DEF SignIn, ShownIsSignedIn, Person
    <2> QED BY <2>1, <2>2, <2>3
  <1> QED BY <1>2, <1>3 DEF SignIn

LEMMA AwaitSessionInv ==
  ASSUME BootInv, AwaitSession
  PROVE  BootInv'
  <1> USE BootAssumption DEF BootInv, BootTypeOK
  <1>1. boot' \in BootType /\ boot'.user = boot.user
        /\ boot'.store = boot.store /\ boot'.chat = boot.chat
    BY DEF AwaitSession, BootType, BootSteps
  <1>2. boot.user \in Person /\ boot.store \in Person /\ boot.chat \in Person
    BY DEF BootType
  <1>3. BootTypeOK' /\ NoneAhead' /\ StoresHaveUsers'
    BY <1>1 DEF AwaitSession, NoneAhead, StoresHaveUsers
  <1>4. RunsAreOfUser' /\ ChatsAreOfUser'
    BY DEF AwaitSession, RunsAreOfUser, ChatsAreOfUser
  <1>5. ShownIsSignedIn'
    BY <1>1, <1>2 DEF AwaitSession, ShownIsSignedIn, Person
  <1> QED BY <1>3, <1>4, <1>5

LEMMA AuthErrorInv ==
  ASSUME BootInv, AuthError
  PROVE  BootInv'
  <1> USE BootAssumption DEF BootInv, BootTypeOK
  <1>1. boot.user \in Person /\ boot.store \in Person /\ boot.chat \in Person
    BY DEF BootType
  <1>2. BootTypeOK' /\ NoneAhead' /\ StoresHaveUsers'
    BY DEF AuthError, NoneAhead, StoresHaveUsers
  <1>3. RunsAreOfUser' /\ ChatsAreOfUser'
    BY DEF AuthError, RunsAreOfUser, ChatsAreOfUser
  <1>4. ShownIsSignedIn'
    BY <1>1 DEF AuthError, ShownIsSignedIn, Person
  <1> QED BY <1>2, <1>3, <1>4

(* A new generation leaves every run and every chat behind. *)
LEMMA NewGenerationInv ==
  ASSUME BootInv, SessionLost \/ SignOut
  PROVE  BootInv'
  <1> USE BootAssumption DEF BootInv, BootTypeOK
  <1>1. PICK step \in BootSteps : boot' = Cleared(step)
    BY DEF SessionLost, SignOut, BootSteps
  <1>2. /\ generation < MaxGeneration /\ generation' = generation + 1
        /\ auth' = "AUTH_REQUIRED" /\ promise' = NoRun
        /\ remembered' = {} /\ ~switched' /\ switched' \in BOOLEAN
        /\ UNCHANGED <<runs, chats, tenant, known>>
    BY DEF SessionLost, SignOut
  <1>3. BootTypeOK'
    BY <1>1, <1>2 DEF Cleared, BootType, Person
  <1>4. \A r \in Runs : runs[r].gen \in Nat
    BY DEF RunType
  <1>5. \A c \in chats : c.gen \in Nat
    OBVIOUS
  <1>6. NoneAhead' /\ StoresHaveUsers'
    BY <1>2, <1>4, <1>5 DEF NoneAhead, StoresHaveUsers
  <1>7. RunsAreOfUser'
    BY <1>2, <1>4 DEF RunsAreOfUser, NoneAhead
  <1>8. ChatsAreOfUser'
    BY <1>2, <1>5 DEF ChatsAreOfUser, NoneAhead
  <1>9. ShownIsSignedIn'
    BY <1>1 DEF ShownIsSignedIn, Cleared
  <1> QED BY <1>3, <1>6, <1>7, <1>8, <1>9

-----------------------------------------------------------------------------
(* The steps of a run *)

(* A run that ends is as if it had never been.  What else changes is said  *)
(* by the step.                                                            *)
LEMMA EndRunFacts ==
  ASSUME BootInv, NEW r \in Runs, EndRun(r)
  PROVE  /\ runs' \in [Runs -> RunType] /\ promise' = NoRun
         /\ \A s \in Runs : runs'[s] = IF s = r THEN OffRun ELSE runs[s]
         /\ generation' = generation => \A s \in Runs : runs'[s].gen <= generation'
         /\ \A s \in Runs :
              /\ runs'[s].pc \in {"tenant", "resolved"} => runs'[s].user \in People
              /\ runs'[s].verified => runs'[s].store \in People
  <1> USE BootAssumption DEF BootInv, BootTypeOK
  <1>1. OffRun \in RunType /\ OffRun.pc = "off" /\ OffRun.gen = 1 /\ ~OffRun.verified
    BY DEF OffRun, RunType, Person
  <1>2. \A s \in Runs : runs'[s] = IF s = r THEN OffRun ELSE runs[s]
    BY DEF EndRun
  <1>3. runs' \in [Runs -> RunType] /\ promise' = NoRun
    BY <1>1 DEF EndRun
  <1>4. generation' = generation => \A s \in Runs : runs'[s].gen <= generation'
    BY <1>1, <1>2 DEF NoneAhead
  <1>5. \A s \in Runs :
          /\ runs'[s].pc \in {"tenant", "resolved"} => runs'[s].user \in People
          /\ runs'[s].verified => runs'[s].store \in People
    BY <1>1, <1>2 DEF StoresHaveUsers
  <1> QED BY <1>2, <1>3, <1>4, <1>5

LEMMA DropRunInv ==
  ASSUME BootInv, NEW r \in Runs, DropRun(r) \/ RunThrows(r)
  PROVE  BootInv'
  <1> USE BootAssumption DEF BootInv, BootTypeOK
  <1>1. EndRun(r) /\ UNCHANGED <<auth, generation, chats, tenant, known, remembered, switched>>
    BY DEF DropRun, RunThrows
  <1>2. boot' \in BootType /\ boot'.user = boot.user
        /\ boot'.store = boot.store /\ boot'.chat = boot.chat
    BY DEF DropRun, RunThrows, BootType, BootSteps
  <1>3. BootTypeOK' /\ NoneAhead' /\ StoresHaveUsers'
    BY <1>1, <1>2, EndRunFacts DEF NoneAhead, StoresHaveUsers
  <1>4. RunsAreOfUser'
    BY <1>1, <1>2, EndRunFacts DEF RunsAreOfUser, OffRun
  <1>5. ChatsAreOfUser' /\ ShownIsSignedIn'
    BY <1>1, <1>2 DEF ChatsAreOfUser, ShownIsSignedIn
  <1> QED BY <1>3, <1>4, <1>5

(* What setActiveTenant leaves is a store for a user. *)
LEMMA SetActiveTenantType ==
  ASSUME BootTypeOK, NEW u \in People, NEW st \in People,
         SetActiveTenant(u, st) \/ AnnounceTenant(u) \/ tenant' = NoStore(u),
         tenant.ready => tenant.store \in People
  PROVE  tenant' \in TenantType /\ (tenant'.ready => tenant'.store \in People)
  <1> USE BootAssumption DEF BootTypeOK, TenantType, Person
  <1>1. CASE tenant' = NoStore(u)
    BY <1>1 DEF NoStore
  <1>2. CASE tenant' = [user |-> u, store |-> st, ready |-> TRUE]
    BY <1>2
  <1>3. CASE tenant.ready /\ tenant' = [tenant EXCEPT !.user = u]
    BY <1>3
  <1> QED BY <1>1, <1>2, <1>3 DEF SetActiveTenant, AnnounceTenant

LEMMA AuthAnsweredInv ==
  ASSUME BootInv, NEW r \in Runs, AuthAnswered(r)
  PROVE  BootInv'
  <1> USE BootAssumption DEF BootInv, BootTypeOK
  <1>1. /\ auth \in People /\ runs[r].gen = generation
        /\ UNCHANGED <<auth, generation, promise, chats, known, remembered, switched>>
    BY DEF AuthAnswered, Stale
  <1>2. boot' \in BootType /\ boot'.user = auth
        /\ boot'.store = boot.store /\ boot'.chat = boot.chat
    BY <1>1 DEF AuthAnswered, BootType, BootSteps, Person
  <1>3. /\ runs' \in [Runs -> RunType]
        /\ \A s \in Runs : /\ runs'[s].gen = runs[s].gen /\ runs'[s].store = runs[s].store
                           /\ runs'[s].verified = runs[s].verified
        /\ \A s \in Runs \ {r} : runs'[s] = runs[s]
        /\ runs'[r].user = auth
    BY <1>1 DEF AuthAnswered, RunType, Person
  <1>4. tenant' \in TenantType /\ (tenant'.ready => tenant'.store \in People)
    BY <1>1, SetActiveTenantType DEF AuthAnswered, StoresHaveUsers
  <1>5. BootTypeOK'
    BY <1>1, <1>2, <1>3, <1>4
  <1>6. NoneAhead'
    BY <1>1, <1>3 DEF NoneAhead
  <1>7. StoresHaveUsers'
    <2>1. ASSUME NEW s \in Runs, runs'[s].pc \in {"tenant", "resolved"}
          PROVE  runs'[s].user \in People
      <3>1. CASE s = r BY <1>1, <1>3, <3>1
      <3>2. CASE s # r BY <1>3, <2>1, <3>2 DEF StoresHaveUsers
      <3> QED BY <3>1, <3>2
    <2>2. \A s \in Runs : runs'[s].verified => runs'[s].store \in People
      BY <1>3 DEF StoresHaveUsers
    <2> QED BY <1>4, <2>1, <2>2 DEF StoresHaveUsers
  <1>8. RunsAreOfUser'
    <2> SUFFICES ASSUME ~switched, NEW s \in Runs,
                        runs'[s].pc \in {"tenant", "resolved"}, runs'[s].gen = generation
                 PROVE  runs'[s].user = auth
      BY <1>1 DEF RunsAreOfUser
    <2>1. CASE s = r BY <1>3, <2>1
    <2>2. CASE s # r BY <1>3, <2>2 DEF RunsAreOfUser
    <2> QED BY <2>1, <2>2
  <1>9. ChatsAreOfUser' /\ ShownIsSignedIn'
    BY <1>1, <1>2 DEF ChatsAreOfUser, ShownIsSignedIn
  <1> QED BY <1>5, <1>6, <1>7, <1>8, <1>9

LEMMA AuthMissingInv ==
  ASSUME BootInv, NEW r \in Runs, AuthMissing(r)
  PROVE  BootInv'
  <1> USE BootAssumption DEF BootInv, BootTypeOK
  <1>1. /\ auth \notin People /\ EndRun(r)
        /\ UNCHANGED <<auth, generation, chats, tenant, known, remembered, switched>>
    BY DEF AuthMissing
  <1>2. boot' \in BootType /\ boot'.user = NoPerson
        /\ boot'.store = boot.store /\ boot'.chat = boot.chat
    BY DEF AuthMissing, BootType, BootSteps, Person
  <1>3. BootTypeOK' /\ NoneAhead' /\ StoresHaveUsers'
    BY <1>1, <1>2, EndRunFacts DEF NoneAhead, StoresHaveUsers
  <1>4. RunsAreOfUser'
    BY <1>1, EndRunFacts DEF RunsAreOfUser, OffRun
  <1>5. ChatsAreOfUser'
    BY <1>1 DEF ChatsAreOfUser
  <1>6. ShownIsSignedIn'
    BY <1>1, <1>2 DEF ShownIsSignedIn
  <1> QED BY <1>3, <1>4, <1>5, <1>6

(* The resolver comes to a result for the user it was asked for. *)
LEMMA ResolveTenantInv ==
  ASSUME BootInv, NEW r \in Runs, ResolveTenant(r)
  PROVE  BootInv'
  <1> USE BootAssumption DEF BootInv, BootTypeOK
  <1>1. /\ runs[r].pc = "tenant" /\ runs[r].user \in People
        /\ UNCHANGED <<auth, boot, generation, promise, chats, known, remembered, switched>>
    BY DEF ResolveTenant, StoresHaveUsers
  <1>2. PICK st \in Person, ok \in BOOLEAN :
          /\ Resolved(r, st, ok) /\ (ok => st \in People)
          /\ \/ tenant' = tenant
             \/ st \in People /\ SetActiveTenant(runs[r].user, st)
    <2>1. CASE ResolveOwn(r)
      BY <1>1, <2>1 DEF ResolveOwn, Person
    <2>2. CASE ResolveRemembered(r)
      BY <2>2 DEF ResolveRemembered, Person
    <2>3. CASE ResolveNothing(r)
      BY <2>3 DEF ResolveNothing, TenantType, Person
    <2> QED BY <2>1, <2>2, <2>3 DEF ResolveTenant
  <1>3. /\ runs' \in [Runs -> RunType]
        /\ \A s \in Runs : runs'[s].gen = runs[s].gen /\ runs'[s].user = runs[s].user
        /\ \A s \in Runs \ {r} : runs'[s] = runs[s]
        /\ runs'[r].store = st /\ runs'[r].verified = ok
    BY <1>2 DEF Resolved, RunType
  <1>4. tenant' \in TenantType /\ (tenant'.ready => tenant'.store \in People)
    BY <1>1, <1>2, SetActiveTenantType DEF StoresHaveUsers
  <1>5. BootTypeOK' /\ NoneAhead'
    BY <1>1, <1>3, <1>4 DEF NoneAhead
  <1>6. StoresHaveUsers'
    <2>1. \A s \in Runs : /\ runs'[s].pc \in {"tenant", "resolved"} => runs'[s].user \in People
                          /\ runs'[s].verified => runs'[s].store \in People
      <3> TAKE s \in Runs
      <3>1. CASE s = r BY <1>1, <1>2, <1>3, <3>1
      <3>2. CASE s # r BY <1>3, <3>2 DEF StoresHaveUsers
      <3> QED BY <3>1, <3>2
    <2> QED BY <1>4, <2>1 DEF StoresHaveUsers
  <1>7. RunsAreOfUser'
    <2> SUFFICES ASSUME ~switched, NEW s \in Runs,
                        runs'[s].pc \in {"tenant", "resolved"}, runs'[s].gen = generation
                 PROVE  runs'[s].user = auth /\ auth \in People
      BY <1>1 DEF RunsAreOfUser
    <2>1. runs[s].pc \in {"tenant", "resolved"}
      BY <1>1, <1>3
    <2> QED BY <1>3, <2>1 DEF RunsAreOfUser
  <1>8. ChatsAreOfUser' /\ ShownIsSignedIn'
    BY <1>1 DEF ChatsAreOfUser, ShownIsSignedIn
  <1> QED BY <1>5, <1>6, <1>7, <1>8

(* What a run of this generation is given is its user's, or counts as       *)
(* remembered.                                                             *)
LEMMA GivenFacts ==
  ASSUME BootInv, NEW r \in Runs, runs[r].pc = "resolved", ~Stale(r),
         remembered' = remembered \cup Foreign(r)
  PROVE  /\ remembered' \subseteq People
         /\ ~switched => runs[r].store \in {NoPerson, auth} \cup remembered'
  <1> USE BootAssumption DEF BootInv, BootTypeOK
  <1>1. runs[r].store \in Person /\ runs[r].gen = generation
    BY DEF RunType, Stale
  <1>2. ~switched => runs[r].user = auth
    BY <1>1 DEF RunsAreOfUser
  <1> QED BY <1>1, <1>2 DEF Foreign, Person

LEMMA TenantAnsweredInv ==
  ASSUME BootInv, NEW r \in Runs, TenantAnswered(r)
  PROVE  BootInv'
  <1> USE BootAssumption DEF BootInv, BootTypeOK
  <1> DEFINE st == runs[r].store
             new == [gen |-> generation, store |-> st]
  <1>1. /\ runs[r].pc = "resolved" /\ ~Stale(r) /\ EndRun(r)
        /\ runs[r].user \in People /\ st \in People
        /\ remembered' = remembered \cup Foreign(r)
        /\ UNCHANGED <<auth, generation, known, switched>>
    BY DEF TenantAnswered, StoresHaveUsers
  <1>2. /\ remembered' \subseteq People
        /\ ~switched => st \in {auth} \cup remembered'
    BY <1>1, GivenFacts
  <1>3. tenant' \in TenantType /\ (tenant'.ready => tenant'.store \in People)
    BY <1>1, SetActiveTenantType DEF TenantAnswered, StoresHaveUsers
  <1>4. boot' \in BootType /\ boot'.user = boot.user /\ boot'.store = st
        /\ boot'.chat = boot.chat
    BY <1>1 DEF TenantAnswered, BootType, BootSteps, Person
  <1>5. chats' = chats \cup {new}
    BY <1>1 DEF TenantAnswered, Stale
  <1>6. chats' \subseteq [gen : 1..MaxGeneration, store : People]
    BY <1>1, <1>5
  <1>7. BootTypeOK' /\ NoneAhead' /\ StoresHaveUsers'
    BY <1>1, <1>2, <1>3, <1>4, <1>5, <1>6, EndRunFacts DEF NoneAhead, StoresHaveUsers
  <1>8. RunsAreOfUser'
    BY <1>1, EndRunFacts DEF RunsAreOfUser, OffRun
  <1>9. ChatsAreOfUser' /\ ShownIsSignedIn'
    BY <1>1, <1>2, <1>4, <1>5 DEF ChatsAreOfUser, ShownIsSignedIn
  <1> QED BY <1>7, <1>8, <1>9

LEMMA TenantUnverifiedInv ==
  ASSUME BootInv, NEW r \in Runs, TenantUnverified(r)
  PROVE  BootInv'
  <1> USE BootAssumption DEF BootInv, BootTypeOK
  <1>1. /\ runs[r].pc = "resolved" /\ ~Stale(r) /\ EndRun(r) /\ runs[r].store \in Person
        /\ remembered' = remembered \cup Foreign(r)
        /\ UNCHANGED <<auth, generation, chats, tenant, known, switched>>
    BY DEF TenantUnverified, RunType
  <1>2. /\ remembered' \subseteq People
        /\ ~switched => runs[r].store \in {NoPerson, auth} \cup remembered'
    BY <1>1, GivenFacts
  <1>3. boot' \in BootType /\ boot'.user = boot.user /\ boot'.store = runs[r].store
        /\ boot'.chat = boot.chat
    BY <1>1 DEF TenantUnverified, BootType, BootSteps
  <1>4. BootTypeOK' /\ NoneAhead' /\ StoresHaveUsers'
    BY <1>1, <1>2, <1>3, EndRunFacts DEF NoneAhead, StoresHaveUsers
  <1>5. RunsAreOfUser'
    BY <1>1, EndRunFacts DEF RunsAreOfUser, OffRun
  <1>6. ChatsAreOfUser' /\ ShownIsSignedIn'
    BY <1>1, <1>2, <1>3 DEF ChatsAreOfUser, ShownIsSignedIn
  <1> QED BY <1>4, <1>5, <1>6

-----------------------------------------------------------------------------
(* Chats, and the store in memory *)

LEMMA ChatInv ==
  ASSUME BootInv, NEW c \in chats, ChatAnswered(c) \/ ChatFails(c)
  PROVE  BootInv'
  <1> USE BootAssumption DEF BootInv, BootTypeOK
  <1>1. /\ chats' = chats \ {c} /\ c.store \in People
        /\ UNCHANGED <<auth, generation, promise, runs, tenant, known, remembered, switched>>
    BY DEF ChatAnswered, ChatFails
  <1>2. /\ boot' \in BootType /\ boot'.user = boot.user /\ boot'.store = boot.store
        /\ \/ boot'.chat = boot.chat
           \/ c.gen = generation /\ boot'.chat = c.store
    <2>1. CASE boot' = boot
      BY <2>1
    <2>2. CASE /\ c.gen = generation
               /\ boot' = [boot EXCEPT !.step = "BOOTSTRAP_READY", !.chat = c.store]
      BY <1>1, <2>2 DEF BootType, BootSteps, Person
    <2> QED BY <2>1, <2>2 DEF ChatAnswered, ChatFails
  <1>3. BootTypeOK' /\ NoneAhead' /\ StoresHaveUsers'
    BY <1>1, <1>2 DEF NoneAhead, StoresHaveUsers
  <1>4. RunsAreOfUser' /\ ChatsAreOfUser'
    BY <1>1, <1>2 DEF RunsAreOfUser, ChatsAreOfUser
  <1>5. ShownIsSignedIn'
    BY <1>1, <1>2 DEF ShownIsSignedIn, ChatsAreOfUser
  <1> QED BY <1>3, <1>4, <1>5

LEMMA ProvideTenantInv ==
  ASSUME BootInv, ProvideTenant
  PROVE  BootInv'
  <1> USE BootAssumption DEF BootInv, BootTypeOK
  <1>1. UNCHANGED <<auth, boot, generation, promise, runs, chats, known, remembered, switched>>
    BY DEF ProvideTenant
  <1>2. PICK u \in known, st \in known :
          \/ AnnounceTenant(u)
          \/ SetActiveTenant(u, st)
          \/ tenant' = [tenant EXCEPT !.store = st, !.ready = TRUE]
    BY DEF ProvideTenant
  <1>3. u \in People /\ st \in People
    OBVIOUS
  <1>4. tenant' \in TenantType /\ (tenant'.ready => tenant'.store \in People)
    <2>1. CASE tenant' = [tenant EXCEPT !.store = st, !.ready = TRUE]
      BY <1>3, <2>1 DEF TenantType, Person
    <2> QED BY <1>2, <1>3, <2>1, SetActiveTenantType DEF StoresHaveUsers
  <1>5. BootTypeOK' /\ NoneAhead' /\ StoresHaveUsers'
    BY <1>1, <1>4 DEF NoneAhead, StoresHaveUsers
  <1>6. RunsAreOfUser' /\ ChatsAreOfUser' /\ ShownIsSignedIn'
    BY <1>1 DEF RunsAreOfUser, ChatsAreOfUser, ShownIsSignedIn
  <1> QED BY <1>5, <1>6

-----------------------------------------------------------------------------
LEMMA BootStepInv == BootInv /\ [BootNext]_bootVars => BootInv'
  <1> SUFFICES ASSUME BootInv, [BootNext]_bootVars PROVE BootInv'
    OBVIOUS
  <1>1. CASE Mount
    BY <1>1, FastPathInv, StartRunInv DEF Mount, ExecuteBootstrap, AuthStep
  <1>2. CASE \E u \in People : SignIn(u)
    BY <1>2, SignInInv
  <1>3. CASE AwaitSession \/ AuthError
    BY <1>3, AwaitSessionInv, AuthErrorInv
  <1>4. CASE SessionLost \/ SignOut
    BY <1>4, NewGenerationInv
  <1>5. CASE \E r \in Runs : RunStep(r)
    BY <1>5, DropRunInv, AuthAnsweredInv, AuthMissingInv, TenantAnsweredInv,
       TenantUnverifiedInv, ResolveTenantInv DEF RunStep
  <1>6. CASE \E c \in chats : ChatAnswered(c) \/ ChatFails(c)
    BY <1>6, ChatInv
  <1>7. CASE ProvideTenant
    BY <1>7, ProvideTenantInv
  <1>8. CASE UNCHANGED bootVars
    BY <1>8 DEF bootVars, BootInv, BootTypeOK, NoneAhead, StoresHaveUsers,
       RunsAreOfUser, ChatsAreOfUser, ShownIsSignedIn
  <1> QED
    BY <1>1, <1>2, <1>3, <1>4, <1>5, <1>6, <1>7, <1>8 DEF BootNext, BootDone

(* The bootstrap state has its type: in particular a store is only ever     *)
(* resolved for a user. *)
THEOREM BootTypes == BootSpec => []BootTypeOK
  BY BootInitInv, BootStepInv, PTL DEF BootSpec, BootInv

(* What is shown is the signed-in user's, or this generation took it from  *)
(* the memory of the browser: no answer that outlives a sign-out comes to  *)
(* the screen of the next user by itself.                                  *)
THEOREM BootShowsSignedIn == BootSpec => []ShownIsSignedIn
  BY BootInitInv, BootStepInv, PTL DEF BootSpec, BootInv
=============================================================================
