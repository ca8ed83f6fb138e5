----------------------------- MODULE WalletProofs -----------------------------
(***************************************************************************)
(* Wallet provisioning, for any accounts, calls and supply of wallets.     *)
(***************************************************************************)
EXTENDS WalletProvisioning, TLAPS

(* Of an account that has not raced at most one call is under way. *)
LoneCalls ==
    \A p, q \in Provisions :
        AccountOf[p] = AccountOf[q] /\ UnderWay(p) /\ UnderWay(q) =>
            p = q \/ AccountOf[p] \in raced

(* A wallet is only created for an account that has none: a user who is to  *)
(* be imported has none either, nor has one whom Privy does not know.      *)
CreatesTheFirst ==
    /\ \A a \in Accounts : owned[a] # {} => a \in privyUsers
    /\ \A p \in Provisions : provision[p].pc = "create" => AccountOf[p] \in privyUsers
    /\ \A p \in Provisions :
          AccountOf[p] \notin raced =>
              /\ provision[p].pc = "create" => owned[AccountOf[p]] = {}
              /\ provision[p].pc = "import" => owned[AccountOf[p]] = {}

WalletInv == WalletTypeOK /\ LoneCalls /\ CreatesTheFirst /\ OneWalletUnlessRaced

LEMMA WalletInitInv == WalletInit => WalletInv
  <1> SUFFICES ASSUME WalletInit PROVE WalletInv
    OBVIOUS
  <1> USE WalletAssumption DEF WalletInit
  <1>1. WalletTypeOK
    BY DEF WalletTypeOK, ProvisionType, Pending
  <1>2. LoneCalls
    BY DEF LoneCalls, UnderWay, Pending
  <1>3. CreatesTheFirst
    BY DEF CreatesTheFirst
  <1>4. OneWalletUnlessRaced
    <2>1. \A a \in Accounts : Answers(a) = {}
      BY DEF Answers
    <2>2. \A a \in Accounts : \A v, w \in owned[a] : v = w
      OBVIOUS
    <2> QED BY <2>1, <2>2 DEF OneWalletUnlessRaced
  <1> QED BY <1>1, <1>2, <1>3, <1>4 DEF WalletInv

-----------------------------------------------------------------------------
(* A step changes nothing of the other calls.  The call it is a step of    *)
(* was under way unless the step is its first, and owned only grows where  *)
(* a wallet is created.                                                    *)
LEMMA StepFacts ==
  ASSUME WalletTypeOK, NEW p \in Provisions, ProvisionStep(p)
  PROVE  /\ provision' \in [Provisions -> ProvisionType]
         /\ \A q \in Provisions \ {p} : provision'[q] = provision[q]
         /\ raced \subseteq raced' /\ raced' \subseteq Accounts
         /\ privyUsers \subseteq privyUsers' /\ privyUsers' \subseteq Accounts
         /\ ~CreateWallet(p) => owned' = owned
         /\ ~Persist(p) => walletRow' = walletRow
         /\ ~FindNoRow(p) => (raced' = raced /\ (UnderWay(p) \/ ~UnderWay(p)'))
  <1> USE WalletAssumption DEF WalletTypeOK, ProvisionType, Pending, UnderWay
  <1> DEFINE a == AccountOf[p]
  <1>0. a \in Accounts
    OBVIOUS
  <1>1. CASE FindRow(p) BY <1>1, <1>0 DEF FindRow, With
  <1>2. CASE FindNoRow(p) BY <1>2, <1>0 DEF FindNoRow, StepTo
  <1>3. CASE ResolveUser(p) BY <1>3, <1>0 DEF ResolveUser, TakeLinked, StepTo, With
  <1>4. CASE ImportUser(p) BY <1>4, <1>0 DEF ImportUser, TakeLinked, StepTo, With
  <1>5. CASE CreateWallet(p)
    <2>1. PICK w \in Fresh : With(p, "persist", w) \/ StepTo(p, "failed")
      BY <1>5 DEF CreateWallet
    <2>2. w \in Wallets
      BY DEF Fresh
    <2>3. ~Persist(p) /\ ~FindNoRow(p)
      BY <1>5 DEF CreateWallet, Persist, FindNoRow
    <2>4. provision[p].pc = "create" /\ UNCHANGED <<privyUsers, walletRow, raced>>
      BY <1>5 DEF CreateWallet
    <2>5. /\ provision' \in [Provisions -> ProvisionType]
          /\ \A q \in Provisions \ {p} : provision'[q] = provision[q]
      <3>1. CASE With(p, "persist", w) BY <2>2, <3>1 DEF With
      <3>2. CASE StepTo(p, "failed") BY <3>2 DEF StepTo
      <3> QED BY <2>1, <3>1, <3>2
    <2> QED BY <1>5, <2>3, <2>4, <2>5
  <1>6. CASE Persist(p) BY <1>6, <1>0 DEF Persist, StepTo
  <1>7. CASE Reread(p) BY <1>7, <1>0 DEF Reread, With
  <1>8. CASE Abandon(p) BY <1>8, <1>0 DEF Abandon, StepTo
  <1> QED BY <1>1, <1>2, <1>3, <1>4, <1>5, <1>6, <1>7, <1>8 DEF ProvisionStep

LEMMA CreateFacts ==
  ASSUME WalletTypeOK, NEW p \in Provisions, CreateWallet(p)
  PROVE  \E w \in Wallets :
           /\ owned' \in [Accounts -> SUBSET Wallets]
           /\ owned'[AccountOf[p]] = owned[AccountOf[p]] \cup {w}
           /\ \A b \in Accounts \ {AccountOf[p]} : owned'[b] = owned[b]
           /\ provision'[p].pc \in {"persist", "failed"}
           /\ provision'[p].pc = "persist" => provision'[p].wallet = w
           /\ provision[p].pc = "create"
  <1> USE WalletAssumption DEF WalletTypeOK, ProvisionType
  <1>1. PICK w \in Fresh :
          /\ owned' = [owned EXCEPT ![AccountOf[p]] = @ \cup {w}]
          /\ With(p, "persist", w) \/ StepTo(p, "failed")
    BY DEF CreateWallet
  <1>2. w \in Wallets /\ AccountOf[p] \in Accounts
    BY DEF Fresh
  <1>3. provision'[p].pc \in {"persist", "failed"}
        /\ (provision'[p].pc = "persist" => provision'[p].wallet = w)
    BY <1>1 DEF With, StepTo
  <1> QED BY <1>1, <1>2, <1>3 DEF CreateWallet

LEMMA WalletTypeStep ==
  ASSUME WalletTypeOK, NEW p \in Provisions, ProvisionStep(p)
  PROVE  WalletTypeOK'
  <1> USE WalletAssumption
  <1> DEFINE a == AccountOf[p]
  <1>0. a \in Accounts /\ provision[p] \in ProvisionType
    BY DEF WalletTypeOK
  <1>1. owned' \in [Accounts -> SUBSET Wallets] /\ \A b \in Accounts : owned[b] \subseteq owned'[b]
    <2>1. CASE CreateWallet(p) BY <2>1, CreateFacts DEF WalletTypeOK
    <2>2. CASE ~CreateWallet(p) BY <2>2, StepFacts DEF WalletTypeOK
    <2> QED BY <2>1, <2>2
  <1>2. walletRow' \in [Accounts -> Wallets \cup {NoWallet}]
        /\ \A b \in Accounts : walletRow'[b] # NoWallet => walletRow'[b] \in owned[b]
    <2>1. CASE Persist(p)
      <3>1. provision[p].wallet \in owned[a] /\ provision[p].wallet \in Wallets
        BY <2>1, <1>0 DEF Persist, WalletTypeOK
      <3>2. \/ walletRow' = [walletRow EXCEPT ![a] = provision[p].wallet]
            \/ walletRow' = walletRow
        BY <2>1 DEF Persist
      <3> QED BY <3>1, <3>2 DEF WalletTypeOK
    <2>2. CASE ~Persist(p) BY <2>2, StepFacts DEF WalletTypeOK
    <2> QED BY <2>1, <2>2
  <1>3. provision'[p].pc \in {"persist", "reread", "done"} => provision'[p].wallet \in owned'[a]
    <2> USE <1>0 DEF WalletTypeOK, ProvisionType
    <2>1. CASE FindRow(p) BY <2>1 DEF FindRow, With
    <2>2. CASE FindNoRow(p) BY <2>2 DEF FindNoRow, StepTo
    <2>3. CASE ResolveUser(p) BY <2>3 DEF ResolveUser, TakeLinked, StepTo, With
    <2>4. CASE ImportUser(p) BY <2>4 DEF ImportUser, TakeLinked, StepTo, With
    <2>5. CASE CreateWallet(p) BY <2>5, CreateFacts
    <2>6. CASE Persist(p)
      <3>1. provision'[p].wallet = provision[p].wallet /\ provision[p].pc = "persist"
            /\ owned' = owned
        BY <2>6 DEF Persist, StepTo
      <3> QED BY <3>1
    <2>7. CASE Reread(p) BY <2>7 DEF Reread, With
    <2>8. CASE Abandon(p) BY <2>8 DEF Abandon, StepTo
    <2> QED BY <2>1, <2>2, <2>3, <2>4, <2>5, <2>6, <2>7, <2>8 DEF ProvisionStep
  <1>4. \A q \in Provisions : provision'[q].pc \in {"persist", "reread", "done"} =>
                                 provision'[q].wallet \in owned'[AccountOf[q]]
    <2> TAKE q \in Provisions
    <2>1. CASE q = p BY <2>1, <1>3
    <2>2. CASE q # p
      <3>1. provision'[q] = provision[q] BY <2>2, StepFacts
      <3>2. AccountOf[q] \in Accounts OBVIOUS
      <3> QED BY <3>1, <3>2, <1>1 DEF WalletTypeOK
    <2> QED BY <2>1, <2>2
  <1>5. \A b \in Accounts : walletRow'[b] # NoWallet => walletRow'[b] \in owned'[b]
    BY <1>1, <1>2
  <1> QED BY <1>1, <1>2, <1>4, <1>5, StepFacts DEF WalletTypeOK

(* What is created is the first, and no account gets a second unless two    *)
(* of its calls overlap.                                                    *)
LEMMA ProvisionStepInv ==
  ASSUME WalletInv, NEW p \in Provisions, ProvisionStep(p)
  PROVE  WalletInv'
  <1> USE WalletAssumption
  <1> DEFINE a == AccountOf[p]
  <1>0. a \in Accounts /\ WalletTypeOK /\ provision[p] \in ProvisionType
    BY DEF WalletInv, WalletTypeOK
  <1>1. WalletTypeOK'
    BY <1>0, WalletTypeStep
  <1>2. LoneCalls'
    <2> SUFFICES ASSUME NEW q \in Provisions, q # p, AccountOf[q] = a,
                        UnderWay(p)', UnderWay(q)'
                 PROVE  a \in raced'
      <3>1. \A q \in Provisions \ {p} : UnderWay(q)' = UnderWay(q)
        BY <1>0, StepFacts DEF UnderWay
      <3>2. raced \subseteq raced'
        BY <1>0, StepFacts
      <3> QED BY <3>1, <3>2 DEF LoneCalls, WalletInv
    <2>1. UnderWay(q) /\ raced \subseteq raced'
      BY <1>0, StepFacts DEF UnderWay
    <2>2. CASE FindNoRow(p)
      BY <2>1, <2>2 DEF FindNoRow, Others
    <2>3. CASE ~FindNoRow(p)
      <3>1. UnderWay(p)
        BY <2>3, <1>0, StepFacts
      <3> QED BY <3>1, <2>1 DEF WalletInv, LoneCalls
    <2> QED BY <2>2, <2>3
  <1>3. \A b \in Accounts \ {a} : owned'[b] = owned[b]
    <2>1. CASE CreateWallet(p) BY <2>1, <1>0, CreateFacts
    <2>2. CASE ~CreateWallet(p) BY <2>2, <1>0, StepFacts
    <2> QED BY <2>1, <2>2
  <1>4. \A b \in Accounts : owned'[b] # {} => b \in privyUsers'
    <2>1. CASE CreateWallet(p)
      <3>1. a \in privyUsers'
        BY <2>1 DEF CreateWallet, WalletInv, CreatesTheFirst
      <3> QED BY <3>1, <2>1, <1>3 DEF CreateWallet, WalletInv, CreatesTheFirst
    <2>2. CASE ~CreateWallet(p)
      BY <2>2, <1>0, StepFacts DEF WalletInv, CreatesTheFirst
    <2> QED BY <2>1, <2>2
  <1>5. /\ provision'[p].pc = "create" => a \in privyUsers' /\ owned'[a] = {}
        /\ provision'[p].pc = "import" => owned'[a] = {}
    <2> USE <1>0 DEF ProvisionType, WalletTypeOK
    <2>1. CASE FindRow(p) BY <2>1 DEF FindRow, With
    <2>2. CASE FindNoRow(p) BY <2>2 DEF FindNoRow, StepTo
    <2>3. CASE ResolveUser(p)
      BY <2>3 DEF ResolveUser, TakeLinked, StepTo, With, WalletInv, CreatesTheFirst
    <2>4. CASE ImportUser(p) BY <2>4 DEF ImportUser, TakeLinked, StepTo, With
    <2>5. CASE CreateWallet(p) BY <2>5, CreateFacts
    <2>6. CASE Persist(p) BY <2>6 DEF Persist, StepTo
    <2>7. CASE Reread(p) BY <2>7 DEF Reread, With
    <2>8. CASE Abandon(p) BY <2>8 DEF Abandon, StepTo
    <2> QED BY <2>1, <2>2, <2>3, <2>4, <2>5, <2>6, <2>7, <2>8 DEF ProvisionStep
  <1>6. CreatesTheFirst'
    <2>1. \A q \in Provisions \ {p} : provision'[q].pc = "create" => AccountOf[q] \in privyUsers'
      BY <1>0, StepFacts DEF WalletInv, CreatesTheFirst
    <2>2. ASSUME NEW q \in Provisions \ {p}, AccountOf[q] \notin raced',
                 provision'[q].pc \in {"create", "import"}
          PROVE  owned'[AccountOf[q]] = {}
      <3>1. AccountOf[q] \notin raced /\ provision[q].pc \in {"create", "import"}
        BY <2>2, <1>0, StepFacts
      <3>2. owned[AccountOf[q]] = {} /\ AccountOf[q] \in Accounts
        BY <3>1 DEF WalletInv, CreatesTheFirst
      <3>3. CASE AccountOf[q] # a
        BY <3>2, <3>3, <1>3
      <3>4. CASE AccountOf[q] = a
        <4>1. ~CreateWallet(p)
          BY <3>1, <3>4 DEF CreateWallet, WalletInv, LoneCalls, UnderWay, Pending
        <4> QED BY <4>1, <3>2, <1>0, StepFacts
      <3> QED BY <3>3, <3>4
    <2> QED BY <1>4, <1>5, <2>1, <2>2 DEF CreatesTheFirst
  <1>7. OneWalletUnlessRaced'
    <2>1. \A b \in Accounts \ raced' : \A v, w \in owned'[b] : v = w
      <3>1. raced \subseteq raced'
        BY <1>0, StepFacts
      <3>2. CASE CreateWallet(p)
        <4>1. a \notin raced => owned[a] = {}
          BY <3>2 DEF CreateWallet, WalletInv, CreatesTheFirst
        <4>2. PICK w \in Wallets : owned'[a] = owned[a] \cup {w}
          BY <3>2, <1>0, CreateFacts
        <4> QED BY <4>1, <4>2, <3>1, <1>3 DEF WalletInv, OneWalletUnlessRaced
      <3>3. CASE ~CreateWallet(p)
        BY <3>1, <3>3, <1>0, StepFacts DEF WalletInv, OneWalletUnlessRaced
      <3> QED BY <3>2, <3>3
    <2>2. \A b \in Accounts : Answers(b)' \subseteq owned'[b]
      BY <1>1 DEF WalletTypeOK, Answers
    <2>3. \A b \in Accounts : walletRow'[b] \in owned'[b] \cup {NoWallet}
      BY <1>1 DEF WalletTypeOK
    <2> QED BY <2>1, <2>2, <2>3 DEF OneWalletUnlessRaced
  <1> QED BY <1>1, <1>2, <1>6, <1>7 DEF WalletInv

LEMMA WalletStepInv == WalletInv /\ [WalletNext]_walletVars => WalletInv'
  <1> SUFFICES ASSUME WalletInv, [WalletNext]_walletVars PROVE WalletInv'
    OBVIOUS
  <1>1. CASE \E p \in Provisions : ProvisionStep(p)
    BY <1>1, ProvisionStepInv
  <1>2. CASE UNCHANGED walletVars
    BY <1>2 DEF walletVars, WalletInv, WalletTypeOK, LoneCalls, UnderWay, CreatesTheFirst,
       OneWalletUnlessRaced, Answers
  <1> QED BY <1>1, <1>2 DEF WalletNext, Provisioned

(* What the table and the answers name are wallets of the account. *)
THEOREM WalletTypes == WalletSpec => []WalletTypeOK
  BY WalletInitInv, WalletStepInv, PTL DEF WalletSpec, WalletInv

(* One wallet per account, whatever fails, while its calls do not overlap. *)
THEOREM WalletIsOne == WalletSpec => []OneWalletUnlessRaced
  BY WalletInitInv, WalletStepInv, PTL DEF WalletSpec, WalletInv
===============================================================================
