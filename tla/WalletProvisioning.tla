-------------------------- MODULE WalletProvisioning --------------------------
(***************************************************************************)
(* PrivyWalletService.ensureUserSolanaWallet: the wallet of an account is  *)
(* the row of the wallets table; without one it is looked for at Privy,    *)
(* created there if need be, and written to the table.  Nothing excludes   *)
(* two calls for one account, and each step of a call may fail.            *)
(***************************************************************************)
CONSTANTS
    Provisions,     \* calls of ensureUserSolanaWallet
    Accounts,       \* normalized emails
    Wallets,        \* addresses Privy may give out
    AccountOf,      \* Provisions -> Accounts
    NoWallet

ASSUME WalletAssumption ==
    /\ AccountOf \in [Provisions -> Accounts]
    /\ NoWallet \notin Wallets

VARIABLES
    privyUsers,     \* accounts that Privy knows
    owned,          \* the Solana wallets of each account at Privy
    walletRow,      \* the wallets table
    provision,      \* the local state of each call
    raced           \* accounts for which two calls were under way (history)

walletVars == <<privyUsers, owned, walletRow, provision, raced>>

Pending == {"resolve", "import", "create", "persist", "reread"}
ProvisionType == [pc : Pending \cup {"idle", "done", "failed"},
                  wallet : Wallets \cup {NoWallet}]

WalletTypeOK ==
    /\ privyUsers \subseteq Accounts
    /\ owned \in [Accounts -> SUBSET Wallets]
    /\ walletRow \in [Accounts -> Wallets \cup {NoWallet}]
    /\ provision \in [Provisions -> ProvisionType]
    /\ raced \subseteq Accounts
    /\ \A a \in Accounts : walletRow[a] # NoWallet => walletRow[a] \in owned[a]
    /\ \A p \in Provisions :
          provision[p].pc \in {"persist", "reread", "done"} =>
              provision[p].wallet \in owned[AccountOf[p]]

\* Privy may know an account, and have a wallet for it, from its sign-in.
WalletInit ==
    /\ privyUsers \in SUBSET Accounts
    /\ owned \in [Accounts -> {{}} \cup {{w} : w \in Wallets}]
    /\ \A a \in Accounts : owned[a] # {} => a \in privyUsers
    /\ \A a, b \in Accounts : a # b => owned[a] \cap owned[b] = {}
    /\ walletRow = [a \in Accounts |-> NoWallet]
    /\ provision = [p \in Provisions |-> [pc |-> "idle", wallet |-> NoWallet]]
    /\ raced = {}

-----------------------------------------------------------------------------
StepTo(p, pc)    == provision' = [provision EXCEPT ![p].pc = pc]
With(p, pc, w)   == provision' = [provision EXCEPT ![p] = [pc |-> pc, wallet |-> w]]
Others(p)        == {q \in Provisions \ {p} : AccountOf[q] = AccountOf[p]}
UnderWay(q)      == provision[q].pc \in Pending
Fresh            == {w \in Wallets : \A a \in Accounts : w \notin owned[a]}

\* getWalletByUserId finds the row.
FindRow(p) ==
    LET a == AccountOf[p]
    IN  /\ provision[p].pc = "idle"
        /\ walletRow[a] # NoWallet
        /\ With(p, "done", walletRow[a])
        /\ UNCHANGED <<privyUsers, owned, walletRow, raced>>

\* It finds none; a failed read counts as none.
FindNoRow(p) ==
    /\ provision[p].pc = "idle"
    /\ StepTo(p, "resolve")
    /\ raced' = IF \E q \in Others(p) : UnderWay(q) THEN raced \cup {AccountOf[p]} ELSE raced
    /\ UNCHANGED <<privyUsers, owned, walletRow>>

\* Mutant: what is linked to the user is not looked at.
TakeLinked_Never(p) == StepTo(p, "create")

\* A wallet linked to the Privy user is taken, without one it is created.
TakeLinked(p) ==
    LET linked == owned[AccountOf[p]]
    IN  \/ \E w \in linked : With(p, "persist", w)
        \/ linked = {} /\ StepTo(p, "create")

\* getUserByEmail
ResolveUser(p) ==
    /\ provision[p].pc = "resolve"
    /\ IF AccountOf[p] \in privyUsers THEN TakeLinked(p) ELSE StepTo(p, "import")
    /\ UNCHANGED <<privyUsers, owned, walletRow, raced>>

\* importUser: a new user, or the one imported meanwhile.
ImportUser(p) ==
    /\ provision[p].pc = "import"
    /\ privyUsers' = privyUsers \cup {AccountOf[p]}
    /\ TakeLinked(p)
    /\ UNCHANGED <<owned, walletRow, raced>>

\* Mutant: the wallet is created without an owner.
CreateWallet_Unowned(p) ==
    /\ provision[p].pc = "create"
    /\ \E w \in Fresh : With(p, "persist", w) \/ StepTo(p, "failed")
    /\ UNCHANGED <<privyUsers, owned, walletRow, raced>>

\* walletApi.create; the reply may be lost.
CreateWallet(p) ==
    LET a == AccountOf[p]
    IN  /\ provision[p].pc = "create"
        /\ \E w \in Fresh :
              /\ owned' = [owned EXCEPT ![a] = @ \cup {w}]
              /\ With(p, "persist", w) \/ StepTo(p, "failed")
        /\ UNCHANGED <<privyUsers, walletRow, raced>>

\* The upsert of the row; its reply may be lost, or it may fail.
Persist(p) ==
    /\ provision[p].pc = "persist"
    /\ \/ /\ walletRow' = [walletRow EXCEPT ![AccountOf[p]] = provision[p].wallet]
          /\ StepTo(p, "done") \/ StepTo(p, "reread")
       \/ UNCHANGED walletRow /\ StepTo(p, "reread")
    /\ UNCHANGED <<privyUsers, owned, raced>>

\* After an error the row of somebody else is taken, if there is one.
Reread(p) ==
    LET a == AccountOf[p]
    IN  /\ provision[p].pc = "reread"
        /\ walletRow[a] # NoWallet
        /\ With(p, "done", walletRow[a])
        /\ UNCHANGED <<privyUsers, owned, walletRow, raced>>

\* An exception, or a restart.  (What a failed call has asked of Privy has
\* happened by then, or never happens.)
Abandon(p) ==
    /\ UnderWay(p)
    /\ StepTo(p, "failed")
    /\ UNCHANGED <<privyUsers, owned, walletRow, raced>>

ProvisionStep(p) ==
    \/ FindRow(p)
    \/ FindNoRow(p)
    \/ ResolveUser(p)
    \/ ImportUser(p)
    \/ CreateWallet(p)
    \/ Persist(p)
    \/ Reread(p)
    \/ Abandon(p)

Provisioned ==
    /\ \A p \in Provisions : provision[p].pc \in {"done", "failed"}
    /\ UNCHANGED walletVars

WalletNext == (\E p \in Provisions : ProvisionStep(p)) \/ Provisioned

WalletSpec == WalletInit /\ [][WalletNext]_walletVars

-----------------------------------------------------------------------------
Answers(a) == {provision[p].wallet : p \in {q \in Provisions :
                                               AccountOf[q] = a /\ provision[q].pc = "done"}}

(* However its calls fail, an account whose calls never overlap has one    *)
(* wallet at Privy, and it is the one that the table and every answer name. *)
OneWalletUnlessRaced ==
    \A a \in Accounts \ raced :
        /\ \A v, w \in owned[a] : v = w
        /\ Answers(a) \subseteq owned[a]
        /\ walletRow[a] \in owned[a] \cup {NoWallet}

(* "1 Email = ... = 1 Solana Wallet": all calls for an account are answered *)
(* with one wallet.                                                         *)
OneWallet ==
    \A a \in Accounts : \A v, w \in Answers(a) : v = w
===============================================================================
