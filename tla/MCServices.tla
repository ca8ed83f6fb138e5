------------------------------ MODULE MCServices ------------------------------
(***************************************************************************)
(* Instances of seven components that share no state: in a behaviour one   *)
(* of them, named by live, takes all the steps.  They are the steps of its *)
(* own specification, within the limits that Next adds to each, so that    *)
(* its properties are checked as if it stood by itself.                    *)
(***************************************************************************)
EXTENDS SolanaRpcPool, TransactionEngine, ZeroClawWithdraw, SignatureMonitor,
        DashboardBootstrap, WalletProvisioning, PaymentSettlement, FiniteSets

CONSTANTS
    c1, c2, c3, c4, k1, k2,     \* the pool
    r1, r2, r3, u1, i1, n1, n2, \* the engine
    w1, w2, w3, w4, d1, o1, o2, \* withdrawals of ZeroClaw
    s1, s2, f1, f2,             \* the monitor
    h1, b1, b2,                 \* the dashboard
    v1, v2, v3, e1,             \* wallets
    q1, q2, q3, t1, t2, m1      \* payments

VARIABLE live

MCKeyOf      == [c \in Callers |-> IF c = c4 THEN k2 ELSE k1]
MCUserOf     == [r \in Requests |-> u1]
MCIdemKeyOf  == [r \in Requests |-> i1]
MCNodeOf     == [r \in Requests |-> IF r = r3 THEN n2 ELSE n1]
MCHashOf     == [r \in Requests |-> IF r = r2 THEN r1 ELSE r]
MCIntentOf   == [w \in Withdraws |-> d1]
MCIdentityOf == [w \in Withdraws |-> IF w = w4 THEN o2 ELSE o1]
MCMentions   == [s \in Sigs |-> IF s = s1 THEN {f1} ELSE {f2, Merchant}]
MCAccountOf  == [v \in Provisions |-> e1]

\* Two transfers for one invoice; the first is also verified by a call that
\* names no invoice.
MCSigOf      == [c \in Verifications |-> IF c = q3 THEN t2 ELSE t1]
MCInvoiceOf  == [c \in Verifications |-> IF c = q2 THEN None ELSE m1]
MCAmountOf   == [s \in Transfers |-> 1]
MCDue        == [i \in Invoices |-> 2]

\* The calls made of the pool, for one key or for two, and the withdrawals
\* requested, under one spelling of the identity or under two, and the payments
\* the monitor looks for, of a reference key or of the merchant too.  (The payment
\* of the second kind is of f2; f1 is billed, and changes the merchant's entry.)
Calls     == [pool |-> {c1, c2, c3}, keys |-> {c1, c2, c4}]
Requested == [withdraw |-> {w1, w2, w3}, spellings |-> {w2, w4}]
Paid      == [reference |-> {s1}, merchant |-> {s2}]
Billed    == [reference |-> {f1}, merchant |-> {f1, f2}]

Init ==
    /\ live \in {"pool", "keys", "engine", "withdraw", "spellings", "reference",
                "merchant", "runs", "views", "wallet", "payment"}
    /\ PoolInit /\ EngineInit /\ WithdrawInit /\ MonitorInit /\ BootInit /\ WalletInit
    /\ PaymentInit
    /\ live # "wallet" => privyUsers = {}
    /\ live = "views" \/ tenant = NoStore(NoPerson)
    /\ known \subseteq {h1}

\* The first to sign in, or to be restored, is h1, which is as good as h2.  With
\* two runs, the second starts while the first is under way, and the store in
\* memory is changed and answered only as the runs themselves resolve it.
TwoRuns ==
    /\ runs[b1].pc = "off" => runs[b2].pc # "off" \/ runs'[b2].pc = "off"
    /\ tenant' = tenant \/ runs' # runs
    /\ \A r \in Runs : runs'[r].store \in {runs'[r].user, NoPerson}

Next ==
    /\ UNCHANGED live
    /\ \/ /\ live \in DOMAIN Calls /\ PoolNext
          /\ \A c \in Callers \ Calls[live] : rpc'[c].pc = "idle"
          /\ UNCHANGED <<engineVars, withdrawVars, monitorVars, bootVars, walletVars,
                         paymentVars>>
       \/ /\ live = "engine" /\ EngineNext
          /\ UNCHANGED <<poolVars, withdrawVars, monitorVars, bootVars, walletVars,
                         paymentVars>>
       \/ /\ live \in DOMAIN Requested /\ WithdrawNext
          /\ \A w \in Withdraws \ Requested[live] : wreq'[w] = "idle"
          /\ UNCHANGED <<poolVars, engineVars, monitorVars, bootVars, walletVars,
                         paymentVars>>
       \/ /\ live \in DOMAIN Paid /\ MonitorNext
          /\ landed' \subseteq Paid[live]
          /\ \A a \in Refs \ Billed[live] : bills'[a] = "none"
          /\ live = "merchant" => bills'[f1] \notin Sigs
          /\ UNCHANGED <<poolVars, engineVars, withdrawVars, bootVars, walletVars,
                         paymentVars>>
       \/ /\ live \in {"runs", "views"} /\ BootNext
          /\ known = {} => known' \subseteq {h1}
          /\ Cardinality(chats') <= 1
          /\ IF live = "runs" THEN TwoRuns ELSE runs'[b2].pc = "off"
          /\ UNCHANGED <<poolVars, engineVars, withdrawVars, monitorVars, walletVars,
                         paymentVars>>
       \/ /\ live = "wallet" /\ WalletNext
          /\ UNCHANGED <<poolVars, engineVars, withdrawVars, monitorVars, bootVars, paymentVars>>
       \/ /\ live = "payment" /\ PaymentNext
          /\ UNCHANGED <<poolVars, engineVars, withdrawVars, monitorVars, bootVars, walletVars>>

vars == <<live, poolVars, engineVars, withdrawVars, monitorVars, bootVars, walletVars,
          paymentVars>>

\* PoolFairness, while the pool is the live component.
Fairness ==
    \A c \in Callers : WF_poolVars(live \in DOMAIN Calls /\ rpc[c].pc # "idle" /\ RpcStep(c))

SafeSpec == Init /\ [][Next]_vars
Spec     == SafeSpec /\ Fairness
===============================================================================
