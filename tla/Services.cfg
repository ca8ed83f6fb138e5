SPECIFICATION Spec
CONSTANTS
    c1 = c1  c2 = c2  c3 = c3  c4 = c4  k1 = k1  k2 = k2
    Callers = {c1, c2, c3, c4}
    Keys = {k1, k2}
    Providers = {pA}
    KeyOf <- MCKeyOf
    SkipCache = {c2}
    MaxRetries = 2
    NoCaller = NoCaller
    NoProvider = NoProvider

    r1 = r1  r2 = r2  r3 = r3  u1 = u1  i1 = i1  n1 = n1  n2 = n2
    Requests = {r1, r2, r3}
    Users = {u1}
    IdemKeys = {i1}
    Nodes = {n1, n2}
    NoKey = NoKey
    NoRequest = NoRequest
    UserOf <- MCUserOf
    IdemKeyOf <- MCIdemKeyOf
    NodeOf <- MCNodeOf
    HashOf <- MCHashOf

    w1 = w1  w2 = w2  w3 = w3  w4 = w4  d1 = d1  o1 = o1  o2 = o2
    Withdraws = {w1, w2, w3, w4}
    Intents = {d1}
    Identities = {o1, o2}
    IntentOf <- MCIntentOf
    IdentityOf <- MCIdentityOf
    WithCode = {w2, w3, w4}
    WithdrawLimit = 2

    s1 = s1  s2 = s2  f1 = f1  f2 = f2
    Polls = {p1, p2}
    Sigs = {s1, s2}
    Refs = {f1, f2}
    Merchant = Merchant
    NoSig = NoSig
    NoAddr = NoAddr
    Mentions <- MCMentions
    Underpaying = {s1}
    MaxTroubles = 1

    h1 = h1  b1 = b1  b2 = b2
    People = {h1, h2}
    NoPerson = NoPerson
    Runs = {b1, b2}
    NoRun = NoRun
    MaxGeneration = 2

    v1 = v1  v2 = v2  v3 = v3  e1 = e1
    Provisions = {v1, v2, v3}
    Accounts = {e1}
    Wallets = {a1, a2, a3}
    AccountOf <- MCAccountOf
    NoWallet = NoWallet

    q1 = q1  q2 = q2  q3 = q3  t1 = t1  t2 = t2  m1 = m1
    Verifications = {q1, q2, q3}
    Transfers = {t1, t2}
    Invoices = {m1}
    None = None
    SigOf <- MCSigOf
    InvoiceOf <- MCInvoiceOf
    AmountOf <- MCAmountOf
    Due <- MCDue

INVARIANTS
    PoolTypeOK OneFetchPerKey AnswersDoNotGoBack SkippedCacheIsFresh
    EngineTypeOK LockMatchesTransfer KeyConfirmedOnce RepliesArePaid
    WithdrawTypeOK OneBroadcastPerLock UsedIsConfirmed
    MonitorTypeOK OneReceipt ReceiptsAreRecorded ProcessedIsRecorded
    BootTypeOK ShownIsSignedIn
    WalletTypeOK OneWalletUnlessRaced
    PaymentTypeOK PaymentsAreCredited PaidIsBacked
PROPERTIES
    CoolingIsNotChosen EveryCallReturns OnlyLateCodesReuse
