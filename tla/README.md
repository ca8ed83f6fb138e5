# Formal models of the ZEGA platform

TLA+ modules, TLC configurations and TLAPS proofs for the parts of this
repository in which money moves: withdrawals to the Solana chain, the
reconciler that repairs them and payments received for invoices; and for the
services around them whose interleavings are hard to test: the RPC pool, the
transaction engine, ZeroClaw's withdrawal routes and payment monitor, wallet
provisioning and the dashboard's bootstrap. Paths below are relative to the
repository's root; `services/` stands for `apps/api/src/services/`.

| file | what it is |
|---|---|
| `Withdrawals.tla` | the withdrawal pipeline: calls, stored procedures, network, clock, reconciler |
| `WithdrawalContract.tla` | what that pipeline promises, as an abstract specification |
| `WithdrawalProofs.tla` | their invariants and theorems, and the refinement step by step |
| `Totals.tla`, `TotalsProofs.tla` | the SUM of the queries, and the lemmas about it |
| `MCWithdrawals.tla`, `Withdrawals_*.cfg` | its small instances for TLC |
| `PaymentSettlement.tla` | incoming payments, `settle_payment_atomic`, the invoice expiry sweep |
| `PaymentProofs.tla` | its inductive invariant and theorems |
| `MCPaymentSettlement.tla`, `Payments_*.cfg` | the two runs in which it breaks its own statements |
| `SolanaRpcPool.tla`, `PoolProofs.tla` | the RPC pool: cache, shared fetches, failover, circuit breaker |
| `TransactionEngine.tla`, `EngineProofs.tla` | transfers with a lock per user and saved responses |
| `ZeroClawWithdraw.tla` | intents, codes and the layers of `POST /v1/zeroclaw/withdraw` |
| `SignatureMonitor.tla` | the polling monitor of invoice payments |
| `ZeroClawProofs.tla` | the invariants and theorems of these two |
| `DashboardBootstrap.tla`, `BootProofs.tla` | the bootstrap of the web application and its generations |
| `WalletProvisioning.tla`, `WalletProofs.tla` | one Privy wallet for an account |
| `MCServices.tla`, `Services.cfg` | small instances of these six and of `PaymentSettlement` for TLC |
| `MCWallets.tla`, `Wallets_onewallet.cfg`, `Boot_singleflight.cfg` | two of them where the code breaks its own statement |

Run `tlc -config Withdrawals_nominal.cfg MCWithdrawals.tla` (and likewise for
the others; `Boot_singleflight.cfg` belongs to `DashboardBootstrap.tla`), and
`tlapm` on each module whose name ends in `Proofs`.

## 1. Inventory of the system

ZEGA is a Fastify API (`apps/api`) over a Supabase Postgres database and the
Solana chain, a React application (`apps/web`), a client of an external agent
runtime (`packages/zeroclaw-bridge`) and migrations that hold the stored
procedures (`supabase/migrations`). The API runs as several Node processes. In
one process every `await` is a point where other requests run; between
processes only the database orders anything.

| component | state | operations | hard behaviour | what makes it correct |
|---|---|---|---|---|
| Withdrawal execution (`services/WithdrawalService.ts`) | row in `withdrawals`; locals of the call | execute: look up, reserve, build, sign, submit, confirm, finalize; release | each await interleaves with other calls and the reconciler; lost replies; crashes | reserved money is spent or returned, never both; one DEBIT per transfer |
| Stored procedures (`20260811_final_remediation.sql`, `20260811_remediate_lifecycle_consistency.sql`) | `withdrawals`, `ledger_entries`, `payments`, `invoices` | reserve, finalize, release, settle | READ COMMITTED statements, locks, unique keys, checks on a row's status | no overdraft; a payment has its CREDIT |
| Reconciliation (`services/ReconciliationService.ts`) | snapshot of pending rows | scan, verify on-chain, finalize, release, expire invoices | works on a stale snapshot; runs against live calls | every reservation settles; nothing in flight is released |
| Scheduler (`services/ReconciliationScheduler.ts`) | running and executing flags, timer | start, stop, cycle | several nodes, a lock of two seconds | one batch at a time, and always another one |
| Payment detection (`services/PaymentDetectionService.ts`) | `payments`, `invoices`, ledger | verify a signature and settle it | concurrent verification of one signature; stale invoice | credited once; invoice totals equal what was received |
| Invoices, ledger (`services/InvoiceService.ts`, `LedgerService.ts`) | `invoices`, `ledger_entries` | create, update status, record credit and debit | transition table that nobody calls | PAID is final |
| Solana service (`services/solanaTransactionService.ts`) | none | build, submit, confirm, verify | blockhash lifetime, confirmation by polling | verdicts match the chain |
| RPC pool (`services/solanaRpcManager.ts`) | provider health, cooldowns, cache, requests in flight | call with failover | sharing of requests in flight, retries, all providers cooling down, requests that never settle | a stale answer is never served where a fresh one is asked for |
| Privy wallets (`services/PrivyWalletService.ts`, `privyService.ts`) | `wallets` | provision, sign | check, then create at a remote service | one wallet per user |
| Transaction engine (`services/transactionEngine.ts`, `idempotencyService.ts`) | in-memory lock per user, saved responses | execute a transfer | lookup before lock, memory next to database | one transfer per key |
| Signature monitor (`services/zeroclawSignatureMonitor.ts`) | processed set, `zeroclaw_solana_settlements` | poll, reconcile | polls that overlap, marked before persisted, rows the schema refuses | one receipt for a payment, and none without its row |
| OTP store, rate limiter (`services/otpStore.ts`, `rateLimiterService.ts`) | attempt counters, database or memory | store, verify, limit | read, add, write; fallback to memory | at most five attempts, a code is used once |
| AI routing (`services/ai/routingEngine.ts`) | health and circuit of each model | record, choose | counts that never decrease | a recovered model is used again |
| ZeroClaw withdrawal routes (`apps/api/src/routes/v1/zeroclaw.routes.ts`) | intents, locks and rate counters in memory | prepare, confirm with a code, withdraw through seven layers | awaits between check and use; a timer that drops locks; identities compared in one form and locked in another | an authorization is used once |
| Web bootstrap (`apps/web/src/app/dashboard/services/DashboardBootstrapCoordinator.ts`, with `TenantContext.tsx` and the resolver in `umkmSupabaseService.ts`) | shown state, generation, promise of the run; the store in memory | run, chat in the background, sign-in, lost session, sign-out; resolve a store | answers that outlive the session that asked for them; a store in memory that is somebody else's | what is shown belongs to who is signed in |
| Webhooks, break-glass, authorization, AI assistants, other ZeroClaw routes, web views | see `PROJECT.json` | | | |

How they interact: `POST /api/withdrawals` calls `executeWithdrawal`, which
calls Privy (wallet, signature), the Solana service (through the RPC pool) and
the stored procedures. The scheduler's timer calls `reconcileBatch`, which reads
the same tables and calls `finalizeWithdrawal` and `releaseReservation` of the
same service. `POST /api/payments/verify` calls `verifyAndProcessPayment`, which
writes `payments`, `invoices` and `ledger_entries`, which reservations are
computed from. They share state only through the database. Every Solana request
of the API goes through one RPC pool per process. `executeTransaction` is a
second way to send money, with its own lock and store; ZeroClaw's withdraw route
is a third, with intents in memory. The monitor polls the chain through the same
pool for payments of invoices that the checkout routes store. Wallets are
provisioned by the routes of `wallet.routes.ts`, by withdrawals and by the creation
of invoices. The browser's bootstrap talks to none of these: it waits for the
sign-in and resolves a store and a chat.

## 2. The models

### Withdrawals

A call of `executeWithdrawal` is a process whose `pc` is the step it takes next,
from one await to the following one. A withdrawal row is named after the call
that inserted it and a transaction after the call that first built it.

| model | code |
|---|---|
| `rows[w]` | the row of `withdrawals`: status, signature, and the age the reconciler compares with 5 and 10 minutes (0, 1, 2) |
| `debits[w]` | ledger DEBIT entries that reference the row |
| `chain[s]` | a transaction: not built, built, in flight, landed, dead |
| `missed` | history: rows that were first debited while a reservation of their user stood between its two sums |
| `call[c]` | locals of `executeWithdrawal`: `currentRecord`, `signature`; `free` is the credits less the debits of the procedure that reserves for it |
| `recon` | locals of `reconcileBatch`: rows left, their signatures as scanned, the row at hand and its `ageMs` |
| `Lookup`, `UpdateCheck`/`UpdateWrite`, `Build`, `Sign`, `Submit`, `Confirm`, `Finalize`, `Release` | the awaits of `executeWithdrawal` and of the methods it calls; `updateWithdrawalStatus` is two, its SELECT and its UPDATE |
| `SumDebits`, `SumReserved`, `InsertReservation` | `reserve_withdrawal_atomic`, a step for each statement: under READ COMMITTED each one sees what is committed by then |
| `UserLocked` | the advisory lock of that procedure on the user, which no other procedure takes |
| `FinalizeRow`, `ReleaseRow` | the procedures that lock one row, each one atomic step |
| `SkipBatch`, `ScanRows`, `TakeRow`, `ParseTx`, `ReconFinalize`, `ReconRelease`, ... | `reconcileBatch`, one row at a time |
| `Land`, `Die`, `GrowOld`, `Crash`, `ReconCrash` | network, clock, restarts |

`Faults` says what the environment may do beyond ordinary failures, which are
always possible (a wallet that cannot be created, a refused signature, an RPC
error, a confirmation that times out, a transaction that never lands): `crash`,
`lost_reply`, `slow` (five minutes pass within a call or within a batch), `twin`
(two identical transfers get one blockhash), `db` (a database request fails,
with or without effect) and `no_lock` (below).

Time is abstracted to what the code compares. A blockhash lives some ninety
seconds, so while a transaction can still land its row passes at most one of
the two marks, and none unless `slow` is allowed (`chain[s].aged` keeps account);
without `slow` a batch sees at most one mark of a row between its scan and
its visit.

The reservation procedure exists twice. `20260811_final_remediation.sql:98`
takes an advisory lock on the user; the one of
`20260811_remediate_lifecycle_consistency.sql:89`, which sorts after it among the
migrations of that day, has the same statements without the lock. The first is
the model; the fault `no_lock` makes it the second.

A batch starts when the RPC of `pg_try_advisory_lock` answers true
(`ReconciliationService.ts:104`). When it answers false, or an error because no
migration exposes that function, the batch is skipped (`SkipBatch`), contrary to
the comment at line 118. Nothing assumes that any batch ever starts: what needs
one says so (`BatchesRun`). Batches do not overlap (section 6).

### WithdrawalContract

Withdrawals without statuses, processes and retries: `Hold` money that is free,
`Move` it at most once, then `Settle`; or `Return` it if it has not moved. The
check of a hold may be mistaken by the amounts of withdrawals it has overlooked
(`Slack`): a settlement may add its own to them, and nothing else may.
`ImplementsContract` maps a row's status to the contract's phase and counts a
withdrawal as moved when a transaction built for it has landed; `missed` is what was
overlooked. The sum it compares amounts with is a parameter of the contract (`Total`),
which `Withdrawals` fills with the one of its own queries.

### Totals

The SUM of `reserve_withdrawal_atomic` over ledger entries and reservations, and of
a payment's totals. A total is defined as the number of units it is made of
(`Cardinality` of a set with `f[x]` units for each row `x`) instead of row by row: it
is the same number for amounts in base units, and theorems about it follow from
those about finite sets, where an addition row by row would need an induction
over data.

### PaymentSettlement

`verifyAndProcessPayment` from one await to the next (`Lookup`, `ReadInvoice`,
`Settle` or `SettleReplay`, `RecordCredit`, `UpdateInvoice`, and `Abort` at any
of them), the procedure `settle_payment_atomic` as one step, and the invoices
part of `reconcileBatch` (`ScanExpired`, `SweepInvoice`). `credits[s]` counts the
ledger CREDIT entries of a payment, those of the procedure and of the service
alike. The ledger's total that `Withdrawals` starts from (`Funds`) is not linked
to these credits. Its constants and specification have names of their own
(`Verifications`, `Transfers`, `PaymentSpec`), so that `MCServices` can hold it
beside the other services.

### SolanaRpcPool

A call of `callRpc` is a process, from one await to the next. A fetch is known by
its number among the fetches of its key, so that properties can speak of older
and newer answers.

| model | code |
|---|---|
| `provider`, `cooling` | metrics of a provider; whether its `cooldownUntil` lies ahead |
| `cached[k]`, `inFlight[k]` | `rpcCacheMap` and `inFlightRequests` |
| `CacheHit`, `Join`, `Lead`, `Joined`, `Leave` | `callRpc`: cache, sharing, its own fetch, the `finally` block |
| `Try`, `TryWithoutToken`, `FallAsleep`, `Wake`, `Backoff`, `GiveUp` | the retry loop of `executeRpcWithFailover` with `selectBestProvider` |
| `Answer`, `AnswerNull`, `Fail`, `Succeeded`, `Failed` | the request and what `recordSuccess` and `recordFailure` make of the metrics |
| `Hang`, `Stuck` | a request whose promise never settles, and who waits for it: `performHttpRequest` has a timeout for an idle socket only and does not listen for a response that is cut off |
| `CooldownEnds`, `CacheExpires` | the clock |
| `begun`, `returned`, `told` | history: fetches begun, over, and given to a caller |

A token bucket may be empty at any time, and latency is left out of the choice.

### TransactionEngine

| model | code |
|---|---|
| `locks` | `activeTransactionLocks` of each process |
| `memory`, `table` | `localMemoryMap` of each process and the `idempotency_keys` table, whose reads and writes may fail unnoticed |
| `xfer[r]` | where `executeTransaction` waits, by the status it has written |
| `LookupTable`, `LookupMemory`, `Replay`, `RefuseLocked`, `Enter` | `checkIdempotency` and the lock: the table is awaited, the memory and the lock follow in one step |
| `Advance`, `Submit`, `Confirm`, `Throw` | the transfer; every await may throw, a submission's answer may be lost |
| `SaveTable`, `Return`, `Rethrow` | `saveIdempotency`, the catch and the `finally` block |
| `Land`, `Die`, `Restart` | the network; a process restarts with empty memory and its requests are lost |

The `idempotency_keys` table of the migration `20260810030000` lacks the columns
the service selects, so that in that schema only the memory protects; the model
lets the table work or fail each time.

### ZeroClawWithdraw

| model | code |
|---|---|
| `intent[i]` | `serverWithdrawalIntents`: status, `otpVerified`, whether `expiresAt` has passed |
| `replayLock`, `counted` | `antiReplayHashSet` and `withdrawalRateLimiter`, by the identity as the request spells it (lines 4374 and 4400) |
| `IdentityOf` | that spelling; requests whose identity is not the intent's, compared in lower case and trimmed (line 4105), are refused before and left out |
| `Prepare`, `ConfirmOtp` | the two routes before `withdraw`. `ConfirmOtp` marks the intent whatever the code check says, as the handler does |
| `RefuseUsed`, `RefuseOverdue`, `VerifyCode`, `CodeIsValid`, `CodeIsWrong`, `Use`, `RefuseUnverified` | layer 0; `VerifyCode` awaits, after which the status is not read again |
| `FailLayer`, `RefuseInFlight`, `SubmitWithdraw` | the layers up to the lock, the lock, and rate limit and submission |
| `BroadcastSucceeds`, `BroadcastFails`, `SaveRow` | the broadcast and the row in `zeroclaw_withdrawals` |
| `ClearLocks`, `WindowEnds`, `Overdue` | the timer of line 4045, the ten-minute window, the clock |

### SignatureMonitor

| model | code |
|---|---|
| `monitored`, `processed`, `notified` | the monitor's maps and sets, in memory; an address is registered for an invoice, the merchant's for the one billed last |
| `poll[p]` | a poll of `pollOnChainSignatures`: the entries as they were listed, addresses and signatures left, and the request it awaits |
| `bills`, `settlements` | `zeroclaw_invoices` and `zeroclaw_solana_settlements` (a row per address, a signature unique) |
| `members`, `refused` | invoices of users that the settlements table can reference; payments whose row was refused |
| `StartPoll` ... `Notify` | the loop from one await to the next |
| `Bill`, `SettleBill`, `Pay`, `Stop` | checkout routes, the chain, a restart |

Requests of the monitor may fail (`faults`). Three of them meet a schema that
refuses them although they do not fail, and the monitor looks at none of these
answers:

- the poll's query for active invoices (line 354) selects `amount`, which
  `zeroclaw_invoices` does not have (`20260804011000`, lines 27-50), so that
  `RegisterInvoices` registers nothing and a restart loses the addresses that
  checkout routes registered;
- the row of a settlement has the user of the address's entry (line 547), `system`
  or whatever name the route gave, where the table wants the UUID of a user
  (`20260730233500`, line 12; `20260809140000`, line 13): `UpsertSettlement` stores
  it for a member only;
- the statuses written to invoices (confirmed, underpaid, overpaid) violate the
  table's CHECK, so that an invoice never changes by them.

### DashboardBootstrap

| model | code |
|---|---|
| `boot`, `generation`, `promise` | the coordinator's `state`, `bootstrapGeneration`, `bootstrapPromise` |
| `runs`, `chats` | closures of `executeBootstrap` and `resolveBackgroundChat` under way |
| `tenant` | the singleton of `TenantContext.tsx`: user, store, whether it is ready |
| `known`, `remembered`, `switched` | history: who was signed in or restored since the page was loaded; whose store this generation took from memory; whether users changed without a sign-out |
| `auth` | what `canonicalAuthManager` tells its listeners |
| `Mount`, `SignIn`, `AwaitSession`, `AuthError`, `SessionLost`, `SignOut` | a dashboard is mounted; the listener; `supabaseService.signOut` |
| `DropRun`, `AuthAnswered`, `AuthMissing`, `TenantAnswered`, `TenantUnverified`, `RunThrows` | a run after each await |
| `ResolveOwn`, `ResolveRemembered`, `ResolveNothing` | `getCanonicalTenantContext` while a run waits for it: the store from the database, one it finds in memory or in `localStorage`, or none that could be verified |
| `Restored`, `TenantReady`, `SetActiveTenant`, `AnnounceTenant` | `TenantContext.tsx`: what a page starts with (lines 464-514), the check of the fast path, and the two forms of `setActiveTenant` (lines 517-605) |
| `ChatAnswered`, `ChatFails`, `ProvideTenant` | the chat; what views and late resolutions do to the store in memory |

The resolver says of a store it finds in memory that it is the asking user's, and
verified, without a look at whose it is (`umkmSupabaseService.ts:1976-2030`, `2262`);
the purge at line 1869 takes the store out of the memory but not out of the copy
(`active`) that it goes on with. It puts what it resolves into the memory before the run that asked
looks at its generation (line 2178), and a sign-out does not clear the memory. So
a store of an earlier user can be shown to the next one. `known` are the users whose
stores may be there.

### WalletProvisioning

`ensureUserSolanaWallet`: `FindRow` or `FindNoRow`, `ResolveUser`, `ImportUser`,
`CreateWallet`, `Persist`, `Reread`. Any answer may be lost and any call may stop
(`Abandon`). `owned` and `privyUsers` are what Privy knows, `walletRow` is the table.
A request to Privy that fails at the caller has taken effect by then or never
does.

## 3. What the runs show

Properties of `Withdrawals`:

- `ConfirmedIsBacked`, `DebitIsBacked`: under every fault, what is CONFIRMED has
  a landed transaction of its own, and is debited once. Calls, retries of them
  and the reconciler may all finalize one row.
- `EveryWithdrawalSettles`: no reservation stays for ever, as long as batches run
  (`BatchesRun`): again and again one obtains its lock, and not each of them is cut
  short by a restart. A batch may end at a row whose release throws, before the rows
  behind it are reached.
- `NoOverdraft`: what is debited and reserved exceeds the credits by no more than the
  withdrawals that were finalized while a reservation of that user was between its
  two sums (`Overlooked`). The code's own claim, that the balance is safe
  (`BalanceIsSafe`), is false because of these.
- `OneDebitPerTransfer`, `ReleasedNeverPaid`, `TerminalIsFinal`
  and `ImplementsContract`: without faults and with keys of their own, in all
  interleavings of calls, reconciler, network and clock. Section 5 says which of
  the faults each of them withstands.

Properties of the services in the run `services`, beyond their types:

- `OneFetchPerKey`, `AnswersDoNotGoBack`, `SkippedCacheIsFresh`,
  `CoolingIsNotChosen`, `EveryCallReturns`: concurrent calls cost one request;
  nobody who asks later gets an older answer; a call that skips the cache may
  share a fetch in flight but not one that was over; no request goes to a provider
  that is cooling down, whatever late answers come in; every call is answered except
  those whose request hangs and those who wait for such a call.
- `LockMatchesTransfer`, `KeyConfirmedOnce`, `RepliesArePaid`: no way out of a
  transfer leaks a lock or frees another's; a process confirms one transfer
  for a key; a response that is replayed is of a landed transfer of the same
  payload.
- `OnlyLateCodesReuse`, `OneBroadcastPerLock`, `UsedIsConfirmed`: only requests
  that waited for their own code can use an authorization again; no two broadcasts
  of an intent overlap that spell the identity alike, while the timer has not dropped
  their lock; what is used was confirmed and stays used.
- `OneReceipt`, `ReceiptsAreRecorded`, `ProcessedIsRecorded`: overlapping polls and
  two addresses of one payment give one receipt; a receipt has its row; a payment
  that will not be looked at again has its row or is about to. The last two except
  rows that the database refuses for their user, failed requests and invoices that
  other routes settle.
- `ShownIsSignedIn`: what is shown is the signed-in user's or was taken from the
  browser's memory by this generation; answers that outlive a sign-out do not come to
  the next user's screen by themselves.
- `OneWalletUnlessRaced`: calls that fail anywhere and are repeated end with one
  wallet.
- `PaymentsAreCredited`, `PaidIsBacked`: no payment without its CREDIT, and none
  credited without being recorded; a PAID invoice is covered, and counts no more
  than it received.

Without the conditions that they name the code does not keep them (section 6, and
the disagreements below).

| run | instance | result |
|---|---|---|
| `withdrawals_nominal` | 3 calls of 1 unit, funds of 2, no faults | holds, about 307,000 states |
| `withdrawals_faults` | 2 calls with one key, all faults | holds, about 489,000 states |
| `withdrawals_live` | 2 calls, `crash` and `db`, fairness | holds, about 97,000 states |
| `withdrawals_overdraft` | 2 calls of 1 unit, funds of 1, no faults | `BalanceIsSafe` is violated |
| `withdrawals_lostreply` | 2 calls, `lost_reply` | `ReleasedNeverPaid` is violated |
| `withdrawals_samekey` | 2 calls with one key, no faults | `OneTransferPerKey` is violated |
| `withdrawals_twin` | 2 calls, `twin` | `OneDebitPerTransfer` is violated |
| `payments_creditonce` | 1 call | `CreditedOnce` is violated |
| `payments_replay` | 2 calls verify one transfer for one invoice | `PaidIsBacked` is violated |
| `services` | seven components, one at a time (below) | holds, about 725,000 states |
| `boot_singleflight` | 2 users, 2 runs, 2 generations | `SingleFlight` is violated |
| `wallets_onewallet` | 2 calls for one account | `OneWallet` is violated |

The run `services`. The seven modules share neither variables nor constants, and
checking them in all combinations would multiply their states for nothing. In
`MCServices` the variable `live` names, once and for all, the instance of a component
that takes the steps; its behaviours are those of its own specification, less what the
table and the bounds below leave out, and the pool's fairness is assumed while it is
live.

| component | instance | why |
|---|---|---|
| pool (`pool`) | 3 calls of one key, one of which skips the cache, 1 provider, 2 attempts | a leader, one that joins and one that comes after; every branch of the loop. The choice between several providers is not exercised here: the theorems are for any number of them |
| pool (`keys`) | 3 calls of two keys | two fetches under way at one provider, so that one fails before the other is answered |
| engine | 3 requests of one user and key, two on one node and one on another; one asks for something else | a transfer, its repetition, and a repetition elsewhere |
| withdraw (`withdraw`) | 3 requests of one intent, two with a code, a limit of 2 | two that wait for a code around one that uses the intent, and the limit |
| withdraw (`spellings`) | 2 requests of one intent with codes, which spell the identity in two ways | two locks and two counters for one intent |
| monitor (`reference`, `merchant`) | 2 polls and a payment of a reference key, or of a reference key and the merchant's address, with one or two invoices; one failed request or restart | two polls overlap on one payment, under two addresses; the merchant's entry is of another invoice, which no other route settles |
| bootstrap (`runs`) | 2 users, 2 runs, 2 generations, an empty memory that changes only as the runs resolve | an old run and a new one, of different users |
| bootstrap (`views`) | 2 users, 1 run, 2 generations, any store in memory at the start, views that change it | whatever memory a run can meet |
| wallets | 3 calls for one account, 3 addresses | two that overlap and one after them |
| payment | 2 transfers of 1 unit for an invoice of 2; one is verified by two calls, of which one names no invoice | a repeated verification, and the expiry sweep between two payments |

Named bounds: `MaxGeneration` ends the bootstrap's behaviours at its last
generation, `MaxTroubles` limits failed requests and restarts of the monitor
(a second restart starts from the same kind of state as the first), `MCServices`
allows one chat of the bootstrap at a time and lets the first user be the one who
signs in first (they are interchangeable), and
`MaxRetries` and `WithdrawLimit` are the code's own with smaller values. Retries
of the pool and failures counted by it are bounded by the calls.

Why the bounds of the other runs are enough. Three calls are one more than the
funds allow, so that reservations compete, and one more than two actors on a row.
What two calls and the reconciler can do to one row, all three finalizing it among
it, is in the run with faults; a third call adds no new role, and for the
invariants of that run the proofs cover any number. Amounts are compared only with
each other, so one unit each is enough. Calls are interchangeable in each instance
that uses symmetry, and the run for liveness uses none; it has two rows, so that one
can keep the batch from the other, and leaves out the faults that only add states
the reconciler treats alike. Nothing is capped:
statuses, ages and counts are finite by themselves, except `paid`, which the
number of calls bounds.

Disagreements between code and documentation, each shown by a run:

1. *A withdrawal that is counted nowhere* (`20260811_final_remediation.sql:149`). The
   reservation sums the debits (line 144) and then what is reserved (line 149); a
   withdrawal that is finalized in between is in neither sum, since a finalize does
   not take the user's lock. "Enforce balance safety" (line 157) and the double-spend
   promise of `x402_PAYMENT_INFRASTRUCTURE.md:42` fail without any fault. Under the
   definition that takes no lock two reservations can also pass on the same balance.
2. *A lost reply releases a transfer in flight* (`WithdrawalService.ts:160`).
   Any error of the submission releases the reservation, also when a node took
   the transaction. The row keeps no signature, so nothing corrects it later. A
   crash, or a failed update, between broadcast and the CONFIRMING update ends
   the same way after ten minutes.
3. *One idempotency key, two transfers* (`WithdrawalService.ts:103`). The
   procedure returns the first request's row to the second, which goes on.
4. *One transfer, two debits* (`solanaTransactionService.ts:181`). Identical
   withdrawals with one blockhash are one transaction.
5. *Two credits for one payment* (`PaymentDetectionService.ts:137`).
6. *A replayed verification pays an invoice* (`PaymentDetectionService.ts:154`).
7. *Two bootstraps of one generation* (`DashboardBootstrapCoordinator.ts:394`). A
   stale run's `finally` block clears the promise of the run that replaced it.
8. *Two wallets for one account* (`PrivyWalletService.ts:51`). Two first calls that
   overlap each create one and each return their own.

`TerminalIsFinal` holds for requests with keys of their own and calls that are not
slower than the reconciler's timeouts. With `slow`, or with two calls on one row
(the third disagreement above), `updateWithdrawalStatus` can overwrite FAILED,
since its update does not repeat its check, although `WithdrawalService.ts:21`
calls those states terminal. `PAID` of an invoice is not final either
(`ReconciliationService.ts:191`, `PaymentDetectionService.ts:152`): that would be
false by a single line each, and no document promises it, so that no run is spent
on it.

## 4. Fairness

The pool (`PoolFairness`): a call that has been made goes on, for sleeps end and
promises that have settled are noticed. A request is answered, fails or hangs. There
is no timer that would end it: `performHttpRequest` (`solanaRpcManager.ts:379-420`)
rejects when the socket has been idle, which a response that trickles in never is,
and hears nothing of one that is cut off. So `EveryCallReturns` excepts a call whose
request hangs, and those that have joined it; for the others it holds because the
loop counts its attempts, whether requests succeed or not.

The withdrawals (`FairSpec`): a batch that runs goes on to its next step, and ends
after its last row (weak fairness). A batch may be cut short by a restart and an RPC
or database request may fail, any number of times; strong fairness of `ParseTx` and
of the finalize or release says that they do not fail every time on a row. Without
it a dead database is a counterexample that says nothing of the code. Time passes
for each row and a transaction in flight lands or expires. A call goes on or is
lost.

That batches run is not assumed but is the hypothesis of `EveryWithdrawalSettles`.
The timer starts a batch again and again, but the batch is skipped unless the RPC of
the advisory lock answers true, and no migration exposes that function: in such a
database nothing settles what a call has left behind, and the property says nothing.
`BatchesRun` says that batches begin again and again, and that from some time on a
restart does not cut one short except where it has come to its end or thrown an
exception. (A process that is restarted in every batch, just before the last row,
would not settle it.) TLC refutes the negation of `BatchesRun` under `FairSpec`, so the
hypothesis can be met. The run has two rows, so a row whose release throws
ends the batch in front of the other (`ReconciliationService.ts:169`); strong fairness
of each row keeps this from lasting.

## 5. What is proved

For every value of the constants that satisfies `CallsAssumption` (a finite set
of calls that does not contain `None`, faults from `FaultKinds`) and
`AmountsAssumption` (amounts and funds are natural numbers), or
`PaymentAssumption` (the types of the functions), and likewise `PoolAssumption`,
`EngineAssumption`, `WithdrawAssumption`, `MonitorAssumption`, `BootAssumption` and
`WalletAssumption`:

| theorem | statement |
|---|---|
| `WithdrawalProofs!TypeCorrect` | `Spec => []TypeOK` |
| `WithdrawalProofs!Invariance` | `Spec => []IInv` |
| `WithdrawalProofs!ConfirmedAreBacked` | `Spec => []ConfirmedIsBacked` |
| `WithdrawalProofs!DebitsAreBacked` | `Spec => []DebitIsBacked` |
| `WithdrawalProofs!OneDebitEach` | `Spec => []OneDebitPerTransfer`, without `twin` |
| `WithdrawalProofs!NeverOverdrawn` | `Spec => []NoOverdraft`, with `OwnKeys` and without `slow` and `no_lock` |
| `WithdrawalProofs!TerminalStays` | `Spec => TerminalIsFinal`, with `OwnKeys` and without `slow` |
| `WithdrawalProofs!ReleasedUnpaid` | `Spec => []ReleasedNeverPaid`, with `OwnKeys` and without faults |
| `WithdrawalProofs!Refinement` | `Spec => ImplementsContract`, with `OwnKeys` and without faults |
| `PaymentProofs!TypeCorrect` | `PaymentSpec => []PaymentTypeOK` |
| `PaymentProofs!PaymentsCredited` | `PaymentSpec => []PaymentsAreCredited` |
| `PaymentProofs!PaidCovers` | `PaymentSpec => []PaidCoversDue` |
| `PaymentProofs!PaidBacked` | `PaymentSpec => []PaidIsBacked`, with `OneCallPerTransfer` |
| `PoolProofs` | `PoolTypes`, `PoolSharesFetches` (`OneFetchPerKey`), `PoolAnswersInOrder` (`AnswersDoNotGoBack`), `PoolSkipsCache` (`SkippedCacheIsFresh`), `PoolCircuitStaysOpen` (`CoolingIsNotChosen`, an action property) |
| `EngineProofs` | `EngineTypes`, `EngineLocks` (`LockMatchesTransfer`), `EngineConfirmsOnce` (`KeyConfirmedOnce`), `EngineRepliesPaid` (`RepliesArePaid`) |
| `ZeroClawProofs` | `WithdrawTypes`, `WithdrawUsesConfirmed` (`UsedIsConfirmed`), `WithdrawBroadcastsOnce` (`OneBroadcastPerLock`), `WithdrawReuse` (`OnlyLateCodesReuse`, an action property); `MonitorTypes`, `MonitorSendsOneReceipt` (`OneReceipt`), `MonitorRecordsReceipts` (`ReceiptsAreRecorded`), `MonitorRecordsProcessed` (`ProcessedIsRecorded`) |
| `BootProofs` | `BootTypes`, `BootShowsSignedIn` (`ShownIsSignedIn`) |
| `WalletProofs` | `WalletTypes`, `WalletIsOne` (`OneWalletUnlessRaced`) |

Withdrawals. That a finalize leaves a backed row depends on who runs it and what
that process knew, so `ConfirmedIsBacked` alone is not inductive. `IInv` adds
three facts: a call has no signature before it builds, has one afterwards, and
is at `finalize` only when that transaction has landed
(`CallsKnowTheirTransaction`); a row's signature is that of a transaction some
call built for it (`RowsNameTheirTransaction`); and the same holds of the
signatures in the reconciler's snapshot, however old
(`BatchKnowsItsTransactions`). Two monotonicity lemmas carry it through the steps:
a landed transaction stays landed, and what a call has built for a row stays
built for it. No assumption on `KeyOf`, `UserOf`, `AmountOf` or `Funds` is used:
the result does not depend on the amounts, nor on idempotency keys working.

One debit for a transfer (`OneDebitEach`). `OwnTransactions`: a call's signature is
its own, and a row that is debited names one. With `IInv` two debited rows with
one signature would be rows of one call.

Overdrafts and final statuses (`NeverOverdrawn`, `TerminalStays`). The hypothesis
`OwnKeys` says that no two requests have one idempotency key. The invariant
`OwnInv` has three parts. `RowsFollowCalls`: a row and the call it belongs to go
through the statuses together, and a row that has reached the five-minute mark has
no call any more. `BatchIsFresh`: what the reconciler has read of a row, its
signature and its age, still tells whether the row is under way.
`BatchReleasesOld`: what it releases is old and not confirmed. From it every step
moves one row at most, and only in the ways `RowStep` lists: a row that holds
money is advanced, released or confirmed with its one debit, or a row is inserted
that the balance covers. None of these leaves a terminal status, which is
`TerminalStays`.

For `NeverOverdrawn` a row's debit and its reservation are added into one amount
(`BalanceByRows`); no step but an insertion increases any row's (`BalanceKept`). What
covers the insertion has been read before it, in two parts, while other rows went on.
`Covered` follows it: the lock lets one reservation of a user sum and insert at a time
(`OneReserves`); what it has summed is right but for the rows that were debited since,
which are those of `missed` (`SumIsGood`); and so is the balance its second sum finds,
until it inserts (`CheckIsGood`), for nobody else can take from it. Crashes, lost
replies, shared blockhashes and a failing database do not matter: a call that dies or
is retried late leaves its row reserved, not free.

Released withdrawals and the refinement (`ReleasedUnpaid`, `Refinement`).
`SureInv` adds that a transaction which has been sent belongs to a row that is
CONFIRMING, or whose call is about to write that, that it has died before the row
reaches five minutes (`TransfersAreKnown`), and that what the reconciler is about
to release has no transaction that could land (`ReleasesAreDead`). Then `RowStep`
maps to the contract: an insertion is a `Hold`, which `CheckIsGood` covers up to the
contract's slack; a release is a `Return`, the confirmation a `Settle`, which may be
overlooked, the landing of a transaction a `Move`, and every other step changes
nothing the contract speaks of (`StepRefines`).

The hypotheses are needed. TLC finds, for two calls, a withdrawal that is released and
paid for each of the faults alone but `no_lock`, and without faults for requests that
share a key; and with each of the six alone a step that is none of the contract's.
With `slow` alone FAILED is overwritten, and with funds for one of two calls more is
taken than was overlooked; so it is with `no_lock`. With a shared key FAILED is
overwritten without any fault, and three calls, of which two share a key, overdraw
funds for one by more than was overlooked. With `twin` a transfer pays for two
(`withdrawals_twin`). `NeverOverdrawn` allows every fault but `slow` and `no_lock`, and
`TerminalStays` every one but `slow`, which is more than `withdrawals_nominal` checks.

Payments. A call beyond the settlement has its signature on record
(`CallsHaveSettled`), so the service's own ledger entry never credits a payment
that is not recorded; and both writers of PAID compare the total they write with
what is due, so that even a stale overwrite keeps `PaidCoversDue`. For the upper
bound (`PaidBacked`) an invoice's `paid` is bounded by the total of the transfers
that have been received and counted for it (`PaidIsCounted`): a call that has not
settled yet holds back its own transfer, which it then adds once. That fails when
two calls submit one transfer for one invoice, which `OneCallPerTransfer` excludes
and `payments_replay` shows.

Pool. `PoolInv` numbers the fetches of a key: the one in flight is the last one
begun and the only one not over (`KeyInv`), a fetch is newer than what its
leader had seen and than what was over when it began (`CallInv`), and who joins
does so while the leader is fetching (`JoinInv`). An answer is never newer than a
valid cache entry, for each fetch that answers overwrites the entry.

Engine. A confirmed request is in its process's memory or still holds its user's
lock (`ConfirmedIsKept`), and a request that enters has just seen the memory without
its key, in the step that takes the lock; so no second one for the key can reach
the end. This is why the lookup before the lock, which the table's await splits, is
harmless within one process.

A provider whose cooldown lies ahead has the status `cooldown` (`CoolingInv`): a
failure sets both, a late success changes the score but not that status, and only a
choice after the cooldown makes it `degraded`.

Withdrawal routes. A request that broadcasts holds its lock, that of the intent and
of the identity as the request spells it, unless the timer cleared it
(`BroadcastHoldsLock`); with it each of the three properties is inductive.

Monitor. Every receipt is marked in the set of receipts sent in the step that
sends it, so however many polls work on a payment there is one
(`ReceiptsAreNotified`). A poll that has come as far as the receipt of a payment which
shares no address has its row stored, by itself or by the poll that was faster, or
knows why not (`PatchesAreRecorded`); no other payment's row takes the place of
that row (`SettlementsMatch`); and a mark without a row is that of a poll about to
store it, which is lost together with the poll.

Bootstrap. A run of the current generation is of the user who is signed in
(`RunsAreOfUser`), a chat of it is that user's or of a store taken from memory
(`ChatsAreOfUser`), and none is of a later generation (`NoneAhead`): a session that is
lost makes all of them old before anybody else can sign in. Nothing is required of
the store in memory but that it belongs to a user (`StoresHaveUsers`).

Wallets. An account of which no two calls overlapped has at most one wallet, a
call past the resolution of such an account knows that one or that there is none,
and no other call is under way.

Only model-checked: liveness and everything with ENABLED, which the prover does
not handle (`EveryWithdrawalSettles`, `EveryCallReturns`).
Every invariant and every action property of the passing runs is proved, under the
hypotheses named above.

## 6. Not modelled

Behaviour of modelled components that the models leave out or only condition on:

- Reconciliation: batches that overlap, on one or several nodes. The advisory
  lock (if there is one) and the scheduler's bucket (`ReconciliationScheduler.ts:74`) do not exclude
  them; two batches over the withdrawals of `withdrawals_nominal` have too many
  states for TLC, and the proofs speak of one.
- Invoices: PAID as a final status (above). The ledger of `PaymentSettlement` and
  the funds of `Withdrawals` are not one variable.
- Engine: two nodes, a restart, or a transaction that lands after its confirmation
  timed out can pay twice for one key; Privy is given the key, and what it does with
  it is outside the repository. Saved responses expire after a day.
- Withdrawal routes: balances are read and not reserved, so that two intents of
  one user may pass on the same balance; a row says completed when the broadcast
  was accepted, not when the transfer has landed; locks of requests that fail are
  left to the timer. The checkout, simulation and report routes read and write
  single rows.
- Monitor: the limit of five signatures for an address, the deletion of invoices
  and the cache of parsed transactions. That a payment is recorded at all is not
  claimed: after a restart its address is not registered any more, and its row may be
  refused. A payment found under the merchant's address is recorded under that
  address and for the user billed last, the next one overwrites the row, and a
  failed request after the signature was marked processed loses it until a restart:
  what is recorded of such payments is excepted from the two properties.
- Bootstrap: whose store the memory gives to a run (`ShownIsSignedIn` excepts it), a
  switch of users without a sign-out, the provisioning of stores, and the token
  refresh of `CanonicalAuthManager.ts`.
- Wallets: a creation at Privy that takes effect after its caller has given up.

Components without a module, and why:

- OTP store and rate limiter: between the database and its in-memory fallback what
  one would ask (at most five attempts, a code used once) is false as soon as a
  request fails, by the lines `PROJECT.json` names; without failures it restates
  single queries.
- AI routing: scores and a circuit breaker updated in one synchronous step.
- Webhooks: one insert.
- Authorization, identity, break-glass: decisions about one request.
- AI assistants and swarms: prompts, and answers of language models that the code
  does not constrain.
- Web views and their data access: most of the repository's lines; rendering,
  texts and queries without a protocol of their own.
- Tenant schema and row-level security: declarative SQL.
- ZeroClaw bridge client: a stateless HTTP client. Number, date and address formats.
