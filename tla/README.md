# A verification development for the exchange backend

TLA+ models of the parts of this repository that move money, and of those that
decide who may move it, the TLC runs that check them, and TLAPS proofs about the
ledger, the matching engine, spot trading, both kinds of withdrawals, deposits and
sessions. The reference is the code under
`backend/src` (Express, Prisma, PostgreSQL) with the constraints in
`backend/prisma`; paths below are relative to the repository.

    tlc -workers 2 -config <run>.cfg <module>     # one line of "Runs" below
    tlapm <module>Proofs.tla                      # one of the eight of "Proofs" below

`PROJECT.json` maps every definition to the lines it stands for, and lists the
runs, the hazards, the findings and, for each property, a mutant of the code's
model that breaks it. Definitions whose comment begins "Mutant:" are those
mutants and are part of no specification.

## 1. Inventory

How the parts meet: the HTTP services (trading, withdrawal, deposit, conversion)
and the two kinds of workers (withdrawal executor, deposit scanner) share one
PostgreSQL database and nothing else, except that the trading service keeps a
lock per market in the memory of its process. Every movement of money is a call
to `ledgerService.post`, with a `(referenceType, referenceId)` that makes it
idempotent. The services write their own rows (orders, trades, withdrawals, ...)
in *separate* statements before and after that call. There is no queue and no
outbox: what a request has not done when its process stops is not done.

| Component | State | Operations | Hard behaviour | What makes it correct |
|---|---|---|---|---|
| Ledger (`modules/ledger`) | account_balances, ledger_transactions, ledger_entries | post, internalTransfer, projection and reconcile | concurrent SERIALIZABLE transactions, P2034 retries, lost answers; no unique index on the reference | a reference posts once; users never below zero; every asset nets to zero; projection = entries |
| Matching engine (`trading.engine.ts`) | none (pure) | matchOrder, crosses; computeLockRequirement and computeFee of `trading.types.ts` | floored notionals, budget orders, orders without a price in the book | price-time priority; limits; the lock suffices |
| Spot trading (`modules/trading`) | orders, trades, promise chain per market | placeOrder, cancelOrder | many awaits per request, interleaving before the lock is taken, steps that fail after money moved, restart | tape, orders, locks and balances agree; nothing trades twice; terminal orders give back what they did not spend |
| Crypto withdrawals (`modules/withdrawal`) | crypto_withdrawals, wallet_nonces, freeze flag, allowlist | requestWithdrawal, approve, reject; executor: claim, sign, broadcast, poll, finalize, fail | several workers, admins acting on a moving row, unknown outcome of a broadcast, worker restart | sent once; paid exactly when mined; two approvals above the threshold; hold given back or paid out, never both |
| INR withdrawals (`modules/inr-withdrawal`) | inr_withdrawals | request, approve, reject, markPaid | postings before conditional updates; the row is deleted on any error of the reservation | reservation released or paid out, once |
| INR deposits (`modules/deposit`) | inr_deposits, webhook_events | createDeposit, verifyPayment, handleWebhook, settleCapturedPayment, manual create/approve/reject | redelivered and reordered webhooks, verify racing webhook, maker-checker | a captured payment is credited once; the maker is not the checker |
| Conversion (`modules/conversion`) | conversion_quotes, conversions | createQuote, executeConversion | expiry, liquidity checked apart from the posting | a quote executes once, within its expiry and the liquidity |
| Deposit scanner (`modules/scanner`) | scan cursor, crypto_deposits | scanOnce, runConfirmations, creditDeposit | reorganisations, orphaning against confirming, restart | each deposit credited once, and only when final |
| Deposits by transaction hash (`modules/crypto-deposit`) | master_wallet_deposits | submit, verifyAndProcess, adminRecheck, creditDeposit | two submitters of one hash, recheck racing submit | one credit per transaction |
| Wallets (`modules/wallet`) | deposit addresses, derivation indices | requestDepositAddress | index allocation under concurrency | an address belongs to one user |
| Idempotency keys (`middleware/idempotency.ts`) | idempotency_keys | claim, replay, complete | crash between claim and completion | a key's handler takes effect once |
| Authentication (`modules/auth`) | auth_sessions, refresh tokens, email_otps, user_federated_identities, challenges in Redis | login, refresh with reuse detection, logout, password change and reset, mailed codes, sign-in with Google or Apple | concurrent logins and refreshes, attempt counters read before they are written, challenges redeemed twice | one active session; a rotated token is exchanged once; a used code lets nobody in; an identity is never linked without proof |
| User security (`modules/user-security`) | users.totp*, recovery codes, failure counters and login challenges in Redis | setup, confirm, verification, step-up, disable, reset by an admin | two calls with one code, a process lost between two Redis commands | each code lets one call through; guesses are bounded; the lock ends |
| KYC (`modules/kyc`) | kyc_profiles, users.kycStatus and kycTier, webhook events | submit, provider webhooks and polls, decide | callbacks late, repeated and out of order; two rows for one status | the rows agree; an approval is terminal; a result is about the submission at hand |
| Compliance (`modules/compliance`) | compliance_profiles, checks, alerts, cases | enhanced submission, screening, review, monitoring runs, cases | errors that are swallowed, a second writer of the KYC status, runs and admins on the same alerts | no approval before a screening; grave alerts reach a case and weigh in the risk |
| Admin accounts and roles (`modules/admin-rbac`) | admins, roles, sessions, permissions cached in Redis | login, roles and permissions, suspend, deactivate, reactivate, reset of passwords | several writes per call, a cache filled from stale reads | a SUPER_ADMIN is left; sessions and cached permissions end with what they rest on |
| Tax, legal and support, notifications, market data, reports and health, infrastructure, frontend and mobile clients | their own records | management and queries | little ordering | no flow above depends on them |

`PROJECT.json` gives the status of each component, and lists the hazards.

## 2. What is modelled, and how it corresponds to the code

### Postings, Ledger, LedgerCalls, LedgerTx

`Postings` is the vocabulary: accounts (a user kind needs an owner, a system kind
must not have one), debit and credit lines, `assertPostingBalanced`, the guard of
`debitBalance` and the effect of a posting. Amounts are integers where the code
has exact decimals.

`Ledger` is the abstract promise: a posting is one atomic step that happens at
most once per reference. `LedgerTx` is `ledgerService.post` as it runs: each
client opens a transaction on a snapshot (`Begin`, with `findExistingPosting`),
executes its lines one statement at a time (`PostLine`) and commits (`Commit`)
unless something it read or wrote was committed since its snapshot
(`Conflicts`: what PostgreSQL, which is external, refuses at the `isolationLevel`
that `ledgerRepository.tx` asks for).
`SerializationFailure` is P2034, spurious or not, with the loop of
`postWithRetry`; `DatabaseError` any other failure; a commit whose answer is lost
is `Commit` returning "error". `internalTransfer` is the `Transfer` posting of the
MC module: two lines and no reference, so a repeated call is a second transfer.

`LedgerCalls` is what the flows import: `Ledger` without the history. A call that
is asked for again changes nothing and succeeds. `LedgerTxProofs!ServesTheFlows`
shows that the concurrent transactions take no other step than such a call.

The deferred trigger `assert_ledger_balanced` (migration.sql:1395) repeats the
balance check and is not modelled. The `balance >= 0` trigger that the comment at
migration.sql:1385 speaks of exists in no migration, so the conditional update of
`debitBalance` is the only defence, as modelled.

### MatchingEngine, MatchingRun

`MatchingEngine` has the pure functions, in integer base steps and quote units.
`QScale` is the number of base steps a price is quoted for, so that
`price * quantity / QScale` floors exactly when the decimals of the code do.
`MatchingRun` executes `matchOrder` maker by maker over every bounded input; TLC
and the proofs use the same module. A
MARKET order that is still in flight has a null price, which `loadRestingBook`
sorts last for buyers and first for sellers, and which the engine reads as 0.

### Trading

One market. A request is a program counter (`place[o]`, `cancel[o]`) and each
action is the code between two awaits, or one awaited write:

| Action | Code |
|---|---|
| PlaceOrder | validation, computeLockRequirement, createOrder |
| LockFunds, RejectOrder, OpenOrder | the posting to USER_LOCKED; REJECTED; the unconditional OPEN |
| EnqueuePlace, RequestCancel | withMarketLock: a link of the promise chain |
| MatchOrder | loadRestingBook and matchOrder, under the lock |
| SettleFill, CreateTrade, UpdateMaker, ReleaseMaker | one fill: ledger, trade row, maker row, maker's surplus |
| FinalizeTaker, ReleaseTaker | the taker's row from the totals of this pass, its surplus |
| CheckCancel, CancelOrder, ReleaseCancelled | the order read again and checked under the lock; the unconditional CANCELLED; the surplus |
| StepRefused, CancelRefused | the ledger or a CHECK constraint refuses the step's own write |
| PlaceError, CancelError | the database fails the step, before or after it took effect |
| Crash | the process restarts: chain and requests are gone, rows stay |

The lock is a map in one process. The comment at trading.service.ts:97-98 makes a
single process the deployment, and the model has one chain. `UpdateMaker` uses
the maker's current row where the code uses the copy it loaded; the two agree,
because `filled` and `quoteSpent` change only under the market lock. `loadRestingBook` is
the sequence of the open rows in the order of `Before`; there is exactly one.

### Withdrawal

One user; each withdrawal has one `requestWithdrawal` call. Admins open a row
(`OpenReview` keeps what `findById` returned) and later apply their conditional
update. A worker alternates a broadcast pass and a confirmation pass over rows as
they were when the pass listed them. The network is external: a transaction sent
is mined to one confirmation (`seen`), to the required depth (`deep`), or dropped
(`failed`). `approvals` is a history variable.
`RequestLost`, `ReviewLost` and `WorkerLost` are lost processes or errors that
propagate; `BroadcastError` is an error inside the `try` of `broadcastWithdrawal`,
whose `catch` fails the withdrawal.

The user withdraws to one address, which `AddAddress` puts on the allowlist and
`CoolingOffEnds` makes usable. The unique index on (chain, from_address, nonce)
never bites, since nonces are allocated atomically. `recordAudit` swallows its
errors and writes no row a flow reads.

`Reservation` is the abstract promise about a withdrawal's money (free, reserved,
then released or paid, once each); Withdrawal and InrWithdrawal implement it through
`MoneyOf`, which reads the phase from the references that were posted.

### InrWithdrawal, Deposit

`InrWithdrawal`: a request creates its row, posts the reservation and binds it; any
error of the posting deletes the row (`ReserveError`). `OpenReview` reads the row,
`Release` and `Payout` post before `Reject` and `MarkPaid` update it on a condition,
as the service does; the guard on the user's pooled USER_LOCKED balance and the
references are what is left to keep two reviews apart.

`Deposit`: the gateway delivers each event of a payment any number of times to
several handlers (`Receive`, then `Settle`, `CreditCaptured`, `MarkCredited`), while
`verifyPayment` attaches the payment and failures are marked (`MarkFailed`). Manual
claims pass `OpenApproval`, `MarkFirstApproval`, `CreditManual`,
`MarkManualApproved`, or the rejection; `UtrClaimed` is the unique index on the
reference of the transfer. `approvers` is a history variable.

### Blockchain, DepositScanner, MasterDeposit

`Blockchain` is external: blocks with hashes, and reorganisations less deep than
`Final` that drop transfers or mine them elsewhere. `DepositScanner` is the worker's
cycle, one action per read of the chain or statement on the database: `ReadHead` to
`upsertCursor` for the scan, `ReadConfirmationHead` to `markCredited` for the
confirmation pass. `MasterDeposit` is the other way in: a hash is submitted,
verified (`ReadReceipt`, `ReadTip`) and credited, or rechecked by an admin. The
receipt and the head, which the verifier asks for at once, are read in that order.

### Idempotency, Conversion, DepositAddress

`Idempotency` is the middleware around a handler (`Lookup`, `Claim`, the handler's
steps, `Respond`, `Store`, with errors and lost processes); `Conversion` extends it
and is the handler: a quote is computed with its fee and tax (`computePlan`), and
executing it checks the liquidity, posts one settlement, records the conversion and
consumes the snapshot. `DepositAddress` allocates derivation indexes in SERIALIZABLE
transactions with the retries of the service.

### Sessions, OneTimeCode, Federated, SecondFactor

`Sessions`: the sessions of one user. A login creates its session, lists the others
and revokes them one by one; refreshes rotate a token by one conditional statement;
password changes write the password and then end sessions. `OneTimeCode`: codes of
three purposes mailed to one address, with limits, attempts and use. `Federated`: an
identity leads to its account, or to a challenge that is redeemed once and either
links the account with its address, after a mailed code, or opens one. Opening needs
an address, an identity and a phone number that no account has; the insert comes after
the challenge was taken, so a number that is taken burns it.
`SecondFactor`: enrolment, TOTP and recovery codes, the counter of failures in
Redis, the login challenge, and what a verified code grants. Tokens, hashes and
codes are abstract: a call presents the right one, or a wrong one.

### Kyc, Compliance, Monitoring, AdminAccess

`Kyc`: submissions, webhooks, polls and decisions over `profile` and `account`, with
`KYC_TRANSITIONS` as in the code. `Compliance` extends it with the enhanced
submission, whose mirror writes the same rows, the screening and the review.
`Monitoring`: a run turns findings into alerts, the new and grave ones into the case
of the day, and computes the risk again, while admins act on alerts and cases.
`AdminAccess`: admins act on each other's status, password and roles; each call
writes, then revokes sessions, then drops cached permissions.

### The MC modules

MCMatching, MCWithdrawal, MCRails and MCAccounts hold several *scenarios*. MCMatching
and MCWithdrawal extend the modules they run and restrict them, scenario by scenario;
in MCRails and MCAccounts a scenario is an instance of one or more modules with its own
parameters. A behaviour starts in one scenario
of the set the configuration gives and stays in it; a property of MCRails or MCAccounts
is the conjunction of what its scenarios promise, and the comment at the top of the
module says what each scenario is for. The components a scenario does not run are
kept empty. In "together" of MCRails, deposits and INR withdrawals run on one ledger.

## 3. Runs

The ledger, trading and withdrawal runs check for deadlock; where these systems may
rest, quiescence is a stuttering step (`Quiescent`, `Idle`, the finished book of
`MatchingRun`). Rails and Accounts do not: a scenario stops when the calls its bounds
allow are used up.

| Run | Module | Shows |
|---|---|---|
| MCLedgerTx | MCLedgerTx | Two callers over a small history of postings: each reference posts once, nobody is overdrawn, every asset nets to zero and the projection is the sum of the entries (`BooksAgree`), what was acknowledged is there, every call returns, and the transactions implement `Ledger`. |
| TradingSequential | MCMatching | "engine": every taker against every sorted book of up to three orders; the lock covers the execution and the loop agrees with a loop-free reference, dust aside. "trading": three requests, one after the other; tape, order rows and money agree, the book is uncrossed, a closed order stays as it is, and each trade is with the best order. |
| TradingConcurrent | MCTrading | Two requests at once with a database error and a restart: one request past the lock, rows of the tape settled and reserved, every request ends. |
| Withdrawals | MCWithdrawal | "dual": two different approvals before a large withdrawal is sent. "pair": two workers race over two withdrawals; each is sent once, held until its outcome is known, and the ledger agrees with the rows at rest. |
| WithdrawalFailures | MCWithdrawal | Two failures anywhere, reviews of requests still running, the freeze, and money for one of two: sent once, paid only if mined, `Reservation` implemented. What is recorded as sent is in the end paid out, mined deep, or failed with its hold given back; outside of a broadcast error that was caught, the second only if the network dropped it. A hold of a failed withdrawal stays locked only where a failure fell between `markFailed` and `releaseHold`. |
| Rails | MCRails | Credits are backed by a payment, enough approvals or a deep transfer; rows show only money that moved and explain the user's balance; a quote, a key and a request for an address are answered once; INR withdrawals implement `Reservation`, and their pools are what was posted; captured payments and mined transfers are credited in the end. |
| Accounts | MCAccounts | Sessions end with what they rest on, tokens rotate once, codes hold against two calls with one code, the two KYC rows agree and approvals stand, alerts reach cases, a SUPER_ADMIN is left, and identities are linked only with proof. |

Five more runs end in a counterexample on purpose: they check what a comment, a test
or a document says, and the code does otherwise.

| Run | Statement refuted | How |
|---|---|---|
| TradingOverfill | the market lock prevents "a maker order being double-spent" (trading.service.ts:94-96) | An order is OPEN, hence in the book, before it waits for the lock. Another taker fills it; its own pass then starts from its full quantity and overwrites its row. |
| WithdrawalLostRecord | held until the outcome is known (ARCHITECTURE.md:399) | `setBroadcast` fails after the transaction was sent; the catch block releases the hold. |
| ScannerReorgRace | "never on a reorged/dropped tx" (ARCHITECTURE.md:332) | The chain reorganises between the read of the transfers and that of the block hashes: a dropped transfer is stored under the new hash and credited by its height. |
| ScreeningSkipped | approval is blocked while screening failed or is pending (compliance.service.ts:541-542) | A screening that fails before its first check leaves no check to block on, and a posture (PENDING) the other gate lets through. |
| WrongCodeBurns | "rejects a wrong OTP without consuming the link challenge" (test/unit/auth-federated-service.test.ts:441) | GETDEL takes the challenge before the code is compared; one wrong code ends it, and the limit of attempts never applies. |

### Other divergences

These were met while modelling. They have no run of their own; the passing runs
exclude them by the bound or condition named, or the property states what does hold.

Trading
* A cancellation that overtakes its placement is opened again by the placement, and
  the second release is deduplicated against the first: the funds stay locked
  (trading.service.ts:516; DATABASE_ARCHITECTURE.md:555). TradingSequential has one
  request at a time.
* A fill worth less than one quote unit is settled, then `trades_quote_chk` refuses
  its row (trading.service.ts:434; DATABASE_ARCHITECTURE.md:554). The trading runs have
  prices that `QScale` divides, which excludes it.
* A MARKET BUY whose budget is floored leaves dust at an order and may go on to the
  next one, past what is left (`LostDust`); with the decimals deployed for USDT and INR
  both fills can be inexact, and an inexact fill is what `trades_quote_chk` refuses.
* The loop of `matchOrder` stops at a maker whose remainder is dust, though the
  comment at trading.engine.ts:89 has LIMIT orders stop only at their price. The
  comment at trading.engine.ts:21 ("maker orders always have a price") overlooks
  MARKET orders in flight, which stop a LIMIT SELL altogether (`Obstructed`).

Withdrawals
* `setHold` is unconditional and revives a row rejected meanwhile, with the rejecting
  admin in `approvedBy`; one approval then counts as the second
  (withdrawal.repository.ts:178; ARCHITECTURE.md:391). With `EarlyReview = TRUE`
  DualControl fails; the run Withdrawals, and the theorem, have admins wait for the
  request they review.
* With two workers, a lost answer of `setBroadcast` lets one of them fail and release a
  withdrawal that the other then finalizes: both postings are in the ledger. The run
  WithdrawalFailures and the theorem therefore have one worker, or no failures.
* `reject` (withdrawal.service.ts:433) decides on the release from the row it read
  first; a hold bound in between stays. A process lost between closing a row and
  releasing its hold (543) leaves it too, against "FAILED, release the hold"
  (ARCHITECTURE.md:396): no pass looks at closed rows, nor at SIGNING.
  `OnChainIsSettled` counts these holds (`Stranded`) and has each of them come from a
  failure at that place.
* The `catch` of `broadcastWithdrawal` (511) gives the hold back without asking the chain:
  a withdrawal it fails may have been mined, which WithdrawalLostRecord shows.
  `OnChainIsSettled` excepts it by name (`ErrorCaught`).
* The daily limit (212) is read before the row that counts towards it exists; the
  freeze (143) is read on request and not before a broadcast, where
  ARCHITECTURE.md:407 puts it.
* INR: any error of the reservation deletes the row, also when the reservation was
  committed (inr-withdrawal.service.ts:165), which strands it, once for each answer that
  was lost (`StrandedAsLost`); `reject` and `markPaid` post before their conditional
  updates and are kept apart only by the user's pooled USER_LOCKED, so with enough locked
  otherwise both move money for one row. Hence the scenario "alone", where nothing else is
  locked and everything may overlap and fail, and "together", where calls on one row do
  not overlap.

Deposits
* A FAILED attempt followed by a capture is never credited; `approve` racing `reject`
  credits a row that ends FAILED; `attachPayment` can turn SUCCESS into PENDING and
  `markFailed` overwrite it (deposit.service.ts:457); a delivery that failed between
  recording and settling makes the redelivery a dropped duplicate (324).
  `CapturedIsCredited` is therefore checked in "gateway", where no step fails.
* A failed fetch of a block skips its orphaning, and blocks older than the reorg
  buffer are not scanned again; `lastScannedHash` is never compared
  (DATABASE_ARCHITECTURE.md:158 says it is); crediting is not one transaction with
  FOR UPDATE (ARCHITECTURE.md, 8.4); with two workers `updateConfirmations` can take
  CREDITED back, until the next cycle.
* A master deposit that is CONFIRMED can be overwritten with PENDING or FAILED by a
  slower check (crypto-deposit.service.ts:183).

Conversion and idempotency
* `conversions.quoteId` has no unique index: two keys for one quote record two rows
  (conversion.service.ts:126), of one settlement. Two executions at once can pass the
  liquidity check together (149). A request that fails after the settlement and comes
  back after the expiry is answered QUOTE_EXPIRED though it converted.
* A process lost before the response is stored leaves its key pending, with 409 for
  every retry; an answer of 5xx frees the key though the handler took effect.

Accounts
* Ending sessions is best-effort (auth.service.ts:746 swallows errors); a login that
  checked the old password before a reset opens a session after it; a process lost
  between the password and the revocations leaves the sessions.
* `markUsed` has no condition (auth.otp.repository.ts:72-77), so two verifications at
  once both succeed, and attempts are compared before they are counted. Two requests
  at once leave two active codes ("Only one active code at a time",
  auth.otp.service.ts:85).
* Setting up a second factor while another is confirmed leaves it on with a secret
  nobody confirmed, or none. `EnrolmentOverlaps = FALSE` excludes it. A process lost
  between INCR and PEXPIRE leaves a counter that never ends; errors of Redis let the
  call through.
* KYC transitions are judged on a row read earlier and written without a condition: a
  late webhook overwrites an admin's approval when calls overlap, against
  kyc.status.ts:6-10. A result PENDING undoes REJECTED without a resubmission
  (kyc.status.ts:16-17), and events whose transition is refused are retried for ever.
* The compliance review writes `users.kycStatus` beside the status machine that
  kyc.status.ts calls the single source of truth: an approval can end in REJECTED with
  its tier kept. It writes two rows in two statements, and its mirror replaces the
  provider of the profile, after which the events of the KYC session are ignored.
* An alert whose run then fails, or that loses the race for its key, is linked by no
  later run; a CLOSED case of the day still receives alerts; overlapping calls may undo
  an admin's decision and store an older risk last.
* The guard on the last SUPER_ADMIN checks, then acts (admin-rbac.service.ts:1011);
  two calls at once may leave none. The scenario "admins" has one call at a time; its
  calls may be lost. `updateAdminStatus` also revives a DEACTIVATED admin.

### Bounds

Every bound is a constant of the module or of the instance in its MC module. They are
chosen so that each action and each branch fires in some passing run.

* Ledger: four calls, two attempts (5 in the code), two clients: the shortest history
  with a deposit, two competing debits and a repeated reference, with both branches of
  the retry loop. More clients conflict in the same pairs.
* Engine: books of three orders, prices up to 5, quantities up to 3, budgets up to 4 and
  three base steps per price: an order ahead, one partly taken and one behind, and
  products that do and do not divide.
* Trading: prices of 3 and 6 on the same scale, so that notionals are whole; three
  orders one at a time (a maker met by two takers, a taker met by two
  makers), or two at once with one error and one crash at every point. Fees of 50 %
  and 25 % keep them from flooring to zero on these amounts.
* Withdrawals: small ones of 2, a large one of 4 at the threshold of 4, fee 1, two
  failures (one and another during what follows it).
* INR: deposits and withdrawals of 2, and a claim of 5, which meets the threshold of 5;
  two handlers of one payment; three admins, who include a maker and two checkers; up
  to two failures.
* Chains of 4 to 6 blocks with 2 or 3 confirmations and one reorganisation: enough for
  a transfer to be seen, dropped, mined again elsewhere and to become deep.
* Conversions: three requests with one key, two with one key and one with another, and
  every amount from 1 to 6 for the rounding of fee and tax.
* Accounts: two or three calls at once, attempt limits of 2 where the code has 5 (the
  federated limit, which is never reached, keeps its value), two KYC sessions, two
  passwords, one phone number that several people may name, one lost call. Components whose guarantees end when calls overlap have
  one scenario without overlap and one with it (`Overlap`), each with what holds there.

Reviewers, workers, equal withdrawals and calls are interchangeable; SYMMETRY is used
in Withdrawals and Accounts, which check invariants and action properties only.

### Fairness

* `LedgerTx!FairSpec`: weak fairness of each call under way. The event loop and the
  database complete what was started. Retries end because attempts are counted, not
  because conflicts stop.
* `Trading!FairSpec`: the event loop does not rest while a step of some request can be
  taken. Each request has finitely many steps, so this weak form is enough.
* `MCWithdrawal!FairSpec`: the worker polls for ever on a timer
  (withdrawal.worker.ts:94-116), and the network, which is external, mines or drops what
  was sent in the end.
* MCRails: the gateway delivers an event until it is answered and a handler that has
  started finishes ("gateway"); the scanner's timer starts a cycle after each
  (scanner.worker.ts:48; "scan", "workers"). Reorganisations are bounded.

Users, admins and failures are never fair.

## 4. Proofs

Eight modules hold theorems, each for every value of the constants. Every invariant was
checked by TLC on a small instance before it was proved, and the modules below are the
ones the runs check, not copies made for the prover.

| Module | Theorem | Statement |
|---|---|---|
| LedgerTxProofs | TypeCorrect, TransactionsSound, PostedOnce, NeverOverdrawn, Acknowledged | `Spec => []Inv`, for `TypeOK`, `TransactionsAreSound`, `ExactlyOncePerReference`, `UserBalancesNonNegative`, `AcknowledgedIsPosted` |
| | BooksAlwaysAgree | `Spec => []BooksAgree`: every asset nets to zero, every balance is the sum of its entries |
| | Refinement | `Spec => ImplementsLedger`, i.e. `Ledger!Spec` under the identity mapping of `balance` and `txns` |
| | ServesTheFlows | every step is a `LedgerCalls!Post` or leaves balances and references alone, where every posting has a reference |
| TradingProofs | LockCovers | `EngineSpec => []LockCoversExecution` |
| | PriorityKept, MatchingIsComplete, ReferenceMatched | `PriceTimePriority`, `Complete`, and both, which is `MatchesReference` |
| | TypeCorrect, LockExcludes, WithinLimits, TapeSound | `TypeOK`, `MarketLockExclusive`, `TradesWithinLimits`, `TapeIsSound` |
| | ClosedIsFinal, PriorityOnTape | `TerminalIsFinal`, `PriceTimePriorityKept`, one request at a time |
| TradingMoneyProofs | OrdersAsTraded, MoneyAsTraded | `OrdersMatchTape`, `MoneyMatchesTape`, under `Sequential` |
| | NeverRefused | no step of a pass or of a cancellation is refused by the ledger or by a CHECK constraint, under `Sequential` |
| | UncrossedWithinScan, BookUncrossed | `BookIsUncrossed`, under `Sequential`, while the scan reaches the whole book (`WholeScan`), and always when `BookScanLimit >= MaxOrders` |
| WithdrawalProofs | TypeCorrect, NeverSentTwice, PaidMeansMined, NothingMovesUnheld, AlwaysPaidAsSent | `TypeOK`, `SentOnce`, `CompletedIsPaid`, `MovedFromHold`, and the last three, which is `PaidAsSent` |
| | HeldWithoutFailures, HeldUntilKnown | `HeldUntilOutcomeKnown`, as long as nothing has failed |
| | TwoConsented | `DualControl` |
| | Refinement | `Reservation!Spec`, under `MoneyOf` |
| | BalancesAsPosted | `Spec => []Backed`: the balances are what the holds, releases and payouts say |
| | LocksMatch | `LocksMatchWithdrawals` |
| InrWithdrawalProofs | Typed, ShownWithdrawalsMoved, StrandedByLostAnswers | `TypeOK`, `ShownIsMoved`, `NotYetReserved` and `StrandedAsLost` |
| | PoolHolds | `PoolAsPosted`: the user's pools are what the postings say, and never negative |
| | Refinement | `Reservation!Spec`, under `MoneyOf` |
| DepositProofs | CreditsAreBacked, OneCreditPerTransfer, ShownDepositsMoved | `CreditIsBacked`, `TransferCreditedOnce`, `ShownIsMoved` |
| SessionsProofs | SessionsTyped, SessionsAreEnded, RotationSafe | `TypeOK`, `SessionsEnd`, `RotationIsSafe` |

`LedgerCallsProofs` has the lemmas they share. TradingProofs is about the engine alone
(`EngineSpec`) and the trading built on it, and TradingMoneyProofs extends it.

### Assumptions

* Typing of the constants: the ASSUMEs of Postings, LedgerTx, MatchingEngine and Trading,
  and an operator `Parameters` in the other modules, which each theorem assumes and the
  MC modules evaluate for every instance they make. `RequestsAssumption` says that a
  posting names each account at most once, as every caller in the code does; a line may
  still be malformed and the totals unbalanced.
* BooksAlwaysAgree: finitely many accounts. DepositProofs: finitely many admins.
* ServesTheFlows: postings carry references. `internalTransfer` posts without one, and
  no flow calls it.
* TwoConsented: `EarlyReview = FALSE`, because `setHold` revives a rejected row.
* HeldUntilKnown: `MaxFailures = 0`; the run WithdrawalLostRecord has the counterexample.
  HeldWithoutFailures says the same of a system that may fail, until it does.
* Refinement of `Reservation` by Withdrawal: `MaxFailures = 0`, or one worker and any
  failures; see "Other divergences" for two workers and a lost answer.
* BalancesAsPosted: finitely many withdrawals, and what the refinement assumes.
* LocksMatch: finitely many withdrawals, `MaxFailures = 0` and `EarlyReview = FALSE`, as in
  the run. A lost request leaves a hold without a row that names it, and a review that
  overtakes `setHold` rejects a row whose hold it did not see.
* ClosedIsFinal, PriorityOnTape: `MaxInFlight = 1`, with any failures and restarts. When
  requests overlap, a cancellation can run between the lock of an order and the write that
  opens it, and that write is unconditional: the cancelled order is open again, and a
  pass then trades with an order whose row changes under it.
* OrdersAsTraded, MoneyAsTraded, NeverRefused, UncrossedWithinScan and BookUncrossed assume
  `Sequential`, and each of its conjuncts is needed or holds of every deployment:
  - `MaxInFlight = 1`, no errors and no restarts: a pass writes the settlement, the trade
    row and the order rows in separate transactions, so one that is cut short, or that
    overlaps a cancellation, leaves money moved that no row explains, and overlapping
    placements can fill an order beyond its quantity (TradingOverfill);
  - every input price is a whole number of quote units per unit of base
    (`k * QScale`). Below that a fill can have a notional that floors to zero: the
    settlement is posted, the CHECK constraint then refuses its trade row
    (`trades_quote_chk`), and the pass ends with the two apart;
  - fees below 100 %, the FEE_REVENUE account in the chart, and finitely many users.
* UncrossedWithinScan: `loadRestingBook` reads the best BOOK_SCAN_LIMIT rows only. An
  order that used up that many would rest in front of the next one, so the theorem has the
  hypothesis `[]WholeScan`, and BookUncrossed says when it holds by itself.
* `InputsAssumption` of Trading is what the request schemas let through
  (trading.validators.ts:66): a LIMIT order has a price and a MARKET order none, and a MARKET BUY
  has a budget and no quantity.
* PoolHolds: finitely many withdrawals. Refinement by InrWithdrawal: one withdrawal, for
  more than the user has locked otherwise, with any overlap, early review and failure. Where
  the pool holds as much again, as with a second reservation, `reject` and `markPaid` both
  post and the refinement fails.

Everything else holds whatever overlaps and fails.

### Arguments

*Ledger.* `UserBalancesNonNegative` is not inductive: `Commit` writes balances that were
computed in a snapshot, so the invariant has to say what a transaction under way knows.
`SafetyInv` adds `TransactionsAreSound`: the request passed the balance check, the
snapshot holds no transaction with its reference, what it sees is non-negative and, *as
long as `Conflicts` is false*, what it sees of its own accounts is the committed balance
with its executed lines, each of which passed its guard against the committed balance.
Another client's commit either leaves this true or makes `Conflicts` true for good; that
is the lemma `CommitSafe`. At the transaction's own commit `Conflicts` is false, so its
guard held of committed balances, its reference is in no committed transaction, and the
new balances are `Applied(balance, lines)` (`CommitPosts`, hence Refinement: every other
step stutters). The mutant of PostedOnce's property is the database's default isolation
level: isolation is what carries the proof.

*Sums.* `BooksAgree` and the check of a posting are folds over finite sets. The induction
theorems of the library take an operator and cannot be used, so induction is done on
sets: `LeastNat` follows from well-founded induction, `InductionUpTo` from it, and
`SubsetInduction` from that, by cardinality. `SumIs` then identifies a fold with any
function that adds up, and `SumAdd`, `SumRemove`, `SumSame` and `SumMoved` are what a
proof about money needs. `AppliedKeepsTotals` is the double-entry argument itself: lines
that balance per asset leave the total of every asset over all accounts as it was.

*Matching.* The invariant speaks of the loop between two resting orders: the fills account
for what the taker has used up (`TakenAccounted`), each is of a resting order behind the
earlier ones (`FillsAreSound`), nothing eligible was skipped (`NothingSkipped`), a partial
fill is the last one unless it left dust (`PartialFillLast`), a loop that has stopped can
name the order it stopped at (`StoppedAt`), and an order without a price stops a LIMIT
SELL before its first fill (`ObstructedStops`). LockCovers adds that
flooring each fill never exceeds rounding the whole up.

*Trading.* A row of the tape is written several awaits after the pass that computed it,
while other requests change the same rows. The invariant says who waits in the chain
(`Queued`), that an order was reserved before it may trade (`Reserved`), what the local
state of a pass still says about the rows (`PassSound`) and that prices never change
(`PricesKept`). That a pass starts from sound fills is `MatchFills`, by induction over the
loop, on a book that `SortedExists` shows to exist.

With one request at a time more can be said of a pass. `Alone`: nothing has closed the
order that is being placed (`TakerLive`), a pass has one fill per resting order, and the
makers it has not reached yet are open (`MakersLive`). So no step writes to a closed row.
For the priority of the trade rows the loop of `matchOrder` is followed once more
(`FillsInTurn`): a fill takes all of a resting order or leaves the taker nothing to spend
on the orders behind it (`Takes`, `PartialIsLast`), except that a budget may be left with
dust when the notional of a fill is not a whole number of quote units. That exception
does not reach the tape: the CHECK constraint refuses the trade row of such a fill, and
the pass ends there. `Best` carries this through the writes of the pass: for each fill
still due, what was ahead of its maker has nothing left, or is used up by a fill in
between. It also needs that a book starts at the top of the market
(`BookFromTheTop`: an enumeration of a finite set in a strict order leaves nothing out)
and that the trade row being written is new (`TapeOfPass`).

`OrdersMatchTape` and `MoneyMatchesTape` speak of a market at rest, so the invariant
(`Accounted`) says what a pass has written and what it still owes. `Ledgered` is about
the rows, the pass and the references of the ledger: `Booked`, each order's filled
quantity and spent amount are its rows on the tape, less what the pass has yet to write
to it; `PassAdds`, the fills of a pass add up to its totals and are within the taker's
order; `Covered`, an order never trades for more than it locked; `Fresh`, an order that has
not met the book traded nothing; `Referenced`, which postings a request has made, from the
references of the ledger; and
`GivenBack`, a closed order has had its surplus back or has none. `Backed` is about the
money. `Explained` gives each balance as opening funds and gains according to the tape,
with the trade row of a settlement that is already posted counted in (`Moved`), and each
locked balance as the unspent locks of the user's orders. A settlement moves the
gains of two users and the fees by what its row will say (`SumMoved` from *Sums*).

The two depend on each other through refusals. Ledgered needs that no step is refused,
because a refused step ends the pass; that a posting is not refused needs Backed, which
puts into the locked account what the order still has (`StepNotRefused`,
`CancelNotRefused`); and that a CHECK constraint does not refuse a row needs that a fill
is worth at least one quote unit. NeverRefused states this result by itself.

For `BookIsUncrossed` the matching loop is followed a third time (`MatchSweeps`, with the
loop invariant `Swept`): a LIMIT order ends up done, or every order it crosses is used up.
In price order a loop that stops has nothing left to cross behind it, and an order with
something left is worth a quote unit, so nothing is skipped as dust. `BookClear` carries
this through the writes: the orders that rest do not cross (`Uncrossed`) and are LIMIT
orders with something left (`RestersLive`), and the pass under way uses up what its order
crosses (`PassClears`). The taker joins the book only at the end of the pass, when all it
crossed has left.

*Crypto withdrawals.* The invariant ties each worker's program counter to the row it
claimed. `Claims`: a row that is handled or sent stays claimed, and one that is being
signed has no transaction and no second worker. `Nonces`: a nonce is handed out once.
`Finalizing` and `Held`: who finalizes has seen the transaction deep, and who acts on a
row sees a hold that was posted. `Released` follows a hold given back to a rejection or
to a dropped transaction. `Reviewed` carries the consent of two admins through the row,
the claim and the worker to the chain. For the refinement, `Settling` says that the sole
worker pays or gives back as the status of the row decides.

`LocksMatchWithdrawals` speaks of a system at rest, so the invariant has to say what each
step under way still owes. `Backed` ties the balances to the postings: each of the three
movements changes one withdrawal's `MoneyOf` and, by `TotalFacts`, the totals by its
amount. `Booked` ties the postings to the rows: a hold is bound to its row or about to be
(`RowsByRequest`); a row that is SIGNING has exactly one worker that sends it, and what a
worker settles is in flight (`WorkByRow`); a rejected or failed row has given its hold
back, or the admin or the worker who closed it is about to (`RejectedRows`,
`FailedRows`); a payout is on a completed row or about to complete it (`PaidRows`). The
release of a hold is never refused, because `Backed` puts its amount into the locked
account (`ReleaseHappens`). At rest nobody is about to do anything, and the live
withdrawals are those whose hold is still out.

*INR withdrawals.* A call writes a row only after its posting (`CallsMoved`), so a closed
row stays true whoever else wrote it before. A reservation is `Loose` when it is committed
and its request deletes, or deleted, the row: the step lemma (`LooseStep`) shows that
`ReserveError` alone adds one, and it counts a failure, so there are never more than
failures. `PoolAsPosted` is inductive with the types: each posting is made once per
reference and moves two accounts by its amount (`TwoLines`, `AddsToTotal`), and is refused
where it would take a pool below zero. The refinement follows from it, with no
assumption on the order of reviews: a second use of the one reservation, or a use before
it was placed, would need more than the pool has (`UsedRightFromPool`). `MoneyOf` has a
value for a hold that was used twice, which `Reservation` does not: that this value never
occurs is what the refinement shows.

*Deposits.* An event of a capture, its delivery and the handler's copy agree
(`CapturesPaired`, `Handled`); an open claim keeps its bank reference to itself
(`Claimed`); and the second approval is of somebody else (`SecondPairOfEyes`).

*Sessions.* Sessions are numbered by their login (`Numbered`); a login that is not done
still has to revoke exactly what is open besides its own, and one that was lost is counted
(`LoginsLost`); a change of the password at hand knows the sessions it has not yet ended
(`ChangeAtHand`).

### Only model-checked

* Liveness (RequestsReturn, CallsReturn, OnChainIsSettled, CapturedIsCredited,
  MinedIsCredited): out of the prover's reach.
* BalanceMatchesHistory, but for its part on overlapping reviews, which is PoolHolds: that
  deposits and withdrawals on one ledger agree with their rows at rest. The lemmas on
  sums would carry it; the invariant between the steps of both is not written.
* AnsweredOnce, CodesHold, KycStatusAgrees, AdminAccessHolds, IdentitiesHold,
  AlertsReachCases, DecisionsStand, and the parts of CreditIsBacked in MCRails that are
  about the scanner and submitted hashes.

## 5. Plan, and what is not modelled

Proofs that remain: the agreement of rows and balances at rest in the fiat rails, from
the lemmas on sums, as for Trading and Withdrawal; DepositAddress, Conversion and Idempotency;
OneTimeCode and SecondFactor; Kyc, AdminAccess and Federated; DepositScanner and
MasterDeposit. Their properties are checked by the runs Rails and Accounts.

Not modelled, and why:

* Trading in two API processes: the market lock is a map in one process
  (trading.service.ts:103), and its comment makes one process the deployment.
* Registration with a password and the older Google sign-in of the web, which write
  one row each; the TOTP, IP allowlist and lockout of admins, their activity profiles
  and their edits of user profiles, the password fallback of step-up, and the feature
  flags: single reads and writes whose order matters to nothing above.
* The rules and scores of monitoring, wallet risk, travel rule, evidence, retention and
  regulatory reporting: computations over stored rows, and records of them. Monitoring
  takes the findings of the rules as inputs.
* Tax, legal and support: record keeping with simple state.
* Notifications, market data and realtime: best effort, with errors swallowed, and read
  by no flow.
* Reports, health, configuration, logging, cryptography and HTTP plumbing: no state of
  the exchange.
* Frontend and mobile clients: they call the HTTP interface, whose callers are modelled
  as making any call at any time.
