# Formal models of the Auvora wallet platform

TLA+ modules, TLC runs and TLAPS proofs about the parts of this repository that
decide where money is, who may move it and who may sign for it: the wallet service
(lifecycle, ledger, reviews of large transfers), the payments service above its
ledger, the custody service (signing requests and keys), the sessions of the auth
service, the delivery queue of the notifications service, and the identity
verification of the compliance service. Paths are relative to the repository's root.
`PROJECT.json` holds the machine-readable half of this page: which lines each
definition stands for, the runs, the hazards, the findings and the theorems.

To run it, with the TLA+ tools and the community modules:
`tlc -config WalletLedger.cfg MCWalletLedger`, and `tlapm WalletLedgerProofs.tla`.

## 1. The system

Auvora is a monorepo of NestJS services (`services/*`) over one Postgres schema
(`database/prisma/schema.prisma`), Next.js apps, and a Flutter app. Services call
each other over internal HTTP. Every service runs in more than one request at a
time: a handler is a chain of awaits, and between any two of them every other
handler, of the same or of another process, may run. Prisma's default isolation is
Postgres' READ COMMITTED; only what is inside `$transaction(...)` is atomic.

| Component | State it keeps | Operations | Interacts with | Hard behaviour |
|---|---|---|---|---|
| **wallet: lifecycle** (`services/wallet/.../wallet.service.ts`, `prisma-wallet.repository.ts`, `wallet-status-transitions.ts`) | `wallets.status`, `wallet_status_history` | create, activate, suspend, archive | ledger (an operation needs ACTIVE) | check and update are different awaits; the row and its history are written together; creation is two steps |
| **wallet: ledger** (`wallet.service.ts`, `prisma-ledger.repository.ts`, `prisma-transaction.repository.ts`) | `wallet_balances` (with `version`), `ledger_entries`, `wallet_transactions` | credit, debit, internal transfer | called by payments over HTTP | optimistic version under READ COMMITTED, row locks, opposite transfers that deadlock, rollback, a crash after the commit |
| **payments: orchestrator** (`payment-orchestrator.service.ts`, `payment-state-machine.ts`, repositories, `wallet-ledger-http.client.ts`) | `payments.status`, `refunds.status` | createPayment (idempotency key), createPaymentRequest, cancel, refund | wallet ledger, payment provider, limits, settlement engine | updates by id after a stale read; an HTTP timeout while the ledger goes on; a crash between two status writes |
| **payments: settlement engine** (`settlement-engine.service.ts`) | `settlement_batches`, `settlements`, `payments.status` | scheduled, daily, manual and instant runs | the same payments the orchestrator is routing | works on copies read when the batch opened, 200 at most; one payment of a batch fails; the timer is there only with `PAYMENTS_SIMULATOR_ENABLED`, off by default and forbidden in production, elsewhere an administrator asks |
| **payments: limits** (`limits.service.ts`) | reads `payments` | evaluate | createPayment | the total is read before the row exists |
| **custody: signing requests** (`services/custody/.../signing.service.ts`) | `signing_requests`, `signing_sessions` | create, schedule, delay, execute | approvals, key provider | status checked on one read, signed several awaits later |
| **custody: approvals** (`approval.service.ts`, `approval-policy.ts`, `policy.service.ts`) | `approval_requests`, the request's count and status, `approval_policies` | approve, reject, edit policy | signing | count read, row inserted, count plus one written; policy read in between |
| **wallet: large-transfer review and simulated balances** (`transfer-prepare.service.ts`, `large-transfer-review.ts`, `admin-simulation.service.ts`) | `large_transfer_reviews`, unique on (sourceType, sourceId); simulated transactions and balances | prepare, upsert, remove, scenario, approve, reject | administrators; valuation and KYC lookups | a verdict claims the review by status, every other write is by id; a scenario is two writes, the row and its review |
| **custody: keys and recovery** (`key.service.ts`, `recovery.service.ts`) | `cryptographic_keys`, `key_versions`, `recovery_requests` | generate, rotate, revoke, destroy; start, approve, reject, complete | key provider | status writes by id from stale reads; a crash between the version row and the key row; one unique index is all that stops two rotates |
| **auth: sessions** (`auth.service.ts`, `account-deletion.service.ts`, repositories) | `users.status`, `sessions`, `refresh_tokens` | login, refresh, logout, forced logout, change and reset of the password, status changes, deletion, restoration, e-mail verification | every service accepts its access tokens | no transaction anywhere: a token is read, spent and replaced in separate statements |
| **notifications: delivery queue** (`notification.service.ts`, `queue.service.ts`, `queue-policy.ts`) | `notifications`, `notification_queue_items` | send, processNext, deadLetter, requeue | e-mail, push and SMS providers | claim by a conditional update, all else by id; a worker that dies holding an item |
| **compliance: identity verification** (`kyc.service.ts`) | `kyc_profiles`, `verification_requests` with their metadata | submitKyc, startReview, approve, reject, requestResubmission, handleWebhook, closeSupersededOpenRequests | the verification partner, reviewers | a decision is two writes; the webhook events taken are kept in a JSON column that is read and written back whole; webhooks are repeated and late |
| sanctions, cases, rules and risk of compliance; blockchain, connections, swap, bridge, staking, nft, market-data, ai, analytics, observability, gateway | one schema section each | | | not modelled, see section 8 |
| packages (`resilience`, `cache`, `security`, ...), apps (mobile, web, admin, docs) | | | | not modelled, see section 8 |

What makes each correct:

* lifecycle: one row per wallet, a history whose last line is the status, no
  created wallet left PENDING unless its creator died;
* ledger: a balance is what its entries add up to, a transfer is whole, no money
  appears or vanishes or changes asset, nothing is overdrawn, each caller gets an
  answer and a positive one is true;
* payments: a payment's money moves once, a status that says the money moved is
  true, a refund gives back only what was paid, every call and every batch ends, and
  where nothing overlaps a terminal status is final;
* reviews: a review the threshold asked for is decided once, by a verdict; a transfer
  that is let through leaves no superseded review open; a simulated transfer is decided
  as its review is;
* custody: what is signed was approved by as many distinct users as the policy asks,
  a rejection holds, a request does not stay SIGNING; the key row holds the material of
  the version it names, versions go forward, destroyed material does not come back, an
  approved recovery was approved by enough calls;
* auth: a revoked session gives no more tokens, a token is exchanged once, reuse of one
  ends the session, a suspension or a password change ends every session it finds;
* notifications: workers hold an item one at a time, a notification is not sent more
  than `maxAttempts` times, and none is left without somebody who owes its next step;
* identity verification: an event counts once, and a rejected request is not what the
  profile is approved for.

## 2. The modules

| Module | Models | Notes |
|---|---|---|
| `WalletLifecycle` | creation and status changes | an actor is one request: it reads, checks, and writes in separate steps |
| `LedgerPromise` | the abstract ledger: a posting happens whole, at once, at most once per operation, and only if the debited wallet can pay; `MoneyConserved` is what follows of it | implemented by `WalletLedger`, used by `Payments` |
| `WalletLedger` | credit, debit, transfer as they run: PENDING row, database transaction of one or two legs, COMPLETED | a leg is read, then update `WHERE version`; row locks, uncommitted values, rollback, deadlock detection and crashes are explicit |
| `Payments` | orchestrator, limits and settlement engine over `INSTANCE LedgerPromise` | an HTTP call is `none`, `sent`, `answered`; the client may give up in any of them |
| `SigningPromise` | what custody promises the owner of a key: a request that needs approvals is signed only once as many distinct users approved it as one of them was told it takes | no statuses, counts or awaits; implemented by `CustodySigning` |
| `CustodySigning` | signing requests, approvals, one approval policy | an approve call keeps the count and the threshold it read |
| `CustodyKeys` | one key with its versions, and the recoveries of it | material is named by the call that made it |
| `TransferReview` | the reviews of one owner's transfers, and one simulated balance | |
| `AuthSessions` | the sessions and refresh tokens of one account | a login's session, and the token of a login or refresh, have the name of the call |
| `NotificationQueue` | one notification from send to its last attempt | |
| `KycVerification` | the identity verification of one customer | a request has the name of the submission that created it |
| `LedgerPromiseProofs`, `WalletLedgerProofs`, `PaymentsProofs`, `AuthSessionsProofs`, `NotificationQueueProofs`, `KycVerificationProofs` | proofs about the module named | the second and third take the first as an instance |
| `WalletServiceProofs`, `CustodyProofs` | proofs about `WalletLifecycle` and `TransferReview`; about `CustodySigning` and `CustodyKeys` | |
| `MCWalletLedger`, `MCPayments`, `MCPaymentScenarios` | instances for TLC | a scenario is a set of calls on the payments, chosen in the initial state |
| `MCCustody`, `MCServices` | instances of several modules that share no state | which one runs is chosen in the initial state, so the state graph is their sum and not their product |

Conventions. `pc[a]` (or `upc`, `npc`, `rpc`, `kpc`, ...) is the await a handler stands
at; one action is what it does from that await to the next. A repository `update` by id
is an assignment that looks at nothing else. A database call that throws, and a process
that dies, are actions of their own, so every prefix of every handler is explored. Names
are the code's where TLA+ allows. An operator whose comment begins with *Fault* is a
broken variant of the one beside it; no specification uses it, it is there to show that
the properties can tell the difference.

**How state corresponds.** `balance`, `version`, `ledger` are the committed
`wallet_balances` and `ledger_entries`; `dirty` and `rowLock` are what an open
transaction has written. Only *available* is kept of a balance because no code path
writes the pending, locked or reserved columns. `operational` is
`status = 'ACTIVE'`. In `Payments`, `status[p]` is the row and the
handler's own copy is implied by where it stands, since each handler
writes the statuses in a fixed order (`AssertTransitionsPass` states, and TLC
evaluates, that each `assertTransition` on those copies passes). `batch[s]` is a
settlement batch with its rows and the copies it settles.
In `CustodySigning`, `approved` and `rejected` are the rows of `approval_requests`; in
`CustodyKeys`, `material`, `current` and `versions` are the key row's material and
version and the version rows, `consents[r]` a recovery's count.
In `TransferReview`, `review[k]` is a review's status and `why[k]` what asked for it,
`simTx[s]` a simulated transaction, `verdict` and `debit` what an approval under way has
locked and read.
In `AuthSessions`, `standing` is `users.status`, `session[l]` and `token[c]` the rows of a
login and of a token, `uses[r]` the token a refresh presents, `root` the session a call is
about, `kind[e]` which of the changes `e` is; `prior[c]` is history: for a refresh and a
change, what had happened when it began.
In `NotificationQueue`, `message`, `item`, `attempts` are the two rows, `counted[w]` the
attempt a worker believes it makes, `deliveries` the history of what went out.
In `KycVerification`, `profile`, `request[q]`, `ref[q]` and `seen[q]` are the profile's
status, a request's status, its `providerRef` and its `processedWebhookEventIds`,
`older[q]` the order of `createdAt`, `granted` the request whose level the profile took;
`copy` and `todo` are what a call has read; `written` and `before` are history.

**What composes with what.** `Payments` relies on `LedgerPromise`; `WalletLedger`
implements it (checked as a PROPERTY with the refinement mapping in `WalletLedger`,
and proved). So what holds of payments over the promise holds over the real ledger. In
the other direction `PaymentsKeepPromise` is proved: with requests cut off, served late
or left by a crash, the payment service has no effect on the wallets but the promise's
postings. What is proved of `LedgerPromise` alone, that money is conserved, is therefore
carried over to both of them by their refinements. `CustodySigning` implements
`SigningPromise` (checked and proved): `kind` is whether a request was made AWAITING_APPROVAL,
`consenting` the users behind its approval rows, `told` the thresholds their calls have
read, `made` the requests with a signature. The other modules share no state that both write;
where one looks at what another service knows (a review at whether the customer is verified),
the answer is a choice of the environment.

## 3. The runs

| Run | Instance | Shows |
|---|---|---|
| `ledger` | three wallets, two assets, two operations, amounts 0 and 2 | balances are ledgers, transfers whole, money conserved per asset, answers true, `LedgerPromise` implemented; every call ends although opposite transfers deadlock; what is posted is completed unless the service dies |
| `payments` | a transfer, a deposit, a withdrawal and an invoice in five scenarios, each with the engine: a create with its retry and a refund; a create, a cancel and a refund; a create and two refunds; deposit and withdrawal; deposit and invoice | paid once, statuses are paid for, refunds are backed, answers true, a COMPLETED batch settled everything it listed, only the engine completes what the ledger refused, terminal statuses that nothing overlaps are final |
| `payments_live` | a deposit, a refund of it, an invoice, batches | creates and refunds end although the wallet service stays silent; batches end |
| `custody` | one request: two approve calls of one user, one of another, a reject, an execute, a delay or schedule, an edited policy; or one key: two rotates, a revoke, a destroy and two recoveries | `SigningPromise` implemented, signed only if approved, quiet rejections final, SIGNING left; the key holds its version, versions go forward, erased stays empty, recoveries left |
| `services` | one of six: four requests on one wallet; three transfers of one owner under two keys; two simulated transfers with two upserts; two logins, two refreshes and two changes of one account; one notification with two senders, two workers, a burial and a requeue; two submissions, two reviews and two deliveries for one customer | the sixteen properties of the six modules |
| `payments_terminal` (violation) | a transfer and a cancel | finding 1 |
| `payments_fail_closed` (violation) | a withdrawal and a sweep | finding 2 |
| `payments_over_refund` (violation) | a transfer and two refunds | finding 3 |
| `custody_veto` (violation) | an approval, a rejection and an execute | finding 4 |
| `auth_suspended` (violation) | two sign-ins and a suspension | finding 5 |
| `kyc_duplicate` (violation) | two submissions and two deliveries of one event, one after the other | finding 6 |
| `recovery_distinct` (violation) | a recovery and two approvals by one user | finding 7 |

**Bounds, and why they are enough.** The hazards are races of two handlers on one
row, or of a handler with a crash; each run has two handlers of the kind in
question, and a third where a third kind interferes. Two operations make every lost
update, deadlock and half-made transfer there is between wallets; the
third wallet is there to be of another asset. The amounts let one debit succeed and
the second be refused. Versions, ledgers, counts and attempts are bounded by the finite
number of calls. Six bounds are named:

* `MCWalletLedger!GoldIsTransferred`: the wallet of the other asset stays ACTIVE and is named by
  transfers only. It refuses some first steps of a call and leaves every call others, so no
  fairness rests on what it cuts off.
* `BatchLimit`: a scheduled batch takes as many payments as this where more are waiting. It
  is 1 for the code's 200, so that the cut is met; a manual batch lists any number.
* `MCPaymentScenarios!InScenario`: the calls of the other scenarios are refused at the
  start. The calls of the two batch scenarios meet no failure of their own, nor does the
  create while two refunds are under way: the other scenarios have those failures, and it makes
  room for two payments, or for two refunds that do fail. The engine takes part, and fails, in
  all five.
* `MCCustody!FewKeyCalls`: any seven of the eleven calls on a key. A recovery is three or four
  calls, so a whole recovery meets two rotates and a destroy.
* `MCServices!AuthArrival`: any three calls on an account, or four: a login, both
  refreshes and one change. Reuse of a token needs its login and two refreshes; the change
  is what ends their session.
* `MCServices!KycArrival`: any three calls for a customer, or four: a submission that was
  done first, two deliveries of one event, and one call more. A replay needs the first
  three; the fourth is the one that could write back an older copy.

`CHECK_DEADLOCK FALSE` is set where the calls of an instance simply run out. The type
invariants are not listed in the cfgs: each is proved for every value of the
constants (section 5).

**Symmetry** (operations, calls) is used only in runs without liveness, and only
of calls that no action and no property tells apart; the scenarios of `payments` name one of
two such calls, and what it reaches is what the other would.

**Fairness.** A handler that is not stopped runs on (WF on its next step): Node
resumes a promise that is settled, and Postgres, Prisma and the HTTP client
each end a wait they cannot satisfy (deadlock detection, the interactive transaction's
timeout, the client's 5 s timer). That is all: there is no strong fairness, and none of the
settlement timer, which production does not have. Nothing is assumed of the environment:
not that a wallet service answers, nor that anyone approves, cancels, retries, asks for a
batch or restarts a dead handler. So nothing is claimed of a payment whose router died.
Liveness is stated where the code has a loop that makes it true, in `ledger` and
`payments_live`. Elsewhere nothing in the code takes up what a dead handler leaves, so
"eventually" would be false after any crash; there the promise is stated as who *owes* the
next step, and that is an invariant: `PendingIsOwed`, `SigningIsOwed`, `RecoveringIsOwed`,
`SendingIsOwed`, `QueuedIsOwed`. Each says that an intermediate status has a live call that
will leave it, or one that stopped. So they show that a race, a refusal or a caught failure
never strands a row. They do not show that a crash does not: after one the wallet stays
PENDING, the request SIGNING, the key RECOVERING, the item SENDING or the message unqueued,
and nothing in the code finds it. `PostedIsCompleted` excuses the stopped call likewise.

## 4. What the code does not keep

1. **Terminal statuses are left.** `payment-state-machine.ts:51` says no transition
   leaves one. `prisma-payment.repository.ts:159` updates by id; a router that read
   the payment before `cancel` wrote CANCELLED takes it on to COMPLETED. The settlement
   engine, which writes from a copy too, likewise turns a REFUNDED payment SETTLED, and
   it is refundable again.
2. **Settlement completes what the ledger refused.** `payment-orchestrator.service.ts:549`
   says a payment must not COMPLETE if the ledger mutation fails. A withdrawal is
   PROCESSING before its debit is asked for, and the settlement engine completes
   any PROCESSING payment.
3. **Refunds add up to more than the payment.** `payment-orchestrator.service.ts:303`
   says a refund cannot exceed the payment; each is compared alone, and two that
   read the payment before either marks it REFUNDED both move money.
4. **A rejection is overwritten.** `approval-policy.ts:39` says any single rejection
   vetoes the request. `approve` writes APPROVED by id over a REJECTED written since
   it read the request, and `execute` signs.
5. **A suspension is lifted by a sign-in.** `auth.service.spec.ts:515` says a suspended
   account cannot sign in. Both outcomes of a login write the status by id
   (`prisma-user.repository.ts`). For a wrong password read before the suspension,
   `recordFailedLogin` (:245) writes LOCKED over SUSPENDED if it reaches the limit, and once
   the lock has run out a login is let in. For a login that passed its checks before,
   `resetFailedLogin` (:255) writes ACTIVE. The two traces are equally long; TLC shows either.
6. **A repeated webhook decides another request.** `kyc.service.ts:1064` says
   `handleWebhook` is idempotent. It takes the newest request that is open or has the
   event's session, and the events taken are kept per request: an event that was processed
   for one request, and is delivered again after the customer has submitted anew, decides
   the new one. Nothing needs to overlap or to fail.
7. **One user approves a recovery twice.** `approval-policy.ts:17` speaks of the number of
   distinct approvals required before a signing or recovery request may proceed.
   `recovery.service.ts:133` adds one to a count and keeps no row of who approved; where a
   signing request refuses a second approval of one user, a recovery counts it.

## 5. What is proved

TLAPS checks the eight proof modules for every value of the constants under the
assumptions the modules name: distinct names of calls, natural amounts, stakes and
thresholds (positive ones for approvals and attempts), finitely many wallets, users,
operations, approve calls, workers and requeues where something is counted or added up,
and that calls, keys and recoveries are given by functions of the right sets. TLC
evaluates each `ASSUME`; where only one theorem needs finiteness, the theorem says so itself.

**`LedgerPromiseProofs`**, for any operations, and wallets with natural opening balances:

* `NeverOwes`: every balance stays a natural number.
* `PromiseConserves`: among finitely many wallets, the balances of an asset differ from
  their opening by what credits brought and debits took (`MoneyConserved`).

The second is about a sum over a set, which is a fold, and a fold is a recursive function.
`FiniteInduction` is induction on finite sets with a set of sets in the place of the
predicate, which the provers can use; from it follow the lemmas on sums the proof is
made of: a sum changes by the change of the one or two members that change.

**`WalletLedgerProofs`**, for any number of wallets, assets and operations:

* `TypeCorrect`: types hold; in particular no balance is ever negative.
* `LedgerCorrect`: `[]BalanceIsLedger`.
* `TransfersWhole`: `[]WholeOrNothing`.
* `LedgerImplementsPromise`: the specification implements `LedgerPromise`: initial
  states map to initial states, `Commit` of the last leg is a `Post`, every
  other step a stutter.
* `AnswersAreTrue`: `[]AnswerIsTrue`, by `AnswerInv`: where a call stands says whether it has
  posted and what its transaction row says.
* `MoneyIsConserved`: `[]Conservation` among finitely many wallets, by
  `LedgerImplementsPromise` and `PromiseConserves`.
* `TransfersAlone`: `[]OnlyTransfersDeadlock`. Only internal transfers are ever in a database
  deadlock, each with its debit written and its credit to write: a credit or a debit locks
  one row, and waits before it does.
* `WaitsEnd`: `[]WaitIsForSomebody`, for finitely many operations. While some operation waits
  for a row, either one that can go on holds a row, or a cycle waits that the database
  breaks. It is the safety core of `EveryCallEnds`: without it fairness would
  have nobody to be fair to. A row's holder has a transaction open (`HolderFacts`); if all
  holders waited, each for another one, the waits would lead round (`ChainHasCycle`).

The inductive invariant `IInv` adds to these what a reader of the code relies on
without saying. `ControlInv`: an operation past its checks is a proper posting, and
`leg` fits its place. `LockInv`: the rows an open transaction has locked are exactly
the legs it has been through. `SnapInv`: if the version an operation read is still the
committed one, so is the balance it read. `DirtyInv`: behind a row lock is the
committed balance moved by the holder's amount. `UnpostedInv`: before its commit an
operation has no entry anywhere. `BalanceIsLedger` alone is not inductive: a commit
adds an entry computed from a balance read several steps before, and only the
version predicate (`SnapInv`) with the row lock (`LockInv`, `DirtyInv`) makes that
balance the current one.

**`PaymentsProofs`**, for any number of payments, calls, retries, cancels, refunds and
settlement runs, over the ledger's promise:

* `PaysOnce`: `[]PaidOnce`.
* `StatusIsPaid`: `[]TransferStatusIsPaid`.
* `RefundsAreBacked`: `[]RefundIsBacked`.
* `AnswersAreTrue`: `[]AnswerIsTrue`.
* `TypeCorrect` and `BatchesAreHonest`: `[]TypeOK` and `[]BatchIsHonest`, given that there
  is a payment at all (a batch record names the one it is at).
* `OnlyEngineCompletesRefused`: `RouterFailsClosed`. The only write that completes a payment
  the ledger has refused is the settlement engine's. So the engine is the only way to
  finding 2: no retry, late answer or failure of the router's gets there.
* `QuietTerminalStays`: `QuietTerminalHolds`. A terminal status that no handler read the row
  before and is still to write (`AtRest`) is final, with sweeps and all. So finding 1 is
  about overlap alone: each handler, one after the other, refuses such a row as it reads it.
* `PaymentsKeepPromise`: the specification implies `Ledger!PromiseSpec`.
* `PaymentsConserveMoney`: among finitely many wallets, payments and refunds conserve the money
  of each asset, by the former and `PromiseConserves`. What finding 3 pays out
  twice is taken from somebody's wallet, and never made.

None of the first four is inductive, because each speaks of statuses or postings and the
code decides by where a handler stands. `RouterInv`: only the call whose insert won
the unique index is past it, so one call routes a payment. `CallInv`: a call asks
the ledger once, and a posting is what it asked. `PaidInv`: past the ledger's positive
answer the posting is there. `RefundInv`: a refund past its checks is of a paid
payment and within its amount, still so when its request is served late, because
`Paid` is never undone while the *status* it checked may be. `SweepInv`: a copy
that the settlement engine will act on was paid when it was taken; so its blind
writes, however stale, are of paid transfers. The four hold each other up: a refund
relies on the status, the status on the sweeps, the sweeps on the status they copied.
For `BatchIsHonest` the invariant is `BatchInv`: while no settlement of an open batch has
failed, what is off its list is settled, but for the payment it is at.

**`CustodyProofs`**. Of signing, for any number of requests, users and calls:

* `CountsBacked`: `[]CountIsBacked`.
* `SignedOnlyApproved`: `[]SignedIsApproved`.
* `QuietRejectionStays`: `QuietRejectionHolds`, which leaves overlap as the only way to finding 4.
* `SigningOwed`: `[]SigningIsOwed`.
* `SigningKeepsPromise`: `ImplementsSigningPromise`, step by step: creating a request is `Ask`,
  inserting an approval `Consent`, the provider's signature `MakeSignature`, and every
  other step, counts and status writes included, a stutter.

Here `SignedIsApproved` says nothing of counts, yet counts decide who may sign.
The inductive invariant connects them: the count an approve call carries is backed
by rows of *other* users once it is past the duplicate check (`SeenIsBacked`),
so that its own row, whoever else of the same user raced past that check,
makes it count plus one; what is APPROVED, or is being executed,
has its approvals (`ReadyWhenExecutable`); rows and thresholds once read do not change
(`ApprovalsStand`); and a request that does not exist yet has no call past its first
read (`Fresh`). For the refinement `GatedInv` adds that a request that was made to need
approvals still does, wherever the races have taken its status (`KindStands`).

Of the keys, for any number of rotates, revocations and recoveries of one:
`KeyHoldsItsVersion`, `VersionsMoveForward`, `ErasedStaysEmpty`, `RecoveringIsOwed` and
`RecoveryIsCounted`: an APPROVED recovery was approved by as many calls as its policy asks. It
counts calls, not users (finding 7); what it shows is that overlapping approvals lose counts and
never invent one. The code locks nothing, and the proof shows what does the work: every
version up to the current one has its row (`VersionRows`), so a rotate that has
inserted the next one has read the current one, and no other can move the key before it
does (`RotateOwnsNext`).

**`WalletServiceProofs`**. Of the lifecycle: `StatusIsLastHistory`, `BornOnce` and
`PendingIsOwed`, of any number of wallets and requests; that an update appends one entry to one
wallet's history is `AddedEntry`, and that a request past its checks acts on a row that
exists is `ActsOnARow`. Of the reviews: `SupersededAreClosed`, `SimulationFollowsReview` and
`GenuineDecisionIsFinal`; what a prepare call has found to close was asked for by a failing
price and is closed unless it is still to be (`FoundIsSuperseded`), and a scenario writes
transaction and review in an order a verdict cannot overtake (`SimulationInOrder`).

**`AuthSessionsProofs`**, for any number of sign-ins, refreshes and changes:
`RevokedIssuesNothing`, `ExchangedOnce`, `ReuseEndsSession` and `SweepEndsSessions`. Nothing here is
locked either; it holds because revoked rows stay revoked (`RevokedStays`, `SpentStays`,
`SweptStays`), which is why the properties speak of calls that began after others ended.
`QuietSuspensionStays` (`QuietSuspensionHolds`) is what finding 5 leaves standing: a
suspension that no sign-in overlaps keeps every later one out, until another change
of the account writes its status.

**`NotificationQueueProofs`**, for any number of senders, workers, administrators and
attempts: `HoldersAreBounded`, `AttemptsAreBounded`, `SendingIsOwed` and `QueuedIsOwed`. The
holders are counted together with the requeues under way and a queued item (`SlotsInv`): each
requeue adds one slot, nothing else does. While nobody requeues, one worker holds the item and
has the count of its own claim, which is ahead of what went out (`Counting`).

**`KycVerificationProofs`**, for any number of submissions, reviews and deliveries:

* `RejectionHolds`: `[]RejectionReachesProfile`. An approved profile has an approval behind
  it that no finished rejection followed (`GrantIsApproval`), and a rejected request a
  rejection that no approval of it followed (`RejectionIsLast`). If both are of one request, the
  two calls overlapped, or the rejection has not reached the profile.
* `ReplayRefused`: `[]ReplayIsRefused`. Once a delivery that nothing overlapped has changed its request,
  its event is in the request's metadata, in every copy any later call has read, and every later
  delivery to that request is refused (`Kept`). A call under way that writes a copy back
  began after it (`QuietIsFirst`); a submission never does, since its request was there first
  (`RowsAreSubmitted`).

`StepMovesOne` is the frame both rest on: a step moves one call, which either arrives with its
input or goes on with the one it has.

**Only model-checked:** the liveness properties, `EveryCallEnds` and `PostedIsCompleted` of
the ledger, `EveryCallEnds` and `EveryBatchEnds` of payments: fairness and ENABLED are
outside the prover's reach. Every safety and action property of a passing run is a theorem.
The other way round, `CountIsBacked`, `OnlyTransfersDeadlock`, `WaitIsForSomebody`,
`RecoveryIsCounted` and `QuietSuspensionHolds` are in no run: their theorems stand for every
instance. The seven violated properties are not theorems of the code; what is left of the
first, second, fourth and fifth without the race in question, and of the seventh, is.

## 6. What is abstracted

* Amounts are small naturals: `Decimal` rounding beyond 20 significant digits
  (`prisma-ledger.repository.ts:139`) is listed as a hazard and not modelled.
* Events, notifications and audit writes have no state here; where one can
  throw in the middle of a handler, that throw is modelled.
* Providers (payment, key) are a choice of success or failure.
* Policy expressions, fraud rules and signer groups are a choice of verdict.
* Limits: one DAILY limit; the other windows and scopes are the same check.
* Time is "is due" and "has timed out".
* One of each where nothing relates two: one account, one notification, one key, one
  customer. Rows of different accounts, messages, keys or customers are never read together.
* The value of a transfer, the price's availability and the KYC lookup are choices of the
  environment, as are the verdicts of administrators. A verdict on a price-failure review
  that is given between the two statements of `expirePriceFailurePendings` is overwritten by
  EXPIRED; `GenuineDecisionIsFinal` is of the reviews that the threshold asked for.
* Updates of a simulated balance are lost between its read and its write; no property
  forbids it, because no document promises otherwise.
* In `AuthSessions`, `adminUpdateStatus` to DEACTIVATED or DELETED is like a suspension; an
  unverified account cannot sign in, as in production. Access tokens already issued are
  valid until they expire, and no property speaks of them.
* In `NotificationQueue`, a SCHEDULED message is a QUEUED one that is not yet due.
* In `KycVerification`, an event is named by its session and its type; every event carries
  the customer's reference, as the partner adapter sets it; the profile's level is
  the request that granted it. Documents and screenings change neither row's status.

## 7. Plan

Done: the ledger with its abstract specification, payments over it, custody's signing and
keys, lifecycle, reviews, sessions, the notification queue and identity verification, all
with proofs. Left, in this order:

1. The rest of the auth service (registration, MFA and the vault recovery) and of
   compliance (documents, and the account-deletion hook once something calls it).
2. Abstract specifications of the sessions and of the notification queue, as there are of
   the ledger and of signing, and the proofs that the modules implement them.
3. Blockchain: transaction engine, deposit watcher and confirmations over a chain with
   reorganisations, once its methods are called by a worker; deposits credited once through
   `LedgerPromise`.
4. The circuit breaker of `packages/resilience` and the gateway's proxy over it.

## 8. What is not modelled, and why

* **Blockchain service.** `TransactionEngine`'s methods that would move a withdrawal or a
  deposit on (broadcast, rebroadcast, cancel, fail, record a deposit) are called by no
  controller and no worker; the sync service runs only with the simulator, the deposit
  watcher only on test networks.
* **Swap, bridge, staking, connections, nft.** Records of what an external provider answered.
* **Compliance cases, rules and risk; custody's policy engine.** Status updates by one
  operator, and the evaluation of expressions: pure functions of their input. Their verdicts
  are choices in the models that use them.
* **On-chain transfer completion.** It keeps no rows: it looks a transaction up on its chain
  and publishes a notice.
* **Payment providers and reconciliation.** Providers are answers in `Payments`;
  reconciliation reads and reports.
* **AI, analytics, observability, market-data.** Counters, caches and reports on which no
  money depends.
* **Gateway and packages.** Routing, configuration, wrappers and types; the circuit breaker
  is in the plan.
* **Adapters, controllers, DTOs, the Next.js and Flutter apps, generators, seeds.** Input
  and output, without shared state of their own. They are most of the repository's
  lines, which is why the share of lines these models translate is small: the models
  follow the state machines of the services, and leave the rest of the lines aside.
