# Cliqpay in TLA+

Cliqpay is a NestJS backend for a naira wallet: users fund a wallet through the
payment provider Kora, send money to each other, withdraw to a bank account, and
operations record and decide card disputes. Around the wallet are KYC with limits
per tier, sessions with MFA and step-up changes, and a social feed of transfers
with notifications. This directory holds TLA+ modules of
the parts where concurrency, failure or order can break a promise; TLC
configurations that check them on small instances; and TLAPS proofs of what
matters most, for instances of any size.

Source paths below are relative to `src/src/`. `PROJECT.json` maps every
definition that models code to the lines it models.

## 1. The system

One PostgreSQL database, Redis with BullMQ queues, Kora and a KYC provider over
HTTP. The API process and the job processors may run several times; they share
nothing but the database and the queues.

| Component | State | Operations | What is hard | What makes it correct |
|---|---|---|---|---|
| Ledger (`modules/ledger`) | `accounts` (cached balances), `ledger_entries` (append only), `transactions` | create, complete, hold, refund a funding; post a transfer; post, complete, reverse a withdrawal; post a chargeback and its resolution | many callers, duplicated deliveries, row locks, five-leg postings | the balance sheet closes; each transaction posts once; statuses, entries and cached balances tell one story |
| Payments (`modules/payments`) | none of its own; rows of the ledger, jobs | `fundWallet`; the funding, refund and payout webhooks; the three five-minute polls; reconciliation | provider calls after commits, lost, late and repeated webhooks racing the poll, answers that never came | no funding is credited twice; a held funding is refunded once or operations are told |
| Withdrawals (`modules/withdrawals`) | `bank_accounts`; rows of the ledger | `initiateWithdrawal`, account management | retries with one reference, a crash between debit and payout | the money arrives or comes back, never both |
| Disputes (`modules/disputes`) | `disputes`, `users.is_frozen` | `recordChargeback`, `resolveDispute`, reports | locks taken in two orders, reads before locks | chargebacks within the funding; no resolution unfreezes a debtor; one final verdict |
| Transfers and money requests (`modules/transfers`) | `money_requests`; rows of the ledger | transfer; create, cancel, decline, pay, expire a request | replays, block and limit checks under advisory locks, cancel racing pay | a request is paid exactly when its transfer posted |
| KYC (`modules/kyc`) | tier, identifiers, attempts, liveness jobs | verify BVN or NIN, liveness, limits | provider calls outside transactions, expiry racing a verdict | tiers never exceed what is proven; limits hold under concurrency |
| Auth (`modules/auth`) | sessions, credentials, codes, MFA | register, log in, refresh, codes, PIN, TOTP | read-then-save on every counter and token | sessions, passwords, PINs, addresses and bank accounts come from a proof of their own user; a replaced token comes back only through an overtaken save |
| Social (`modules/social`) | follows, blocks, posts, reactions, comments | follow, block, react, comment | a block racing everything between the pair | nothing between a blocked pair commits after the block |
| Notifications, event bus (`modules/notifications`, `shared/events`) | notifications, channel jobs | fan-out, retries, in-app rows | publishing after commit, partial fan-out, sends that fail after they got through | published news is delivered or accounted for, and repeated only after a fault |
| Users (`modules/users`) | `users`: names, addresses, `is_frozen`, `kyc_tier` | profile, username, address changes, freeze | whole-row saves of a row read earlier | a freeze or a tier is changed only by who decides it (not so: section 5) |
| Wallet API, configuration | none | reads | | |

How they interact. Services call `LedgerService` inside or outside a transaction
they opened. Provider calls are made after the commit that makes their effect
recoverable, never inside a transaction. Webhooks and polls apply the same
guarded transitions, so that the first to arrive wins. Events are published
after the commit and may be lost with the process. Row locks are
`SELECT ... FOR UPDATE`, accounts in ascending id; limits are guarded by
advisory locks per user.

## 2. Modules

| Module | Models |
|---|---|
| `Sums` | `SumUpTo(f, n)`, the sum of `f[1] .. f[n]` (SQL's `SUM`), as a recursive function |
| `Ledger`, `MCLedger` | every database transaction that moves money or a transaction's status, one action each |
| `PayoutPromise` | abstract: where the money of a withdrawal may go |
| `Withdrawals` | a withdrawal from request to final answer: requests, provider, webhook, poll, crashes |
| `Refunds`, `MCRefunds` | a held funding from its hold to its refund: hold, attempts, provider, webhook, poll, alerts, crashes, lost calls |
| `Disputes`, `MCDisputes` | chargebacks and resolutions statement by statement, with row locks and deadlock victims |
| `MoneyRequests`, `MCMoneyRequests` | transfers between two users and the money requests between them, with row and pair locks |
| `Limits`, `MCLimits` | wallet funding, transfers and withdrawals under the balance cap and the daily limit, with advisory locks, the checkout, its webhook and poll |
| `KycVerification`, `MCKycVerification` | verification of a BVN or NIN, identity matching, liveness jobs with webhook, poll, expiry and pruning |
| `Auth`, `MCAuth` | login, MFA, devices, sessions, TOTP, verification codes, PINs, and the changes of password, email, phone and bank accounts |
| `Notifications` | the event queue, its fan-out into channel jobs, delivery, retries, in-app rows |
| `Social`, `MCSocial` | follows, blocks, posts, reactions and comments under pair locks, composed with `Notifications` |
| `SumTheorems` | what an update does to a sum, and how sums compare |
| `AccountProofs` (of `Ledger` and `KycVerification`), `WithdrawalsProofs`, `ReversalProofs` (of `Refunds` and `Disputes`), `MoneyRequestsProofs`, `LimitsProofs`, `AuthProofs`, `SocialProofs` | the theorems about each component |

Two proof modules extend two components each, whose specifications share no
variable. Their names must then differ, so those of `Refunds` and `KycVerification`
are `RefundsSpec`, `RefundsNext`, `KycSpec`, `KycNext` and so on.

**Ledger.** `balance` is `accounts.balance`, `entries[a]` the account's
`ledger_entries` in order, `txns[r]` the `transactions` row with reference `r`.
Derived references (`-reversal`, `-resolved`, `rfd-...`) are kept as
`compensated` and `attempts`. `disputes` is the foreign column that changes in
the same transactions; `users.is_frozen`, which saves of the user row change as well,
is left to `Disputes`. Each posting is a function of *legs*, one
per locked account: the direction and amount of the entry, and what the code
adds to the cached balance. The two are written independently in the code, and
independently here: that is how a wrong sign shows. Guards are what the code
checks under its locks or in the `WHERE` of its guarded updates; what it read
before (a frozen flag, a funding's status before a chargeback) is not a guard,
since it may have changed. The one assumption about Kora: a charge succeeds only
on a checkout page that was handed out, so a funding marked failed because the
checkout call threw is not paid later.

**Withdrawals.** A request runs `CheckIdempotentReplay`, `PostWithdrawal`,
`InitiatePayout` and, if Kora rejected, `ReverseRejected`; other requests,
`PayoutWebhook`, `PollVerify`/`PollApply` and crashes come between any two of
these. `InitiatePayout` has the adapter's three outcomes; `unknown` leaves open
whether Kora received the payout. `kora` is what the provider really did.
`PayoutPromise` says that money goes from the wallet into transit, and from
there to the bank or back, once.

**Refunds.** `worker` holds what a process has read and is about to do, so that
a poll may act on an old answer. Attempt *n* has its own provider reference.
`Recants` lets Kora pay a refund it first reported failed, the case
`settleRefund` and `alertOnLateSuccess` are written for. Kora may also report a
success with another amount, which `settleRefund` refuses (`CanSettle`): the attempt
then stays pending for ever, and only the daily `held_too_long` alert tells
operations. `refused` remembers which references Kora ever answered with a refusal.

**Disputes.** One user, several fundings, one action per SQL statement that can
wait or read: `owner` is the lock table, `call` a call's progress and what it
read. The wallet and float rows are one lock since every posting takes them in
one ordered statement. When calls wait in a cycle PostgreSQL aborts one, and
`Disputes` rolls it back. `Ledger` takes the same two handlers as single steps,
with a guard wide enough (`ChargebackableWhenRead`) for what the unlocked read
can let through. `updateProfile`, `updateNames`, `changeUsername` and the
confirmations of a pending address read the user's whole row and save it
(`ReadUser`, `SaveUser`): a save writes `is_frozen` when its own reload differs from
what was read first, so it can undo a freeze or an unfreeze in between.

**MoneyRequests.** One payer and one requester; `rowLock` and `pairLock` are the
request's row lock and the pair's advisory lock, `call` a call's progress.
`transfer` is the transfer posted under each reference, `madeFor` records which
request a transfer was made to pay (the code keeps only the link the other way,
which is what can get lost). Cancel and decline are the three statements TypeORM
issues: the query for a pending request, the reload by id that `save` makes to
find changed columns, and the `UPDATE ... WHERE id`. A transfer that fails under its
locks (a block, a limit, no funds) asks `checkTransferReplay` again before it
answers (`Refusal`), as `finalizeTransfer` does.

**Limits.** A worker's `job` and `pc` are a request, a webhook delivery or a poll
of one reference; `locks` are the advisory locks its transaction holds. The locks of users
and of pairs are in one key space: `Hash` and `PairHash` are PostgreSQL's `hashtext`,
which may give two users, or a user and a pair, one key. When calls wait for each
other in a circle PostgreSQL aborts one (`AbortDeadlocked`). `rows` is the
transaction of each reference with the day its database transaction began
(`created`), whether it is still inside the funding window the cap check counts
(`fresh`), and whether its page was handed out (`checkout`). `exempt` sums the
credits that bypass the limits: reversed withdrawals and disputes resolved for
the user.

**KycVerification.** A call reserves an attempt row under the user's lock, asks the
provider, and persists the identity in a second transaction under the lock, where
it compares the new identity with the other one on record. With a selfie, a
liveness job is made, submitted and settled by the submission's answer, the
webhook or the poll, or it expires. The saves of a user row (`ReadUser`, `SaveUser`)
can write a `kyc_tier` back that a verification has raised since. Names are sequences of tokens, and
`NamesMatch` and `IdentitiesMatch` are the code's rules on tokens and initials.

**Auth.** One action is one database call of a request. TypeORM's `save` of an entity
is two of them: it reads the row again (`Reload`), then updates the columns in which
the entity differs from that reading (`Merge`); `update` writes only the named columns.
That is where this module's races come from, so a job carries the row it read
(`row`) and the reading of its save (`base`). A secret
is known by what introduced it (the registration, a challenge, a code), so that
the invariants can say where each came from. Challenges, devices, sessions and
codes are tables whose ids are indices.

**Notifications** and **Social.** Social requests take their advisory locks one by
one in the code's order, read, and write and commit in one step; they publish
after the commit. `Notifications` runs at-least-once jobs. A run of an event's job may
fail or stall after it added the jobs of some channels (`FailEvent`) and then
adds all of them again; a run of a channel's job may fail or stall before or after the
news got through (`Fail`), to one device or all. Jobs are run again until their
attempts or stalls are used up, and then dropped. The flags of a post are a read, the
reload of `save` and its update (`ReloadPost`, `SavePost`). `Social` extends it, so that a
block may come between a reaction, its event, its fan-out and each channel's
delivery, which checks blocks again.

How the modules fit together. `Ledger` is the money at the grain of database
transactions, for all callers at once. `Withdrawals`, `Refunds`, `Disputes`,
`MoneyRequests` and `Limits` each open one protocol up at a finer grain, with the
calls, locks and providers around those transactions. `Social` composes with
`Notifications` by extension, and `PayoutPromise` is implemented by `Withdrawals`.

## 3. Runs

| Run | Question | Result |
|---|---|---|
| `ledger` | does any order of the ledger's transactions break the books? | holds |
| `ledger_fees` | does `fee_recovery` equal `fee_expense`, as `docs/architecture.md` says? | violated |
| `withdrawals` | do retries, webhooks, polls and crashes ever pay and refund, pay twice, or lie? Is a payout Kora received always decided? | holds |
| `refunds` | with overlapping workers, crashes, lost calls and a provider that changes its mind: are the books true, is a held funding refunded or operations told, is a second payout reported? | holds |
| `disputes` | four overlapping calls, with deadlock victims and saves of the user row: caps, freezes, verdicts | holds |
| `disputes_status` | does a funding's status reflect every dispute against it? | violated |
| `money_requests` | is a request paid by one transfer, are answers true, does a block stop what is under way? | holds |
| `money_requests_race` | do a request's status and its transfer ever disagree? | violated |
| `limits` | do the cap and the daily limit hold under concurrency, do calls deadlock other than by colliding keys, is what was paid credited or held? | holds |
| `kyc` | do overlapping verifications keep records of one person, bound the misses, earn the tier; does every liveness job end? | holds |
| `auth` | are sessions and changes earned when requests save rows they read earlier; how can a replaced token or an unproven TOTP secret become active? | holds |
| `social` | does a block end ties and contact whatever is under way, does every request end, is news delivered, and repeated only after a fault? | holds |

Properties worth a word:

* `StatusesExplainWallets` (ledger): each wallet's balance is what the statuses of
  the rows say, so a credit without its status, or twice, shows.
* `DebtsAreChargebacks` (ledger): a wallet owes no more than the chargebacks that
  stand against it, so no posting spends what is not there.
* `PaidOnceUnlessDenied` (refunds): no two references of one funding are accepted
  by Kora, unless Kora contradicted itself. The exception is real: if two workers send
  one reference and Kora refuses the one and accepts the other, the attempt is
  marked failed while Kora pays it.
* `HeldIsResolved` (refunds): a held funding is refunded, or operations are told that its
  attempts are used up. Where Kora misreports an amount, what they get is the
  `held_too_long` alert.
* `UnfreezesSafely` (disputes) and `TierEarned` (kyc) name the one exception there is, the
  save of a user row read earlier. What they rule out is any other way to
  unfreeze a debtor, to lower a tier, or to raise one without proof.
* `CyclesNeedCollision` (limits): calls wait for each other in a circle only over a key
  that a user and a pair share. Colliding users are harmless since `lockUsersInKeyOrder`
  sorts by key.
* `HeldOnlyIfDisturbed` (limits): `fundWallet` counts pending fundings, so the
  room it grants is still there when the payment arrives. Only exempt credits
  or a payment after the window can take it.
* `DailyLimitHeld` (limits) leaves out a debit whose transaction began before
  midnight and was checked after it: rows carry the time their transaction began, so
  such a debit is counted on the day before and checked against the day after.
* `RecordsAgree` (kyc): a user's BVN and NIN are one person's, no number has two
  users, the legal name is the BVN's.
* `ChangesProven` (auth): any password, PIN, address or bank account that is not
  the registered one goes back to a challenge answered, or a code used, by the same
  user. It does not say that the code was sent to the address it confirms (section 5).
* `RevivedOnlyWhenOvertaken`, `UnprovenOnlyWhenOvertaken` (auth): requests act on
  rows read long before, and yet a replaced refresh token, or a TOTP secret no code was checked
  against, becomes active in one way only: a save whose row another write changed
  between its reload and its update.
* `ContactNeedsNoBlock` (social) and `NothingAfterBlock` (money_requests): nothing
  between a blocked pair commits after the block.

**Bounds.** Counters are bounded by guards, and every bound is a named constant.

* `ledger`: two wallets and three references with unequal amounts and fees, enough for
  a funding with two chargebacks, a funding and a transfer, a withdrawal of money that
  is then charged back. References are interchangeable, and so are wallets, so
  `InOrder` follows only the behaviours that use them in ascending order.
* `withdrawals`: two references, three requests, a crash: a reference retried twice,
  or two under way.
* `refunds`: two workers, two attempts allowed by the code, three references and one
  fault (a crash or a lost call). `MaxReferences` is larger than what
  `MaxRefundAttempts` and one stale decision of each worker can reach.
* `disputes`: two fundings of two units, three notices and four calls: two
  chargebacks and two resolutions under way, on one funding or two, and any number
  of profile calls.
* `money_requests`: two requests, two references, two amounts and four calls.
* `limits`: three users of which two share a lock key, a pair with the key of the third,
  two references, two workers, two requests, two days and one crash. Circles of more
  than two calls are left to the theorem. Caps, limits and balances are such that two
  requests together exceed what each keeps.
* `kyc`: two users, two calls, four numbers (two BVNs, a NIN that matches one of them
  through an initial, one nobody has), one crash. A miss already on record brings the
  bound of two misses within reach of two calls. The users are
  interchangeable, so the first call is `u1`'s.
* `auth`: three requests by two workers. Operations come in two families, sessions
  and accounts, and the constraint `Relevant` keeps out of each the state only
  the other reads. Counters that are five in the code are two: one failure below
  the limit and one at it. Workers are symmetric.
* `social`: three users, two workers, and seven scenarios of up to four requests each,
  made in any order and overlapping, from no follows or one (`FirstFollows`). The two
  that publish news have two faults to spend, enough to use up the two attempts of
  one job or the one stall it may survive.

Deadlock checking is off because every system here may come to rest when all
requests are served. Calls that wait for each other are excluded by
`EveryRequestEnds` in `social`, and resolved by PostgreSQL in `disputes` and `limits`.

**Fairness.** A process that does not crash takes its next step (weak fairness of
every worker's step), and PostgreSQL resolves a deadlock. Kora decides what it is processing. The polls are BullMQ
job schedulers that run every five minutes over *every* stale row, so asking
about a row that is stale again and again happens again and again: strong fairness of
`PollVerify`, of `Verify` and of the retry scan; the daily reconciliation raises the
`held_too_long` alert for what is still held. In `limits` a pending funding stays so until
it is settled, and weak fairness of its poll is enough. In `kyc` only time and
the expiry job are fair: neither webhook, poll nor provider need ever answer. In
`social` the queues are worked off (weak fairness of `Dispatch`) while failures and
stalls are finite in number, as are crashes and lost calls elsewhere. A webhook is never assumed
to arrive, except in the premise of `SecondPayoutAlerted`, which is about a
delivery: nothing but Kora's webhook can tell of a second payout. Making a request,
holding a funding and opening a dispute are never forced. `auth` has no
liveness property and no fairness.

## 4. What the violated runs show

* `ledger_fees`. `reverseWithdrawalEntries` writes a *credit* entry on
  `fee_expense` and adds the fee to its cached balance; a credit takes off an
  expense account. After one funding, one withdrawal and its reversal,
  `fee_expense` and `fee_recovery` differ by twice the fee.
  `CacheMatchesEntries` therefore leaves `fee_expense` out.
* `disputes_status`. `recomputeOriginalTransactionStatus` reads the sibling
  disputes and then writes the funding without having locked it. Two upholds
  at once each see the other open and leave the funding `disputed`; a chargeback
  that commits in between is overwritten with `reversed`.
* `money_requests_race`. A cancel or decline that read the request while it was
  pending writes its status by id after a payment committed: the request shows
  `cancelled`, and may lose its transaction id, although the money moved. What
  does hold (`PaidByOneTransfer`) is that it cannot be paid a second time.

## 5. Remarks

Behaviour that came up while modelling and that no run is devoted to.

* *A withdrawal Kora never heard of.* If the process dies after the debit
  committed and before Kora received the payout, or the request is lost, the row
  stays `pending`: `verifyPayout` throws for an unknown reference, retries by the
  client are answered `pending`, and nothing resends or reverses.
  `docs/architecture.md:869` says "no stuck pending states". The refund poll
  handles the same case with `not_found`. `ReceivedIsDecided` is what holds.
* *Deadlock of a chargeback and a resolution.* `postChargebackEntries` locks the
  funding, then the accounts; a favorable resolution locks the accounts, then updates
  the funding. PostgreSQL aborts one of them. No property of the books is lost,
  but `ledger.service.ts:1520` says that postings "can never deadlock against each
  other".
* *Chargeback of a reversed funding.* `recordChargeback` argues that its unlocked
  status check is not racy because nothing moves a funding out of
  `completed`/`disputed`; an uphold moves it to `reversed`, so a chargeback can post
  on a reversed funding. `Ledger` and `Disputes` both allow it, and their invariants
  hold with it.
* *Refund attempts.* The bound is checked on rows read before the lock: each poll run
  that overlaps another may add one attempt.
* *Stale saves of a user.* `updateProfile`, `updateNames`, `changeUsername`,
  `confirmPendingEmail` and `confirmPendingPhone` save a user they read earlier. A
  freeze committed in between is written back: the wallet is negative, the dispute
  open and the account not frozen, while `docs/architecture.md:677` says of the
  freeze "it lifts only through dispute resolution". Likewise a tier raised in
  between falls again, while `docs/architecture.md:695` says that it is "always
  derived" and "only ever moves up automatically, never down".
* *Deadlock by collision.* The pair's lock and the users' are keys of one advisory key
  space. If user C and the pair of A and B hash to one key, a transfer from A to B
  and one from A to C can deadlock; PostgreSQL aborts one.
* *A refund alert may be lost.* `publishRefundAttention` swallows a failure to publish
  (`payments.service.ts:821`); the poll tries the alerts about held money again, the one about
  a second payout not.
* *A confirmed address nobody verified.* `confirmEmailChange` takes any unused email
  code of the user, also the one that registration sent to the old address;
  `user.entity.ts:44` says that "the account is never live on an unverified address".
  The same holds for phones.
* *One challenge, two sessions.* Two overlapping verifications of one challenge both find it
  pending, and each makes a device and a session; ADR-0006 calls challenges
  single-verify.
* *A post's two flags.* `setVisibility` and `setHiddenByRecipient` save the whole row
  they read, so one party's call undoes an overlapping one of the other
  (`SavePost`), while `docs/adr/0025` says "Neither party can override the other's
  objection".
* *Saves in auth.* `refresh`, `logout` and the failed-attempt counters save rows read
  earlier: a session revoked meanwhile may become active again, two rotations
  leave one client with a dead token, and concurrent wrong passwords or PINs lose
  increments. Where a save is overtaken between its reload and its update, more is
  possible. Two refreshes and a logout read a session; the first refresh rotates and a
  replay revokes; the logout's save reloads the revoked row, so that only its old tokens
  differ; the second refresh makes the session active again, and the logout writes the
  replaced token over it. Likewise a `confirmTotp` that updates the status alone makes
  a secret active that an enrollment has just put there, against the comment at
  `mfa.service.ts:78`. `RevivedOnlyWhenOvertaken` and `UnprovenOnlyWhenOvertaken` say
  that these are the only ways.

## 6. Proofs

Every theorem is for all values of the constants under the module's assumption.

`AccountProofs`, of the ledger (from `LedgerAssumption`: numbers of wallets and
references are naturals, amounts and fees are natural numbers):

* `TypeCorrect`: `Spec => []TypeOK`.
* `RowsCorrect`: `Spec => []WellFormedRows`. `WellFormedRows` is inductive only
  together with `TypeOK`. It is needed because the legs of a posting are a
  function of accounts: a chargeback or a resolution has two legs only if the
  funding's recipient really is a wallet.
* `BalanceSheetHolds`: `Spec => []BalanceSheet`. The inductive invariant is
  `TypeOK /\ WellFormedRows /\ BalanceSheet`. For each posting the proof computes
  the change of the float and of the sum over all wallets, which changes in one or
  two places; what an update does to a sum is `SumUpdate` in `SumTheorems`,
  proved there from the recursive definition by a least counterexample (an
  induction the provers can follow).
* `DebtsCovered`: `Spec => []DebtsAreChargebacks`, inductive with the same two. A
  transfer or withdrawal takes from a wallet only what it has; a chargeback lowers the
  wallet and raises what stands against it by one amount, and a resolution for the
  user does the reverse.
* `SuspenseBacked`: `Spec => []SuspenseBacksHeldFundings`, inductive with the same two
  as well (like the next two theorems): a sum over references in which each step
  changes at most one summand (`HeldIn`).
* `StatusesTrue`: `Spec => []StatusesExplainWallets`, the same argument for every
  wallet, with the contribution of a row (`Worth`); that a chargeback's funding
  stays credited, which `WellFormedRows` says, is what keeps a status change
  of the funding from changing anything.
* `CacheTrue`: `Spec => []CacheMatchesEntries`. Every leg but the reversal's one on
  `fee_expense` adds to the cache what its entry means (`LegsTrue`), and
  appending such an entry keeps the chain of running balances.

`WithdrawalsProofs` (from `WithdrawalsAssumption`):

* `OnePayoutCall`: `Spec => []PaidOutOnce`, `TrueAnswers`:
  `Spec => []AnswersAreTrue`, and `PromiseKept`: `Spec => KeepsPromise`, the
  refinement of `PayoutPromise`. The inductive invariant is
  `TypeOK /\ Agreement`. `Agreement` says what each step of a request knows: only
  one request is ever between posting and its answer for a reference, a reference
  no payout call was made for is unknown to Kora, an answer held by the poll is
  what Kora decided, a credit exists exactly for a reversed row, and a row is
  reversed only when Kora failed the payout.
* `NoticesTrue`: `Spec => []OneTrueNotice`, inductive with these: a row that is still
  open was not reported on, so whoever decides it reports first.

In the other components the constants are arbitrary sets and bounds (of calls,
workers, users, references, amounts), and the inductive invariant `Inv` was
checked by TLC on the bounds of the component's run before it was proved. What
these invariants add to the properties is always the same kind of fact: what a
call that is under way may still rely on, although it read it some steps ago.

`ReversalProofs`, of disputes (from `DisputesAssumption`; the sets of fundings and notices are
finite, since chargebacks are counted):

* `ChargebacksBounded`: `Spec => []ChargebacksWithinFunding`; `VerdictsFinal`:
  `Spec => VerdictIsFinal`; `UnfreezeSafe`: `Spec => UnfreezesSafely`. `DisputesInv`
  adds `RowsPaired` (a dispute and its chargeback commit together) and `CallKnows`: a call
  past `lockOriginal` owns the funding's row and its chargeback still fits, a call
  past `lockDispute` owns the dispute's row, which is still open. Crashes and
  deadlock victims release both the locks and the knowledge. Saves of the user row
  change no lock and nothing a call relies on; `UnfreezeSafe` has them as its exception.

`MoneyRequestsProofs` (from `MoneyRequestsAssumption`):

* `PaidOnce`: `Spec => []PaidByOneTransfer`; `AnswersTrue`:
  `Spec => []AnswersAreTrue`; `BlockIsFinal`: `Spec => NothingAfterBlock`. `Inv` adds
  `BooksTrue` (a link leads to the transfer made for the request; whatever has a
  payment is no longer pending, so that an overwriting cancel hides the payment
  and does not allow a second one) and `CallKnows` (a pay call that holds the row
  lock sees a pending request; a call about to commit holds the pair's lock and
  the pair is not blocked).

`ReversalProofs`, of refunds (from `RefundsAssumption`):

* `RefundsPaid`: `RefundsSpec => []RefundedMeansPaid`; `RefundedOnce`:
  `RefundsSpec => []PaidOnceUnlessDenied`; `AlertsTrue`:
  `RefundsSpec => []AlertsAreTrue`. `RefundsInv` adds `JobTrue` (an answer
  in a worker's hands is still Kora's word when it is acted on, however late) and `FailuresDenied` (of a funding that is still held,
  only attempts that Kora denied are failed, and an attempt has a successor only if
  it was denied). `PaidOnceUnlessDenied` follows from `FailuresDenied`, and so
  needs no place in `RefundsInv`.

`LimitsProofs` (from `LimitsAssumption`, which lets lock keys collide):

* `CapHeld`: `Spec => []BalanceCapHeld`; `HoldsJustified`:
  `Spec => []HeldOnlyIfDisturbed`; `DailyHeld`: `Spec => []DailyLimitHeld`. `Inv`
  adds `LocksApart` (no key is held twice), `CapTrue` (as long as nothing that
  bypasses the cap disturbed a user, its balance and its pending fundings together
  fit under the cap), `DaysTrue` (the debits of every day, not only today's) and
  `JobPromised` (a call past its check holds its users' locks and the room it was
  promised is still there). The order in which the locks are taken matters only
  for deadlocks. The sums are compared with `SumMonotone` and
  `SumNat` of `SumTheorems`.
* `DeadlocksNeedCollisions`: `Spec => []CyclesNeedCollision`, for circles of any number of
  calls. A call holds its pair's key and those of its users below the key it waits
  for; if no user's key is a pair's, the keys waited for around a circle would
  ascend for ever, so the call that waits for the greatest is not waited for.

`AccountProofs`, of KYC (from `KycAssumption`):

* `RecordsTrue`: `KycSpec => []RecordsAgree`; `TierTrue`: `KycSpec => []TierEarned`
  (a tier written back was once derived, and what is proven never shrinks);
  `MissesHeld`: `KycSpec => []MissesBounded`; `NeverReplaced`:
  `KycSpec => IdentityNeverReplaced`. `KycInv` adds `CallTrue` (what the progress of a call
  says about its attempt, its job and its verdict) and `AttemptsBounded`: the
  attempts reserved before the provider is asked stay within the bound, and every
  miss is such an attempt. The argument also needs that `IdentitiesMatch` is
  symmetric and that `DeriveTier` never falls when a record gains something.

`AuthProofs` (from `AuthAssumption`: any number of users, workers and requests, any
positive limits and lifetimes):

* `SessionsAreEarned`: `Spec => []SessionsEarned`; `ChangesAreProven`:
  `Spec => []ChangesProven`. Neither is inductive, because a request writes rows it
  read some steps ago. `Inv` adds, for each step of each operation (`Routes`), what
  the row, the reload and the id a request carries owe the tables (`JobTrue`): a
  carried credential or profile is as proven as a stored one, and so is what `Merge`
  makes of three of them; a request past its challenge or code owns one that was
  answered or used. These facts survive the steps of others since tables only
  grow, answers stay given, and codes stay used (`Grows`). `DevicesEarned` and
  `AccountsProven` say of the tables what the properties then follow from.
* `ReplacedTokensAreDead`: `Spec => RevivedOnlyWhenOvertaken`; `ActiveTotpIsProven`:
  `Spec => UnprovenOnlyWhenOvertaken`. They follow step by step from `Inv` and a second
  inductive invariant, `Kept`. `TokensApart`: every refresh token that is the current
  one of a session, or of a session row in a request's hands, belongs to one
  session and was issued. `SecretsChecked`: a confirmation under way carries the
  secret its code was checked against. A save that was not overtaken leaves the row as
  the entity has it, and the theorem is about such a row.

`SocialProofs` (from `SocialAssumption` and `NotificationsAssumption`: any users,
posts, workers, any sets of requests, any follows to begin with):

* `TiesEnded`: `Spec => []BlockEndsTies`; `ContactUnblocked`:
  `Spec => ContactNeedsNoBlock`. `Inv` adds `LocksApart` (no lock is held twice),
  `JobLocks` (the locks a request still wants and those it has include the lock
  of every pair it must be sure of) and `JobKnows` (what the check found is still so
  at the write). They go together: a block holds its pair's lock, so no other
  request past its check relies on that pair. `ContactNeedsNoBlock` is an action
  property and follows from `Inv` for the one step that commits.
* `ResentSeldom`: `Spec => []ResentOnlyAfterFault`. `CopiesBounded` counts, for an
  event and a channel, what was sent, the jobs that may still send it and the run
  of the fan-out that may still add one: together at most one more than the
  faults of the event's job and of its jobs on that channel. Each fault pays for
  one more job or one more delivery, whatever the run had done by then.

Type invariants and `WellFormedRows` are not properties of the runs: the first say
little, and the second is proved. Only model-checked:

* all liveness properties (`SecondPayoutAlerted` among them): the proof system does
  not reason about fairness or `ENABLED`;
* the violated runs, which show behaviours and have nothing to prove.

## 7. Not modelled

* HTTP, JSON and signature handling of the adapters, DTO validation,
  configuration, migrations, logging: I/O and set-up.
* Reports, history, feeds and lists: they read. The reconciliation job only reads
  and alerts, and so does nothing a property could relate to, and
  `markRefundInitiated` sets a mark that only it reads.
* `Money`: unbounded integers, as TLA+'s. Key rotation scripts: offline, one transaction
  each.
* The values of names and usernames and the username's cooldown (that their saves write
  the rest of the row back is modelled), push tokens, the delivery of codes.
* Registration and wallet creation are `Init`. A user's tier and so its limits do
  not change during a behaviour of `Limits`.
* The events of transfers and money requests, which `Notifications` would treat as it
  treats the social ones (`transfer_received` is one of its types and is published
  by the transfer of `Social`).
* Lock keys that collide in `Social`, whose pair and follower keys are in the same key
  space: `Limits` covers collisions, and PostgreSQL resolves them.
* Phone changes share the definitions of email changes in `Auth`; the run exercises
  email.

Every safety property of a passing run is proved. What is left to TLC is listed at
the end of section 6.
