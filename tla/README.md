# Formal model of the gateway's accounts, payments and background work

This directory holds TLA+ modules that model the parts of the API gateway where
money and work in the background can go wrong: what a request is charged and what
its failure gives back, what a Stripe payment credits and a card refund takes
away, how a task that runs for minutes at a provider is billed at its end, how
several master nodes share one queue of background tasks, and how the chat page
recovers an answer that a reload cut off. TLC checks the modules on small
instances; TLAPS proves the main safety properties for every size.

Definitions keep the names of the functions they model. `PROJECT.json` maps
every definition to its source lines and lists components, runs, hazards,
mutants, findings and theorems.

    tlasany SystemTask.tla                                   # parse
    tlc -workers 2 -config SystemTask.cfg MCSystemTask       # model-check a run
    tlapm SystemTaskProofs.tla                               # check the proofs

## 1. The system

The gateway accepts API calls in several formats, authenticates them by token,
reserves their estimated price, relays them to an upstream channel (retrying on
others), and settles the actual price. Users pay with a dual balance (cash and
promotional, filled by Stripe top-ups, gifts and codes) or with subscription
plans that carry a quota per period. Any number of processes share one SQL
database and, optionally, Redis. The core is written in Go; the two web front
ends (TypeScript) are for the most part forms and tables over its API.

| Component | State | Operations | Interacts with |
|---|---|---|---|
| System task runner (`service/system_task.go`, `model/system_task.go`) | `system_tasks`, `system_task_locks`, goroutines | create, claim, heartbeat, expire stale locks, finish | every master node polls the same tables |
| Dual-balance wallet (`model/balance_credit_lot.go`, `model/user.go`) | `quota`, `promo_quota`, credit lots and their ledger | deduct, restore, expire, credit, reverse, override, save of the user row | billing sessions, top-ups, gifts, plan purchase, administrators, profile handlers |
| Billing session (`service/billing_session.go`, `funding_source.go`, `billing.go`) | the session object of a request, `tokens.remain_quota` | preConsume, Settle, Refund (in a goroutine) | relay controller above, wallet, token and subscriptions below |
| Subscription quota (`model/subscription.go`) | `user_subscriptions`, `subscription_pre_consume_records` | reserve, settle, refund, reset, expire | billing sessions, periodic task, purchases |
| Stripe top-ups (`service/stripetopup`, `model/stripe_topup_order.go`) | orders, rows of handled events | checkout, webhook events, credit, refund, administrator's retry | Stripe; wallet and lots; the success page polls the order |
| Asynchronous tasks (`service/task_polling.go`, `task_billing.go`, `model/task.go`, `relay/relay_task.go`) | `tasks` with their charge | submit, poll, sweep, settle or refund, customer's query | billing at submission, wallet and token at the end |
| Chat playground (`web/default/src/features/playground`) | conversation, its copy in localStorage, event source, timers | send, edit, regenerate, stop, reload, resend | the relay, by server-sent events |
| Commission and withdrawal | commission accounts, withdrawals | accrue, request, approve, pay, reconcile | top-ups, Stripe Connect |
| Recurring Stripe subscriptions (`model/stripe_webhook_event.go`) | events with leases, contracts | invoice and subscription events | user subscriptions |
| Fair-use limiter | counters and reservations in Redis | reserve, settle, release | relay controller; its late error calls Refund after Settle |
| Channel selection, retry, cooldown | cached channel tables | choose, disable, cool down | relay controller |
| Redis caches, batch updater (`model/utils.go`) | copies of tokens and users, pending deltas | read through, delayed write | token and user quota |
| Redemption codes and check-in; rate limits; accounts and administration; relay adaptors; pricing; front ends | single rows, Redis windows, none | request/response handlers | wallet, relay |

What is hard here:

* **interleaving**: each handler is a series of separate SQL transactions; two
  requests of a user, an expiry, a card refund and an administrator interleave
  between any two of them;
* **partial failure**: token and funding are charged and repaid by different
  statements, each of which may fail;
* **stale state**: a reservation gives credit back to lots as they were when it
  drew on them; the cleanup acts on lock rows it read earlier; a refund may
  arrive in a later quota period;
* **crashes**: a runner dies anywhere between lock, claim and release; a process
  dies holding reservations;
* **timeouts and retries**: leases that run out while a statement is delayed;
  refunds that are retried although they took effect;
* **unreliable delivery**: Stripe sends an event until it is acknowledged, twice
  if need be, and in no order;
* **liveness**: a task whose runner died must still end; a request must not stay
  open; a payment must be credited; an answer must stop loading.

The properties that make the modelled components correct are: a system task is
executed at most once and always ends; lots, their audit ledger and the two
balances agree, and nothing mints credit; every account is charged for each
request exactly what its session says, once; no subscription is used beyond its
total; an order is credited once, for its own payment, and loses only its own
credit; an asynchronous task is settled or refunded once, by the pass that ended
it; the playground resends a bounded number of times and never overwrites a
finished answer. Sections 2 to 4 say how each is stated and how far it is
established.

## 2. The modules

### `SystemTask`

The two tables and the runner loop, for one task type (every statement filters on
the type, and there is one lock row per type). One action is one SQL statement.

| Action | Code |
|---|---|
| `EnqueueSystemTask`, `RunSystemTaskScheduler` | creation by an API call or by the scheduler, under the unique `active_key` |
| `ExpireFind`, `ExpireMark`, `ExpireDelete`, `ExpireError` | the three statements of `ExpireStaleSystemTaskLocks` and its error returns |
| `ClaimFind`, `ClaimAcquire`, `ClaimMark`, `ClaimRun`, `ClaimError` | `runSystemTaskClaimPass` and `ClaimSystemTask`: find, take the lock, fail the task of an expired lock, compare-and-set to running, error path |
| `Heartbeat`, `HeartbeatFails` | `runWithLeaseHeartbeat`, `RenewSystemTaskLock` |
| `Finish`, `FinishRelease`, `HandlerGivesUp` | `FinishSystemTask`, its release of the lock, a handler that returns after its lease was lost |
| `Crash`, `Tick` | a process dies; the clock moves |

Time is relative: `lock.left` is what remains of the lease and `age[r]` how long
ago the pass of runner r read the clock, so the state space is finite and the
off-by-one cases of `locked_until < now` are all there. `ClaimAcquire` is the insert
of the lock row and, when that meets a row, the read and the guarded update that
follow it: between those statements nothing can happen that the update's own
condition on the row does not catch, given that a pass ends within its lease
(section 4).

### `CreditLots`

The wallet of one user: the total, the promotional share, the credit lots with the sum
of their ledger rows, the orders that created them, the reservations of requests, and
what profile handlers have read. One action is one transaction with row locks.
Deduction (`Allocation`, `Deducted`), restore (`CanRestore`, `Restored`) and expiry
(`ExpireLots`) are pure operators on the wallet, so they can be composed and compared;
the allocation order (promotional lots by expiry, the untracked promotional balance,
paid lots, untracked cash) is the relation `Precedes`. `PreConsume`, `SettleMore`,
`SettleLess` and `Refund` are `WalletFunding`; `MarkPaid` and `CreditStripeTopupOrder`
are the two transactions of a payment, and a refund between them, or after them, is
one of three: `ReconcileRefundUnpaid` (only a review), `ReconcileLegacyRefund` (paid
and without lots: the amounts are taken from the balances, and no lot changes) and
`ReconcileRefund` (what is left in the order's lots is reversed).
`IncreaseUserCashQuota`, `IncreaseUserPromoQuota`, `DecreaseUserQuota`,
`PurchaseSubscriptionWithBalance` and `OverrideQuota` (of either sign: the code checks
none) are the other writers. `ReadUser` and `UpdateWithTx` are a handler that loads
the user row and later saves every non-zero field of its copy but `quota`,
`used_quota` and `request_count`; `profile[h]` is the `promo_quota` of that copy. A
handler may return without saving. The cap of `sumRemainingCreditLots` at `MaxQuota`
is left out: it matters only for a user with more than `MaxQuota` of promotion in
lots, which takes an override of `quota` between top-ups. The one deduction a negative
`quota` reaches is expiry, whose removal is capped by both balances (`ExpireLots`).

### `BillingSession`

Concurrent requests of one user with one limited token. `pc[r]` is where the
handler of request r, later its refund goroutine, is; `s[r]` is its session object.

| Label | Meaning | Actions that leave it |
|---|---|---|
| idle | not arrived | `NewBillingSession` (preference, first choice of funding) |
| wallet | about to check the balance | `TryWallet` |
| token, take | about to read, then charge the token | `ReadToken`, `DecreaseTokenQuota` |
| funding | about to reserve | `PreConsumeWallet`, `PreConsumeUserSubscription`, `ReservationFails` |
| rollback, abort | reservation failed: the token is given back, then the other funding is tried, or the request is refused | `RollbackToken` |
| relaying | at the upstream | `RelaySucceeds`, `RelayFails` |
| settling, settleToken | settlement of funding, then token | `SettleExact`, `SettleWallet`, `SettleSubscription`, `SettleToken` |
| unsettled, settled | ended; `FairUseRefund` may still call Refund | `FairUseRefund` |
| refundFunding, refundRecord, refundToken | the asynchronous refund | `RefundWallet`, `RefundSubscription`, `MarkRefunded`, `RefundToken` |
| rejected, failed | ended | |

`Trusted` is the trust bypass, `PeriodEnds`, `ResetDueSubscriptions`,
`MaybeReset` and `SubscriptionEnds` the life of a subscription. A statement may
fail `MaxFaults` times; the commit of a subscription refund may be lost
`MaxLostCommits` times; `Crash` may hit any request under way. The field `leak`
accumulates what failed token statements left wrong (the code only logs it), and
`kept` what a failed refund did not give back.

### `ChargeLedger`

What billing promises of an account: the balance moves only together with the
charge of one request; a request is held, released or closed; a closed one is never
charged or repaid again. `BillingSession` instantiates it three times, with a
refinement mapping per account: `WalletCharged`, `TokenCharged`,
`SubscriptionsCharged`. The mapping reads the charge off the session's own fields,
so a step that moves money without the session knowing, or the reverse, is not a
step of `ChargeLedger`.

### `StripeTopup`

The orders of one user, from checkout to refund. Stripe, the customer and the
administrator are the environment; one action of the server is one transaction or
one call to Stripe.

| Part | Actions | Code |
|---|---|---|
| Checkout | `CreateReservedOrder`, `OpenSession`, `OpenSessionFails`, `ReturnSession`, `SaveSessionFails` | `CreateCheckout` |
| Stripe, customer (external) | `Pay`, `PayLater`, `AsyncPaymentSucceeds`, `AsyncPaymentFails`, `Decline`, `Expire`, `RefundOrDispute` | what raises the events the webhook knows |
| Webhook | `Claim`, `IgnoreDuplicate`, `HandleCheckoutPaid`, `CreditStripeTopupOrder`, `CreditFails`, `HandleStatusEvent`, `HandleChargeRefunded`, `Release`, `ReleaseFails` | `ProcessVerifiedEvent` and its handlers |
| Others | `AdminRetryTopupCredit`, `Spend`, `Poll`, `Crash` | administrator, usage, the tick of the success page, the death of a process |

`claimed` is the table of handled events: `TryInsertStripeWebhookEvent` writes it
before the work, a failed handler deletes its row so that the next delivery counts,
and a delivery that meets a row is acknowledged whatever became of the handler.
`handler[e] = "dead"` is a claim nobody will release.

Assumed: the administrator retries an order only after its checkout request has
ended (its `DB.Save` would write the old row back over the credit); Stripe repeats
an event until it is acknowledged; events name their order by metadata or session
(the fallback by trade number is for orders of an older version); orders carry no
promotional credit, since `BuildQuote` grants none. Kept as the code has it: the
unique index on the empty session id refuses a new order while another is without
a session; a partial refund reverses all that is left of the lot; an order that was
paid and never credited takes its full amount from other cash when it is refunded;
a late failed or expired event on a credited order is an error and is retried, on
an order under review it overwrites the review; the write that puts a mismatching
payment under review may fail, which is ignored, and the event is acknowledged all
the same; an administrator's retry may come without a session id and then leaves
the order without one.

### `AsyncTask`

Tasks from their first charge to settlement or refund. `actor[a]` is what a polling
pass or a customer's query holds in memory: the task, the status and quota it read
(`snap`, `quota`), the provider's answer with its progress (`done`: 100%) and the
step it is at.

| Step | Actions | Code |
|---|---|---|
| submission | `PreCharge`, `SettleSubmission`, `Insert`, `InsertFails` | `RelayTaskSubmit`, `RelayTask` |
| environment | `TimeOut`, `ProviderEnds` (external), `Crash` | |
| read | `Sweep`, `Poll`, `Query` | `sweepTimedOutTasks`, `GetAllUnFinishSyncTasks`, `GetByTaskId` |
| ask | `Ask`, `AskSuno`, `AskFails` | `FetchTask` and what is made of its answer |
| write | `Advance`, `AdvanceFails`, `FailWithChannel`, `AdvanceByQuery`, `SunoSave` | `UpdateWithStatus` and the unguarded updates |
| bill | `Refund`, `RefundFails`, `Settle`, `SettleRow` | `RefundTaskQuota`, `RecalculateTaskQuota` |

The task is charged at the price of the first channel it is sent to (`PreCharge`);
a retry on another channel prices it anew and charges nothing. `SettleSubmission`
moves the charge to the price of the channel that took it, of funding and token, of
the funding alone, or of neither: the code only logs a failure, and the row gets the
new price in any case. `short` and `tokenShort` remember what a row says beyond the
charge; `Paid` is the charge corrected by it, and the properties of the billing at
the end are about `Paid`, since the passes know nothing but the row. That the
shortfall itself reaches the user is listed in section 3.

The three platforms differ in who may write a row. *Video* rows are moved by
compare-and-set, and by the bulk failure of a pass that cannot read the channel
(`FailWithChannel`, on a deleted channel or any other error; `unread` remembers
these). A *Gemini or Vertex* row is written by the customer's query too, which bills
nothing and may take a row back from FAILURE. A *Suno* row is refunded first and then
saved over whatever is there, so two passes can refund it twice; an answer with a
fail reason is refunded and put at 100% whatever its status. The properties about
billing are therefore stated for video tasks; what is false of the others is a
finding or a hazard. Passes and sweep read only rows that are neither ended nor at
100% (`Unfinished`); a row at 100% with an unfinished status is `Stuck`. An error
body of the provider counts as a failure of the task, as it does in the Gemini
adaptor, rate limits included. `TaskTimeoutMinutes` is not 0. Funding and token are
adjusted in one action at the end; the token's error, which is only logged, also
stands for a crash between the two. `MaxExtra` bounds how often a Suno task is
refunded.

### `Playground`

One browser tab, one thread: an action is the handler of one event. `messages` and
`stored` are the conversation and its copy in localStorage, `stream` the source
with its 50 ms buffer, `resend` the references of the automatic resend.
User: `HandleSendMessage`, `HandleRegenerateMessage`, `HandleEditMessage` (of a
question or an answer), `ApplyEdit` (submit, of a question), `SaveEdit`,
`CloseEditor`, `HandleDeleteMessage`, `HandleClearMessages`, `StopGeneration`,
`ToggleAutoResend`, `Reload`. Stream: `Chunk`, `Done`, `Error`,
`EndsQuietly` (status 200, no `[DONE]`). Timers and effects: `FlushTimer`,
`RetryTimer`, `SaveTimer`, `LoadMessages`, `Recover`. Texts are abstracted to
whether a message has content. `Init` also starts from conversations that earlier
sessions left behind, with messages that failed for good while they were flagged,
or were reset by the recovery of another one. Those of four and five messages are
beyond the bound of the run; the theorems cover them. `automatic` counts the requests
the page sent by itself since it was loaded: only a reload sets it back. A source fails
once: whether the library could report a second failing message of the same batch
to `handleError` is not decided by this repository.
Leaving the page without a reload is not modelled; it does not close the source.

### `MC*` and `*Proofs`

`MCCreditLots` adds the symmetry set and compares the sum of `FiniteSums` with the
community modules' on small families; the other `MC` modules only name the instance.
`SystemTaskProofs`, `BillingSessionProofs`, `StripeTopupProofs`, `AsyncTaskProofs`,
`CreditLotsProofs` and `PlaygroundProofs` hold the theorems about the components;
`SubscriptionPoolProofs` extends `BillingSessionProofs` with those that need sums.
`FiniteSums` defines the sum over a finite set without recursion, as the number of
pairs of an element and a unit of its share, so that the provers can unfold it;
`FiniteSumTheorems` proves what a sum is.

## 3. What is checked

Every property is also checked to be able to fail: `PROJECT.json` lists, for each
property of a passing run, a plausible bug in the code (an operator marked
"Mutant" beside the definition it changes) under which TLC finds it violated.
Deadlock checking is off in all runs: once the bounded work is done (all tasks
ended, all requests over) the system may stop.

| Run | Instance | Shows |
|---|---|---|
| `system_task` | 2 tasks, 2 runners, lease 1 tick, pass stalls up to 1 tick, fair | `ExecutedAtMostOnce`, `RunningIsLeased`, `ActiveKeyIsExact`, `StartsAreLeased`, `EveryTaskEnds` |
| `credit_lots` | 1 order of 1 paid + 1 promotional unit, 2 requests, 1 profile handler, gifts, plan purchase, override to -1, 1 tick | `LedgerMatchesLots`, `NoCreditMinted`, `RefundUndoesReserve`, `CoveredChargesPass`; `PromoCoverKept`: two writers leave promotional lots uncovered; `NestingKept`: these and two more break `promo_quota <= quota` or the cash behind the paid lots; by the type, `promo_quota` never negative although four writers do not look at the lots |
| `billing_safety` | 2 requests, 4 preferences, estimates 0-2, costs 0-3, 2 subscriptions, 1 failing statement, crashes | `WalletCharged`, `TokenCharged`, `SubscriptionsCharged` |
| `billing_resets` | 2 requests (one from the playground), a subscription without wallet overflow, 2 period ends or expiries, 1 lost commit, fair | `UsageWithinTotal`, `RequestsEnd` |
| `stripe_topup` | 1 order of 1 unit, 3 events, balance 2 of at most 2, 2 polls of the page, fair | `CreditedAtMostOnce`, `CreditNeedsPayment`, `CreditSticks`, `RefundTakesOwnCredit`, `PageVerdictFinal`, `PaidOrdersSettle` |
| `async_task` | 1 video task, 3 passes, prices 1 and 2, settlements at 1 and 3 | `RefundedAtMostOnce`, `SuccessIsCharged`, `FailureIsRefunded`, `EndIsFinal` |
| `async_task_end` | 1 task of any platform, 2 passes, 1 customer, fair | `TasksEnd` |
| `playground` | 2 retries, conversations of up to 3 messages, fair | `RetryHasTarget`, `SpinnerIsServed`, `RetriesAreBounded`, `AnswersStay`, `GenerationEnds` |

Why the bounds are enough. *System tasks*: every race is between two passes, or a pass
and a job, over at most an old and a new task; a lease of one tick with a stall of one
tick reaches each side of every comparison of `locked_until`. *Lots*: with one unit
per lot a reservation of two already spans two sources; a promotional lot of one tick
expires before, during or after a reservation; a limit of 2 lets a gift between a
reservation and its return meet the overflow tests of credit and restore. A second
order, whose lots stand behind the balance that the refund of the first takes, and
promotion that never expires are left to the theorems of section 4, which hold for any
number of orders and requests and any lifetimes. *Billing*: 3 units of wallet and
token against estimates of 2 make two requests compete; costs below, at and above the
estimate and a total of 3 per subscription give settlements of each sign and refusals;
one fault suffices for each single failure, and a crash may be added to it. *Top-ups*:
orders meet only in the balance and in the refusal of a second order without session;
three events give a payment, a failure or expiry before it and a refund or dispute
after it, in every order of delivery; with the balance at its limit the credit is
refused until something is spent, and a lot may be spent before its refund.
*Asynchronous tasks*: tasks share nothing; three passes, or two and a query, hold one
row at three different stages, two prices give a settlement of the submission of
either sign, and settlements below and above the charge move it either way.
*Playground*: three messages are an answer before the one that is edited, deleted or
recovered; two retries reach the counter below, at and beyond its limit. An edit that
keeps the automatic mode needs four messages (a marked one before the edited one, and
one after it that the recovery is for): that it does not renew the budget of
`RetriesAreBounded` is shown by the theorem `ResendsAreBounded`. The proofs of section
4 remove these bounds for all but the properties named there.

Fairness. *Runners*: weak fairness of the pass of a live runner (a ticker and wakeups
drive it), of the end of a handler and of the clock; strong fairness of the mark and
the delete of the cleanup and of the compare-and-set that starts a task, since a
database error may undo the attempt, but not at every attempt. Heartbeats, creation
and crashes are not fair. *Requests*: weak fairness of each request's own steps
(handlers and goroutines are scheduled, upstream calls have timeouts). A request whose
process died is excused in `RequestsEnd`: nothing in the code resumes it. *Top-ups*:
Stripe delivers the event of a payment again until it is acknowledged, a handler takes
its steps, and strong fairness of the credit says that the database does not fail for
ever; nothing is assumed of the administrator. *Asynchronous tasks*: time passes, a
pass goes on unless it dies, and, by strong fairness, not every sweep of an old row
dies or fails to write: passes recur every 15 seconds while rows are unfinished. The
provider is not fair. *Playground*: browser timers and effects run, and a source that
has not gone quiet reports `[DONE]` or an error. `GenerationEnds` excuses a connection
that ends with status 200 and without `[DONE]`: no handler ends the generation then,
and the user has to stop it.

### Findings

Four runs expect a violation: the code does something other than its own comments
say. TLC's trace shows each.

| Run, property | What happens |
|---|---|
| `credit_lots_refunded_order`, `RefundedOrderHoldsNoCredit` | a lot exhausted by a running request when its order is refunded comes back to life when the request gives it back |
| `billing_refund_twice`, `UsageCoversReservations` | a subscription refund whose outer commit fails is retried and given back twice |
| `stripe_topup_retry`, `RetryCreditsPaidOrders` | a declined card marks the order failed while its session stays open; paid with another card, it can be credited by neither the webhook nor the administrator's retry |
| `async_task_query`, `QueriedFailureIsRefunded` | the customer's query of a Gemini or Vertex task moves it to FAILURE without a refund, and no pass looks at it again |

Other behaviours of the models that a maintainer should know of:

* *System tasks*: the cleanup may fail a task whose heartbeat succeeded after the
  cleanup had read the lock row.
* *Wallet*: a profile update writes back the `promo_quota` it read before a top-up, a
  charge or an expiry (`model/user.go:729`; the test
  `TestUserUpdateDoesNotOverwriteAccountingFields` covers the other accounting
  fields), after which the wallet may refuse charges its balance covers; buying a plan
  with balance lowers `quota` alone, so `promo_quota` may exceed it; a promotional lot
  that expires during a request keeps the cash of the same reservation from coming
  back.
* *Billing*: a wallet deduction that loses a race is reported as a data error, so a
  wallet_first request is refused although a subscription could pay.
* *Top-ups*: the event of a payment is lost when the process dies between claim and
  credit, or when a second delivery is acknowledged while the first is about to fail.
* *Asynchronous tasks*: a failed settlement of a submission is only logged and the row
  gets the new price all the same (`controller/relay.go:833`), so a later refund
  returns more or less than was charged; a pass that cannot read the channel fails its
  tasks by the unguarded bulk update (`service/task_polling.go:389`) and nothing
  refunds them, which the warning at `TaskBulkUpdateByID` (`model/task.go:451`) is
  about; a task whose row is at 100% before its end is neither polled nor swept again;
  the cutoff before which a timed-out task is not refunded is commented as 2026-02-22
  and is 2025-02-22 (`service/task_polling.go:53`).
* *Playground*: with a message that failed for good while flagged earlier in the
  conversation, a message that the user edits and submits while a later resend runs
  keeps the automatic mode, and the failure of the user's own request is retried
  (`use-chat-handler.ts:342`, whose comment says that it is not); such a message is
  reset to loading by a later recovery of another one, and nothing serves it; editing a
  message while an answer streams lets chunks of the old answer flow into the new.

The passing runs keep clear of these only by their constants and by what the
properties except, never by changing an action: `PromoCoverKept` and `NestingKept`
name the two and four writers that break what they keep; `EndIsFinal`,
`FailureIsRefunded` and `TasksEnd` name the channel that cannot be read, the refund
that was lost and the row that is `Stuck`; `SubscriptionsCharged`
is checked without resets and lost commits, because a refund in a later period
and a repeated refund both break it; `PaidOrdersSettle`, `SpinnerIsServed` and
`GenerationEnds` name their exceptions.

## 4. What is proved

**`SystemTaskProofs`**: `TypeCorrect`, `RunningTasksAreLeased`,
`TasksExecuteAtMostOnce`, `ActiveKeyExact`, `HandlersStartLeased`, for every set of
tasks and runners and every lease, assuming `StallBound`: a pass executes its last
statement within one lease of reading the clock. The code does not enforce that;
without it a claim may set a task running after its lock row was cleaned up, which
would leave the task running for ever.

`RunningIsLeased` is not inductive: its danger is a pass that acts on what it read
earlier. `IInv` adds what every pass in flight knows: the locals are consistent
(`PassLocals`), a claim past the lock still holds the lease it wrote
(`ClaimHolds`), a task names the one runner that claimed it (`ClaimedOnce`), a claim
that has not yet taken the lock cannot take it from a task that started since
(`StaleClaimIsHarmless`), and the row a cleanup may delete is not that of a running
task (`CleanupIsHarmless`). The last two are where the ages and `StallBound` enter.

**`BillingSessionProofs`**: `TypeCorrect` (wallet and usage never negative),
`UsageIsBounded`, and the two refinements `WalletIsCharged` and `TokenIsCharged`,
for any number of requests, subscriptions, faults, resets and crashes, from
`BillingAssumption` (the types of the constants, and finitely many requests) alone.

The refinements need to know that the session's fields agree with where the request
is: reservations and token charge are equal while held, zero before, the flags
`fundingSettled` and `refunded` are off until their statement ran. `IInv` is
`TypeOK` with this `SessionInv(r)` for every request. One lemma per action shows
its whole effect on the request it belongs to (`Effect`: other requests are framed,
`TypeOK`, `SessionInv`, and how wallet and token move with their charge);
`StepEffect` collects them, `WalletNext` and `TokenNext` turn them into steps of
`ChargeLedger`, and `UsageNext` bounds the usage.

**`SubscriptionPoolProofs`**: `SubscriptionsAreCharged`, the third refinement, and
`ReservationsAreCovered`, for any number of requests, subscriptions, faults and
crashes, with no bound on them but with `MaxResets = 0` and `MaxLostCommits = 0`. The
two hypotheses are not for the prover's sake: a refund in a later period and a
repeated refund are real and break both claims (run `billing_refund_twice` shows the
second), so the theorems say that nothing else does.

The balance here is a sum over the subscriptions, and a settlement or refund is
clamped at zero in `PostConsumeUserSubscriptionDelta`: were the clamp ever used, the
balance would move by less than the charge. `PoolInv` therefore says that the usage of
each subscription is exactly the sum of the charges of the requests on it, so that it
covers whatever one of them gives back (`NoClamp`), and `PoolSession` that a request
that reserved has its subscription and, until the refund marks it, its record. One
lemma per kind of step shows `PoolStep`: either nothing moves (`Rests`) or the usage
of one subscription follows the charge of the request (`Follows`); `ChargesFollow` and
`UsedFollows` carry that to the two sums, and `PoolNext` to a step of `ChargeLedger`.

**`StripeTopupProofs`**: `TypeCorrect`, `CreditedOnce`, `CreditIsPaid`,
`CreditStays`, `RefundIsOwn` and `VerdictIsFinal`, for any number of orders, events
and polls and any amounts, from `TopupAssumption` (the types of the constants).

"Credited at most once" is not inductive: a credit is refused by the status of the
order, not by the number of credits. `IInv` says how the two agree
(`StatusTellsCredit`: an order that can be credited has not been, a credited one
has), that nothing happens to a payment before the checkout request is over
(`CheckoutOrder`), that an event concerns such an order and a handler about to
credit has seen a matching payment (`EventOrder`), and that a verdict on the page is
never that of an order that can still be credited (`PageShowsFinal`). One lemma per
action shows that it keeps the conjuncts it can disturb; the four action properties
follow from `IInv` and the action.

**`AsyncTaskProofs`**: `TypeCorrect`, `RefundedOnce`, `SuccessCharged`,
`FailureRefunded` and `EndFinal`, for any number of tasks, passes and queries and
any charges, from `TaskAssumption` (the types of the constants).

None of these is inductive: each depends on what passes hold in memory. `IInv` says
that a held row exists, that queries hold Gemini rows only and unguarded saves Suno
rows only (`HeldRows`), that a row appears when the submission is over and has the
charge of its settlement (`SubmittedRows`), and of every video task (`VideoInv`):
until it ends it has paid what its row says, but for what the settlement of the
submission could not move (`OpenCharge`); a pass that has not written yet read
it before its end, and one that bills it found the charge complete
(`HeldCharge`); and only one pass bills it (`OneBiller`). The compare-and-set is
where these meet: the one that wins read an unfinished row, so by `HeldCharge`
nobody is billing and by `OpenCharge` the whole charge is there. The bulk failure of
a channel that cannot be read bypasses it, and takes the task out of
`FailureIsRefunded` and, for that one step, out of `EndIsFinal`. `TaskFrame` and
`StepKeeps` carry everything a step does not touch, so that the lemma of an action
is about its own task only.

**`FiniteSumTheorems`** and **`CreditLotsProofs`**: `TypeCorrect`,
`LedgerExplainsLots`, `CreditIsNeverMinted`, `PromotionStaysCovered`,
`FourWritersBreakNesting`, `BalancesNest`, `CoveredChargesSucceed` and
`RefundIsTheInverse`, for any finite number of orders and requests and any amounts,
from `AmountAssumption` (the types of the constants, and that orders and requests are
finite sets); `BalancesNest` also from the absence of plans, overrides, profile
handlers and refunds of orders without lots, each of which makes it false.
`CoveredChargesSucceed` says what the cover is good for: while `promo_quota` covers
the promotional lots no charge meets the invariant error, and by
`PromotionStaysCovered` only two writers end that.

Everything rests on what a first-come-first-served division adds up to. `GreedySum`
says that over any finite linear order of sources, giving each source the lesser of
its share and what is left hands out exactly n when the shares add up to n or more. The
proof looks at the source at which n runs out: those before it give all they have,
it gives the rest, those after it nothing. A deduction divides n by `Precedes`, a
settlement by `GivenBackBefore` (`SettlementGivesBackSurplus`); both are shown to be
linear orders. The inductive invariant is the conjunction of the type invariant,
`LedgerMatchesLots`, `NoCreditMinted` and three facts
about lots: only an active lot holds anything; the rows in use come first, at most two for
each order that is neither open nor paid (so that a credit finds two free rows); and a
row not in use was created with nothing. `NoCreditMinted` needs
`CanRestore` only for its expiry and status tests: the amount test is implied by the
invariant. What keeps `PromoLotsWithinPromoQuota` and the nesting is shown action by
action (`InvNext`), from any state in which they hold; the first survives an expiry
that could remove only part because the expired lots leave the tracked sum entirely.

**`PlaygroundProofs`**: `TypeCorrect`, `ScheduledRetryHasTarget`, `NoIdleSpinner`,
`ResendsAreBounded` and `AnswersAreKept`, for conversations of any length and any
number of retries, from `PlaygroundAssumption` (a bound of at least three messages).

`IInv` says that only the last message of a conversation, on the page or stored, may
wait unmarked (`Conversation`); that an editor is open on one of the messages
(`PageInv`; a submitted edit is of a user's message, so that one during a generation
never keeps the waiting answer); that the page
generates exactly while the last message waits, save for a marked one (`WaitInv`);
that only an open source has chunks in its buffer (`StreamInv`); that automatic mode
means a generation, a recovery and a marked message (`ResendInv`); and that the
requests the page sent by itself since it was loaded are counted by the retry counter
(`CountInv`). One lemma per event shows that it keeps `IInv`. That the marked message
is the last one would be a stronger claim and is false of five messages, which is how a
user's own request comes to be retried (section 3); `RetryHasTarget` claims a marked
message anywhere.

Only model-checked: the liveness properties (fairness and ENABLED are outside the
prover); the findings.

## 5. What is not modelled

* Wallet: the Redis copy of the balance; the check-in that credits cash.
* Billing: `Reserve` (no caller outside tests); the violation fee;
  `PostConsumeQuota` for requests without a session; the charges of a realtime
  connection, which `PreWssConsumeQuota` makes piece by piece outside the session
  before the session settles the whole usage; retries of the relay on other
  channels, which reserve nothing again (that they re-price an asynchronous task is in
  `AsyncTask`); unlimited tokens; the Redis copy of the
  token and the batch updater (the model reads and writes the database, so the
  token it checks is never stale).
* Subscriptions: plans and model scopes, purchase and renewal, group upgrades and
  downgrades, administrative reset and deletion, cleanup of old records.
* System tasks: what handlers do to logs and channels.
* Top-ups: the fallback for orders of an older version, promotion budgets (never
  used: no quote grants a promotion), receipts, quotes and currencies.
* Asynchronous tasks: Midjourney's own poller, tasks from before the legacy cutoff,
  what adaptors read beyond status and progress.
* Commission and withdrawal, recurring subscriptions, redemption codes: planned,
  section 6.
* Fair-use limiter (atomic Lua scripts; only its late refund call is here), channel
  selection (randomised, no effect on billing), caches, rate limits.
* Relay adaptors and price expressions (format conversion and floating point: data,
  not control), accounts and OAuth.
* The front ends beyond the playground and the success page: forms, tables and
  editors over the administration API, in two versions (`web/default`,
  `web/classic`). They are most of the repository's lines and hold no protocol; what
  they send is checked by the handlers behind them. The playground's non-streaming
  path, which no control selects.

## 6. Plan

The order is by what a mistake costs.

1. `SystemTask`, `CreditLots`, `BillingSession` with `ChargeLedger`, `StripeTopup`,
   `AsyncTask`, `Playground`: done.
2. `Withdrawal`: the withdrawal state machine and its reconciliation buckets.
3. `StripeSubscription`: invoice events with leases, effect on user subscriptions.
4. The violation fee and the charges of realtime connections in `BillingSession`; the
   batch updater and the Redis copy of the token as an environment of it.
5. Redemption codes and check-in; channel selection.

Theorems next: for the modules planned above, their type invariants and safety
properties.
