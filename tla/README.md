# Verification of the usage metering and billing engine

TLA+ modules of the engine in `src/`, the configurations that check them with
TLC, and theorems about them checked by TLAPS. Paths below are relative to
`src/app` unless they start with `src/`.

## 1. The system

The engine is a FastAPI application over PostgreSQL. Its synchronous routes run
in a pool of server threads, one database session each; the Stripe webhook is
an `async` route whose blocking statements run on the event loop. Sessions are
opened with `autoflush=False` and the default isolation level, READ COMMITTED
(`database.py:20-40`), so a statement sees what was committed before it began,
writers of one row wait for each other, and an insertion waits for another
transaction's uncommitted entry in a unique index.

| Component | State | Operations | What makes it correct |
|---|---|---|---|
| **Metering core**: `services/meter_service.py`, `services/quota_enforcer.py`, `routes/generate.py` | `usage_events`, `quota_counters` | `record_usage`, `get_plan_limit`, `ensure_quota_counter`, `check_and_deduct`; commit in the route, rollback in `get_db` | a key is charged once; usage never passes the limit; events and counters agree; what was answered is stored; refusals are deserved; requests end |
| **Token pricing**: `services/token_cost_calculator.py`, `domain/token_usage.py` | none | `calculate_token_cost`, `calculate_api_call_cost` | exact, rounded once, half up; totals stay fair |
| **Usage summary**: `routes/usage.py` | none | `GET /usage` | costs cover the usage shown; a client finds what it was told |
| **Webhook ingestion**: `services/webhook_service.py`, `routes/webhook.py` | `webhook_events`, `subscriptions`, `tenants.stripe_customer_id` | `process_webhook_event`, four handlers, `_resolve_tenant` | an event is applied once and acknowledged only when durable; rows follow the newest event; no event is lost; a row stays with its customer's tenant |
| **Log-in and checkout**: `routes/auth.py`, `routes/billing.py`, `services/stripe_service.py` | `tenants`; Stripe's customers, sessions and saved answers | `issue_tenant_token`, `get_or_create_customer`, `create_checkout_session` | one tenant per e-mail; one Stripe customer per tenant; a crash between Stripe and the commit is repaired by the retry |
| **Server process**: `main.py`, `database.py`, `auth/dependencies.py`, all routes | event loop, threads, connections, locks on tenant rows | arrival, dispatch, statements, commit, teardown | nothing waits for itself; no connection is lost |
| **Background jobs**: `services/job_runner.py`, `services/rollup_service.py` | `job_runs`, `monthly_usage_rollups` | `start_job`, `complete_job`, `fail_job`, `run_monthly_rollup_job`, `compute_monthly_rollups` | one runner at a time; crashed runs are taken over, live ones are not; the rollup is the sum of the month |
| Token encoding, configuration, migrations, scripts | settings | start-up | out of scope, see section 8 |

**Interactions.** Webhooks write `subscriptions`, from which `get_plan_limit`
reads a tenant's plan. Checkout and webhooks both write
`tenants.stripe_customer_id`. Metering writes the `usage_events` that `GET /usage`
and the rollup job sum up. These meet in PostgreSQL only; no in-process state is
shared but the event loop and the two pools, in which every route meets every other.

**What is hard.** Statements of concurrent transactions in any order; a savepoint
that must undo a deduction and nothing else; retries that overlap their first
attempt; redelivered and reordered Stripe events; reads that are used after
another transaction changed what they read; crashes between a commit and the
answer, or between Stripe's work and the commit; answers that are lost while the
work goes on; jobs that die, or are taken for dead, while others wait; the turn of
the month; waiting for a row while holding the event loop. `PROJECT.json`
lists each of these hazards at its line with the properties that cover it.

## 2. Modules

| Module | Content |
|---|---|
| `UsageLedger` | what the metering core promises, without threads, locks or savepoints: an operation buys units of an account once, nothing is resold |
| `Metering` | the metering core, statement by statement; implements `UsageLedger` |
| `MeteringProofs` | theorems about `Metering` for all values of its constants |
| `TokenCost`, `TokenCostProofs` | both cost functions in integers; theorems about them for all prices and usages |
| `UsageSummary`, `UsageSummaryProofs` | `GET /usage` composed with a whole `Metering` and with `TokenCost`; theorems about the composition |
| `SubscriptionLedger` | what webhook ingestion promises, without workers, reads, flushes or failures: an event is settled once, in the book of the tenant it concerns |
| `Webhooks` | webhook ingestion; the events of a few subscriptions, in any order; implements `SubscriptionLedger` with one worker |
| `WebhooksProofs`, `WebhookRowsProofs` | theorems about events and acknowledgements; about subscription rows and the ledger |
| `Checkout`, `CheckoutProofs` | log-in and checkout, with a model of Stripe's idempotency keys; theorems for all values of its constants |
| `Server`, `ServerProofs` | event loop, threads, connections and tenant-row locks under every kind of request; theorems for any burst and any pools |
| `JobRunner`, `JobRunnerProofs` | start, rollup, completion and takeover of the monthly job; theorems for any number of runners and runs |
| `MCMetering`, `MCUsageSummary`, `MCWebhooks`, `MCCheckout`, `MCServer`, `MCJobRunner` | payloads, limits, events and symmetry for TLC |

In all of them but `TokenCost`, which has no state, one action is one database
statement, call or wait, or the commit, rollback or answer that ends a request.
Committed tables are global variables; what an open transaction has read, written or
locked is kept per thread, worker or runner.
A definition whose comment starts with "Mutant" is a plausible wrong version of
the definition after it. No specification uses it; `PROJECT.json` pairs it with
the property that must notice it.

### Metering

| Variable or action | Code |
|---|---|
| `counters`, `events` | committed `quota_counters` and `usage_events` rows |
| `row[t]`, `resp[t]` | the counter version and the event that t's open transaction wrote |
| `plan`, `limit` | the active subscription's plan; the result of `get_plan_limit` |
| `answers` | history of the 200 answers |
| `Receive` | route up to the call of `record_usage`; the month is read here (`meter_service.py:95`) |
| `LookupIdempotencyKey`, `FetchWinner` | `meter_service.py:97-120`, `178-202` |
| `GetPlanLimit`, `EnsureQuotaCounter`, `CheckAndDeduct` | the three methods of `quota_enforcer.py` |
| `InsertEvent` | flush, savepoint release or `IntegrityError` branch, `meter_service.py:146-177` |
| `Commit`, `Answer` | `routes/generate.py:83`, `85-96` |
| `Reject`, `Crash` | exception handlers and `get_db`; loss of a process or connection |

The row lock is `OwnedByOther`, the unique-index wait `KeyHeldByOther`. An
`UPDATE` that finds no room in the committed row does not wait for the row's
owner, one that finds room does and decides again: `CheckAndDeduct` has exactly
these alternatives. `GetPlanLimit` is one step although it runs three SELECTs;
only the subscription it finds can change between them. A payload stands for its
SHA-256 hash, its usage type and its quantity; the cost is a function of the
payload and is added by `UsageSummary`. A plan limit is any natural number, as the `plans` table
allows.

### TokenCost and UsageSummary

Prices are per million tokens and costs are micro-cents, so `Exact` is the code's
`Decimal` sum counted in millionths of a micro-cent and `RoundHalfUp` its
`quantize`. `TokenUsage` is the set of usages that pass `__post_init__`.

`UsageSummary` EXTENDS `Metering` and adds readers. `SummaryNext` is a step of
`Metering` or one statement of a reader: `FetchSubscription`, `FetchCounters`,
`FetchCosts`, and `FillLimit` for a type without a counter, each of which sees
what is committed at its own moment. `page[q]` is what the reader has put together;
it keeps the *set* of events whose costs were summed, from which `TotalCost` is the
number the code returns. `CostOf` is what `record_usage` stores with an event.

### Webhooks

`records`, `subscriptions` and `customer` are the committed rows; a worker whose
`pc` is "commit" has flushed `write[w]` and `link[w]` and holds their locks. `Load`
is the read and decide part of all four handlers: which row an event is about
(`Candidates`), whether it is stale (`Ignored`), what the row becomes
(`Changed`). It reads the row *without* a lock, and `Written` is the ORM's UPDATE,
which names only the columns whose value differs from the loaded one. `Blocks` and
`BreaksUnique` are the row locks, unique-index waits and unique violations of the
flush. `Rollback` is the route's: it takes back the 'failed' mark that
`process_webhook_event` has just written. For that reason no committed row is ever
'processing' or 'failed', and the branches of `webhook_service.py:71-84` for such
rows are unreachable; `Lookup` relies on it, and the theorem `NoFailedRecord` proves it.
`LinkCustomer` is the commit of a checkout, which links one of the customers in
`CreatedFor[t]` to tenant t. `OneCustomerPerTenant` says of the constants what
`stripe_service.py:109-127` makes true of the events: the metadata of a subscription
names the tenant whose customer the checkout was for, and a tenant has one customer.

### Checkout

`email` and `customer` are columns of `tenants`; `customers` is the list of the
customers Stripe has created, `saved` what it keeps under each idempotency key. A
call that reaches Stripe is `Call`, its execution `Execute` or `FailCall`, the end
of its wait `Return` or `LoseAnswer`: execution goes on when the answer is lost or
the server crashes. Stripe's part follows its documented behaviour as far as
`stripe_service.py` relies on it: a key in use answers with a conflict, a key used
with other parameters with an error, a finished key with the saved answer, also of
a failure, and keys are forgotten after a day or more (`Expire`, never while a
checkout of that tenant is under way). `lapses` counts the keys of customers that
expired before any checkout committed them; only those may cost a second customer.
`LockTenant` is the SELECT ... FOR UPDATE that serialises a tenant's checkouts.
`ReceiveLogin` to `Issue` are `/auth/token`, with the unique e-mail that two first
log-ins race for.

### Server

A finite burst of requests of every kind, with one state per place where a request
can wait: for the loop, a thread, a connection or a row of `tenants`. FastAPI takes
a thread to authenticate and another one to run the route, and only the loop gives a
thread back. A session keeps its connection from its first statement to its commit
or close; a route that raises, and `GET /usage`, leave it ("open") to the teardown of
`get_db`, which the loop has to start. `kind` reduces a request to the lock it takes
on its tenant's row: `FOR KEY SHARE` for the foreign key of an insertion, `FOR UPDATE`
for a checkout and for a webhook that links a customer. While a hook waits in
`HookExecute` or for a connection, `LoopFree` is false and no loop step happens.

### JobRunner

One job name, one period, one tenant and usage type. `runs` holds the committed
rows of `job_runs`; `tx[r]` is runner r's open transaction. The methods never
commit, so what others see depends on the caller, which `Init` chooses for each
runner: "commits" calls `run_monthly_rollup_job` and commits (the tests do),
"closes" uses `get_db_context` as `src/README.md:266-278` shows, and "stepwise"
commits after `start_job` and at the end. No code in the repository is a stepwise
caller, but it is the only kind whose 'running' row another runner can see: under
the other two the stale-run branch of `start_job` (lines 53-76) cannot be reached.

A live run may become older than 15 minutes; the model counts that as a fault. It is
then taken over while it works, which gives two runners that hold a row the other
one needs - the rollup row and the row of the run - and PostgreSQL ends the circle
by failing one statement (`BreakDeadlock`).

## 3. Runs

All pass runs finish with no error; the state counts are TLC's.

| Run | Instance | Distinct states | Shows |
|---|---|---|---|
| `metering_threads` | 3 threads, 2 keys, 3 payloads, free plan | 223k | `TypeOK`, the inductive invariant `IInv`, `QuotaRespected`, `EventsTileCounter`, `AnswersAreStored`, `RefusalsDeserved`, `BooksOnlyGrow`, and the refinement `ImplementsLedger` |
| `metering_liveness` | 2 threads, 1 key, 2 plans, 2 months, fair | 24k | `EveryRequestEnds` |
| `usage_summary` | 1 reader beside 1 thread, 2 plans, 2 months, 2 usage types | 291k | `SummaryTypeOK`, `CostCoversUsage`, `ReadYourWrites`, `TotalIsFair` |
| `webhooks_serial` | 1 worker, 6 events, 2 subscriptions | 613k | `RowTellsNewest`, `EveryUpsertCounts`, `OneSubscriptionPerTenant`, `OnlyUpsertRevives`, `OnlyNewerApplied`, and the refinement `ImplementsLedger` |
| `webhooks_workers` | 2 workers, 3 events, fair | 36k | `TypeOK`, `AppliedOnce`, `AckedIsProcessed`, `RowsFollowCustomers`, `EveryEventIsAcked` |
| `checkout` | 2 threads, 2 tenants and e-mails, 1 client key, 1 fault | 200k | `TypeOK`, `TokensNameTenants`, `NoOrphanCustomers`, `AnswersAreLinked`, `RefusalsExplained` |
| `checkout_retries` | 2 threads, 1 tenant, 2 client keys, 2 faults, fair | 83k | `CheckoutGoesThrough` |
| `server` | 3 requests of any kind, 1 thread, 2 connections, fair | 137k | `TypeOK`, `RequestsEndUnlessHung`, `PoolIsEnough` |
| `jobs` | 2 runners of any kind, 2 rows, 1 fault, fair | 197k | `TypeOK`, `SingleWorker`, `RollupCoversCompleted`, `ClosedMonthIsSummed`, `YoungRunsAreSafe`, `CompletedIsFinal`, `JobGetsDone` |

Three more runs end in a violation, see section 4.

**Bounds.** `metering_threads` is the smallest instance in which a third party
interferes with a duplicate: two threads race on a key while a third takes the
last unit of their counter. A free account holds one large or two small
requests, so it is filled, just fitted and overrun. `metering_liveness` and
`usage_summary` have the turn of the month and plan changes: two months suffice
because periods interact with nothing but equality. In `usage_summary` the pro plan
has a token limit of 0, so that the failing path of `ensure_quota_counter` runs too,
and the prices make every token cost a fraction that rounds up or down. One tenant is enough for TLC since tenants share
nothing but the text of their keys; the theorems hold for any number. `LastPeriod`
is the only bound of a counter there; requests and crashes are unbounded.

In `Webhooks` `MaxFaults` bounds exceptions and crashes, and the events are one
customer's history: for one worker six events, the first of which names no tenant, two
are of the same second and the last opens a second subscription; for two workers two
upserts and one that claims another tenant. `OnlyNewerApplied`, `OneSubscriptionPerTenant`
and with them `ImplementsLedger` are lost with a second worker (section 4).

In `Checkout` `MaxFaults` bounds crashes, lost answers and failures of Stripe, and
`MaxLapses` the customers whose key expires unlinked; one fault and one lapse reach
every state of a key, and two tenants with one client key show what a shared key may
do. In `Server` three requests are enough for a circle: one waits on the loop, one
holds the row, one takes what is left. With one thread and two connections both pools
run dry. In `JobRunner` `MaxRuns`, `MaxUsage` and `MaxFaults` bound rows, events and
faults: one run is left behind, one takes over. A burst and a job come to their end,
which is why the configurations of these two do not check for deadlock. Symmetry is
used for threads and keys, and never in a liveness run.

**Fairness.** A server thread, worker or runner that can go on does (weak fairness of
its steps): nothing in the code makes it wait but the database. Statements that wait
for a row lock or an index entry get strong fairness (in `Metering`, in `JobRunner`
for every step, in `Checkout` for `LockTenant`), since PostgreSQL serves the waiters
of a lock in order and does not overtake one for ever. `Server` needs weak fairness
only, as its burst is finite. Stripe redelivers an event that was not answered 200
(strong fairness of its delivery, in `Webhooks`), carries out the calls it has
started and forgets keys in the end (in `Checkout`), and the client of a tenant with a
token asks for a checkout again and again. The job is started again and again by its
schedule (in `JobRunner`), and a crashed run becomes stale. No fairness is assumed of
requests to be metered, crashes, plan changes or the calendar. `Metering` and
`Webhooks` take their component without the event loop; what the loop adds is the
subject of `Server`.

## 4. Where the code departs from its documents

Three runs check one property each that a document or comment of the repository
states, and TLC reports a behaviour of the code that violates it. `PROJECT.json`
quotes the sentences.

| Run | What happens |
|---|---|
| `usage_upgrade` | a tenant on the free plan opens a counter and upgrades to pro: the month's counter keeps the old, smaller limit, and `GET /usage` shows it beside the new plan's name. Every tenant starts on the free plan there (`UpgradeSpec`), and `UpgradedLimitsShown` asks for no less than the named plan allows, so a downgrade does not violate it |
| `webhooks_resurrected` | one process: deleted delivered before created leaves the subscription active |
| `server_deadlock` | a refused request that inserted its quota counter holds `FOR KEY SHARE` on its tenant's row until the loop closes its session; a webhook that links that tenant's customer waits for the row on the loop. Neither goes on, and no request of any tenant is served any more |

Others came to light while the modules were written and have no run:

* A retry that passes the lookup before its first attempt commits, on a counter which
  that attempt fills, is answered 429 instead of the stored response
  (`meter_service.py:138`): the deduction comes before the insertion that would have
  shown the duplicate. `RefusalsDeserved` states what is left.
* Two server processes: an older event overwrites a newer one, as the row is read
  without a lock (`webhook_service.py:214`). The repository documents one process
  (`src/README.md:129`).
* The example of `src/README.md:266-278` never commits: the job reports "completed"
  and nothing is stored (`database.py:58-68`).
* The unit of a cost is given as 1/10,000 USD (`token_cost_calculator.py:21`,
  `config.py:64`, `models/usage_event.py:83`), as $0.000001 (`src/README.md:33`), and
  follows as 1e-9 USD from `config.py:66-68` and 1e-8 USD from `config.py:69`.
  `TokenCost` takes the numbers as they are.
* An event whose customer is linked to nobody is resolved by its metadata, also when the
  tenant named there is linked to another customer (`webhook_service.py:157-166`): its
  row then gets that other customer's subscription, although `_resolve_tenant` is to keep
  conflicting metadata from modifying the wrong tenant (line 137). No metadata that the
  engine itself writes is like that; `RowsFollowCustomers` rests on
  `OneCustomerPerTenant`.
* A delivery whose event is 'processing' is answered 200 "in_progress", not 503 as
  `models/webhook_event.py:24` says; no committed row is in that state.
* A checkout that is repeated without an Idempotency-Key, while Stripe keeps the key
  `checkout_{tenant}_{plan}`, gets the old session back (`stripe_service.py:105`).
* A replayed response says `is_idempotent_replay: false`, since the stored payload
  is returned verbatim (`meter_service.py:112, 156`; `schemas/generate.py:71`).
* A plan limit of 0, documented as unlimited (`models/plan.py:44`), fails the CHECK
  of `quota_counters`: every request is answered 500.
* The 'failed' mark of a webhook is rolled back by the route
  (`routes/webhook.py:45`; `src/BUILDLOG.md:94`).
* Two processes that both find no subscription insert two for one tenant
  (`webhook_service.py:229`; `models/subscription.py:119`). From then on an event
  about the older subscription picks the newer row, breaks
  UNIQUE(stripe_subscription_id) and fails on every delivery: `EveryEventIsAcked`
  holds only while a tenant has one row.
* The deletion of a subscription whose row its successor has taken over falls back
  to the tenant's row and cancels the live one (`webhook_service.py:260-265`).
* `cancelled_at` survives a reactivation (`webhook_service.py:242`;
  `models/subscription.py:83`).
* Two runs of a job can have one attempt number: the rows are counted before the
  INSERT waits for the index (`job_runner.py:79`).
* With a stepwise caller, a run slower than 15 minutes is taken over while it works.
  If it ends after all, its older sum overwrites the newer rollup, and its
  `complete_job` turns 'failed' into 'completed' (`job_runner.py:113`).
  `RollupCoversCompleted` excludes such a late run by `NoLateRun`, `ClosedMonthIsSummed`
  only one that began before the month was closed (`LateRunsAreNew`); the theorem
  `FinalSum` shows that nothing else loses the final sum, and that a run begun after the closing
  restores it when it commits. `SingleWorker` lets only an overdue run have company.
* A run that is taken over and the one that takes over can wait for each other's rows;
  PostgreSQL then fails one of them.
* NULL billing periods do not collide in the partial unique index
  (`models/job_run.py:96-102`).
* A request accepted before midnight of the last day may commit after the month's
  rollup, which then lacks it; `ClosedMonthIsSummed` states what is left.

## 5. The abstract ledgers

`UsageLedger` has one variable for what operations bought, one for the size of
accounts, one for what callers were told, and two actions. `Metering`'s refinement
mapping takes the units an event bought to be the numbers its counter passed
over: `Units(e)` are the last `Quantity` numbers up to the `quota_used` that its
response reports. `Commit` of a new event is `Sell`; `Answer` is `Tell`; every
other step is a stutter. `EventsTileCounter` is what makes the mapping work: the
units of an account's events are disjoint and fill `1 .. used`.

`SubscriptionLedger` has a book with at most one subscription per tenant, the customer
each tenant holds, the events that are settled, and those that Stripe was told of. An
event is settled once, in one step: `Enter` writes it into the book of the tenant it
concerns, `Dismiss` leaves the book alone. Who is concerned, what is stale and what an
entry says is stated for the book as it is at that moment; nothing is read earlier and
used later. In the mapping the book is the table of subscriptions by tenant
(`BookOf`), what tenants hold is `tenants.stripe_customer_id`, settled are the processed
records, and told the acknowledged events. A worker's `Commit` is `Enter` or `Dismiss`,
`Acknowledge` is `Tell`, `LinkCustomer` is `Hold`; reads, flushes, failures, rollbacks
and redeliveries are stutters.

The code departs from an ideal ledger in one place, which `MayDismiss` names: an upsert
whose metadata names no tenant finds nobody when it looks for its customer, and is
dismissed, although a checkout links that customer before the dismissal is committed.

## 6. Proofs

`MeteringProofs` proves, for any sets of threads, tenants, keys, payloads and
plans, and any number of months:

| Theorem | Property |
|---|---|
| `Invariance` | `Spec => []IInv` |
| `TypeCorrectness` | `TypeOK` |
| `QuotaSafety` | `QuotaRespected` |
| `ExactlyOnce` | `EventsTileCounter` |
| `DurableAnswers` | `AnswersAreStored` |
| `JustRefusals` | `RefusalsDeserved` |
| `AppendOnlyBooks` | `BooksOnlyGrow` |
| `Refinement` | `ImplementsLedger` |
| `NoDeadlock` | `WaitsAreShort`: a thread that cannot go on waits for one that can, or for the owner of a row who waits for the key of one that can |

`UsageSummaryProofs` proves, for any number of readers beside them:

| Theorem | Property |
|---|---|
| `SummaryTypeCorrectness` | `SummaryTypeOK` |
| `SummaryCostCoversUsage` | `CostCoversUsage` |
| `SummaryReadsYourWrites` | `ReadYourWrites` |
| `SummaryTotalIsFair` | `TotalIsFair` |

`CheckoutProofs` proves, for any threads, tenants, e-mails and client keys, and any
number of faults and lapses:

| Theorem | Property |
|---|---|
| `CheckoutInvariance` | `Spec => []IInv` |
| `CheckoutTypeCorrectness` | `TypeOK` |
| `LoginSafety` | `TokensNameTenants` |
| `NoOrphans` | `NoOrphanCustomers` |
| `AnswersStayLinked` | `AnswersAreLinked` |
| `RefusalsHaveReasons` | `RefusalsExplained` |
| `SessionsFitCustomers` | `SessionsFit`: a checkout commits the customer that its session is for, and waits for no call that Stripe has forgotten |
| `NoCheckoutDeadlock` | `OnlyStripeIsWaitedFor`: a checkout goes on, or waits for Stripe, or for one other checkout of which this is true |

`TokenCostProofs` proves, for all natural prices and all usages:

| Theorem | Statement |
|---|---|
| `CostIsFair` | the cost is within half a micro-cent of the exact price |
| `MoreCostsMore` | a usage with no less of any token costs no less |
| `CachingNeverCostsMore` | taking tokens from the cache never raises the cost |
| `SplittingHardlyMatters` | splitting a request changes its cost by at most one micro-cent |
| `WholePricesAreExact` | with prices that are whole micro-cents per token nothing is rounded |

`WebhooksProofs` and `WebhookRowsProofs` prove, for any events, tenants and customers
and any number of faults:

| Theorem | Property | Under |
|---|---|---|
| `Invariance` | `Spec => []IInv` | any number of workers |
| `TypeCorrect` | `TypeOK` | any number of workers |
| `EventsAreAppliedOnce` | `AppliedOnce` | any number of workers |
| `AcknowledgedIsProcessed` | `AckedIsProcessed` | any number of workers |
| `NoFailedRecord` | `RecordsAreFinal`: no committed record is 'failed' | any number of workers |
| `RowsFollowTheirCustomers` | `RowsFollowCustomers` | any number of workers, `OneCustomerPerTenant` |
| `RowsTellTheNewest` | `RowTellsNewest` | `OneWorker` |
| `OneRowPerTenant` | `OneSubscriptionPerTenant` | `OneWorker` |
| `NewerIsKept` | `OnlyNewerApplied` | `OneWorker` |
| `CancelledStaysCancelled` | `OnlyUpsertRevives` | `OneWorker` |
| `UpsertsAreNotLost` | `EveryUpsertCounts` | `OneWorker`, `OneCustomerPerTenant` |
| `OneWorkerIsALedger` | `ImplementsLedger` | `OneWorker`, `OneCustomerPerTenant` |

`ServerProofs` proves, for any burst of requests, any tenants and any sizes of the pools:

| Theorem | Property |
|---|---|
| `Invariance` | `Spec => []IInv` |
| `TypeCorrect` | `TypeOK` |
| `NoOtherHalt` | `SomebodyGoesOn`: while a request is in the house one can go on, or the loop is hung |
| `PoolSuffices` | `PoolIsEnough` |

`JobRunnerProofs` proves, for any runners with any mix of callers, and any number of
runs, usage events and faults:

| Theorem | Property |
|---|---|
| `Invariance` | `Spec => []IInv` |
| `TypeCorrect` | `TypeOK` |
| `OneRunnerWorks` | `SingleWorker` |
| `RollupCovers` | `RollupCoversCompleted` |
| `ClosedMonth` | `ClosedMonthIsSummed`, whose proviso is that no run older than the closing completes late |
| `FinalSum` | `FinalSumSurvives`: the final sum is lost only when an overdue run commits that began before the month was closed, and a committed run that began after it stores it again |
| `YoungRuns` | `YoungRunsAreSafe` |
| `CompletedRuns` | `CompletedIsFinal` |
| `NoOtherHalt` | `SomebodyGoesOn`: while a runner is at work, one of them can go on |
| `DeadlocksNeedTakeovers` | `DeadlocksAreOverdue`: of two runners that wait for each other one is overdue |

**Assumptions** (in the modules that declare the constants, evaluated by TLC in every
run that extends them): a payload has a usage type and a positive quantity, a plan a
natural limit per usage type, there is at least one month, prices are natural numbers, a
breakdown adds up to its payload's quantity, pools are not empty, bounds are natural
numbers, and the null values are none of the values they stand beside.
`CachingNeverCostsMore` assumes that cached input is not dearer than input, which the
defaults of `config.py:66-68` satisfy, and `WholePricesAreExact` whole prices.
`OneWorker` is the single server process of `src/README.md:129`, whose event loop
handles one webhook at a time; with two, rows are overwritten and doubled (section 4).
`OneCustomerPerTenant` is explained in section 2, and the events of all `Webhooks` runs
satisfy it. Nothing is assumed finite.

**The argument.** Few of the properties are inductive as they stand; each
invariant below was model-checked before it was proved.

*Metering.* `IInv` adds `StepsRelyOn`, what the next statement of each thread may rely on
whatever the others do, and `OneOwnerPerCounter` and `OneWriterPerKey`, the two
exclusions that PostgreSQL's waits provide. The heart is `Deducted`: a thread between its
deduction and its commit holds the committed counter moved on by its own quantity, because
nobody else can commit that row meanwhile. With it, `Commit` adds exactly the
interval above the committed usage to the tiling, so usage stays within the limit
and events stay disjoint. The proof has one step per action and one per part of
the invariant that the action can disturb. The refinement proof shows that the
interval added by `Commit` is a choice of free units of the right number, for
which it needs the cardinality of an interval from the library's theorems. Counter rows
are waited for before keys, and who has inserted a key only commits, so waits are never
longer than two (`WaitsAreShort`).

*Usage summary.* `GET /usage` adds readers to `Metering` without touching its variables, so
each proof about `Metering` carries over: the lemma `MeteringGoesOn` turns a behaviour of
the composition into one of `Metering`, and with it `IInv` and `BooksOnlyGrow` hold
beside the readers. What is new is an invariant of the pages: what a page has counted
lies below the committed counters, what it has billed is among the committed events and
covers what it counted. Events and counters only grow, so neither can be undone by a
later step. `TotalIsFair` is about a sum over a set. The library's induction theorems take an
operator and cannot be used, but the one that strict inclusion among finite sets is
well-founded can (`LeastSubset`): a least set for which a statement about sums fails has
an element, and without it the statement holds. So sums over finite sets exist and are unique (`Sums`), and rounding
errors of at most half a micro-cent each add up to at most half a micro-cent per event
(`ErrorsAddUp`). That the set is finite is an invariant of its own: each step commits
one event (`FiniteBooks`).

*Checkout.* The invariant has two halves that hardly touch. `LoginsSafe` says that
nobody else has the e-mail or the id of a row that is inserted and not committed.
`CheckoutsSafe` ties a checkout to Stripe: the row lock gives `OneCheckoutPerTenant`,
`WorksWithCustomer` says that a checkout's customer is the linked one or, before the
commit, the one that Stripe saved under the tenant's key, and `KeysRemember` that a
tenant without either has no more customers than keys that lapsed. `NoOrphanCustomers`
alone is not inductive: without `KeysRemember` nothing keeps `Execute` from adding a
second customer. A saved session for another customer than the checkout's then means
two customers of one tenant, hence a lapse, which is what `RefusalsExplained` claims.
`SessionsFit` is inductive beside them: a call starts work only under a free key, so
under none that is waited for, Stripe finishes a call for the customer it was started
for, and forgets no answer while a checkout of that tenant is at work. Then a checkout
that has the row waits for nothing but Stripe, which is the safety half of
`CheckoutGoesThrough`.

*Webhooks.* What is said of events needs one thing more, `OneDeliveryAtATime`: the primary
key of `webhook_events` lets a single open transaction hold an event's row, so that the
log of committed effects grows only where the record turns 'processed'. Rows are
harder, as a handler decides on a row it has not locked and flushes later. With any number
of workers `PlanFits` says what of that decision stays true whatever is committed
meanwhile: the tenant that a row is to be written for has the event's customer, or is about
to, and no row changes its tenant; `NewLinks` says that a flushed link is still free.
With one worker `FreshPlan` says that what was decided on is still what is committed, so a
commit applies `Changed` to the row as it is, and `LoggedRows` that every row has the stamp
of a committed event. `EveryUpsertCounts` needs both parts: that an upsert is newer than
the row it changes, or counted, and that the row it finds is its own tenant's.
`OneWorkerIsALedger` needs that what a worker has decided on is what the ledger allows
when it commits (`Justified`): the flushed row is `Entry` of a tenant that is concerned
and not stale, or nothing is to be written and `MayDismiss` holds. Only `LinkCustomer`
can come between, and it changes who owns an event. `DismissalsStay` shows that a
dismissal stays allowed; `EntriesStay` that an event keeps concerning its tenant, unless
the checkout of another tenant has just linked the customer that the worker is about to
link, and then the flush breaks the unique constraint on it and nothing is committed.

*Server.* Where a request is decides whether its session has a connection and may have a
lock (`Rightful`): only a request past all its waiting for threads, connections and
rows has a lock. Hence whoever waits for a row waits for a request that can go on, except
for one that waits for the loop ("open") while a webhook on the loop waits for it - which
is `Hung`. That is `SomebodyGoesOn`, the safety half of `RequestsEndUnlessHung`;
`CanStep` spells out the guards of `Step`, as ENABLED cannot be reasoned about. The pool
bounds follow from the cardinality theorems of the library, and `PoolIsEnough` from the
connections being those of *other* requests in the house.

*Jobs.* A transaction that has inserted a running row leaves no other row running, one
that takes a row over has locked it, and it is stale (`Indexed`, `Apart`, `Holds`). So the
rows of two workers would be two running rows unless one is stale, which is
`SingleWorker`. Nor is a row inserted beside a worker that is not late, so when it
completes, every other run has begun before it summed up. With that, `Summed` holds: what
a transaction on time has summed up covers every run in the table, and is final if one of
them began when the month was over with nothing pending. A commit hands it to the rollup
(`Covered`). A late run has a final sum of its own if it began that late, which is why
`ClosedMonth` needs `LateRunsAreNew` only and `FinalSum` no proviso at all. `RollupCoversCompleted` alone says nothing of
transactions under way, and is lost by the first `Upsert` of an old sum.
A call that is under way has no committed row locked but the one it takes over
(`LocksAreTakeovers`), and works on a row of its own. From this follow both statements
about waiting, which are the safety half of `JobGetsDone`; `CanGoOn` counts a runner
that PostgreSQL fails to break a circle as one that goes on, as `BreakDeadlock` does.

`CanGoOn`, in three of the proof modules, spells out the guards of `Step`.

**Only model-checked**, being out of the prover's reach: `EveryRequestEnds`,
`EveryEventIsAcked`, `CheckoutGoesThrough`, `RequestsEndUnlessHung` and `JobGetsDone`
(fairness, ENABLED). Of all of them but `EveryEventIsAcked` the safety half is a theorem:
never does everybody wait for somebody else. Every other property of a passing run is
a theorem.

## 7. Plan

Order of work, the most important behaviour first:

1. `UsageLedger`, `Metering`, `MeteringProofs` - done.
2. `TokenCost`, `UsageSummary` and their proofs - done.
3. `Webhooks`, `WebhooksProofs`, `WebhookRowsProofs` - done.
4. `Checkout`, `CheckoutProofs` - done.
5. `JobRunner`, `JobRunnerProofs` - done.
6. `Server`, `ServerProofs` - done.
7. `SubscriptionLedger`, and `Webhooks` shown to implement it - done.
8. The safety halves of the liveness properties, and the sum of `GET /usage` - done.

Possible next steps: `Webhooks` and `Checkout` on one `tenants` table, and a weaker ledger
that several webhook workers implement.

## 8. Not modelled, and why

* **Token encoding and signature verification** (`auth/jwt.py`,
  `verify_and_construct_event`), **request validation**: they decide whether a request
  reaches the modelled code and change no state. `Server` has the request whose token
  does not verify, since it takes a thread.
* **Settings and start-up**: no state of their own; prices, limits and pool sizes are
  constants of the models.
* **Migrations**: run once, before the server starts, in one transaction; the
  constraints they create are part of the modules that rely on them.
* **Scripts** under `src/scripts`: they exercise the code and keep no state.
* **Webhook and checkout together**: both write `tenants.stripe_customer_id`.
  `Webhooks` has the checkout's write as `LinkCustomer`; `Checkout` leaves the
  webhook's out, as a session exists only once its checkout has linked the customer.
* **`current_period_start` and `_end`, the tenant's name, the subscription's status in
  `GET /usage`**: written or shown, and read by no decision.
