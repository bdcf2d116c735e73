# ERP-AI in TLA+

TLA+ modules, TLC configurations and TLAPS proofs for the parts of ERP-AI whose
correctness depends on what happens between processes, calls and transactions.
Every definition is translated from the code; `PROJECT.json` gives the lines
behind each one, the runs, the mutants that show each property can fail, the
hazards, and the theorems.

Contents: [inventory](#inventory) · [assumptions](#assumptions-about-what-is-not-in-the-repository) ·
[forecourt](#forecourt-pipeline) · [provisioning](#database-provisioning) ·
[point of sale](#point-of-sale) · [back office](#back-office) · [ledger](#ledger) ·
[findings](#findings) · [not modelled](#what-is-not-modelled) · [plan](#plan) ·
[how to run](#how-to-run)

## Inventory

Custom Odoo addons live under `src/odoo-backend/custom_addons` (AD below).

| Component | State it keeps | Operations | What makes it hard | What makes it correct |
|---|---|---|---|---|
| Forecourt bridge (`forecourt-bridge/bridge`) | SQLite queue of readings | capture, push a batch, delete what was stored | calls lost, late or repeated; stops between answer and delete | no captured reading is lost |
| Fuel station (AD/nexus_fuel_station) | reading buffer, shift logs, nozzle meters, tank volumes | readings endpoint, retry cron and button, manual logs, deliveries | duplicates, savepoints, retries in any order, stale drafts | each reading is posted once; meters and tanks agree with the logs |
| Provisioning queue (AD/nexus_saas_tenant) | requests, tenant states | sign up, retry, `pending`, `callback` | overlapping polls, unconditional callback, unique constraint on states | a job is run by one worker; active means ready |
| Provisioner worker (`saas-db-provisioner`) | jobs in memory, the databases themselves | create, install, bootstrap, roll back, drop, report | every step can fail or be the last before a crash | a failed creation leaves nothing behind |
| Tenants, plans, subscriptions (AD/nexus_saas_tenant) | tenant and subscription states, the tenant's DNS record | activate, suspend, cancel, trial and subscription jobs | daily jobs against webhooks and users | who has stopped paying loses access |
| Billing (AD/nexus_saas_billing) | subscription states, paid invoices | Stripe webhook, checkout, daily pull | events late, again, out of order, never | the same |
| POS gateway (AD/nexus_api_gateway) | orders, sale orders | offline orders, a savepoint per order | resent orders, overlapping calls, partial failures | an order is booked once and acknowledged |
| POS app (`flutter_pos`) | order table, cart, checkout state | build, pay, store, print, sync | separate steps with a screen that waits on flags; answers by reference or index | what leaves the cart is in a stored order; what is marked synced is booked |
| Sync queue to the Nexus Core (AD/odoo_erpnext_hybrid_sync, nexus_advanced_accounting) | queue rows, sync marks on documents | enqueue, two crons, Process Now, retry, cancel | consumers that overlap each other and the users' edits | a synced invoice was sent to the Core as it stands in Odoo, but for its cost center |
| Bridge to the Core (AD/ai_enterprise_copilot) | pushed records, queue rows, reconciliation runs | push or queue, listeners, daily reconciliation | calls lost after the Core has acted | what was pushed is in the Core or in the queue |
| Setup journey, papers, onboarding (AD/ai_enterprise_copilot) | journey and steps, employees, company data, wizard answers | mark, move, sync, go live; scan, import; answer, go back, apply | any order of legal calls, failing calls in between | live means complete; no twins; what was asked for is made |
| Migrator (AD/ai_enterprise_copilot) | products, partners, accounts; the wizard | analyse, import, start again | rows found by one key and overwritten, files that overlap | no two records under one code |
| Finance reports and dashboard (AD/ai_enterprise_copilot) | none of their own (a cache that stays empty) | render reports, sheets, charts | the same figures computed in several places | they agree with each other and with the ledger |
| Double-entry accounting (AD/nexus_erpnext_accounting) | journal entries, GL rows, payments | create, submit, cancel, reverse, pay | numbering inside a batch | a balanced entry can be posted |
| Restaurant costing (AD/nexus_restaurant_costing) | recipes, consumption marks | consume at confirmation | confirming again | ingredients are consumed once |
| Localisation and tax (AD/nexus_saudi_localization, nexus_zatca_compliance, nexus_us_localization, nexus_us_tax_engine) | e-invoice and ACH states, rates | submit, sign, batch | - | - |
| Real estate, contracting, scoping (AD/nexus_real_estate, nexus_contracting, nexus_saas_scoping) | leases, contracts, requests | confirm, bill, terminate | order of legal calls | status of one record agrees with another's |
| Mail wizard, cockpit, branding, access rights | settings, views | configuration | nothing across steps | - |
| AI services (`ai_services`) | none | stateless requests | - | - |

How they interact: the bridge calls the fuel station over HTTP; the provisioner
polls the provisioning queue and calls it back; the POS app calls the POS
gateway; Stripe calls the billing webhook, which changes subscriptions and
tenants; posting documents fills the sync queue, whose crons call the Nexus
Core, which the bridge and the setup journey also call directly; everything in Odoo shares one PostgreSQL database per cluster.

## Assumptions about what is not in the repository

* Odoo, PostgreSQL, drift and requests are modelled as the source uses them.
  In particular `request.jsonrequest`, `env.with_company` and `request.uid` are
  taken to yield the request's payload, an environment of the company and the
  user, as the code that calls them expects.
* An HTTP request or a cron run is one PostgreSQL transaction at REPEATABLE
  READ; of two transactions that update the same row, the second to do so
  fails. A savepoint that is left by an exception undoes what was written in it.
* SQLite commits each statement of the bridge's queue before the next line runs.
* The Nexus Core is not in the repository. The sync queue's docs say it
  deduplicates by `transaction_id`
  (AD/odoo_erpnext_hybrid_sync/models/nexus_sync_queue.py:6-7, 59); whether it
  keeps the first payload of an id or takes each is the constant `Deduplicates`
  of `SyncQueue`, TRUE in the run and either in the proofs.

## Forecourt pipeline

| Module | Models |
|---|---|
| `FillUpLedger` | The promise, abstractly: a fill-up is unseen, held by the bridge, received by Odoo, posted; it never moves back. |
| `FuelStation` | The Odoo addon: buffer, shift logs, meters, tanks and the transactions on them. |
| `ForecourtPipeline` | Extends `FuelStation` with the bridge, the HTTP call and the network; maps its state to `FillUpLedger`. |
| `FuelStationMC`, `ForecourtPipelineMC` | Small instances for TLC. |
| `FuelStation_proofs`, `ForecourtPipeline_proofs` | TLAPS proofs. |

**State.** `db` holds the committed tables: the buffer row of each reading
(`absent` until it is stored), the confirmed shift logs made from it,
`meter_end` of each nozzle and `current_volume` of each tank. A running
transaction `tx` works on a copy, `work`; `CommitTx` makes it the committed
one, `AbortTx` throws it away. Since a transaction that posts a reading reads
and updates nozzle and tank, committed transactions are serialisable, and the
model runs one at a time; losing against a concurrent update is one of the
reasons of `FailRow` and `AbortTx`. `totalizer`, `shown` and `metered` are the
pumps: what a nozzle's totalizer shows, showed after a fill-up, and whether the
reading reports it. In the pipeline, `queue` is `pending_readings`, `call` the
bridge's HTTP call, `late` the requests it no longer waits for.

**Actions.** `BeginPush` starts the readings endpoint, whose loop is
`RejectReading`, `ReportDuplicate`, `AcceptReading`; then
`fuel.reading.buffer.process` runs row by row: `SkipRow`, `IgnoreRow`,
`PostRow`, `FailRow`. `BeginSweep` is the cron, `BeginRetry` the button (also
from a form that shows an old state). `DraftLog` and `ConfirmLog` are manual
shift logs, `Deliver` and `AddNozzle` the managers. `Capture`, `Push`,
`MarkSent` are the bridge's loop; `GiveUp` is a broken connection, a timeout or
a restart of the bridge, after which the request may be lost, be served later
(`ServeLate`) or be in the middle of being served.

**Runs.**

| Run | Instance | Shows |
|---|---|---|
| `fuel_station` | 3 readings on 2 nozzles over 1 tank of 3 litres, 1 manual log, 3 possible batches | `PostedOnce`, `NonePending`, `StockConserved`, `NoLitreTwice`, `MeterNeverAhead`, `ProcessedIsFinal`, types |
| `forecourt` | 2 readings, batches of 2 | `NothingLost`, `AnswerIsTrue`, `CallIsQueueFront`, and that the pipeline implements `FillUpLedger` |
| `forecourt_live` | 2 readings, one malformed, batches of 2 | `EveryReadingArrives`, `ErrorsAreRetried` |
| `unmatched_retried` | 1 reading | violation, see [findings](#findings) |

*Why these bounds are enough to be interesting.* Two readings on one nozzle are
what it takes to post out of order, one on another nozzle to share the tank;
the tank is smaller than the litres dispensed, so that postings fail and
deliveries repair them; the meter values an attendant may type lie below, at
and above the true ones. Two rows in a batch make a partly accepted batch, and
a batch of two with one malformed row is the largest number of bad rows that
must not block the queue. `Drop` is one delivery; `Capacity` bounds deliveries;
each reading is dispensed once, which bounds the totalizers.

*Limits stated in the properties.* `MeterNeverAhead` is about nozzles without
confirmed manual logs whose readings either all report `meter_total` or none
do: a reading without it is added to whatever meter the nozzle has when it is
retried, which may already cover it. That nozzle with mixed readings is listed
among the hazards without a property: its meter can run ahead of the pump, and
nothing in the repository says it must not. `EveryReadingArrives` requires fewer
malformed readings than a batch holds: rejected rows stay at the front of the
queue, and a batch full of them blocks the bridge.

*Fairness.* The bridge's loop and Odoo's workers go on (WF of `Push`,
`MarkSent`, `Commit` and the row steps). Serving a request and starting the
cron are strongly fair: each has a worker of its own in Odoo and neither waits
for the other, whereas the model lets one transaction run at a time. The
liveness properties assume that trouble ends: from some point on no call is
refused, given up or failed, and no row fails that could be posted. A commit
that stored nothing is the same step as an abort, and is not counted as
trouble; otherwise the assumption would rule out the very behaviours that
matter.

**Proofs** (any number of readings, nozzles, tanks, batches and logs).

* `StationTypes`, `PipelineTypes`: types, among them that no tank volume or
  meter goes below zero, which rests on the checks of `Confirmable` and
  `Consistent` standing before every subtraction.
* `StationSafe` with `ReadingsPostedOnce`, `NoPendingCommitted` and
  `ProcessedStays`. The properties are not inductive by themselves: the
  invariant adds what the running transaction still has to do, that every
  pending row of `work` is among the rows `tx` will process, and that `work`
  equals `db` when nothing runs.
* `BooksKept` with `StockIsConserved`, `NoLitreSoldTwice`, `MeterFollowsPump`.
  The invariant `BooksInv` is about `db` and `work` alike. On a nozzle without
  manual logs the stretches of the meter that logs charge follow one another up
  to where the meter stands (`InOrder`), so that the next log starts behind all
  of them. Under the preconditions of `MeterNeverAhead` (readings that report
  `meter_total` all or none, no confirmed manual log) the meter is one that a
  pump has shown, or the start plus the volumes
  posted (`MeterKept`), which are among those dispensed (`OnlyDispensed`,
  `TodoDispensed`), which the totalizer has counted (`PumpsCount`). `StockKept`
  is the stock of each tank. Litres are counted as cardinalities of sets of
  litres, each known by its log: a new log adds a set that is disjoint from the
  rest, which finite-set theorems count.
* `PipelineSafe` with `NoReadingLost` and `AnswersAreTrue`. Added to the
  invariant: while the server works for a waiting bridge, what the answer will
  call accepted or duplicate is in `work`, and once it is given, in `db`.
* `PipelineIsLedger`: initial states map to the ledger's, and each step to a
  ledger step or a stutter; a commit maps to one `Settle`.

* `CallsCarryTheFront`: `MarkSent` deletes what the answer is about because
  nobody else takes rows from the queue, and an answer reaches the bridge only
  from the transaction of its own call (`AwaitedIsServed`).
* `PipelineKeepsBooks`: the books hold behind the bridge too, since what it
  captures was dispensed.

Only model-checked: the liveness properties.

## Database provisioning

| Module | Models |
|---|---|
| `Provisioning` | The request queue in Odoo, `pending()` and `callback()`, the workers and the databases they make. |
| `ProvisioningMC` | Small instances. |
| `Provisioning_proofs` | TLAPS proofs. |

**State.** `request` are the rows of `nexus.saas.db.provision.request`;
`tenant` the states `none` (not signed up), `provisioning` and `active` (a
tenant's code is its database's name; suspending and cancelling belong to
`Billing`); `database` what exists in the cluster and which
request's job made it; `poll` the open GET requests; `worker` where each worker
is in which job and the jobs it still has; `reports` the callbacks on their
way. `spoiled` remembers databases whose clean-up failed.

**Actions.** `Signup`, `FileByHand` and the two retry buttons write rows.
`AskJobs`, `ReadPending`, `Claim`, `ReceiveJobs` are one poll. The search and
the write of `pending()` are separate steps: `ClaimAgain` is PostgreSQL
refusing to write a row that was changed in between and Odoo running the
request again, `RefuseClaim` the unique constraint refusing the page,
`LosePoll` a timeout, after which the request may still be served for nobody.
`CreateDatabase` to `ReportResult` are `process_job` step by step with each
failure; `Crash` is a stop at any point. `ServeReport` is the callback.

**Runs.**

| Run | Instance | Shows |
|---|---|---|
| `provisioning` | 3 requests for 1 database, 2 workers, 2 HTTP slots, pages of 2 | `OneCarrier`, `ActiveIsReady`, `RetryStartsClean`, `OutcomeStands`, types |
| `provisioning_live` | 2 requests, 2 workers, 1 slot, pages of 1 | `PendingIsClaimed` |
| `reports_retried` | 1 request, 1 worker | violation |
| `rollback` | 2 requests, 1 worker | violation |

Two polls overlapping are all it takes to claim a row twice; three requests for
one database are a create, and a create or drop filed by hand before, during or
after it; a page of two is smaller than the three requests that may wait.
Workers and HTTP slots are interchangeable, so the safety run uses them as
symmetry sets; the others do not. `ActiveIsReady` and `RetryStartsClean` are
stated for databases with one request only: filing a second by hand, or
dropping the database, changes neither the tenant nor the first request.

*Fairness.* Workers poll for ever and Odoo answers; a job goes on, by success
or failure (weak fairness of `JobStep` or `JobFailure` together, so that no
step is promised to succeed). Getting an HTTP slot is strongly fair, as slots
are free again and again. `PendingIsClaimed` assumes that from some point on
no call is lost, no page refused, no job fails and no worker stops.

**Proofs.** `ProvisioningTypes`, `JobsHaveOneCarrier`, `OutcomesStand`, for any
number of requests, workers and slots. `OneCarrier` is proved through
`Exclusive` (pair by pair, no two places hold the same job) and `Carried` (what
they hold is in progress), with `CallsMatch`: a worker waits for at most one
poll and has no jobs meanwhile, so that an answer replaces nothing. Most steps
only make the places smaller (`Shrinking`); `Claim`, `ReceiveJobs` and
`ReportResult` are the three that put a job somewhere, each taking it from the
place before. `OutcomesStand` then follows although `callback()` never looks at
the state it overwrites: a report exists only while its row is in progress.
`ActiveTenantsAreReady` and `RetriesStartClean` are the two ends of one
invariant, `Stages`: the only request of a database has, in each stage of its
job, made of the database exactly what that stage leaves (`Made`), and nothing
where it has not begun or has rolled back (`Clean`). `Untouched` says that a
database nobody asked for does not exist, which is what the first request finds;
`JobsHaveOneCarrier` says that only one worker is in any stage of it.
Only model-checked: `PendingIsClaimed`.

## Point of sale

`Checkout` is the till up to its own table of orders, `PosSync` the way from
that table into Odoo; an order that one stores is a row the other starts from.
They are checked apart, as they share nothing but the order's reference.

### Sync of orders (`PosSync`, run `pos`)

**State.** `rows` is the app's `orders` table, `sync` the call `SyncBloc` waits
for, `call` the gateway calls on their way, in Odoo and answered, `odoo` what is
committed for each reference: the bookings, the state of the sale order, the
`recipe_consumed` mark and how often the ingredients were taken.

**Actions.** `StartSync`, `MarkSynced`, `EndSync` are `SyncBloc`; `GiveUp` is a
time-out, after which the call runs on in Odoo (`Discard` ends it for nobody),
`Restart` a restart of the app. `BeginCall`, one of `CreatePosOrder`,
`RefuseBad`, `RefuseGood` for each order in turn, and `CommitCall` are the
endpoint: one transaction, a savepoint per order. `AbortCall` undoes it.
`CancelSale` and `ConfirmSale` are the sales department.

**Shows.** `BookedOnce`: two calls overlap, and answers are lost, so that an
order is sent again and again; the search before booking does not see what
another transaction has booked, only the unique constraint does.
`SyncedIsBooked`: an order taken off the list is committed in Odoo.
`RecipeConsumedOnce`: through any number of cancellations and confirmations.
`EveryOrderIsBooked` (liveness): once the trouble ends, every stored order that
has lines gets booked. It holds although the branch for orders that were booked
before raises a `NameError` (`_logger` is not defined in `nexus_pos_order.py`):
such an order is booked, but its row stays pending for ever, and each sync
reports an error. Orders without lines are refused for ever as well.

*Bounds.* Three orders, one of them empty, and two calls at a time: an order
alone, one behind another in the same call, and one that can only be refused;
two calls are what it takes to book an order twice. *Fairness.* The network
returns again and again, each time starting a sync; Odoo serves the calls that
reach it; the app works through an answer. That trouble ends (no call given up
or undone, no restart, no good order refused) is an assumption of the property.

### Checkout (`Checkout`, runs `back_office` and `sale_lost`)

**State.** `cart`; `screen`, what `_onCheckout` waits for; `bloc`, the state of
`CheckoutBloc`, which outlives the screen; `built`, the lines of each order
built; `stored`. **Actions** are the cashier (cart, opening and leaving the
screen, Pay, a tip that rebuilds the order), the bloc (`BuildOrder`,
`ProcessPayment`, `CollectPayment`, `StoreOrder`, `PrintReceipt`, each of which
may `Fail`), the screen (`Resolve`) and a restart.

`NoSaleLost` - what the screen takes out of the cart is in a stored order - is
violated, see [findings](#findings). `NoErrorNoLoss` is what remains true: as
long as nothing has failed since the app was started and the bloc is idle.
Two lines and two orders suffice for an order that was built from another cart.

**Proofs.** `PosSync_proofs`, for any set of orders and of open calls:
`OrdersBookedOnce`, `SyncedOrdersBooked`, `RecipesConsumedOnce`, `PosTypes`. The
invariant adds `CallsAreSound`: what an open transaction has booked is neither
committed nor booked in another open one - this is the unique constraint on the
reference, waited for - and what an answer reports is committed. `Consumed` ties
the flag of the sale order to the bookings. `CleanSalesStored`
(`BackOffice_proofs`) is `NoErrorNoLoss`: as long as nothing fails, from the
building of the order on, the cart is in the order the bloc has in hand and at
last in a stored one (`CartIsBuilt`), because screen and bloc then are at the
same stage (`InOrderOfWork`). Only model-checked: `EveryOrderIsBooked`.

## Back office

Nine components share no state with one another. Each is a module of its own
with its own variables, `...Init` and `...Next`; `BackOfficeMC` extends them all
and lets one of them, the one at the `desk`, move in each behaviour, so that one
run answers for all. Its states are the sum of the components', 250231.
Every action of the nine modules fires in this run; the branch of `TrialExpiry`
for a trial that is linked to Stripe is never taken, a state the webhook never
leaves behind.

| Module | State | Promise |
|---|---|---|
| `SyncQueue` | `doc` (version, cost centers it has had, synced mark, deleted), `row`, `books` (payloads that `arrived` at the Core, and those it has `held`), and each `sender`'s transaction | `SyncedIsInCore`, `DrainTakesPending` |
| `Checkout` | see above | `NoErrorNoLoss` |
| `Bridge` | the `record`, what the `core` has, `queued` rows, the `run` of the reconciliation | `PushedOrQueued` |
| `SetupJourney` | `journey` with its steps, what the Core was `told` | `LiveIsComplete`, `SyncedWasTold` |
| `Papers` | `staff`, `company` data, the `hunter` wizard | `NoNewTwins` |
| `Onboarding` | the `wizard`'s answers and page, the `office` it sets up | `ReviewedIsValid`, `AnswersAreMade` |
| `Reports` | `moves` of the ledger, the `report` wizard; the reports are operators over the moves | `ReportsAgree` (`SheetGapIsProfit` and `TrialBalancesAgree`), `AgingAgrees`, `DeltaPointsRight` |
| `Migrator` | `items` imported so far, the `migrator` wizard | `NoTwinsImported` |
| `Billing` | `stripe`, its `events`, `sub`, `tenant`, paid invoices, the DNS record | `NobodyRidesFree` |

**`SyncQueue`.** A sender - the drain or a press of Process Now - is one
REPEATABLE READ transaction that calls the Core in its middle: `Send`,
`SendUnheard` (answer lost) and `SendRefused` are the call, `Flush` is the end
of the row's savepoint, where what was written reaches the database, and fails
there if somebody else has committed a change of the same row or document;
`CommitSend` and `KillSender` end the transaction. `Outdate` records what a
commit takes from under the others, `Unlocked` that a flushed write keeps others
waiting. Invoices, asset lines, cost centers and expense claims differ in when
they are enqueued and whether they may be edited once synced. A payload is the
version and the cost center it was built from; `Receive` is the Core, which
keeps the first payload of a document or each one (`Deduplicates`). The guard on
synced entries protects what `PostInvoice` changes, but not the cost center,
which goes out in the payload and stays editable (`EditCostCenter`). So
`SyncedIsInCore` says, of every synced invoice: the Core was sent the present
version, in some cost center, however users edit it and senders overlap; and
that version is what the Core holds, unless it deduplicates and was sent an
older one before. Both exceptions happen, see [findings](#findings). Records of
branches and projects have no such promise (a rename of a synced branch is not
sent).
*Bounds:* one document of each of the four kinds, of which one is written in a
behaviour (documents have rows of their own; what two share is the drain's
transaction), two writes of it, cost center included, one retry, one drain and
one button, which are the two senders that can meet on a row. Two writes are
two versions, or one version in two cost centers: what it takes for the first
to be sent and the second to be marked.

**`Bridge`.** `PushedOrQueued` holds whatever the call did; that the queued row
then always fails is `ProcessPushRow`: no builder knows the bridge's operations.
`Record` takes every kind in turn; one partner drifts on both sides, so that
one row of the queue stands for two drift lines.

**`SetupJourney`.** Three steps, the last being `go_live`. Telling the Core is a
call in the middle of a transaction that may be undone. Marking steps done is
only possible by RPC: no view calls it, and `go_live` must be done before the
button that does it, so that a user cannot go live at all.

**`Papers`.** Two permits, a passport and two names make namesakes, a renewed
permit and a person found by passport with another permit. `NoNewTwins` is
about imports and scans of employees that are not archived in between:
archived ones are not found, so that taking one back can make twins.

**`Onboarding`.** `ReviewedIsValid`: the review applies without validating, and
is reached by going back and forth only through valid pages. `AnswersAreMade`
counts what an application that succeeds has made, in an office where journals
and warehouses were deleted before; warehouse codes may collide, and then the
application is refused. Up to three codes and two of each asked for.

**`Reports`.** Two moves of five kinds on five days, in draft, posted,
reconciled in whole or in part. A day stands for a month in the charts, and a
bucket is one day long, so that all four buckets are reached; amounts are 3 and
2, which makes partial payments; of three partners two are namesakes, as the
code groups by `display_name`: namesakes share a row, and what the aging says of
a name is what all of that name owe together. The report, its sheet and the
dashboard each find the open lines and their buckets with a definition of their
own (`ReportLines`, `SheetLines`, `ChartLines`; `ReportBucket`, `SheetColumn`,
`ChartBucket`), as the code has them three times; `AgingAgrees` compares them
name by name and bucket by bucket, and each with the ledger. The balance sheet
is out of balance by the profit, which it does not show, and by account types
it does not list: `SheetGapIsProfit` says by nothing else. `DeltaPct` rounds to
steps (a tenth of a per cent in the code, `Precision` = 1000; a whole 100 per
cent in the run, so that changes of the small amounts are rounded away), hence
`DeltaPointsRight` says that an arrow never points the wrong way and that a
change is shown as none only when it is at most half a step, not that every
change is shown.

**`Migrator`.** A file is one or two rows of a code (or tax number), a barcode
and a name, any of them blank; two products, partners and accounts in all. An
import is one transaction, so that a file with a row that Odoo refuses imports
nothing. Nothing is promised of names: two rows of one name and different codes
become one product, which ends up with the second code. What the wizard guesses
of a file is any target; what was chosen in it is never read. Employees are
recognised and then refused.

**`Billing`.** Stripe's events are a set that is delivered in any order, again
if Odoo failed on them, or given up. `NobodyRidesFree`: when the subscription is
no longer paid, its last event is gone and the trial is over, the tenant ends up
not active. *Fairness:* the daily pull is made and answered, and the daily trial
job runs; the webhook alone would not do, as a failed payment is looked up by
the id of the invoice. Two paid invoices are enough for an event applied twice.

**Proofs.** Each component is proved by itself, for every value of its
constants; `BackOffice_proofs` then shows that a behaviour of the back office is
one of each component (`DesksImplementComponents`, where a component that is not
at its desk stutters) and that all their invariants and action properties hold
in it (`BackOfficeTypes`, `BackOfficeSafe`, `BackOfficeSteps`).

| Component | Theorems | The invariant beyond the types |
|---|---|---|
| `SyncQueue` (`SyncQueue_proofs`) | `SyncedInvoicesInCore`, `DrainsTakePending` | `Sound`: a payload of the document's version has arrived at the Core where a sender holds it as sent, and what a drain holds is pending, unless row or document are among what has gone `stale` for it, and then its flush fails. `SyncedArrived`: the same of synced invoices, and `CoreKeeps`: the Core holds something of what arrived and, unless it deduplicates, all of it. `Exclusive`: no two transactions have flushed one row, as the first keeps it locked. |
| `Bridge` (`Bridge_proofs`) | `NothingForgotten` | `RunIsSound`: until a run ends, each drift line is resolved, still to be pushed or among the rows to be queued. |
| `SetupJourney` (`SetupJourney_proofs`) | `LiveJourneysComplete`, `SyncedStepsTold` | None; needed is what the search for the next stage finds (`AdvancedStep`), by the least number of a set. |
| `Checkout` | `CleanSalesStored` | see [point of sale](#point-of-sale) |
| `Papers` | `NobodyHasATwin` | `StaffNumbered`. That a permit is found before a new employee is made is the work of the step. |
| `Onboarding` | `ReviewedAnswersValid`, `AnswersBecomeRecords` | `StepsValidated`: what a page validates holds on every later page. That each journal gets a code of its own is counted with cardinalities. |
| `Reports` | `ReportsConsistent`, `AgingsAreOne`, `ArrowsPointRight` | `ReconciledInPairs`: what is reconciled is posted, and under each name as much of invoices as of payments, so that what a name owes by the ledger is the balance of its open units. Money is counted unit by unit, as cardinalities of sets. |
| `Migrator` | `ImportsKeepCodesApart` | `SoundList`, after each row of a file. |
| `Billing` | `BillingTypes` | Types only: its promise is a liveness property. |

Two definitions are recursive, the sum over the names of an aging (a fold)
and the rows of a file (`after[n]`). Induction is out of the provers' reach;
both are reasoned about by their least counterexample instead, from the
well-foundedness of inclusion on finite sets (`LeastNumber`).

What the proofs assume of the constants is named in each module
(`...Assumption`). Not mere types are: invoices are no other kind of document
and the cron is no button (`QueueAssumption`: they are different models, and
`_cron_drain` and Process Now different methods); the partners are finitely many, amounts and
`Precision` positive (`ReportsAssumption`); the bound on codes leaves room for what may be asked for
(`OnboardingAssumption`). Only model-checked: `NobodyRidesFree`.

## Ledger

`Ledger` models the journal entries, GL rows, opening entries and payments of
nexus_erpnext_accounting with all their buttons. Its one run, `ledger_posts`, is
a violation: entries of two lines cannot be posted, so that most of what the
module allows beyond that is out of reach. It is kept whole, to be checked for
balance when the numbering works.

## Findings

* **Readings without a nozzle are never retried** (`unmatched_retried`). The
  gateway's docstring names "nozzle not yet configured" as what the cron sweeps
  up; such rows are `ignored`, and the cron looks for `error`.
* **A lost report is never sent again** (`reports_retried`). The log says "will
  retry next cycle"; nothing does, and no button leads out of `in_progress`.
* **The rollback drops databases it did not create** (`rollback`). A second
  create request for a tenant fails because the database exists, and its
  clean-up drops the live database; the README speaks of the half-created one.

* **A sale leaves the cart unpaid for** (`sale_lost`). "Order posted and payment
  complete" is shown, and the cart emptied, after a build that failed: the bloc
  pays the order built before. Since `paid` is never taken back, the second sale
  of a session does not wait for its payment either.
* **No journal entry can be posted** (`ledger_posts`). GL rows are numbered when
  they are there already; the second row gets the first one's number.

Met while modelling, without a run of their own; the models follow the code:

* `process_queue`, described as draining the outbound records every two minutes
  (AD/odoo_erpnext_hybrid_sync/data/cron.xml:3), calls `_process_single` on the
  model, whose `ensure_one` raises: every due row is marked failed. Only
  `_cron_drain` and Process Now deliver.
* The cost center of a synced invoice is in the payload
  (AD/nexus_advanced_accounting/models/nexus_sync_queue.py:158, 197, 225), but is
  no protected field (AD/ai_enterprise_copilot/models/account_move_override.py:22-41)
  and no change of it is sent again; the guard's message says it is there "to
  keep both ledgers perfectly aligned" (l. 80-86). The names of partners and of
  other master data in the payload are as free.
* Where the Core deduplicates by `transaction_id`, an invoice whose first
  version arrived while its answer was lost, and which was edited and sent again,
  is marked synced while the Core keeps the first version: the id is the same for
  both (AD/odoo_erpnext_hybrid_sync/models/nexus_sync_queue.py:6-7, 59).
* Resending a booked POS order raises a `NameError` (nexus_pos_order.py:78).
* A `checkout.session.completed` that comes after `invoice.paid` finds the
  latter acknowledged and lost; `invoice.paid` and `invoice.payment_succeeded`
  for one payment add two invoice records; `invoice.payment_failed` is looked up
  by the invoice's id and never matches; the daily pull turns a cancelled tenant
  into a suspended one; a late paid event gives a cancelled tenant its DNS
  record back.
* Signing up with an invalid tenant code answers with an error after the company
  was created, and commits it. The limits of one tenant
  ("Override plan limit per tenant", tenant.py:126) write the plan of all.
* The wizard's docstring promises one atomic transaction; installing modules
  commits in its middle. It changes the list of presets it shares, and applied
  twice it doubles bank journals.
* `env.get(model)` is tested as a truth value in several places of
  ai_enterprise_copilot: an empty recordset is false, so that the branches for
  contracts and incidents never run and reconciliation never escalates.
* Every report ends in state `error`: the cache serialises dates with
  `json.dumps`. The cash flow report asks for `account.account.company_id`, gone
  in Odoo 18; two charts use `_` as a loop variable and then call it; the aging
  ignores the wizard's partner; a fetch that fails reads as a balance of zero.
* The document hunter sets a live journey back to in progress, and its last
  button uses an undefined name.
* Cancelling and reversing journal entries, and cancelling payments, raise.
* Generating an e-invoice raises at the field `zatca_invoice_hash`.
* Rows for cost centers have a later priority than the invoices that name them.

## What is not modelled

The modelled components leave out: rotation of device keys, the pump form, free
edits and deletions of records in forms, the stock move beside a tank's volume,
and the `attempts` counter of queued readings (written, never read). A retried
provisioning request has lost its password (`callback()` clears it on errors
too); whether the bootstrap then succeeds is Odoo's affair, and the model
allows both. Branding, access rights, deployment scripts, screens, report
layouts, encodings (QR, XML, NACHA), rate tables and calls to language models
have no behaviour across steps.

Of the back office: waiting times and priorities of queue rows (any due row may
be next), payments and tax templates (never enqueued on Odoo 18), the deletion
of queue rows, invoices generated by hand for a period, usage figures and
quotas, account types given by the migrator, milestones and incidents, budgets
and party accounts. E-invoices are left out because no
state after draft is ever reached; leases, project contracts and scoping
requests because each is a life cycle of one record without a second party.

Smaller things, left out of single actions:

* `Deliver` adds to a tank what was delivered; the form writes the volume it
  shows, so that a delivery saved from a stale form may undo a posting beside it.
  A confirmed log's `action_reset_to_draft` (fuel_shift_log.py:175-179) has no
  action: it is refused once the stock move is done, which confirming makes it,
  and only a log whose move Odoo left undone could be confirmed twice by it.
* `PushRecord` starts with the call; the payload is built before the `try`
  (erpnext_bridge.py:158), and an exception there queues nothing.
* `AnswerProfile`: the business name can also be changed on the review page
  (onboarding_wizard_views.xml:274), behind the profile page's validation; if
  emptied there, the application refuses it (nexus_onboarding.py:656).
  `Refusal`: a tax's name depends on its rate (nexus_onboarding.py:687-689), the
  model's on the tax alone. Archived journals, which keep their codes, are not
  there. Each of these only adds refusals.
* `SyncAll` sends the steps one by one; the code does so in one transaction. The
  flags `auto_sync` and `required` of a step are left out; every step is required.
* The general ledger can be filtered by account and partner; the model's is
  whole. `button_draft` may unreconcile a move; `ResetToDraft` wants it
  unreconciled first.
* In `Migrator` no product, partner or account is archived or without a company,
  and one import runs at a time.
* Stripe's statuses other than the ones `Billing` names are taken together.

## Plan

In this order; each is one module, with an `MC` module and a `_proofs` module.

1. `FillUpLedger`, `FuelStation`, `ForecourtPipeline` - done.
2. `Provisioning` - done.
3. `PosSync` and `Checkout` - done.
4. `SyncQueue`, `Bridge` - done.
5. `SetupJourney`, `Papers`, `Onboarding`, `Reports`, `Migrator`, `Billing` - done.
   Worth proving next: abstract specifications of the sync queue and of the POS
   gateway (as `FillUpLedger` is one of the pipeline), implemented by the
   modules that are there.
6. `Ledger` - done as far as the code goes.
7. Leases against units, project billing, quotas under concurrent creation.

Every invariant and action property the passing runs check is proved. The five
liveness properties (`EveryReadingArrives`, `ErrorsAreRetried`,
`PendingIsClaimed`, `EveryOrderIsBooked`, `NobodyRidesFree`) stay with TLC:
tlapm reasons neither about fairness nor about `ENABLED`.

Runs: one safety run per module, one liveness run where something must happen
at last, one run for each disagreement between a text and the code.

## How to run

```
tlc -workers 2 -config FuelStation.cfg FuelStationMC.tla
tlapm Provisioning_proofs.tla
```

The proofs are in `FuelStation_proofs`, `ForecourtPipeline_proofs`,
`Provisioning_proofs`, `PosSync_proofs`, `SyncQueue_proofs`, `Bridge_proofs`,
`SetupJourney_proofs` and `BackOffice_proofs`.

The runs of `PROJECT.json` name the module and configuration of each check; the
longest takes about three minutes.
