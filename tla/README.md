# Crynux AS: a TLA+ model of its jobs, Credits, earnings and requests

Crynux AS sells AI inference. A client's project creates a *task job*; Credits
of the project's owner are reserved for it; a worker hands the job to the Crynux
Bridge, or a scheduler to an upstream provider with a shared API key; at the end
one transaction charges the owner, releases the reservation and records the
call. Around that, deposits become Credits, Key Owners withdraw what their keys
earned, statistics are aggregated, and every request is priced from caches of
what Relay and the key table said a while ago. This directory holds the TLA+
modules that model these protocols, the TLC configurations that check them, and
TLAPS proofs. Paths below are relative to the
repository; line numbers refer to the commit that is modelled.

- [The system](#the-system)
- [The modules](#the-modules)
- [The runs](#the-runs)
- [Fairness](#fairness)
- [What is proved](#what-is-proved)
- [Where the documentation and the code disagree](#where-the-documentation-and-the-code-disagree)
- [What is not modelled](#what-is-not-modelled)
- [Plan](#plan)

## The system

One process, a relational database, and four kinds of outside parties: API
clients, the Bridge, upstream providers and blockchains. Inside the process
everything that matters for correctness runs concurrently: HTTP handlers, the
Bridge worker, the provider scheduler and one goroutine per provider job, the
Credits reconciler, retention, the chain scanners, and the statistics and cache
refreshers. They share nothing but database rows (guarded by row locks inside
transactions), the Bridge, and a few in-memory registries.

| Component | Source | State | Operations | What is hard | What makes it correct |
|---|---|---|---|---|---|
| Credits ledger and soft lock | `service/credits.go`, `credits_lock.go`, `llm_charge.go` | `credit_accounts.balance`, `.locked`; `credit_events` | deposit, reserve, release, charge, reconcile | concurrent creates and settlements of one owner; a charge above the hold | locked = sum of holds, locked <= balance, ledger explains balance |
| Task jobs on the Bridge | `service/llm_job.go`, `raw_task_job.go`, `llm_job_worker.go`, `raw_task_abort.go`, `bridge/raw_task.go`, `tasks/llm_jobs.go` | `task_jobs`, `task_call_records`; copies in the worker and in abort requests; ClientTasks at the Bridge | create, submit, poll, settle, fail, abort, recover, retain | stale copies, non-idempotent submit, lost replies, crashes between Bridge and database | recorded once, charged once, closed is final, every job ends |
| Provider jobs | `service/provider_job.go`, `provider_scheduler.go`, `provider_runner.go`, `provider_key_slots.go`, `provider_stream.go`, `api/llm/provider_job_handler.go` | `task_jobs` with a provider source; key slots; streams | admit, claim, execute, switch key, settle with retry, fail, fail after restart | shutdown during execution, slot accounting, streams nobody closes | slots released once, one charge and one earning, streams end |
| Shared API keys | `service/shared_api_key.go` | key row with limits, usage, cooldown | create, enable, disable, delete, reset, add usage, cooldown | limit checked before the slot is taken; counters of concurrent runs | limits overshoot only by what is in flight; cooldown after three in a row |
| Earnings and withdrawals | `service/earning.go`, `earning_withdrawal.go` | earning account, events, withdrawals | earn, create, fulfil, reject, list for the wallet | retries and races of fulfil and reject; event cursor by id | every withdrawal leaves the account once; no event is skipped but in one window |
| Deposits | `service/blockchain_processor.go`, `credits.go` | block cursor, deposits | scan a range, credit, advance the cursor | crash between crediting and cursor | each transfer credited exactly once |
| Referral | `service/referral.go` | codes, bindings, rewards | bind at sign-up, reward a deposit | tier counted while other deposits commit | one reward per deposit, at the tiers of the purchases before it |
| Usage statistics | `service/usage_stats*.go` | hourly and 10-minute rows, dirty/claimed generations, snapshots | aggregate, claim dirty projects, rebuild, refresh windows | claim before rebuild, limited batches | each record counted once; snapshots catch up |
| Fees and pricing | `service/task_fee.go`, `priority_gwei.go`, `provider_billing.go`, `provider_cost_hints.go` | none: pure functions of a project, a request and cached numbers | estimates, caps, conversions, floors, searches for a priority | rational arithmetic, rounding, zero and caps | the hold covers the charge; the priority is the one the rules call for |
| Caches | `loaded_models_cache.go`, `models_catalog_cache.go`, `queued_priority_cache.go`, `provider_queue_priority.go`, `execution_time_cache.go`, `model_execution.go` | loaded models, public catalog, queue snapshots, execution times | refresh by tickers, read by requests | two tickers rebuild one catalog; half-replaced snapshots; failed refreshes | the catalog never goes back to older key states |
| Projects and authentication | `api/v1/projects/projects.go`, `api/llm/auth.go` | `projects` row | create, edit, delete, reset key, authenticate | a request works on the row it was authenticated with | no request is priced by a mixture of two versions |
| Requests | `api/llm/*.go`, `api/llm/responses`, `api/raw_task/handlers.go` | one request | parse, route, resolve, validate, price, create, answer | each step reads another cache at another moment | one price for hold and charge, refusals before money moves |
| Adapters | `provider/`, `llmadapter/` | the message an upstream stream has built so far | read a stream, encode it, parse tool calls, simulate a stream | four wire formats, repeated calls, a bounded buffer, free text that may be calls | the client sees the result that was settled, whole |
| Clients, configuration, migrations, cryptography | `relay/`, `blockchain/`, `config/`, `migrate/`, `provider_key_crypto.go` | - | I/O, start-up | - | what start-up checks is assumed by name |

How they interact around one Bridge job:

1. The create handler runs `ReserveCreditsAndCreateTaskJob` (or the raw-task
   variant): one transaction locks the account row, checks
   `balance - locked`, adds the hold to `locked` and inserts the row.
2. Every tick of `RunTaskJobWorker` loads the oldest unfinished jobs, at most
   `taskJobBatchLimit`, and works on these copies until the tick ends: it fails
   the ones past the submit timeout, submits all others without a Bridge id in
   one `CreateTasks`, stores the ids, polls all jobs that have an id in one
   `GetTaskStatuses`, and handles the answers one by one.
3. A success is downloaded, formatted and settled; anything else ends in
   `FailAndRecordTaskJob`. Either is one transaction that re-reads the row under
   a lock and does nothing if `task_call_record_id` is already set.
4. A Raw Task client may abort at any moment: the handler loads the job, calls
   the Bridge if the copy has an id, and runs the failure transaction.
5. The reconciler recomputes `locked` from the held rows every five minutes, and
   retention deletes old terminal rows.

Around one Provider job:

1. The handler prices and creates it as above; a streaming job is first
   registered in the stream registry and only then made visible (`queued`).
2. The scheduler takes the batch with the highest priorities, fails what is too
   old, lists the eligible keys, reserves one of the key's process-local slots
   and claims the row.
3. The job's goroutine calls the upstream with that key. A call that was provably
   not accepted may be repeated with another key, whose slot is taken after the
   old one was given back; anything else ends the job. Events are published to
   the subscriber's bounded buffer as they come.
4. Confirmed usage is settled and retried until it commits: debit, call record,
   Key Owner's earning, key usage. Only then is the stream told that it is done.
5. At shutdown intake stops, running jobs get a deadline; after a restart the
   jobs of the previous process are failed before anything else starts.

## The modules

| Module | What it is |
|---|---|
| `Amounts` | Sums of Credits, and the arithmetic of an account row: available, reserve, release, charge, debit |
| `TaskJobs` | The Bridge path: accounts, rows, call records, worker, aborts, Bridge tasks, faults |
| `ProviderJobs` | The Provider path: admission, scheduler, slots, goroutines, key switch, settlement, streams, keys, shutdown and restart |
| `JobBilling` | The promise about Credits both paths implement, without worker, upstream, lock column or retry |
| `Withdrawals`, `Payouts` | Earnings, signed withdrawals and the wallet, statement by statement; and the promise they implement |
| `Deposits` | The chain processors, deposits, sign-ups, referral codes, bonuses and rewards |
| `UsageStats` | Aggregation, snapshots, summaries and the series of the queries |
| `Pricing` | Pure: fees, Credits, units, priorities and the checks of the configuration |
| `ModelCaches` | The caches, their tickers, and what is resolved from them. EXTENDS `Pricing` |
| `Projects` | The project row under its handlers. EXTENDS `ModelCaches` |
| `ProviderStreams` | Upstream streams of three providers, the bounded channel, the public frames. EXTENDS `Pricing` |
| `Answers` | A node's generated text as Chat, Completions or Responses result and as simulated stream. EXTENDS `ProviderStreams` |
| `Requests` | A request from authentication to settlement, which composes the five above |
| `MC*` | Instances for TLC, and the statements of the documentation that fail |
| `AmountsProofs`, `TaskJobsProofs` | Lemmas on sums and accounts; the invariants of `TaskJobs`; `TaskJobs` implements `JobBilling` |
| `ProviderJobsProofs` | The invariants of `ProviderJobs`; `ProviderJobs` implements `JobBilling` |
| `DepositsProofs` | The invariants of `Deposits`: types, cursor, balances, rewards |
| `WithdrawalsProofs` | The invariants of `Withdrawals`; `Withdrawals` implements `Payouts` |
| `RequestsProofs` | What admission, its searches and the sums of units return; the invariant of `Requests`, its priorities and charges |
| `StreamsProofs` | Streams through `Requests`: frames in order, a client that sees the end was told the result, and what that result is. EXTENDS `RequestsProofs` |
| `UsageStatsProofs` | The invariants of `UsageStats`: the tables, the series and the snapshots |

### `TaskJobs`: state

| Variable | Code |
|---|---|
| `account[u]` | the `credit_accounts` row (balance, locked) |
| `deposited[u]` | sum of the user's inflow `credit_events` |
| `job[j]` | the `task_jobs` row: status, `bridge_client_task_id` (0 for NULL), `credits_lock_status`, whether `task_call_record_id` is set |
| `calls[j]`, `charged[j]` | the `task_call_records` of the job, the sum of its charge events |
| `expired` | the jobs older than `llm.job_submit_timeout` |
| `tasks[j]` | the ClientTasks the Bridge made for the job, in order; a Bridge id is an index into it |
| `tick[j]` | the copy the running worker tick holds of the job and how far it got with it |
| `recovered` | `RecoverIncompleteJobs` has run in this process |
| `aborter[j]` | the abort request running for the job, with the Bridge id of its copy |
| `faults` | how many crashes, lost replies and failed calls happened |

### `TaskJobs`: actions

One action is one database transaction or one exchange with the Bridge, because
that is where other goroutines can come in between. What a handler computes from
its copy between two of these belongs to the later action.

| Action | Code |
|---|---|
| `Deposit` | `ProcessDeposit` (credit and event) with `applyDepositReferralReward`: the referrer gets any of `Rewards` in the same transaction |
| `ReserveCreditsAndCreateTaskJob` | `llm_job.go:47`, `raw_task_job.go:35`; ids grow in the order the account lock gives |
| `LoadBatch` | `advanceTaskJobs` up to the split of the batch, `ListUnfinishedTaskJobs` |
| `FailJob` | `failTaskJobWithRecord` at each of its call sites in a tick |
| `CreateTasks`, `CreateTasksReplyLost` | the batch request; any subset is accepted, the reply may be lost |
| `StoreBridgeTask` | `UpdateTaskJobBridgeTask`, with the abort of an orphan and its logged failure |
| `GetTaskStatuses` | the batch poll; any subset of items may be errors |
| `UpdateTaskJobPhase`, `Finalize` | the two calls of `UpdateTaskJobPhase` |
| `Settle`, `RejectResult`, `RetryLater` | the three ends of `completeSuccessfulTaskJob` |
| `TickFails` | a call of the tick returns an error |
| `RecoverIncompleteJobs`, `RecoveryFails`, `Crash` | start and stop of the process; the worker starts even if the recovery ends half-way with an error |
| `AbortLoad`, `AbortUnsubmitted`, `AbortAtBridge`, `AbortRecord`, `AbortStops` | `AbortRawTaskJob` step by step: load, Bridge call, failure transaction; `AbortStops` is the Bridge's `not_cancellable`, a failed call or a lost reply |
| `Reconcile` | `ReconcileCreditsLocked` for one user whose column is wrong |
| `DeleteTerminal` | one row of `DeleteExpiredTerminalTaskJobs` |
| `Expire`, `TaskFinishes` | time; the Bridge |

Abstractions worth knowing:

- Credits are natural numbers; the price of a finished job is any member of
  `Costs`, since prices depend on token counts the model does not have.
- A tick handles its jobs in any order within a stage; the code uses the order
  of the batch or of the Bridge's answer. The stages keep their order.
- At most one abort request per job runs at a time. Two differ from one followed
  by another only in the Bridge's answer to the second, `not_cancellable`.
- `DeleteTerminal` waits until no copy of the row is held. Rows live for at
  least one day after they are closed (`TaskJobRetentionCutoff`); a tick and a
  request are bounded by their timeouts, minutes at most. This is an assumption
  on time, not a guard in the code.
- A status item error happens to tasks that exist: the Bridge is not assumed to
  lose a task it created.

### `JobBilling`

The abstract specification has three variables: each user's funds, each job's
phase (none, open, closed), and what was paid for it. A job may be accepted only
if the funds cover it together with everything already promised; closing it takes
at most what the promises to the other open jobs leave. `ImplementsBilling` in
`TaskJobs` is that specification under the mapping *funds = balance*, *closed =
a call record exists*, *paid = charged*.

### `ProviderJobs`

One action is one transaction, one operation under the lock of the slots or of
the streams, or one upstream call. `account`, `job`, `calls`, `key`, `income`
are rows; `sched`, `runner`, `slots`, `stream`, `client` are memory and vanish in
`LoseMemory`. `runner[j].step` is the program counter of `RunProviderJob`, with
its local variables `currentKeyID` (`current`), `heldKeyID` (`held`) and the keys
it tried. The scheduler's iteration is five steps (list, select, reserve, claim,
refused claim), because the slots and the row are taken under different locks.
An error path that the code ignores (`FailIgnoringError`) is a disjunct.

- Eligibility is read before the slot is reserved, as in the code, so several
  jobs may pass a token limit together; `job-execution.md:115` accepts that.
- A completed call reports one of `Usages`, any tokens and price: the consumer's
  charge is clamped to the hold and what is available, the earning is not.
- Key Owners enable, disable, delete, limit and reset keys at any moment.
  `dropped` remembers the tokens a reset forgot.
- `Exit` and `Crash` differ in when they may happen: after the drain or the
  deadline, or at any time.

### `Withdrawals` and `Payouts`

A transaction is several actions: it locks its owner's account row, takes the
range locks of the daily limits one index at a time, inserts, and commits or
rolls back. `LockedRows`, `Readable`, `NoneInserted` and `Insertable` say which
statement waits for which open transaction under REPEATABLE READ. Ids of events
and withdrawals are spent when a statement runs, not when it commits, which is
what the wallet's cursor can trip over. The wallet (external) polls both lists by
id, accepts what its copy of the ledger covers and repeats fulfil and reject.
`Payouts` knows only available earnings and, per authorization, none, pending,
paid or refunded.

### `Deposits`

One processor per network: read the tip, scan the next confirmed range, handle
its logs in order, save the cursor; any step may fail and the next tick starts
from the saved cursor. A deposit transaction inserts, credits the sender, reads
the binding, locks the referrer, counts and rewards; `proc[n]` holds what it has
done so far, and `Locks` what other transactions wait for. The binding is read with
a plain SELECT, the first of the transaction, and under REPEATABLE READ (the
default of MySQL, which nothing in the code changes) that fixes what the count will
see: `proc[n].read` is how many deposits had committed then. Sign-ups, code resets
and the codes that the dashboard gives to older accounts run beside it.

### `UsageStats`

`calls` are the finished calls, `pending` their queue. The base aggregation is
one action, as it is one transaction behind a locked row. The snapshot worker
claims (committed at once), rebuilds from a snapshot of the tables it read
earlier, and commits, so the base worker comes in between. Hours have two periods
and days two hours in the run; the operators take these lengths as constants.

### `Requests` and the modules it composes

`request.todo` lists the steps its handler has left, in the order of the source:
`handleTaskJobRequest` and `CreateResponse`, `ImagesGenerations` and
`ImagesEdits`, `prepareTask`, and the two Provider handlers differ in it. A step
takes one lock or makes one call; project edits, cache tickers and time go on in
between. `request.row` is the project row of the authentication.

- Amounts are exact: a billable amount is a number of parts of a Gwei, `FeeScale`
  of them. Where the code uses `big.Rat` that is what it computes; where it uses
  `float64` and `big.Float` (the Crynux formula) the model has the exact value,
  and what an inexact product would do is not checked.
- Configuration checks (`checkLLMConfig` and the others) are operators of the
  module that relies on them and conjuncts of its ASSUME.
- A generated text is a sequence of segments: text, the end of a thought, a JSON
  object, a mark that opens or closes a response of Kimi K3, or a group of calls in
  one of eight formats. The grammar of each format is abstracted to *this segment is
  in that format*; which parser wins, what it takes out, what the filter drops, what
  is unwrapped and what stays are the code's.
- A simulated stream has the one choice a task asks for; the code would write a
  role and a text for each.
- Streamed images are refused, as are streamed Responses of a Crynux model; those
  of a Provider are forwarded (`StreamIsUnsupported`).
- An upstream stream is any sequence of up to `MaxChunks` chunks of its format,
  with any ids, repeats, usage and end the adapter distinguishes, as long as it keeps
  its protocol: no arguments come before the start of their tool
  (`anthropic.go:242-249` and `openai.go:290-293` would forward them), and Google
  does not take back arguments of a call that has an id (`google.go:218-229` would
  cut the new ones at the length of the old).
- `ClientSeesResult` compares what was written with what was settled, for
  forwarded and for simulated streams.

## The runs

| Run | Bounds | Shows | States |
|---|---|---|---|
| `taskjobs_safety` | 2 jobs, 2 Credits deposited and 1 rewarded, batch of 2, 1 fault | all safety and action properties of the Bridge path, and the refinement of `JobBilling` | 698,918 |
| `taskjobs_liveness` | 2 Credits, no rewards, batch of 1, 1 fault, the owner's locked column starts at 0 or 1 | every accepted job is closed, a wrong locked column is repaired for good | 103,482 |
| `provider_safety` | 2 jobs, one streamed, 2 keys of one slot, batch of 1, 2 attempts, 2 faults, restarts or acts of Key Owners | slots, holds, ledgers and records agree; nothing is sent twice; the refinement of `JobBilling` | 1,693,294 |
| `provider_liveness` | the same with 1 restart and no faults | every admitted job is recorded | 133,686 |
| `withdrawals_safety` | 2 Key Owners, one benefit address, 3 authorizations, limit 1 a day, days of 2 time units, pages of 2, 1 lost commit | the account's ledger, single settlement, daily limits, the wallet's cover, the refinement of `Payouts` | 1,156,667 |
| `deposits` | 3 wallets, one older than invite codes, 2 networks, 4 logs (one worth nothing), 1 tier, 2 faults | events explain balances, the cursor, rewards, and that deposits are credited in the end | 135,279 |
| `usage_stats` | 3 calls, 2 projects, 2 models, batch of 2, claims of 1, 1 fault | series, snapshots, and that summaries age | 27,951 |
| `requests` | 23 kinds of requests over four endpoints and three providers, one refresh of each cache, one edit, one change of keys, 3 chunks, buffer of 2, 2 attempts | priority, hold, streams, answers, catalog | 704,462 |
| `provider_streams`, `google_calls`, `earlier_events`, `reward_count` | the bounds above | violated, see below | |

Why these bounds. *Bridge path*: two jobs of one owner, each with a hold of 1
Credit, job 1 abortable, prices 0 and 2, deposits of 1, and an invited user who
may bring the owner a reward. Two jobs are the fewest that make holds compete,
that put two jobs into a batch request, and that let a charge reach for another
job's hold; a price of 2 exceeds the hold, a price of 0 settles for nothing; with
up to 3 Credits creates are refused in some states and charges clamped in others.
One fault is enough for each case the code reacts to: a duplicated submission, a
lost orphan abort, a crash between the Bridge and the database, a retried
settlement; the theorems hold for any number. A batch of one makes job 2 wait
behind job 1. *Provider path*: one slot per key and two keys force waiting, a
switch and a lost race for a slot; two upsets combine a failure with a restart or
a deleted key. *Withdrawals*: two users with one benefit address are the fewest
for which the second limit matters; two withdrawals of one user cross a day.
*Deposits*: two deposits of invitees of one referrer, on two networks, race for
the tier; two faults reach a repeated range whose first log is credited.
*Statistics*: three calls with a batch of two leave one pending; with one project
per claim the second waits. *Requests*: fees are a few Gwei so that floors, the
cap, the minimum and the clamp of a priority all happen; a buffer of two fills; texts
have up to five segments.

`requests` also bounds what goes on together (`Next`): a stream, or a request
with tools, is served before anything was refreshed or edited (neither reads a
cache after it is priced); nothing goes on beside a job once it is priced; the
catalog, which no request reads, is refreshed before there is a project; a
second request repeats one that was refused for lack of Credits, later, to find
its cached execution time valid or expired. These are bounds on TLC's work, not
on the code.

Deadlock is not checked: when all jobs are closed and nothing more is allowed by
the bounds, the models rightly stop.

Properties of `taskjobs_safety`, apart from `TypeOK`:

- `LockedMatchesHolds`, `Solvent`: locked is the sum of the holds, and the balance covers
  it, in every state. (That the balance is what was paid in less the recorded charges,
  `LedgerExplainsBalance`, is each step of `ImplementsBilling` added up; it is part of the
  inductive invariant and a theorem, and no run checks it again.)
- `RecordedOnce`: row, hold, call record and charge change together, once.
- `SuccessIsPaidWork`: a success record only for a task that succeeded.
- `CopiesAreGrounded`: every Bridge id, on a row or in a copy, is real, and no
  copy outlives its row; the reset at start therefore never discards an id.
- `SubmittedOncePerFault`: a job is submitted again only after a fault.
- `NoOrphanWithoutFault`: without faults no ClientTask runs unaccounted for.
- `ClosedJobsAreStopped`: a job no client can abort, and that met no fault, is
  closed only after its task has ended. (For abortable jobs this is false, see below.)
- `ClosedIsFinal`: no late phase write, retry or second settlement touches a
  closed job.
- `AbortedTaskIsStopped`: an abort that read a Bridge id closes the job only once the
  task on its row has been stopped, and never one that has succeeded, although the
  worker polls and settles the same job meanwhile. An abort that read no id is the
  first disagreement below.
- `ImplementsBilling`: see above.

Properties of the other runs:

- `SlotsAreHeld`: the slots of a key are exactly those that the scheduler and the
  goroutines hold, through failed claims, key switches and shutdown.
- `HoldsAreCovered`, `LedgersAgree`: locked is the sum of the holds and covered;
  balance, earnings and key usage tell the story of the call records, so a retried
  settlement writes all of them once.
- `NeverResubmitted`: after a call that may have been accepted a job is never sent
  upstream again, by no other key and no later process.
- `DoneIsSettled`: *done* reaches a client only after the commit, and no goroutine
  works on a job whose client has not subscribed.
- `LedgerExplainsAccount`, `SettledOnce`, `ImplementsPayouts`: a withdrawal leaves
  the account once and is paid or refunded once, whatever the wallet repeats.
- `DailyLimits`: per user and per benefit address, for concurrent creates.
- `WalletIsCovered`: the wallet's cursor passes no committed event that it was not
  shown, but those whose transaction was open while a later one was listed; and the
  earnings it has passed pay for what it accepts. It exempts no state: the few
  events that were raced past are counted among the earnings, and that there are
  any is the disagreement that `earlier_events` shows.
- `EventsExplainBalances`, `CursorPassesHandled`, `DepositsAreCredited`: every
  confirmed deposit of a known sender is credited once, in the end, and none before
  it is confirmed.
- `RewardsAreEarned`: each deposit that is due a reward has one, for exactly the
  purchases that had committed before some moment of its transaction; a purchase
  between that moment and its own commit is of another wallet on another network. A
  processor's earlier deposits, and those of the same wallet, are always counted.
  That others may be missed is the disagreement that `reward_count` shows.
- `SeriesCountCalls`, `SnapshotsAreCurrent`, `SummariesAge`: see their comments; a
  claim whose rebuild failed is the exception of the second.
- `PriorityIsReference`: the clamps and binary searches of admission against a
  definition by sets, for Auto and static projects, on Crynux and on providers. What
  is affordable is judged by the Credits the job would hold, of the exact amount, and
  not by the code's own test; the minimum is compared with the exact amount as well. The code compares Credits of whole Gwei, so the
  budget may be too generous, by no more than the Credits of one Gwei
  (`CreditsOfOneGwei`); a hold can therefore exceed the project's maximum by that much,
  which the documents exclude (see below). It is never too strict, and with a tariff of at most one Credit per Gwei the slack is
  one Credit.
- `HoldCoversCharge`: hold and charge follow different rules (largest weights
  against billed parts, estimate against actual time).
- `StreamIsWellFormed`, `ClientSeesResult`: what was written to a streaming client,
  through the bounded buffer, a key switch, a failure and the settlement.
- `AnswerIsWhole`: no part of a generated text is lost or repeated: what is not
  taken out is shown in its order, what is taken out is a segment that begins with a
  declared call or a mark of Kimi K3, and all declared calls of the segments that were
  read are returned, and no others. It makes no exception for a section that begins
  with an undeclared call: the property says that it stays and that its other calls
  are returned, which is a disagreement with the documents (see below).
- `CatalogNeverRegresses`: the comment of `RefreshModelsCatalog`.

Each property is paired in `PROJECT.json` with a mutant of the code's logic that
breaks it: dropping the idempotence guard, clamping a charge to the whole
balance, forgetting to release a hold or to save the balance, updating any row,
taking the limit before the filter, and so on.

## Fairness

`JobsTerminate` and `LockedIsRepaired` assume weak fairness of

- the worker as a whole (`WorkerStep`): `RunTaskJobWorker` loops until the
  process stops and waits for nobody else. Which job of a tick comes next is not
  assumed;
- `RecoverIncompleteJobs`: it is the first thing a started worker does;
- `TaskFinishes`: the Bridge ends every task, by its queue and execution timeouts
  (external);
- `Reconcile`: a ticker of five minutes (`tasks/llm_jobs.go:56`).

`JobsTerminate` of `ProviderJobs` assumes weak fairness of the scheduler loop, of
each goroutine (its upstream call ends: the HTTP client has a timeout), of each
handler, of time passing a queue timeout, and of a process that stops being
started again; nothing of clients or Key Owners. `DepositsAreCredited` assumes
that every processor's ticker fires and that blocks go on; `SummariesAge` that
both statistics workers' tickers do. In each of these models failures are
bounded, so the statement is *once failures stop*.

Nothing is assumed of users, aborts, retention, the passing of the submit timeout
or faults. Because the number of faults is bounded, the properties of `TaskJobs` say that jobs
end once faults stop; the code has no liveness without that, since a tick that
always fails never ends a job. In this model the rejection of a batch item, or of
a result, ends the job too, so `JobsTerminate` is about the loop and the batch
limit, not about the Bridge's goodwill.

## What is proved

### The Bridge path

For every set of users, jobs and referrals, every hold, price, deposit and reward,
any batch limit and any number of faults (assumptions `UsersJobsAssumption`,
`AmountsAssumption`, `BoundsAssumption` of `TaskJobs`):

| Theorem | Statement |
|---|---|
| `TypeCorrect` | `Spec => []TypeOK` |
| `CopiesCorrect` | `Spec => []CopiesAreGrounded` |
| `RecordsCorrect` | `Spec => []RecordedOnce` |
| `ClosedStaysClosed` | `Spec => ClosedIsFinal` |
| `LocksAreHolds` | `Spec => []LockedMatchesHolds` |
| `HoldsCovered` | `Spec => []Solvent` |
| `LedgerConsistent` | `Spec => []LedgerExplainsBalance` |
| `SuccessWasWorkedFor` | `Spec => []SuccessIsPaidWork` |
| `SubmissionsBounded` | `Spec => []SubmittedOncePerFault` |
| `NoTaskIsLost` | `Spec => []NoOrphanWithoutFault` |
| `ClosedAfterTasks` | `Spec => []ClosedJobsAreStopped` |
| `AbortedAfterTask` | `Spec => AbortedTaskIsStopped` |
| `BillingImplemented` | `Spec => ImplementsBilling` |

The argument. `TypeOK` alone is not inductive: the poll looks up
`tasks[j][tick[j].bridge]`, so the type of the answer needs that ids in copies
are ids of existing tasks, and that in turn needs the same for ids on rows and
that rows and copies only ever get such ids. That is `CopiesAreGrounded`, and
`TypeInv == TypeOK /\ CopiesAreGrounded` is inductive; it also shows that
`RecoverIncompleteJobs` has nothing to reset.

The second part compresses the actions: `NextIsDbStep` shows that, as far as
accounts and records go, a step only relabels rows, or is a deposit, a create, a
reconciliation or the *first* terminal transaction of an accepted job
(`Closes`). From there `RecordedOnce` is inductive relative to `TypeInv`, and
the three account invariants are inductive relative to both: a held row is open
and a closed row is not held, so the hold released by a closing transaction is
one of the summands of `locked`. The sums are handled with
`AmountsProofs`: `Total(f)` is the cardinality of a disjoint union of intervals,
hence `TotalUpdate`, the change of a sum by the change of one amount, follows from
the library's theorems on finite sets, with no induction.

The proofs also say that the reconciler never has anything to do in a run that
starts from clean accounts (`AccountsNext`, the `Reconcile` case).

`ClosedIsFinal` follows from the same case analysis. What concerns the Bridge's tasks
goes by a second compression, `JobStep`: what a step does to the tasks and the row of
one job and to the tick's copy of it. `AbortsKnow` is inductive over it: a row has no id
before it was submitted, so an id, once read, is the row's for good, and a task that an
abort has stopped never ends otherwise.

The refinement needs all invariants: an open job of `JobBilling` is one whose
hold is held (`RecordedOnce`), so what is promised is what is locked
(`PromisedIsLocked`); a create is then an `Accept`, and a first terminal
transaction, which leaves locked <= balance on the owner's row, is a `Close` at
an affordable price. Everything else is a `PayIn` or a stutter.

### The Provider path

For every set of consumers, jobs and keys, every hold, usage, price and token
limit, any number of slots, attempts, faults, restarts and acts of Key Owners
(assumptions `ProviderJobsAssumption`, `ProviderBoundsAssumption`; the second
contains what the start-up check of the configuration guarantees):

| Theorem | Statement |
|---|---|
| `TypeCorrect` | `Spec => [](TypeOK /\ KeysAreChosen /\ OwnersAgree)` |
| `SlotsAccounted` | `Spec => []SlotsAreHeld` |
| `RecordsCorrect` | `Spec => []RecordedOnce` |
| `HoldsCovered` | `Spec => []HoldsAreCovered` |
| `LedgersConsistent` | `Spec => []LedgersAgree` |
| `CallsCorrect` | `Spec => []NeverResubmitted` |
| `StreamsCorrect` | `Spec => []DoneIsSettled` |
| `BillingImplemented` | `Spec => ImplementsBilling` |

`TypeOK` is not inductive here either. A settlement indexes `key` with the
goroutine's current key, so a goroutine past its start must have one
(`KeysAreChosen`, which also says that a goroutine between two keys holds no
slot); a failure and a settlement expect a row that exists, so who works on a job
must agree with its row (`OwnersAgree`); and nothing may run during recovery
(`StartsEmpty`). The four together, `TypeInv`, are inductive.

Slots and rows are then treated apart. `NextIsSlotStep` reduces a step to what it
does to the slots: nothing, a holder gives one back, takes one, the scheduler
hands its slot to the goroutine it starts, or the memory is lost. `SlotsAreHeld`
follows with the cardinality of the set of holders. `NextIsRowStep` reduces it to
what it does to rows: a relabelling of unfinished jobs, an admission, a failure
or the first settlement. With `RecordedOnce`, the sums of holds, charges,
earnings and tokens each change by one summand, which `TotalUpdate` and
`RecordAdded` turn into the change of the sum. The refinement maps *open* to
*unfinished* and *paid* to the charge of the call record; failures and
settlements are both `Closes`, hence both `Close`.

What a job sent upstream, and what its client was shown, is treated job by job.
`NextIsCallStep` reduces a step to one of eleven kinds (`CallStep`: the job rests,
is prepared, claimed, ended, asks, is refused, looks for a key, switches, goes
on, is settled, or its goroutine finishes). Two things stand behind
`NeverResubmitted`. `BatchInv`: what the scheduler has loaded, and not started,
has no goroutine, so that no job runs twice in one process. `CallInv`: the keys
asked are distinct, and at most the last was not refused; while the goroutine
can still ask, all of them are in its memory of tried keys; and a job that waits
has asked none, which is why the loss of that memory in a crash is harmless.
`DoneIsSettled` follows from `StreamInv`: a job that was failed under its
goroutine has lost its subscriber, so the goroutine's last frame reaches nobody. TLC checked these invariants on 1,693,294 states.

### Deposits

For every set of wallets, networks and Transfer logs, every configuration that
`DepositsAssumption` admits and any number of faults:

| Theorem | Statement |
|---|---|
| `CursorCorrect` | `Spec => []CursorPassesHandled` |
| `OnceCorrect` | `Spec => []DepositedOnce` |
| `BalancesExplained` | `Spec => []EventsExplainBalances` |
| `RewardsCorrect` | `Spec => []RewardsAreEarned` |
| `RewardsExactOnOneNetwork` | one network implies `Spec => []RewardsCountAll` |
| `TypeCorrect` | `Spec => []TypeOK` |

The cursor is only as good as the scan before it, so the invariant `ScanInv` also
says what a scan in progress knows (`ScanOf`): its range ends at a block that is
confirmed, and every log of the range is either still to do or handled. Saving
the cursor, which needs nothing left to do, turns that into the property.
`NextIsScanStep` reduces the actions to the few things a step can do to a scan.
For the second theorem the log of an open transaction must not be among the
committed ones (`Fresh`). It is new when the transaction begins, a range has only
one next log (`NextIsUnique`), and a commit on another network is a log of that
network. No lock across networks is needed for this, which is why the model
lets transactions of two networks overlap.

Balances and rewards need to know what an open transaction knows (`OpenInv`): the
sender of its log is a user; past the read of the binding, the sender has a
referrer, which never changes; and every deposit that committed since that read is of another
wallet (its account is locked) on another network (`OthersSince`; that two open
transactions are of different wallets is `Apart`). `AccountStep` names the few kinds
of step that touch accounts. For the balances (`LedgerInv`), an event just committed
was not there before, because what an event is for is its log or the wallet it greets;
`SumEvent` turns its insertion into the change of the sum. For the rewards,
`RewardInv` says of each one which deposit it is for and which purchases it was
counted from (`Justified`, `IsPaidFor`). Purchases among the first deposits never
change (`PurchasesKept`), so what is justified stays so. `RewardGrows` is needed for the other
direction: a rate only rises with the count, so a deposit that would be rewarded
at the lowest rate is rewarded. With one network there is no other that could
have been missed, so the count is that of all purchases before the deposit:
`RewardsExactOnOneNetwork` is what the documents promise, where it is true.

### Earnings and withdrawals

For every set of users and addresses, every amount, fee, minimum and limit, any
number of requests, days and faults (assumption `WithdrawalsAssumption`):

| Theorem | Statement |
|---|---|
| `TypeCorrect` | `Spec => []TypeOK` |
| `WithdrawalsSettledOnce` | `Spec => []SettledOnce` |
| `AccountExplained` | `Spec => []LedgerExplainsAccount` |
| `DailyLimitsHold` | `Spec => []DailyLimits` |
| `WalletCovered` | `Spec => [](WalletIsCovered /\ (racing = {} => EarlierEventsAreShown))` |
| `PayoutsImplemented` | `Spec => ImplementsPayouts` |

Transactions are taken statement by statement in this model, so every invariant
has to speak of the transactions that are open. `Inv`, the inductive invariant
of the types, says what shape each has at each of its statements, that rows and
events have ids below the next one, and that a transaction past its first lock
names rows that exist. `NextIsMove`, `NextIsStep` and `StepOfTables` reduce some
twenty actions to a few moves of one transaction and what they do to the tables.

- `SettledOnce`: `Settled(w)` says of each committed row which events it has. It
  is inductive because the transaction that ends a withdrawal holds the account's
  lock from the read of the row's status to the commit.
- `LedgerExplainsAccount`: `Explained` (the account is what the events say, locked
  what pending withdrawals promise) and `Balanced` (available is what was earned
  less all withdrawals that have not failed), with the sums changed one summand at
  a time (`SumAdd`, `PromisedAdd`, `PromisedRemove`).
- `DailyLimits`: `LimitsHeld` says of an open create that what it has counted
  still leaves room (`Checked`), and that of two creates which share a benefit
  address only one can have inserted its row while the other has not counted yet
  (`Apart`). The user's half rests on the lock of the account row, the benefit
  address's on the next-key lock of the counted range: without it two requests
  pass one limit.
- `WalletIsCovered`: every prefix of the ledger covers what it promises
  (`PrefixCovered`: a withdrawal is paid for by earnings with smaller event ids),
  and the wallet has seen all events before its cursor except those that were
  uncommitted when it passed (`racing`), while what it accepts lies before the
  cursor (`Follows`). As long as none was passed so, the promise of the wallet API
  (`EarlierEventsAreShown`) is proved as well.
- `PayoutsImplemented`: each commit is one step of `Payouts` (`EarnedEarns`,
  `RequestedRequests`, `PaidPays`, `RefundedRefunds`), and everything before a
  commit is a stutter; the mapping reads only committed rows.

### Prices and requests

For every configuration the checks at start-up let through, all listings, queues,
execution times, edits and requests (`PricingAssumption`, `CachesAssumption`,
`ProjectsAssumption`, `StreamsAssumption`, `AnswersAssumption`, `RequestsAssumption`):

| Theorem | Statement |
|---|---|
| `CrynuxAdmission` | what `EnforceMinTaskFee` chooses |
| `ProviderAdmission` | what `EnforceSharedMinPriority` chooses |
| `SharedMinimumIs` | what `SharedMinPriority` returns |
| `UnitsWithinEstimate` | `CalculateProviderUnits` is at most `EstimateProviderUnits` |
| `RequestsCorrect` | `Spec => []RequestsInv` |
| `OffersCorrect` | `Spec => []PriorityIsReference` |
| `ChargesCorrect` | `Spec => []HoldCoversCharge` |
| `CatalogCorrect` | `Spec => CatalogNeverRegresses` |

A binary search is a recursive function, so what it returns is a statement about
every range. The induction theorems of the library take an operator, which the
provers cannot instantiate; `RequestsProofs` uses sets instead. A search is described
by the places where it stops, what it returns there and where it goes otherwise
(`Descends`). The least place at which something fails, which exists because
ranges shrink, shows that the function exists (`SearchExists`: pieces of it agree
and can be put together) and that what holds where it stops holds of its result
(`SearchFinds`). With the fact that fees never fall when the priority rises
(`CrynuxFeesGrow`, `ProviderAmountsGrow`: products, rounding to Gwei, the cap), this
gives `LowestPayingFinds` and `BudgetFinds`, and with these the two admissions.

`RequestsInv` has four parts. `CachesKept`: what a cache holds was listed.
`ProjectKept`: the row, and every copy a handler holds of it, is one the checks of
the API let through. `StreamKept`: a stream was confirmed only with usage.
`RequestKept` is the one the properties need: what a handler has left is a plan in
the order of its kind (`IsPlan`), and each next step says what was decided before
it (`AtStep`): no offer before the wish, an offer that is the one its own row,
wish and times call for (`IsOfferedTo`), a hold for that offer (`IsAdmitted`), a charge for
the usage that was reported and at the priority that was offered (`IsCharged`).
TLC checked it on the states of `requests`. That refreshes and edits fall
between the steps matters at each of them: the offer is shown to depend on
nothing but what the request carries (`SameOffer`).

`PriorityIsReference` then is the two admissions, seen from the hold. Both admissions
are first shown to choose from the priorities up to a top, by the Credits of fees
rounded down to Gwei. `FlooredCredits` bounds what that rounding hides: the Credits of an amount
exceed those of its whole Gwei by no more than `CreditsOfOneGwei` (`GweiReach`,
`Cancel`). So the top is a budget in the sense of the property (`FlooredBudget`), and the
exact comparison with the minimum agrees with the rounded one because the minimum is
in whole Gwei (`HasReference`). `HoldCoversCharge` is arithmetic: on a
Provider the parts that are billed add up to no more than the totals they belong to, and each
weight is at most the largest (`UnitsWithinEstimate`); on Crynux less time
costs less, but for the cap, which cuts an amount to whole Gwei only when it
exceeds the maximum: the fraction in the property is what an amount just below it keeps
(`LessIsChargedLess`).

`CatalogNeverRegresses` needs two facts that only hold together (`CatalogInv`): at
most one ticker is inside `refreshMu`, and what that one has seen of each key table
lies between the version the catalog shows and the version there is now. Without
the mutex the other ticker could move the catalog past what the first has seen.

### Streams

For every size of the buffer, number of chunks, provider and order of the
upstream, the runner and the client, and for the streams simulated from a Crynux
result (same assumptions as above; `StreamsProofs`):

| Theorem | Statement |
|---|---|
| `StreamsCorrect` | `Spec => []StreamIsWellFormed` |
| `ClientsCorrect` | `"" \notin CallIds` implies `Spec => []ClientSeesResult` |
| `ContinuedIsTold` | `Spec /\ CallsAreOnlyContinued => []ClientSeesResult` |
| `AnswersCorrect` | `Spec => []AnswerIsWhole` |

`StreamInv` relates the four places an event can be in: the message the adapter
has assembled, the outbox of its last chunk, the bounded channel, the frames
written. Most of it is said about `Coming`, the events a client has still to read:
the channel, and the outbox behind it while the client is registered. For a
client that reads, arguments that are coming follow a tool that was written or is
coming before them, and nothing comes behind the usage but the end
(`ReadingKept`). What was written satisfies the property itself (`FramesKept`).
Wherever an event of the end is, the job is as far as that event says: the usage
only after the confirmation, the end only after the settlement (`EndKept`). As
long as a client is registered, every tool of the message was written or is coming
(`ToolsTold`): this is what lets a chunk continue a tool. `Publish` then needs no
more: it moves one event from the outbox to the channel, which leaves `Coming` as
it is, or unregisters the client, after which nothing is promised about the rest;
events that are not forwarded say nothing. Simulated streams are written in one
step; that they are well formed is shown of their frames (`GeneratedKept` says
which answers can be simulated).

`ClientSeesResult` counts and concatenates. A *saying* is a text, a number of
tools, and the arguments of each; events say one, frames tell one, a message
holds one (`SaidBy`, `ToldBy`, `SaidIn`), and sayings can be put one behind another
(`Then`, with `Silence` as its unit). The invariant is one equation (`TellKept`): what
was told, then what is coming, is what the message holds. It holds as long as
the client is registered, and then while an end lies in its channel, because
all the rest of the message lies before that end. A client whose buffer overflowed before the
settlement has no end in its channel and is never written one. Each chunk adds to its message
what its events say (`ChunksOf`, case by case for OpenAI, Anthropic and Google),
writing an event moves what it says from the second summand to the first, and behind the
end only the frames are left. `FlattenSeq` is a recursive function; that it maps
a concatenation to a concatenation is shown with the set of sequences for which it does
and `AllSequences` (a set with the empty sequence that is closed under `Append` has all).

The chunk of a Google stream replaces the arguments of a call it takes for the
same one. When ids are left out that can be another call, which is the finding of
`google_calls`; then frames already written cannot be taken back, and
`ClientSeesResult` is really false. Hence the two theorems: with ids that are the
calls' own, calls are only ever continued (`IdsKept`: the ids of a message
differ, so a match is the call itself), and for any ids it holds in every behaviour in
which calls are only continued. `requests` checks the first case, `google_calls`
shows the second hypothesis violated.

`AnswerIsWhole` is about the text before it is streamed. Its invariant is short
(`AskedKept`: a request that goes on has a choice of tools that was checked and
normalized, or it was refused and gets no answer; an answer keeps to the cap on
its tokens), and most of the work is about sequences of segments. `DeclaredOf`,
the reference of the property, goes call by call; that the code's filter, which
flattens, does the same (`DeclaredIs`) is shown with `AllSequences` again. The
segments taken out of the text and those whose calls are returned are two different
sets in the code. The calls are those of all that was found (`CallsAreDeclared`),
the text lacks what begins with a declared call, and marks beside a section
of Kimi K3 (`MarksAreUnwrapped`); `AssistantIsWhole` puts them together.
`ThinkingIsStripped` cuts the flattened text at the first end of thinking. A
tool chosen by name must be a declared one for the bare object, and that is what
the check at `Receive` gives.

### Usage statistics

For every set of users, projects, models and ranges, hours and days of any
length, batches and claims of any size, any number of calls and any faults
(`UsageStatsAssumption`; `UsageStatsProofs`):

| Theorem | Statement |
|---|---|
| `SeriesCorrect` | `Spec => []SeriesCountCalls` |
| `SnapshotsCorrect` | `Spec => []SnapshotsAreCurrent` |
| `MergeShows` | what `MergeDurationDisplayBuckets` returns |
| `RankingShows` | which models `rebuildModelSnapshot` keeps |

The tables are folds: an aggregation upserts one row of four tables for each call of
its batch. `StatsInv` gives them a closed form (`Stats`): under each key lies the
tally of the aggregated calls of that key. It is inductive because `BatchApplies`
says that applying a batch to the closed form of some calls is the closed form of
these and the batch. Folds over sets come with no theorems here. `FoldIsSum` and
`FoldIsCount` show that the folds used are sums, and sums are those of `AmountsProofs`
field by field (`UseSum`), whose laws follow from cardinalities; `SetsGrow` (a family
of finite sets with the empty one that is closed under one more element has them all)
and `Least` stand in for the induction theorems. `SumByKey` exchanges a sum over
rows for one over calls.

`SeriesCountCalls` then is arithmetic of periods. The starts of hours and days are
grids (`Grid`, `GridGap`): a call lies in the hour whose start lies at most one
length before it, days are made of whole hours, and a day of a range has the
hours the query expands it to (`HoursOfDay`). A total over points is a sum over the calls of
all their hours because the points share no hour (`SeriesCount`).

`SnapshotsAreCurrent` needs more, because a refresh reads at one time and commits at
another. `SnapInv` has four parts. `WorkerInv`: the queue of the snapshot
worker holds projects with the generation they are claimed at. `ProjectRows`:
claimed never exceeds dirty. `CommitInv`: what the worker is about to commit is
current unless the project has become dirty again; if it has, the check of the
generation at the commit leaves the project unclaimed, so nothing is said of it
afterwards. `SettledInv`: a project that is neither dirty nor claimed nor lost shows
its calls. Only an aggregation changes which calls are shown, and it makes their
projects dirty (`AggregationKeepsShown`); for all other steps the calls of a
range at the time of its refresh stay what they were (`ShownSame`). The summary of a day may
be cleared only once the day has passed, and days never come back (`DaysFollow`). A
failed refresh or a crash loses the claim, which is what `lost` records. TLC checked
`SnapInv` on the 27,951 states of `usage_stats`.

What a refresh reads is right by two lemmas about data. A finite set of rows, one
per model, has a ranking, which lists each of them once (`RankingExists`, `RankingIs`), so
its first `TopN` are the best. For the histogram `FullBars` says of the merge after each bucket that its
bars are side by side, count their calls and have their share, and that the
buckets since the last bar are summed (`AbsorbKeeps`); the least bucket at which that
fails does not exist.

### Only model-checked

- The liveness properties (`SummariesAge` and those of the other runs): fairness and
  ENABLED are outside the prover's reach.
- The runs that expect a violation: their properties are false.

Every invariant and every action property of a passing run, and every refinement,
is also a theorem (`ClientSeesResult` under the hypotheses above).

## Where the documentation and the code disagree

Where a run is named, it states the promise as a property and TLC's counterexample shows
it broken. The others follow from properties that hold and say exactly what the
code does instead.

- `docs/llm-job-processing.md:168` wants no job failed and no Credits unlocked
  while the Bridge reports its task as running. `AbortRawTaskJob` decides on a
  copy. If the worker stores the Bridge id after the copy was read, the handler
  runs the failure transaction without calling the Bridge (`service/raw_task_abort.go:47`;
  in the model `AbortLoad`, `CreateTasks`, `StoreBridgeTask`, `AbortUnsubmitted`). The task then runs on without anyone looking at it:
  unfinished rows are the only ones that are polled.
- `docs/llm-job-processing.md:166` wants no Bridge task for a job whose abort was
  recorded before submission. The worker submits the batch it loaded at the start
  of the tick (`service/llm_job_worker.go:155`; `LoadBatch`, `AbortUnsubmitted`,
  `CreateTasks`). `UpdateTaskJobBridgeTask` notices and aborts the new task, once, and
  only logs a failure.

In neither case do Credits go astray: the invariants above hold in these
behaviours too, and an abort that read an id keeps line 168 (`AbortedTaskIsStopped`).

- `docs/provider-key-sharing/testing.md:221` expects *stream registry cleanup after
  every terminal path*. A job that outlives its queue timeout is failed by the
  scheduler (`service/provider_scheduler.go:107`), and one that fails before its
  call, or while it looks for another key, by its goroutine
  (`service/provider_runner.go:37`), without `Unregister` (run `provider_streams`):
  its handler waits for the client to leave.
- `provider/google.go:286` says that parallel calls of one name without ids open
  slots of their own. `google_convert.go:290` gives such calls ids made of their
  place in the chunk, so the first calls of two chunks share an id and are merged
  (run `google_calls`).
- `docs/provider-key-sharing/wallet-api.md:88` promises never to *expose a later
  event while an earlier existing event remains hidden*, and line 90 that visibility
  is stable. `ListProcessedEarningEventsForWallet` looks for gaps among the rows it
  can see (`service/earning_withdrawal.go:478`). Ids are taken when a row is inserted,
  before its transaction commits; a later id that commits first is listed, the cursor
  moves on, and the earlier event is never listed (run `earlier_events`). No
  earning is lost in the database (`LedgerExplainsAccount`); it is the wallet's copy
  that lacks it.
- `docs/deposit-processing.md:112` and the comment at `service/referral.go:285` lock
  the referrer's account *before* the purchases are counted. The plain SELECT of the
  binding at `:278` comes earlier still and fixes the snapshot, so a deposit of
  another network that commits while this one waits for the lock is not counted, and the
  reward may be that of a lower tier (run `reward_count`, a deposit each on two networks).
- `docs/credits-billing.md:256` (and `:115`, `:120`, `:201`) and the comment at
  `service/task_fee.go:260` keep the estimated Credits of a job at or below
  `auto_max_credits_per_task`. Admission converts the fee in whole Gwei
  (`task_fee.go:227`, `:295`), the job holds the Credits of the fee with its
  fraction, and where a Gwei is worth more than one Credit the hold can be above
  the maximum, by no more than the Credits of one Gwei
  (`OffersCorrect`).
- `docs/model-compatibility/architecture.md:33` lets a successful parser remove its
  matched syntax. A section that begins with an undeclared call keeps its whole text
  (`llmadapter/raw_output_parsers.go:88`, `:376`), while declared calls later in it are
  returned: they are shown as text and called, as `AnswerIsWhole` spells out.

Smaller observations made while modelling, which no run states as a property:

- `UpdateProject`, `DeleteProject` and `ResetAPIKey` save the whole row they
  loaded. Two that overlap lose one change: an update can restore the key that a
  reset has just replaced, or a project that was just deleted
  (`docs/requirements.md:89`, `:164`). `Projects` models this.
- `docs/architecture.md:82` expects at most one active code per user *in normal
  operation*. `EnsureActiveReferralCode` checks and inserts without a lock or a
  unique index, so two dashboard requests of an account without a code leave two
  active ones (`codes[w]` in `Deposits` is a set for that reason).
- A Provider call that reports a usage component without a weight cannot be priced,
  and its settlement is retried until shutdown.
- A Google stream that ends without a finish reason, and an Anthropic stream that
  ends early but cleanly, are both settled as `stop`.

## What is not modelled

- Accounts: wallet and admin sign-in, listings.
- Shared keys: creation with its upstream credential check, and listings.
- Requests: HTTP parsing and wording, the conversion of request bodies,
  `previous_response_id`, wait timeouts (504) and background polling.
- Catalog listings and cost hints (`ListModelsCatalogByID`,
  `ResolveProviderCostHints`): reads without effect.
- Upstreams that break their own streaming protocol (arguments before their tool,
  shorter or other arguments for a call with an id), and simulated streams of
  several choices.
- The grammars of the eight tool-call formats; `float64` and `big.Float` products,
  which are exact fractions here.
- Clients beyond the failures they show, reading configuration, migrations and
  scripts (I/O or one-off), encryption (out of TLC's reach).
- `FailTaskJob` and `UpdateTaskJobStatus` have no callers.

The Bridge is modelled from how `bridge/raw_task.go` and the worker use it, the
wallet from the endpoints it calls.

## Plan

Done: every module of the table above, with its runs; the theorems about both
execution paths, deposits, withdrawals, prices, requests, streams and usage
statistics, three refinements among them. Left, in this order:

1. Larger instances: three users in `Withdrawals`, two tiers in `Deposits`.
2. Shared-key creation and `previous_response_id`.
