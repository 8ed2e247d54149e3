---------------------------- MODULE ProviderJobs ----------------------------
(***************************************************************************)
(* Jobs executed with Shared API Keys of Service Providers: admission, the *)
(* scheduler, the goroutine that owns a claimed job, the process-local key *)
(* slots and live streams, settlement, shutdown and restart                *)
(* (src/service/provider_job.go, provider_scheduler.go,                    *)
(* provider_runner.go, provider_key_slots.go, provider_stream.go,          *)
(* shared_api_key.go, src/api/llm/provider_job_handler.go, src/main.go).   *)
(*                                                                         *)
(* One action is one database transaction, one operation under the lock of *)
(* the slots or of the streams, or one upstream call.  What is in memory   *)
(* (sched, runner, slots, stream) is lost when the process ends.           *)
(***************************************************************************)
EXTENDS Amounts, Sequences

CONSTANTS
  Users,          \* the consumers, users.id
  Jobs,           \* task_jobs.id of Provider jobs
  Owner,          \* Owner[j]: the consumer of j
  Hold,           \* Hold[j]: estimated Credits, task_jobs.credits_locked
  Funds,          \* Funds[u]: the balance u starts with
  Streamed,       \* the jobs whose request streams
  Ahead,          \* pairs of jobs: the first has the higher sortable_priority
  Keys,           \* shared_api_keys.id
  NoKey,          \* the key id 0 of the code: none
  Usages,         \* what a completed call can cost: records of tokens, price
  DefaultLimit,   \* provider.default_max_input_tokens / _output_tokens
  Limits,         \* what a Key Owner can set them to, 0 for NULL
  BatchLimit,     \* provider.scheduler_batch_size
  MaxSlots,       \* provider.max_concurrency_per_key
  MaxAttempts,    \* provider.max_attempts_per_job
  CooldownAfter,  \* consecutive unavailable results: 3 in the code
  Upsets,         \* of "faults" (database calls that fail or lose their reply),
                  \* "restarts" and "owner" (acts of Key Owners), those that happen
  MaxUpsets       \* bound: how many of them

\* checkProviderConfig: the limits of the scheduler and of the keys are all positive.
ProviderConfigIsChecked == {DefaultLimit, BatchLimit, MaxSlots, MaxAttempts} \subseteq Nat \ {0}

ASSUME ProviderJobsAssumption ==
  /\ IsFiniteSet(Users) /\ IsFiniteSet(Jobs) /\ IsFiniteSet(Keys)
  /\ Jobs \subseteq Nat \ {0}
  /\ Owner \in [Jobs -> Users]
  /\ Hold \in [Jobs -> Nat \ {0}]
  /\ Funds \in [Users -> Nat]
  /\ Streamed \subseteq Jobs
  /\ Ahead \subseteq Jobs \X Jobs
  /\ NoKey \notin Keys

ASSUME ProviderBoundsAssumption ==
  /\ Usages \subseteq [tokens : Nat, price : Nat]
  /\ ProviderConfigIsChecked
  /\ Limits \subseteq Nat /\ CooldownAfter \in Nat \ {0} /\ MaxUpsets \in Nat

VARIABLES
  account,  \* account[u]: the credit_accounts row of a consumer
  job,      \* job[j]: status and phase of the task_jobs row, as one word
  calls,    \* calls[j]: the task_call_records of j, with what came with them
  key,      \* key[k]: the shared_api_keys row
  income,   \* income[k]: available of the earning account of k's owner
  late,     \* the jobs older than their queue_timeout
  mode,     \* the process: "recovering", "up", "draining" or "cancelled"
  sched,    \* what the scheduler iteration holds
  runner,   \* runner[j]: the goroutine that owns j
  slots,    \* slots[k]: ProviderKeySlotManager.active
  stream,   \* stream[j]: the live subscriber and its channel
  client,   \* client[j]: the handler of the streaming request
  asked,    \* asked[j]: the keys j was sent upstream with, in order
  refused,  \* refused[j]: how many of these calls were provably unaccepted
  dropped,  \* dropped[k]: tokens that ResetSharedAPIKeyUsage forgot
  left      \* what is left of MaxUpsets

rows == <<account, job, calls>>
memory == <<sched, runner, slots, stream, client>>
upstream == <<asked, refused>>
vars == <<account, job, calls, key, income, late, mode, sched, runner, slots,
          stream, client, asked, refused, dropped, left>>

-----------------------------------------------------------------------------
(* The rows. *)

\* pending_submit jobs are "admitting" or "queued", "running" ones submitted.
Unfinished == {"admitting", "queued", "running"}
Terminal == {"completed", "failed"}
JobStates == {"none"} \cup Unfinished \cup Terminal

Records == [status : {"success", "failed"}, key : Keys \cup {NoKey},
            charge : Nat, tokens : Nat, earning : Nat]

KeyRows == [enabled : BOOLEAN, deleted : BOOLEAN, cooling : BOOLEAN,
            misses : Nat, used : Nat, limit : Nat]

JobsOf(u) == {j \in Jobs : Owner[j] = u}

\* sumHeldCreditsLockedTx over the owner's jobs.
HeldSum(u) == Total([j \in JobsOf(u) |-> IF job[j] \in Unfinished THEN Hold[j] ELSE 0])

-----------------------------------------------------------------------------
(* What is in memory. *)

\* The scheduler works on job (0: none), of the batch that is left; keys is the
\* list it read, key the one it selected, and held says whether
\* that key's slot is reserved.
Schedulers == [job : Jobs \cup {0}, batch : SUBSET Jobs, step : {"idle", "listed", "selected", "reserved"},
               keys : SUBSET Keys, key : Keys \cup {NoKey}]
NoIteration == [job |-> 0, batch |-> {}, step |-> "idle", keys |-> {}, key |-> NoKey]

\* RunProviderJob: current is currentKeyID, held heldKeyID, listed the eligible
\* keys a key switch read, next the one it selected, usage the confirmed usage.
RunnerSteps == {"idle", "starting", "executing", "refused", "switching", "listed", "selected",
                "confirmed", "unsaved", "settling", "last", "settled"}
NoUsage == [tokens |-> 0, price |-> 0]
Runners == [step : RunnerSteps, current : Keys \cup {NoKey}, held : Keys \cup {NoKey},
            tried : SUBSET Keys, listed : SUBSET Keys, next : Keys \cup {NoKey},
            usage : [tokens : Nat, price : Nat]]
NoRunner == [step |-> "idle", current |-> NoKey, held |-> NoKey, tried |-> {}, listed |-> {},
             next |-> NoKey, usage |-> NoUsage]

\* A subscriber is "open" while it is registered; its channel was closed after
\* the done event, or is "cut" short.
StreamStates == {"none", "open", "done", "cut"}
ClientSteps == {"none", "created", "registered", "unpublished", "reading", "gone"}
Modes == {"recovering", "up", "draining", "cancelled"}

TypeOK ==
  /\ account \in [Users -> Accounts]
  /\ job \in [Jobs -> JobStates]
  /\ calls \in [Jobs -> Seq(Records)]
  /\ key \in [Keys -> KeyRows]
  /\ income \in [Keys -> Nat]
  /\ late \subseteq Jobs
  /\ mode \in Modes
  /\ sched \in Schedulers
  /\ runner \in [Jobs -> Runners]
  /\ slots \in [Keys -> Nat]
  /\ stream \in [Jobs -> StreamStates]
  /\ client \in [Jobs -> ClientSteps]
  /\ asked \in [Jobs -> Seq(Keys)]
  /\ refused \in [Jobs -> Nat]
  /\ dropped \in [Keys -> Nat]
  /\ left \in Nat

Init ==
  /\ account = [u \in Users |-> [balance |-> Funds[u], locked |-> 0]]
  /\ job = [j \in Jobs |-> "none"]
  /\ calls = [j \in Jobs |-> <<>>]
  /\ key = [k \in Keys |-> [enabled |-> TRUE, deleted |-> FALSE, cooling |-> FALSE,
                            misses |-> 0, used |-> 0, limit |-> DefaultLimit]]
  /\ income = [k \in Keys |-> 0]
  /\ late = {}
  /\ mode = "up"
  /\ sched = NoIteration
  /\ runner = [j \in Jobs |-> NoRunner]
  /\ slots = [k \in Keys |-> 0]
  /\ stream = [j \in Jobs |-> "none"]
  /\ client = [j \in Jobs |-> "none"]
  /\ asked = [j \in Jobs |-> <<>>]
  /\ refused = [j \in Jobs |-> 0]
  /\ dropped = [k \in Keys |-> 0]
  /\ left = MaxUpsets

\* A fault, a restart or an act of a Key Owner is taken from the bound.
Take(upset) == upset \in Upsets /\ left > 0 /\ left' = left - 1

-----------------------------------------------------------------------------
(* Transactions on the job row and its owner's account. *)

FailureRecord == [status |-> "failed", key |-> NoKey, charge |-> 0, tokens |-> 0, earning |-> 0]

\* The writes of FailProviderTaskJob (alone, its mutant: a terminal row is not
\* left alone).
WriteFailure(j) ==
  /\ account' = [account EXCEPT ![Owner[j]] = Release(@, Hold[j])]
  /\ calls' = [calls EXCEPT ![j] = Append(@, FailureRecord)]
  /\ job' = [job EXCEPT ![j] = "failed"]

\* FailProviderTaskJob
Fail(j) == IF job[j] \in Terminal THEN UNCHANGED rows ELSE WriteFailure(j)

\* The same from a caller that ignores the error; its context may be cancelled.
FailIgnoringError(j, cancelled) ==
  \/ ~cancelled /\ Fail(j) /\ UNCHANGED left
  \/ ~cancelled /\ UNCHANGED rows /\ Take("faults")
  \/ cancelled /\ UNCHANGED <<account, job, calls, left>>

\* The success record of j for what its confirmed usage costs: the consumer's
\* debit is clamped, the Key Owner's earning is not.
SuccessRecord(j) ==
  [status |-> "success", key |-> runner[j].current,
   charge |-> ChargeOf(Release(account[Owner[j]], Hold[j]), runner[j].usage.price),
   tokens |-> runner[j].usage.tokens, earning |-> runner[j].usage.price]

\* The writes of SettleProviderTaskJob.
WriteSettlement(j) ==
  LET record == SuccessRecord(j)
      k == record.key
  IN  /\ account' = [account EXCEPT ![Owner[j]] = Debit(Release(@, Hold[j]), record.charge)]
      /\ calls' = [calls EXCEPT ![j] = Append(@, record)]
      /\ key' = [key EXCEPT ![k].used = @ + record.tokens]
      /\ income' = [income EXCEPT ![k] = @ + record.earning]
      /\ job' = [job EXCEPT ![j] = "completed"]

\* SettleProviderTaskJob.
SettleProviderTaskJob(j) ==
  IF job[j] \in Terminal \/ calls[j] # <<>> THEN UNCHANGED <<account, job, calls, key, income>>
  ELSE WriteSettlement(j)

-----------------------------------------------------------------------------
(* Slots and streams. *)

\* ProviderKeySlotManager.Reserve and Release; the goroutine holds NoKey for none.
HasSlot(k) == slots[k] < MaxSlots
Reserved(k) == [slots EXCEPT ![k] = @ + 1]
Released(k) == [i \in Keys |-> IF i = k /\ slots[i] > 0 THEN slots[i] - 1 ELSE slots[i]]

\* ProviderStreamRegistry.Unregister, which Detach is too.
Unregistered(j) == [stream EXCEPT ![j] = IF @ = "open" THEN "cut" ELSE @]

-----------------------------------------------------------------------------
(* The request handler. *)

\* Mutant of AdmissionPhase: a streaming job is visible at once.
QueuedAtOnce(j) == "queued"

\* A streaming job stays invisible to the scheduler until it is published.
AdmissionPhase(j) == IF j \in Streamed THEN "admitting" ELSE "queued"

\* Requests that were accepted before a shutdown may still create their job.
ReserveCreditsAndCreateProviderTaskJob(j) ==
  /\ mode # "recovering"
  /\ job[j] = "none"
  /\ Hold[j] <= Available(account[Owner[j]])
  /\ account' = [account EXCEPT ![Owner[j]] = Reserve(@, Hold[j])]
  /\ job' = [job EXCEPT ![j] = AdmissionPhase(j)]
  /\ client' = [client EXCEPT ![j] = IF j \in Streamed THEN "created" ELSE @]
  /\ UNCHANGED <<calls, key, income, late, mode, sched, runner, slots, stream, upstream, dropped, left>>

\* ProviderStreamRegistry.Register
Register(j) ==
  /\ client[j] = "created"
  /\ stream' = [stream EXCEPT ![j] = "open"]
  /\ client' = [client EXCEPT ![j] = "registered"]
  /\ UNCHANGED <<rows, key, income, late, mode, sched, runner, slots, upstream, dropped, left>>

\* The unguarded update to phase queued.
Publish(j) ==
  /\ client[j] = "registered"
  /\ job' = [job EXCEPT ![j] = "queued"]
  /\ client' = [client EXCEPT ![j] = "reading"]
  /\ UNCHANGED <<account, calls, key, income, late, mode, sched, runner, slots, stream, upstream, dropped, left>>

\* The update fails, or only its reply is lost; the handler unregisters first
\* and fails the job in a transaction of its own.
PublishFails(j) ==
  /\ client[j] = "registered"
  /\ Take("faults")
  /\ job' = job \/ job' = [job EXCEPT ![j] = "queued"]
  /\ stream' = Unregistered(j)
  /\ client' = [client EXCEPT ![j] = "unpublished"]
  /\ UNCHANGED <<account, calls, key, income, late, mode, sched, runner, slots, upstream, dropped>>

FailUnpublished(j) ==
  /\ client[j] = "unpublished"
  /\ FailIgnoringError(j, FALSE)
  /\ client' = [client EXCEPT ![j] = "gone"]
  /\ UNCHANGED <<key, income, late, mode, sched, runner, slots, stream, upstream, dropped>>

\* writeProviderStream: the channel was closed, after the done event or not.
StreamEnds(j) ==
  /\ client[j] = "reading" /\ stream[j] # "open"
  /\ client' = [client EXCEPT ![j] = "gone"]
  /\ UNCHANGED <<rows, key, income, late, mode, sched, runner, slots, stream, upstream, dropped, left>>

\* The client disconnects, or cannot be written to: only the subscriber goes.
Disconnect(j) ==
  /\ client[j] = "reading" /\ stream[j] = "open"
  /\ stream' = Unregistered(j)
  /\ client' = [client EXCEPT ![j] = "gone"]
  /\ UNCHANGED <<rows, key, income, late, mode, sched, runner, slots, upstream, dropped, left>>

\* ProviderStreamRegistry.Publish finds the subscriber's buffer full.
SlowSubscriber(j) ==
  /\ runner[j].step = "executing" /\ stream[j] = "open"
  /\ stream' = Unregistered(j)
  /\ UNCHANGED <<rows, key, income, late, mode, sched, runner, slots, client, upstream, dropped, left>>

-----------------------------------------------------------------------------
(* The scheduler: RunProviderScheduler and claimAndStartProviderJobs. *)

\* Time passes the queue timeout of j.
Expire(j) ==
  /\ job[j] \in Unfinished /\ j \notin late
  /\ late' = late \cup {j}
  /\ UNCHANGED <<rows, key, income, mode, memory, upstream, dropped, left>>

\* ORDER BY sortable_priority DESC, id ASC
Precedes(i, j) == <<i, j>> \in Ahead \/ (<<j, i>> \notin Ahead /\ i < j)
Queued == {j \in Jobs : job[j] = "queued"}
Batch == {j \in Queued : Cardinality({i \in Queued : Precedes(i, j)}) < BatchLimit}

\* ListEligibleSharedAPIKeys
Eligible ==
  {k \in Keys : /\ key[k].enabled /\ ~key[k].deleted /\ ~key[k].cooling
                /\ key[k].limit = 0 \/ key[k].used < key[k].limit}

\* The scheduler goes on with the next job of its batch.
Proceed == [NoIteration EXCEPT !.batch = sched.batch \ {sched.job}]
Working(j) == mode = "up" /\ sched.job = j /\ j # 0

StartIteration ==
  /\ mode = "up"
  /\ sched = NoIteration /\ Batch # {}
  /\ sched' = [sched EXCEPT !.batch = Batch]
  /\ UNCHANGED <<rows, key, income, late, mode, runner, slots, stream, client, upstream, dropped, left>>

IsNext(j) ==
  /\ mode = "up" /\ sched.step = "idle"
  /\ j \in sched.batch /\ \A i \in sched.batch \ {j} : Precedes(j, i)

\* An expired job is failed without a look at its stream.
FailExpired(j) ==
  /\ IsNext(j) /\ j \in late
  /\ FailIgnoringError(j, FALSE)
  /\ sched' = [sched EXCEPT !.batch = @ \ {j}]
  /\ UNCHANGED <<key, income, late, mode, runner, slots, stream, client, upstream, dropped>>

ListKeys(j) ==
  /\ IsNext(j) /\ j \notin late
  /\ sched' = [sched EXCEPT !.job = j, !.step = "listed", !.keys = Eligible]
  /\ UNCHANGED <<rows, key, income, late, mode, runner, slots, stream, client, upstream, dropped, left>>

\* The job does not load, and is skipped, or the keys do not, and the iteration ends.
ListingFails(j) ==
  /\ IsNext(j)
  /\ Take("faults")
  /\ sched' \in {NoIteration, [sched EXCEPT !.batch = @ \ {j}]}
  /\ UNCHANGED <<rows, key, income, late, mode, runner, slots, stream, client, upstream, dropped>>

\* SelectRandomEligibleKey without tried keys.
SelectKey(j) ==
  /\ Working(j) /\ sched.step = "listed"
  /\ \/ \E k \in sched.keys : HasSlot(k) /\ sched' = [sched EXCEPT !.step = "selected", !.key = k, !.keys = {}]
     \/ /\ \A k \in sched.keys : ~HasSlot(k)
        /\ sched' = Proceed
  /\ UNCHANGED <<rows, key, income, late, mode, runner, slots, stream, client, upstream, dropped, left>>

ReserveSlot(j) ==
  /\ Working(j) /\ sched.step = "selected"
  /\ IF HasSlot(sched.key)
     THEN slots' = Reserved(sched.key) /\ sched' = [sched EXCEPT !.step = "reserved"]
     ELSE sched' = Proceed /\ UNCHANGED slots
  /\ UNCHANGED <<rows, key, income, late, mode, runner, stream, client, upstream, dropped, left>>

\* RunProviderJob is started for a claimed job.
Started(k) == [NoRunner EXCEPT !.step = "starting", !.current = k, !.held = k, !.tried = {k}]

\* claimProviderJob commits.
Claim(j) ==
  /\ Working(j) /\ sched.step = "reserved"
  /\ job[j] = "queued" /\ j \notin late
  /\ job' = [job EXCEPT ![j] = "running"]
  /\ runner' = [runner EXCEPT ![j] = Started(sched.key)]
  /\ sched' = Proceed
  /\ UNCHANGED <<account, calls, key, income, late, mode, slots, stream, client, upstream, dropped, left>>

\* The job is no longer pending, or expired meanwhile.
ClaimRefused(j) ==
  /\ Working(j) /\ sched.step = "reserved"
  /\ job[j] # "queued" \/ j \in late
  /\ slots' = Released(sched.key)
  /\ sched' = Proceed
  /\ UNCHANGED <<rows, key, income, late, mode, runner, stream, client, upstream, dropped, left>>

\* The claim transaction fails, or commits and loses its reply.
ClaimFails(j) ==
  /\ Working(j) /\ sched.step = "reserved"
  /\ Take("faults")
  /\ \/ job' = job
     \/ (job[j] = "queued" /\ j \notin late /\ job' = [job EXCEPT ![j] = "running"])
  /\ slots' = Released(sched.key)
  /\ sched' = Proceed
  /\ UNCHANGED <<account, calls, key, income, late, mode, runner, stream, client, upstream, dropped>>

\* intakeCtx is cancelled: the calls of the iteration fail and it ends.
SchedulerStops ==
  /\ mode \in {"draining", "cancelled"} /\ sched # NoIteration
  /\ slots' = IF sched.step = "reserved" THEN Released(sched.key) ELSE slots
  /\ sched' = NoIteration
  /\ UNCHANGED <<rows, key, income, late, mode, runner, stream, client, upstream, dropped, left>>
-----------------------------------------------------------------------------
(* The goroutine: RunProviderJob. *)

At(j, step) == runner[j].step = step
Cancelled == mode = "cancelled"
To(j, step) == [runner EXCEPT ![j].step = step]

\* It returns: the deferred release gives back the slot it holds, if any.
Return(j) ==
  /\ runner' = [runner EXCEPT ![j] = NoRunner]
  /\ slots' = Released(runner[j].held)

\* The job does not load, always so once providerJobCtx is cancelled; or it is
\* terminal already.
ReturnAtLoad(j) ==
  /\ At(j, "starting")
  /\ IF Cancelled \/ job[j] \in Terminal THEN UNCHANGED left ELSE Take("faults")
  /\ Return(j)
  /\ UNCHANGED <<rows, key, income, late, mode, sched, stream, client, upstream, dropped>>

\* The upstream call starts, with the key's decrypted secret.
Execute(j) ==
  /\ At(j, "starting") /\ ~Cancelled
  /\ job[j] \notin Terminal /\ j \notin late
  /\ ~key[runner[j].current].deleted
  /\ runner' = To(j, "executing")
  /\ asked' = [asked EXCEPT ![j] = Append(@, runner[j].current)]
  /\ UNCHANGED <<rows, key, income, late, mode, sched, slots, stream, client, refused, dropped, left>>

\* Confirmed usage and a final result; ClearSharedAPIKeyUnavailable may fail.
Complete(j, usage) ==
  /\ At(j, "executing")
  /\ runner' = [runner EXCEPT ![j].step = "confirmed", ![j].usage = usage]
  /\ \/ key' = [key EXCEPT ![runner[j].current].misses = 0] /\ UNCHANGED left
     \/ UNCHANGED key /\ Take("faults")
  /\ UNCHANGED <<rows, income, late, mode, sched, slots, stream, client, upstream, dropped>>

\* RecordSharedAPIKeyUnavailable on the row.
Unavailable(row) ==
  IF row.misses + 1 >= CooldownAfter THEN [row EXCEPT !.misses = 0, !.cooling = TRUE]
  ELSE [row EXCEPT !.misses = @ + 1]

\* Definitely unaccepted, for a reason of this key, before any public output.
Refuse(j) ==
  /\ At(j, "executing") /\ ~Cancelled
  /\ runner' = To(j, "refused")
  /\ refused' = [refused EXCEPT ![j] = @ + 1]
  /\ \/ key' = [key EXCEPT ![runner[j].current] = Unavailable(@)] /\ UNCHANGED left
     \/ UNCHANGED key /\ Take("faults")
  /\ UNCHANGED <<rows, income, late, mode, sched, slots, stream, client, asked, dropped>>

\* Every iteration of the loop tried one key more.
CanSwitch(j) == Cardinality(runner[j].tried) < MaxAttempts /\ j \notin late

\* Any other outcome, or no more attempts; the failure of a job cancelled by
\* the shutdown is written under a context that is not.
FailExecution(j) ==
  /\ \/ At(j, "executing") /\ FailIgnoringError(j, FALSE)
     \/ At(j, "refused") /\ ~CanSwitch(j) /\ FailIgnoringError(j, Cancelled)
  /\ stream' = Unregistered(j)
  /\ Return(j)
  /\ UNCHANGED <<key, income, late, mode, sched, client, upstream, dropped>>

\* Mutant of LeaveKey: heldKeyID is not reset after the release.
LeaveKeyHeld(j) ==
  /\ slots' = Released(runner[j].held)
  /\ runner' = [runner EXCEPT ![j].step = "switching"]

\* The slot of the refused key is given back before another is looked for.
LeaveKey(j) ==
  /\ slots' = Released(runner[j].held)
  /\ runner' = [runner EXCEPT ![j].step = "switching", ![j].held = NoKey]

StartSwitch(j) ==
  /\ At(j, "refused") /\ CanSwitch(j)
  /\ LeaveKey(j)
  /\ UNCHANGED <<rows, key, income, late, mode, sched, stream, client, upstream, dropped, left>>

ListKeysForSwitch(j) ==
  /\ At(j, "switching") /\ ~Cancelled
  /\ runner' = [runner EXCEPT ![j].step = "listed", ![j].listed = Eligible]
  /\ UNCHANGED <<rows, key, income, late, mode, sched, slots, stream, client, upstream, dropped, left>>

\* Mutant of Candidates: tried keys are not excluded.
CandidatesWithTried(j) == {k \in runner[j].listed : HasSlot(k)}

\* SelectRandomEligibleKey
Candidates(j) == {k \in runner[j].listed \ runner[j].tried : HasSlot(k)}

SelectForSwitch(j, k) ==
  /\ At(j, "listed") /\ k \in Candidates(j)
  /\ runner' = [runner EXCEPT ![j].step = "selected", ![j].next = k, ![j].listed = {}]
  /\ UNCHANGED <<rows, key, income, late, mode, sched, slots, stream, client, upstream, dropped, left>>

\* The loop goes round with the next key.
SwitchKey(j) ==
  LET k == runner[j].next
  IN  /\ At(j, "selected") /\ HasSlot(k)
      /\ slots' = Reserved(k)
      /\ runner' = [runner EXCEPT ![j] =
           [NoRunner EXCEPT !.step = "starting", !.current = k, !.held = k, !.tried = runner[j].tried \cup {k}]]
      /\ UNCHANGED <<rows, key, income, late, mode, sched, stream, client, upstream, dropped, left>>

\* The early returns that fail the job and leave its stream registered: queue
\* timeout, key without secret, keys for a switch not listed, none left, or the
\* selected one taken by another goroutine, and results that cannot be stored.
FailQuietly(j) ==
  /\ \/ /\ At(j, "starting") /\ ~Cancelled
        /\ job[j] \notin Terminal
        /\ j \in late \/ key[runner[j].current].deleted
        /\ FailIgnoringError(j, FALSE)
     \/ At(j, "switching") /\ Cancelled /\ FailIgnoringError(j, TRUE)
     \/ At(j, "switching") /\ Take("faults") /\ Fail(j)
     \/ At(j, "listed") /\ Candidates(j) = {} /\ FailIgnoringError(j, Cancelled)
     \/ At(j, "selected") /\ ~HasSlot(runner[j].next) /\ FailIgnoringError(j, Cancelled)
     \/ At(j, "unsaved") /\ FailIgnoringError(j, FALSE)
  /\ Return(j)
  /\ UNCHANGED <<key, income, late, mode, sched, stream, client, upstream, dropped>>

\* The owner does not load, or the images or the result cannot be stored.
SaveFails(j) ==
  /\ At(j, "confirmed")
  /\ Take("faults")
  /\ runner' = To(j, "unsaved")
  /\ UNCHANGED <<rows, key, income, late, mode, sched, slots, stream, client, upstream, dropped>>

\* settleProviderJobWithRetry, an attempt that commits.
Settle(j) ==
  /\ runner[j].step \in {"confirmed", "settling", "last"}
  /\ SettleProviderTaskJob(j)
  /\ runner' = To(j, "settled")
  /\ UNCHANGED <<late, mode, sched, slots, stream, client, upstream, dropped, left>>

\* An attempt that fails, or only loses its reply; the last one is not repeated.
SettleFails(j) ==
  /\ runner[j].step \in {"confirmed", "settling", "last"}
  /\ Take("faults")
  /\ SettleProviderTaskJob(j) \/ UNCHANGED <<rows, key, income>>
  /\ IF At(j, "last") THEN Return(j) ELSE runner' = To(j, "settling") /\ UNCHANGED slots
  /\ UNCHANGED <<late, mode, sched, stream, client, upstream, dropped>>

\* providerJobCtx is cancelled while the retry waits.
LastAttempt(j) ==
  /\ At(j, "settling") /\ Cancelled
  /\ runner' = To(j, "last")
  /\ UNCHANGED <<rows, key, income, late, mode, sched, slots, stream, client, upstream, dropped, left>>

\* publishProviderJobSettlementTerminal; the done event may find a full buffer.
Finish(j) ==
  /\ At(j, "settled")
  /\ \E end \in {"done", "cut"} : stream' = [stream EXCEPT ![j] = IF @ = "open" THEN end ELSE @]
  /\ Return(j)
  /\ UNCHANGED <<rows, key, income, late, mode, sched, client, upstream, dropped, left>>

-----------------------------------------------------------------------------
(* Key Owners, and time for their keys: shared_api_key.go. *)

Alter(k, row) ==
  /\ ~key[k].deleted
  /\ key' = [key EXCEPT ![k] = row]
  /\ UNCHANGED <<rows, income, late, mode, memory, upstream>>

SetEnabled(k) ==
  /\ Take("owner")
  /\ Alter(k, [key[k] EXCEPT !.enabled = ~@])
  /\ UNCHANGED dropped

DeleteSharedAPIKey(k) ==
  /\ Take("owner")
  /\ Alter(k, [key[k] EXCEPT !.enabled = FALSE, !.deleted = TRUE])
  /\ UNCHANGED dropped

UpdateSharedAPIKeyLimits(k, limit) ==
  /\ Take("owner")
  /\ limit # key[k].limit
  /\ Alter(k, [key[k] EXCEPT !.limit = limit])
  /\ UNCHANGED dropped

ResetSharedAPIKeyUsage(k) ==
  /\ Take("owner")
  /\ key[k].used > 0
  /\ Alter(k, [key[k] EXCEPT !.used = 0])
  /\ dropped' = [dropped EXCEPT ![k] = @ + key[k].used]

\* Time passes cooldown_until.
CooldownEnds(k) ==
  /\ key[k].cooling
  /\ key' = [key EXCEPT ![k].cooling = FALSE]
  /\ UNCHANGED <<rows, income, late, mode, memory, upstream, dropped, left>>

-----------------------------------------------------------------------------
(* The process: main and gracefulShutdown. *)

\* intakeCancel
BeginShutdown ==
  /\ mode = "up"
  /\ Take("restarts")
  /\ mode' = "draining"
  /\ UNCHANGED <<rows, key, income, late, memory, upstream, dropped>>

\* The deadline: DetachAll and providerJobCancel.
ShutdownDeadline ==
  /\ mode = "draining"
  /\ mode' = "cancelled"
  /\ stream' = [j \in Jobs |-> IF stream[j] = "open" THEN "cut" ELSE stream[j]]
  /\ UNCHANGED <<rows, key, income, late, sched, runner, slots, client, upstream, dropped, left>>

LoseMemory ==
  /\ mode' = "recovering"
  /\ sched' = NoIteration
  /\ runner' = [j \in Jobs |-> NoRunner]
  /\ slots' = [k \in Keys |-> 0]
  /\ stream' = [j \in Jobs |-> "none"]
  /\ client' = [j \in Jobs |-> IF client[j] = "none" THEN "none" ELSE "gone"]
  /\ UNCHANGED <<rows, key, income, late, upstream, dropped>>

AllDone == /\ sched = NoIteration
           /\ \A j \in Jobs : At(j, "idle") /\ client[j] \in {"none", "gone"}

\* The process ends when all is done, or at most two seconds after the deadline.
Exit ==
  /\ (mode = "draining" /\ AllDone) \/ mode = "cancelled"
  /\ LoseMemory
  /\ UNCHANGED left

Crash ==
  /\ Take("restarts")
  /\ LoseMemory

\* Mutant of Prior: jobs that were never published are forgotten.
PriorRunning == {j \in Jobs : job[j] = "running"}

\* The jobs of FailPriorProcessProviderJobs.
Prior == {j \in Jobs : job[j] \in {"running", "admitting"}}

\* FailPriorProcessProviderJobs, one job; an error ends the start-up.
FailPrior(j) ==
  /\ mode = "recovering" /\ j \in Prior
  /\ Fail(j)
  /\ UNCHANGED <<key, income, late, mode, memory, upstream, dropped, left>>

\* main starts the workers and the HTTP server.
Start ==
  /\ mode = "recovering" /\ Prior = {}
  /\ mode' = "up"
  /\ UNCHANGED <<rows, key, income, late, memory, upstream, dropped, left>>

-----------------------------------------------------------------------------
SchedulerStep ==
  \/ StartIteration
  \/ SchedulerStops
  \/ \E j \in Jobs :
       FailExpired(j) \/ ListKeys(j) \/ SelectKey(j) \/ ReserveSlot(j) \/ Claim(j) \/ ClaimRefused(j)

RunnerStep(j) ==
  \/ ReturnAtLoad(j)
  \/ Execute(j)
  \/ \E usage \in Usages : Complete(j, usage)
  \/ Refuse(j)
  \/ FailExecution(j)
  \/ StartSwitch(j)
  \/ ListKeysForSwitch(j)
  \/ \E k \in Keys : SelectForSwitch(j, k)
  \/ SwitchKey(j)
  \/ FailQuietly(j)
  \/ Settle(j)
  \/ LastAttempt(j)
  \/ Finish(j)

ClientStep(j) == Register(j) \/ Publish(j) \/ FailUnpublished(j) \/ StreamEnds(j)

ProcessStep == ShutdownDeadline \/ Exit \/ Start \/ \E j \in Jobs : FailPrior(j)

OwnerStep(k) ==
  \/ SetEnabled(k)
  \/ DeleteSharedAPIKey(k)
  \/ \E limit \in Limits : UpdateSharedAPIKeyLimits(k, limit)
  \/ ResetSharedAPIKeyUsage(k)

Next ==
  \/ \E j \in Jobs : \/ ReserveCreditsAndCreateProviderTaskJob(j)
                     \/ ClientStep(j) \/ PublishFails(j) \/ Disconnect(j) \/ SlowSubscriber(j)
                     \/ Expire(j)
                     \/ RunnerStep(j) \/ SaveFails(j) \/ SettleFails(j)
                     \/ ListingFails(j) \/ ClaimFails(j)
  \/ SchedulerStep
  \/ \E k \in Keys : OwnerStep(k) \/ CooldownEnds(k)
  \/ BeginShutdown \/ Crash \/ ProcessStep

Spec == Init /\ [][Next]_vars

(***************************************************************************)
(* Fairness: the scheduler loop runs for as long as the process does, a    *)
(* goroutine goes on and its upstream call ends (the HTTP client has a     *)
(* timeout), a handler goes on, time passes, and a process that stops is   *)
(* started again.  Clients and Key Owners owe nothing.                     *)
(***************************************************************************)
Fairness ==
  /\ WF_vars(SchedulerStep)
  /\ WF_vars(ProcessStep)
  /\ \A j \in Jobs : WF_vars(RunnerStep(j)) /\ WF_vars(ClientStep(j)) /\ WF_vars(Expire(j))

FairSpec == Spec /\ Fairness

-----------------------------------------------------------------------------
(* Safety. *)

\* The slots of a key are exactly those the scheduler and the goroutines hold,
\* through failed claims, key switches and shutdown, and never above the limit:
\* none leaks (the key would become unusable) and none is released twice (it
\* would be used beyond the limit).
SlotsAreHeld ==
  \A k \in Keys :
    /\ slots[k] <= MaxSlots
    /\ slots[k] = Cardinality({j \in Jobs : runner[j].held = k})
                  + (IF sched.step = "reserved" /\ sched.key = k THEN 1 ELSE 0)

\* A consumer's locked column is the sum of the holds of the unfinished jobs,
\* and the balance covers it, whatever price a completed call comes to.
HoldsAreCovered ==
  \A u \in Users :
    /\ account[u].locked = HeldSum(u)
    /\ account[u].locked <= account[u].balance

Sum(js, field) == Total([j \in js |-> IF calls[j] = <<>> THEN 0 ELSE calls[j][1][field]])
CallsWith(k) == {j \in Jobs : calls[j] # <<>> /\ calls[j][1].key = k}

\* The consumer's balance, the Key Owner's earnings and the key's usage counter
\* tell the same story as the call records: a settlement that is retried, or
\* whose reply is lost, writes all of them once.
LedgersAgree ==
  /\ \A u \in Users : account[u].balance + Sum(JobsOf(u), "charge") = Funds[u]
  /\ \A k \in Keys :
       /\ income[k] = Sum(CallsWith(k), "earning")
       /\ key[k].used + dropped[k] = Sum(CallsWith(k), "tokens")

\* A job has one call record exactly when it is terminal, whoever ended it.
RecordedOnce ==
  \A j \in Jobs :
    /\ Len(calls[j]) <= 1
    /\ job[j] \in Terminal <=> calls[j] # <<>>
    /\ job[j] = "completed" <=> calls[j] # <<>> /\ calls[j][1].status = "success"

\* A job is never sent upstream again after a call that may have been accepted,
\* not with another key, nor by the next process; no key is tried twice; and a
\* success is recorded for the key of the call that was not refused.
NeverResubmitted ==
  \A j \in Jobs :
    /\ Len(asked[j]) <= refused[j] + 1
    /\ \A m, n \in DOMAIN asked[j] : asked[j][m] = asked[j][n] => m = n
    /\ job[j] = "completed" => /\ Len(asked[j]) = refused[j] + 1
                               /\ calls[j][1].key = asked[j][Len(asked[j])]

\* The client of a stream is told that it is done only after the settlement
\* committed, even when the request handler had failed the job meanwhile; and
\* no goroutine works on a job before its client has subscribed.
DoneIsSettled ==
  \A j \in Streamed :
    /\ stream[j] = "done" => job[j] = "completed"
    /\ client[j] \in {"created", "registered"} => At(j, "idle") /\ job[j] = "admitting"

-----------------------------------------------------------------------------
(* The promise about Credits is that of JobBilling, from any funds. *)

Billing == INSTANCE JobBilling WITH
  funds <- [u \in Users |-> account[u].balance],
  phase <- [j \in Jobs |-> IF job[j] = "none" THEN "none"
                           ELSE IF job[j] \in Unfinished THEN "open" ELSE "closed"],
  paid <- [j \in Jobs |-> IF calls[j] = <<>> THEN 0 ELSE calls[j][1].charge]

\* Every admission is covered by funds no other job was promised, and every
\* settlement, failure, retry and recovery closes its job once, at a price the
\* other jobs can afford.
ImplementsBilling == Billing!Spec

-----------------------------------------------------------------------------
(* Liveness. *)

\* Every accepted job reaches its call record, through busy, refused, deleted
\* and cooling keys, crashes and shutdowns, as long as no database call fails.
JobsTerminate == \A j \in Jobs : job[j] \in Unfinished ~> calls[j] # <<>>
=============================================================================
