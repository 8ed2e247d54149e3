------------------------------ MODULE TaskJobs ------------------------------
(***************************************************************************)
(* Task jobs executed through the Bridge: the create handlers, the worker  *)
(* that submits, polls and settles jobs, the client's abort, the Credits   *)
(* hold of every job, the reconciler of credit_accounts.locked, retention  *)
(* and restarts (src/service/llm_job.go, llm_job_worker.go,                *)
(* raw_task_job.go, raw_task_abort.go, credits_lock.go, llm_charge.go).    *)
(*                                                                         *)
(* One action is one database transaction or one exchange with the Bridge. *)
(* The worker and the abort handlers read a job first and write it later,  *)
(* so what they act on is a copy (tick, aborter) that may be stale.        *)
(***************************************************************************)
EXTENDS Amounts, Sequences

CONSTANTS
  Users,          \* users.id
  Jobs,           \* task_jobs.id, issued in increasing order
  Owner,          \* Owner[j]: the user whose project creates j
  Hold,           \* Hold[j]: estimated Credits, task_jobs.credits_locked
  RawJobs,        \* the jobs created through the Raw Task API
  Costs,          \* the Credits a finished task can compute to
  Referrals,      \* referral_bindings: pairs of an invitee and the referrer
  Deposits,       \* the Credits a deposit can bring
  Rewards,        \* the Credits a referrer can get for an invitee's deposit
  MaxDeposited,   \* bound: deposits of u stop at MaxDeposited[u] Credits
  BatchLimit,     \* taskJobBatchLimit
  MaxFaults       \* bound: crashes, lost replies and failed database calls

ASSUME UsersJobsAssumption ==
  /\ IsFiniteSet(Users)
  /\ Jobs \subseteq Nat /\ IsFiniteSet(Jobs)
  /\ RawJobs \subseteq Jobs
  /\ Owner \in [Jobs -> Users]
  /\ Referrals \subseteq Users \X Users

ASSUME AmountsAssumption ==
  /\ Hold \in [Jobs -> Nat \ {0}]
  /\ Costs \subseteq Nat
  /\ Deposits \subseteq Nat \ {0}
  /\ Rewards \subseteq Nat
  /\ MaxDeposited \in [Users -> Nat]

ASSUME BoundsAssumption ==
  /\ BatchLimit \in Nat \ {0}
  /\ MaxFaults \in Nat

VARIABLES
  account,    \* account[u]: the credit_accounts row
  deposited,  \* deposited[u]: sum of the user's inflow credit_events
  job,        \* job[j]: the task_jobs row
  calls,      \* calls[j]: statuses of the task_call_records rows of j
  charged,    \* charged[j]: sum of the task charge credit_events of j
  expired,    \* jobs older than llm.job_submit_timeout
  tasks,      \* tasks[j]: statuses of the ClientTasks the Bridge made for j
  tick,       \* tick[j]: what the running worker tick holds about j
  recovered,  \* RecoverIncompleteJobs has run in this process
  aborter,    \* aborter[j]: the abort request that is running for j
  faults      \* faults so far

db == <<account, job, calls, charged>>
vars == <<account, deposited, job, calls, charged, expired, tasks, tick,
          recovered, aborter, faults>>

-----------------------------------------------------------------------------
(* The task_jobs row. *)

InFlight == {"submitted", "in_progress"}
Unfinished == {"pending_submit"} \cup InFlight
Terminal == {"completed", "failed"}

\* bridge is bridge_client_task_id (0 for NULL); record says whether
\* task_call_record_id is set.  "none" is a row not inserted yet, "deleted"
\* one that retention removed.
Rows == [status : {"none", "deleted"} \cup Unfinished \cup Terminal,
         bridge : Nat, lock : {"none", "held", "released"}, record : BOOLEAN]

JobsOf(u) == {j \in Jobs : Owner[j] = u}

\* sumHeldCreditsLockedTx
HeldSum(u) == Total([j \in JobsOf(u) |-> IF job[j].lock = "held" THEN Hold[j] ELSE 0])

\* The steps of one job in a worker tick: "late" and "pending" before
\* CreateTasks, "created" and "rejected" after it, "inflight" before
\* GetTaskStatuses, then the answer, then "finalizing".
Answers == {"running", "success", "failed", "error"}
Submitting == {"late", "pending", "created", "rejected"}
Steps == {"idle", "inflight", "finalizing"} \cup Submitting \cup Answers
Ticks == [step : Steps, bridge : Nat]

Idle == [step |-> "idle", bridge |-> 0]
AllIdle == [j \in Jobs |-> Idle]

AbortSteps == {"idle", "loaded", "aborted"}
Aborters == [step : AbortSteps, bridge : Nat]

TypeOK ==
  /\ account \in [Users -> Accounts]
  /\ deposited \in [Users -> Nat]
  /\ job \in [Jobs -> Rows]
  /\ calls \in [Jobs -> Seq({"success", "failed"})]
  /\ charged \in [Jobs -> Nat]
  /\ expired \subseteq Jobs
  /\ tasks \in [Jobs -> Seq({"running", "success", "failed"})]
  /\ tick \in [Jobs -> Ticks]
  /\ recovered \in BOOLEAN
  /\ aborter \in [Jobs -> Aborters]
  /\ faults \in Nat

\* Nothing has happened yet, whatever the accounts hold.
NoJobs ==
  /\ deposited = [u \in Users |-> 0]
  /\ job = [j \in Jobs |-> [status |-> "none", bridge |-> 0, lock |-> "none", record |-> FALSE]]
  /\ calls = [j \in Jobs |-> <<>>]
  /\ charged = [j \in Jobs |-> 0]
  /\ expired = {}
  /\ tasks = [j \in Jobs |-> <<>>]
  /\ tick = AllIdle
  /\ recovered = FALSE
  /\ aborter = AllIdle
  /\ faults = 0

Init ==
  /\ account = [u \in Users |-> [balance |-> 0, locked |-> 0]]
  /\ NoJobs

\* A fault is taken from the budget.
Fault == faults < MaxFaults /\ faults' = faults + 1

-----------------------------------------------------------------------------
(* Transactions on the job row and its owner's account. *)

\* What a deposit of u brings to v.
Gain(u, amount, reward, v) ==
  (IF v = u THEN amount ELSE 0) + (IF <<u, v>> \in Referrals THEN reward ELSE 0)

\* ProcessDeposit without its deposits row, and the referrer's reward.
Deposit(u, amount, reward) ==
  /\ deposited[u] + amount <= MaxDeposited[u]
  /\ deposited' = [v \in Users |-> deposited[v] + Gain(u, amount, reward, v)]
  /\ account' = [v \in Users |->
       [account[v] EXCEPT !.balance = @ + Gain(u, amount, reward, v)]]
  /\ UNCHANGED <<job, calls, charged, expired, tasks, tick, recovered, aborter, faults>>

\* The row lock on the account orders the ids of one owner's jobs.
ReserveCreditsAndCreateTaskJob(j) ==
  /\ \A i \in JobsOf(Owner[j]) : i >= j => job[i].status = "none"
  /\ Hold[j] <= Available(account[Owner[j]])
  /\ account' = [account EXCEPT ![Owner[j]] = Reserve(@, Hold[j])]
  /\ job' = [job EXCEPT ![j].status = "pending_submit", ![j].lock = "held"]
  /\ UNCHANGED <<deposited, calls, charged, expired, tasks, tick, recovered, aborter, faults>>

\* Mutant of ReleaseHold: the account row is left alone.
HoldKept(j) == account[Owner[j]]

\* releaseCreditsHoldTx on the account row.
ReleaseHold(j) ==
  IF job[j].lock = "held" THEN Release(account[Owner[j]], Hold[j]) ELSE account[Owner[j]]

\* The last write of a terminal transaction.
CloseRow(j, status) ==
  [job EXCEPT ![j].status = status, ![j].record = TRUE,
              ![j].lock = IF @ = "held" THEN "released" ELSE @]

\* The writes of FailAndRecordTaskJob (alone, its mutant: no idempotence guard).
WriteFailure(j) ==
  /\ account' = [account EXCEPT ![Owner[j]] = ReleaseHold(j)]
  /\ calls' = [calls EXCEPT ![j] = Append(@, "failed")]
  /\ job' = CloseRow(j, "failed")
  /\ UNCHANGED charged

\* FailAndRecordTaskJob; the row exists, see DeleteTerminal.
FailAndRecord(j) == IF job[j].record THEN UNCHANGED db ELSE WriteFailure(j)

\* The Credits the job is charged: its own hold is released before the amount
\* is clamped to what is available.
ChargeFor(j, computed) == ChargeOf(ReleaseHold(j), computed)

\* The writes of CompleteAndSettleTaskJob and CompleteAndSettleImageTaskJob.
WriteSuccess(j, computed) ==
  /\ account' = [account EXCEPT ![Owner[j]] = Debit(ReleaseHold(j), ChargeFor(j, computed))]
  /\ calls' = [calls EXCEPT ![j] = Append(@, "success")]
  /\ charged' = [charged EXCEPT ![j] = @ + ChargeFor(j, computed)]
  /\ job' = CloseRow(j, "completed")

\* CompleteAndSettleTaskJob, CompleteAndSettleImageTaskJob.
CompleteAndSettle(j, computed) ==
  IF job[j].record THEN UNCHANGED db ELSE WriteSuccess(j, computed)

\* Mutant of Reconcile: a locked column that is too high stays.
ReconcileUpwards(u) ==
  /\ account[u].locked < HeldSum(u)
  /\ account' = [account EXCEPT ![u].locked = HeldSum(u)]
  /\ UNCHANGED <<deposited, job, calls, charged, expired, tasks, tick, recovered, aborter, faults>>

\* ReconcileCreditsLocked for one user.
Reconcile(u) ==
  /\ account[u].locked # HeldSum(u)
  /\ account' = [account EXCEPT ![u].locked = HeldSum(u)]
  /\ UNCHANGED <<deposited, job, calls, charged, expired, tasks, tick, recovered, aborter, faults>>

\* DeleteExpiredTerminalTaskJobs, one row of its batch.  Rows are kept for at
\* least a day after completed_at, so no tick or abort request, which take
\* minutes at most, still holds a copy of a row when it is deleted.
DeleteTerminal(j) ==
  /\ job[j].status \in Terminal /\ job[j].record
  /\ tick[j] = Idle /\ aborter[j] = Idle
  /\ job' = [job EXCEPT ![j].status = "deleted"]
  /\ UNCHANGED <<account, deposited, calls, charged, expired, tasks, tick, recovered, aborter, faults>>

-----------------------------------------------------------------------------
(* The worker: one tick at a time, RunTaskJobWorker and advanceTaskJobs. *)

InTick(steps) == {j \in Jobs : tick[j].step \in steps}
Clear(j) == [tick EXCEPT ![j] = Idle]

\* Time passes llm.job_submit_timeout for j.
Expire(j) ==
  /\ job[j].status \in Unfinished /\ j \notin expired
  /\ expired' = expired \cup {j}
  /\ UNCHANGED <<account, deposited, job, calls, charged, tasks, tick, recovered, aborter, faults>>

\* ResetTaskJobToPending on the incomplete rows among js.
ResetRows(js) ==
  [j \in Jobs |->
     IF j \in js /\ job[j].status \in InFlight /\ job[j].bridge = 0 /\ ~job[j].record
     THEN [job[j] EXCEPT !.status = "pending_submit", !.bridge = 0] ELSE job[j]]

RecoverIncompleteJobs ==
  /\ ~recovered
  /\ recovered' = TRUE
  /\ job' = ResetRows(Jobs)
  /\ UNCHANGED <<account, deposited, calls, charged, expired, tasks, tick, aborter, faults>>

\* An error ends the recovery half-way and is logged; the worker starts anyway.
RecoveryFails ==
  /\ ~recovered
  /\ Fault
  /\ recovered' = TRUE
  /\ \E js \in SUBSET Jobs : job' = ResetRows(js)
  /\ UNCHANGED <<account, deposited, calls, charged, expired, tasks, tick, aborter>>

Oldest(js) == {j \in js : Cardinality({i \in js : i < j}) < BatchLimit}

\* Mutant of Batch: the limit is applied before the status filter.
LimitedFirst == {j \in Oldest({i \in Jobs : job[i].status # "none"}) : job[j].status \in Unfinished}

\* ListUnfinishedTaskJobs: the BatchLimit oldest.
Batch == Oldest({j \in Jobs : job[j].status \in Unfinished})

\* Mutant of Loaded: the stored Bridge task id is not looked at.
LoadedAnew(j) ==
  IF j \in expired THEN [step |-> "late", bridge |-> 0] ELSE [step |-> "pending", bridge |-> 0]

\* What a loaded job is to the tick.
Loaded(j) ==
  IF job[j].bridge # 0 THEN [step |-> "inflight", bridge |-> job[j].bridge]
  ELSE IF j \in expired THEN [step |-> "late", bridge |-> 0]
  ELSE [step |-> "pending", bridge |-> 0]

LoadBatch ==
  /\ recovered /\ tick = AllIdle
  /\ Batch # {}
  /\ tick' = [j \in Jobs |-> IF j \in Batch THEN Loaded(j) ELSE Idle]
  /\ UNCHANGED <<account, deposited, job, calls, charged, expired, tasks, recovered, aborter, faults>>

\* failTaskJobWithRecord in the tick, after the submit timeout, a rejected
\* item of CreateTasks, or a failed or erroneous item of GetTaskStatuses.
FailJob(j) ==
  /\ tick[j].step \in {"late", "rejected", "failed", "error"}
  /\ InTick({"finalizing"}) = {}
  /\ FailAndRecord(j)
  /\ tick' = Clear(j)
  /\ UNCHANGED <<deposited, expired, tasks, recovered, aborter, faults>>

\* The Bridge makes a task for every job of accepted.
MakeTasks(accepted) ==
  tasks' = [j \in Jobs |-> IF j \in accepted THEN Append(tasks[j], "running") ELSE tasks[j]]

\* CreateTasks: one batch request for every pending job of the tick.
CreateTasks(accepted) ==
  /\ InTick({"late"}) = {}
  /\ InTick({"pending"}) # {} /\ accepted \subseteq InTick({"pending"})
  /\ MakeTasks(accepted)
  /\ tick' = [j \in Jobs |->
       IF tick[j].step # "pending" THEN tick[j]
       ELSE IF j \in accepted THEN [step |-> "created", bridge |-> Len(tasks[j]) + 1]
       ELSE [step |-> "rejected", bridge |-> 0]]
  /\ UNCHANGED <<account, deposited, job, calls, charged, expired, recovered, aborter, faults>>

\* The same, but the reply is lost: the batch is retried in a later tick.
CreateTasksReplyLost(accepted) ==
  /\ Fault
  /\ InTick({"late"}) = {}
  /\ InTick({"pending"}) # {} /\ accepted \subseteq InTick({"pending"})
  /\ MakeTasks(accepted)
  /\ tick' = [j \in Jobs |-> IF tick[j].step = "pending" THEN Idle ELSE tick[j]]
  /\ UNCHANGED <<account, deposited, job, calls, charged, expired, recovered, aborter>>

\* Mutant of StopTask: the orphan is not aborted.
TaskKept(j, k) == UNCHANGED tasks

\* The Bridge aborts its task k of j, if it runs.
StopTask(j, k) == tasks' = [tasks EXCEPT ![j][k] = IF @ = "running" THEN "failed" ELSE @]

\* Mutant of Submitted: the Bridge task id is not written.
SubmittedNoTask(j) == [job EXCEPT ![j].status = "submitted"]

\* The row once its Bridge task is stored.
Submitted(j) == [job EXCEPT ![j].bridge = tick[j].bridge, ![j].status = "submitted"]

\* UpdateTaskJobBridgeTask: a job that left pending_submit in the meantime has
\* its new Bridge task aborted; a failure of that abort is only logged.
StoreBridgeTask(j) ==
  /\ tick[j].step = "created"
  /\ tick' = Clear(j)
  /\ \/ /\ job[j].status = "pending_submit"
        /\ job' = Submitted(j)
        /\ UNCHANGED <<tasks, faults>>
     \/ /\ job[j].status # "pending_submit"
        /\ StopTask(j, tick[j].bridge)
        /\ UNCHANGED <<job, faults>>
     \/ /\ job[j].status # "pending_submit"
        /\ Fault
        /\ UNCHANGED <<job, tasks>>
  /\ UNCHANGED <<account, deposited, calls, charged, expired, recovered, aborter>>

\* Mutants of Answer: a task that ended is taken for a success, a task that has
\* not succeeded for a failure.
EndedIsSuccess(j) ==
  IF tasks[j][tick[j].bridge] = "running" THEN "running" ELSE "success"
UnfinishedIsFailure(j) ==
  IF tasks[j][tick[j].bridge] = "success" THEN "success" ELSE "failed"

\* The branch that the reported status selects.
Answer(j) == tasks[j][tick[j].bridge]

\* GetTaskStatuses: the statuses of all in-flight jobs of the tick at once; the
\* items of erroneous are errors although the task is there.
GetTaskStatuses(erroneous) ==
  /\ InTick(Submitting) = {}
  /\ InTick({"inflight"}) # {} /\ erroneous \subseteq InTick({"inflight"})
  /\ IF erroneous = {} THEN UNCHANGED faults ELSE Fault
  /\ tick' = [j \in Jobs |->
       IF tick[j].step # "inflight" THEN tick[j]
       ELSE IF j \in erroneous THEN [tick[j] EXCEPT !.step = "error"]
       ELSE [tick[j] EXCEPT !.step = Answer(j)]]
  /\ UNCHANGED <<account, deposited, job, calls, charged, expired, tasks, recovered, aborter>>

\* Mutant of Advanced: any row is updated.
AdvancedAny(j) == [job EXCEPT ![j].status = "in_progress"]

\* UpdateTaskJobPhase on the row.
Advanced(j) ==
  IF job[j].status \in InFlight THEN [job EXCEPT ![j].status = "in_progress"] ELSE job

\* The task is not terminal yet.
UpdateTaskJobPhase(j) ==
  /\ tick[j].step = "running"
  /\ InTick({"finalizing"}) = {}
  /\ job' = Advanced(j)
  /\ tick' = Clear(j)
  /\ UNCHANGED <<account, deposited, calls, charged, expired, tasks, recovered, aborter, faults>>

\* The task succeeded: phase "finalizing", then completeSuccessfulTaskJob.
Finalize(j) ==
  /\ tick[j].step = "success"
  /\ InTick({"finalizing"}) = {}
  /\ job' = Advanced(j)
  /\ tick' = [tick EXCEPT ![j].step = "finalizing"]
  /\ UNCHANGED <<account, deposited, calls, charged, expired, tasks, recovered, aborter, faults>>

\* The result was downloaded and formatted.
Settle(j, computed) ==
  /\ tick[j].step = "finalizing"
  /\ CompleteAndSettle(j, computed)
  /\ tick' = Clear(j)
  /\ UNCHANGED <<deposited, expired, tasks, recovered, aborter, faults>>

\* The result of an LLM task does not decode or cannot be formatted.
RejectResult(j) ==
  /\ tick[j].step = "finalizing"
  /\ FailAndRecord(j)
  /\ tick' = Clear(j)
  /\ UNCHANGED <<deposited, expired, tasks, recovered, aborter, faults>>

\* The download, or the settle transaction, fails: retried in the next tick.
RetryLater(j) ==
  /\ tick[j].step = "finalizing"
  /\ Fault
  /\ tick' = Clear(j)
  /\ UNCHANGED <<account, deposited, job, calls, charged, expired, tasks, recovered, aborter>>

\* A database or Bridge call returns an error and ends the tick.
TickFails ==
  /\ tick # AllIdle
  /\ Fault
  /\ tick' = AllIdle
  /\ UNCHANGED <<account, deposited, job, calls, charged, expired, tasks, recovered, aborter>>

\* The process stops and starts again.
Crash ==
  /\ Fault
  /\ tick' = AllIdle
  /\ aborter' = AllIdle
  /\ recovered' = FALSE
  /\ UNCHANGED <<account, deposited, job, calls, charged, expired, tasks>>

-----------------------------------------------------------------------------
(* AbortRawTaskJob: one request at a time per job. *)

AbortLoad(j) ==
  /\ aborter[j].step = "idle"
  /\ job[j].status \in Unfinished
  /\ aborter' = [aborter EXCEPT ![j] = [step |-> "loaded", bridge |-> job[j].bridge]]
  /\ UNCHANGED <<account, deposited, job, calls, charged, expired, tasks, tick, recovered, faults>>

\* The copy that was loaded has no Bridge task id.
AbortUnsubmitted(j) ==
  /\ aborter[j].step = "loaded" /\ aborter[j].bridge = 0
  /\ FailAndRecord(j)
  /\ aborter' = [aborter EXCEPT ![j] = Idle]
  /\ UNCHANGED <<deposited, expired, tasks, tick, recovered, faults>>

\* The Bridge reports success for a task that runs or has failed.
AbortAtBridge(j) ==
  /\ aborter[j].step = "loaded" /\ aborter[j].bridge # 0
  /\ tasks[j][aborter[j].bridge] # "success"
  /\ StopTask(j, aborter[j].bridge)
  /\ aborter' = [aborter EXCEPT ![j].step = "aborted"]
  /\ UNCHANGED <<account, deposited, job, calls, charged, expired, tick, recovered, faults>>

\* Mutant of AbortRecord: the job is failed whatever the Bridge answered.
RecordUnanswered(j) ==
  /\ aborter[j].step \in {"loaded", "aborted"} /\ aborter[j].bridge # 0
  /\ FailAndRecord(j)
  /\ aborter' = [aborter EXCEPT ![j] = Idle]
  /\ UNCHANGED <<deposited, expired, tasks, tick, recovered, faults>>

\* The second load and the failure record transaction.
AbortRecord(j) ==
  /\ aborter[j].step = "aborted"
  /\ FailAndRecord(j)
  /\ aborter' = [aborter EXCEPT ![j] = Idle]
  /\ UNCHANGED <<deposited, expired, tasks, tick, recovered, faults>>

\* The Bridge reports not_cancellable, a call of the handler fails, or its reply
\* is lost.
AbortStops(j) ==
  /\ aborter[j].step # "idle"
  /\ aborter' = [aborter EXCEPT ![j] = Idle]
  /\ UNCHANGED <<account, deposited, job, calls, charged, expired, tasks, tick, recovered, faults>>

Abort(j) ==
  \/ AbortLoad(j)
  \/ AbortUnsubmitted(j)
  \/ AbortAtBridge(j)
  \/ AbortRecord(j)
  \/ AbortStops(j)

-----------------------------------------------------------------------------
(* The Bridge. *)

TaskFinishes(j, k) ==
  /\ k \in DOMAIN tasks[j] /\ tasks[j][k] = "running"
  /\ \E status \in {"success", "failed"} : tasks' = [tasks EXCEPT ![j][k] = status]
  /\ UNCHANGED <<account, deposited, job, calls, charged, expired, tick, recovered, aborter, faults>>

-----------------------------------------------------------------------------
\* What the worker does when nothing goes wrong around it.
WorkerStep ==
  \/ LoadBatch
  \/ \E accepted \in SUBSET Jobs : CreateTasks(accepted)
  \/ GetTaskStatuses({})
  \/ \E j \in Jobs :
       \/ FailJob(j)
       \/ StoreBridgeTask(j)
       \/ UpdateTaskJobPhase(j)
       \/ Finalize(j)
       \/ \E computed \in Costs : Settle(j, computed)
       \/ RejectResult(j)

WorkerFault ==
  \/ \E accepted \in SUBSET Jobs : CreateTasksReplyLost(accepted)
  \/ \E erroneous \in SUBSET Jobs : erroneous # {} /\ GetTaskStatuses(erroneous)
  \/ \E j \in Jobs : RetryLater(j)
  \/ RecoveryFails
  \/ TickFails
  \/ Crash

Next ==
  \/ \E u \in Users, amount \in Deposits, reward \in Rewards : Deposit(u, amount, reward)
  \/ \E j \in Jobs : ReserveCreditsAndCreateTaskJob(j)
  \/ \E j \in Jobs : Expire(j)
  \/ RecoverIncompleteJobs
  \/ WorkerStep
  \/ WorkerFault
  \/ \E j \in RawJobs : Abort(j)
  \/ \E j \in Jobs : \E k \in DOMAIN tasks[j] : TaskFinishes(j, k)
  \/ \E u \in Users : Reconcile(u)
  \/ \E j \in Jobs : DeleteTerminal(j)

Spec == Init /\ [][Next]_vars

(***************************************************************************)
(* Fairness: the worker loop and the reconciler's ticker run for as long   *)
(* as the process does, a started process recovers, and the Bridge ends    *)
(* every task (its own queue and execution timeouts).  Nothing obliges     *)
(* users, aborts, retention or faults to happen.                           *)
(***************************************************************************)
Fairness ==
  /\ WF_vars(RecoverIncompleteJobs)
  /\ WF_vars(WorkerStep)
  /\ \A j \in Jobs : \A k \in 1..(MaxFaults + 1) : WF_vars(TaskFinishes(j, k))
  /\ \A u \in Users : WF_vars(Reconcile(u))

FairSpec == Spec /\ Fairness

-----------------------------------------------------------------------------
(* Safety. *)

\* credit_accounts.locked is always the sum of the holds of the user's jobs:
\* no interleaving of create, settle, fail and abort leaves a hold without a
\* job, releases one twice, or gives the reconciler anything to correct.
LockedMatchesHolds == \A u \in Users : account[u].locked = HeldSum(u)

\* The holds are always covered by the balance: a charge never takes Credits
\* that are locked for another unfinished job of the user.
Solvent == \A u \in Users : account[u].locked <= account[u].balance

\* The ledger explains the balance: it is what was paid in less the task
\* charges recorded for the user's jobs, and a charge is recorded at most once.
LedgerExplainsBalance ==
  \A u \in Users :
    deposited[u] = account[u].balance + Total([j \in JobsOf(u) |-> charged[j]])

\* A job is recorded once and by one transaction: whoever of the worker, a
\* retry and an abort comes first writes the only call record, releases the
\* hold and makes the row terminal, all or nothing; only a success is charged.
RecordedOnce ==
  \A j \in Jobs :
    /\ Len(calls[j]) <= 1
    /\ job[j].record <=> calls[j] # <<>>
    /\ job[j].status = "none" <=> job[j].lock = "none"
    /\ job[j].status \in Unfinished <=> job[j].lock = "held"
    /\ job[j].status \in Terminal \cup {"deleted"} <=> job[j].record
    /\ job[j].status = "completed" => calls[j] = <<"success">>
    /\ job[j].status = "failed" => calls[j] = <<"failed">>
    /\ charged[j] > 0 => calls[j] = <<"success">>

\* Only work the Bridge finished is paid for: a job has a success record only
\* if the ClientTask stored on its row succeeded, whatever stale status the
\* worker settles from and whatever the client aborted meanwhile.
SuccessIsPaidWork ==
  \A j \in Jobs :
    calls[j] = <<"success">> =>
      /\ job[j].bridge \in DOMAIN tasks[j]
      /\ tasks[j][job[j].bridge] = "success"

\* Every copy is grounded: an in-flight row names a Bridge task (so the reset
\* that RecoverIncompleteJobs does at start never discards one), every id on a
\* row, in a tick or in an abort request is that of a task the Bridge made for
\* this very job, and a row that a tick or a request still holds is not gone.
CopiesAreGrounded ==
  \A j \in Jobs :
    /\ job[j].status \in InFlight => job[j].bridge # 0
    /\ job[j].bridge # 0 => job[j].bridge \in DOMAIN tasks[j]
    /\ tick[j].step \in {"created", "inflight", "finalizing"} \cup Answers =>
         tick[j].bridge \in DOMAIN tasks[j]
    /\ aborter[j].step # "idle" /\ aborter[j].bridge # 0 =>
         aborter[j].bridge \in DOMAIN tasks[j]
    /\ tick[j].step # "idle" \/ aborter[j].step # "idle" =>
         job[j].status \notin {"none", "deleted"}

\* CreateTasks is not idempotent: the Bridge makes a further ClientTask of the
\* same job only when a fault came between a CreateTasks and the row update.
SubmittedOncePerFault == \A j \in Jobs : Len(tasks[j]) <= 1 + faults

\* Without faults no ClientTask runs that Crynux AS has lost track of: a
\* running one is named by its row, or by the reply the tick is working on.
NoOrphanWithoutFault ==
  faults = 0 =>
    \A j \in Jobs : \A k \in DOMAIN tasks[j] :
      tasks[j][k] = "running" =>
        \/ job[j].bridge = k
        \/ tick[j] = [step |-> "created", bridge |-> k]

\* A job no client can abort, and that met no fault, is only closed once none
\* of its ClientTasks runs any more.
ClosedJobsAreStopped ==
  \A j \in Jobs \ RawJobs :
    faults = 0 /\ calls[j] # <<>> => \A k \in DOMAIN tasks[j] : tasks[j][k] # "running"

\* A closed job stays as it is: no late phase update, retry or second settle
\* reopens the row, adds a record or charges again.
ClosedIsFinal ==
  [][\A j \in Jobs :
       calls[j] # <<>> =>
         /\ calls'[j] = calls[j] /\ charged'[j] = charged[j]
         /\ job'[j].status \in {job[j].status, "deleted"}
         /\ job'[j].bridge = job[j].bridge]_vars

\* An abort request that knew a Bridge task closes the job only when the task on
\* the row has been stopped: it neither runs nor has succeeded, whatever the
\* worker stored, polled or began to settle since the request read its copy.
\* (A request whose copy had no id yet asks nobody, see README.md.)
AbortedTaskIsStopped ==
  [][\A j \in Jobs :
       /\ aborter[j].step # "idle" /\ aborter[j].bridge # 0
       /\ aborter'[j].step = "idle" /\ calls'[j] # calls[j]
       => tasks[j][job[j].bridge] = "failed"]_vars

-----------------------------------------------------------------------------
(* The promise about Credits. *)

BillingPhase(j) ==
  IF job[j].status = "none" THEN "none"
  ELSE IF calls[j] = <<>> THEN "open" ELSE "closed"

Billing == INSTANCE JobBilling WITH
  funds <- [u \in Users |-> account[u].balance],
  phase <- [j \in Jobs |-> BillingPhase(j)],
  paid <- charged

\* Every create is covered by unpromised funds, and every settlement, failure,
\* abort and retry closes the job once at a price the other jobs can afford.
ImplementsBilling == Billing!Spec

-----------------------------------------------------------------------------
(* Liveness. *)

\* Every accepted job reaches a call record and gives its hold back, however
\* long the batch of older jobs and however the faults fall.
JobsTerminate ==
  \A j \in Jobs : job[j].status = "pending_submit" ~> calls[j] # <<>>

\* A locked column that disagrees with the holds is repaired for good, while
\* creates and settlements go on.
LockedIsRepaired == <>[]LockedMatchesHolds
=============================================================================
