--------------------------- MODULE TaskJobsProofs ---------------------------
(***************************************************************************)
(* Theorems about TaskJobs, for every set of users and jobs, every amount  *)
(* and every number of faults.                                             *)
(***************************************************************************)
EXTENDS TaskJobs, AmountsProofs, SequenceTheorems

TaskStatuses == {"running", "success", "failed"}

-----------------------------------------------------------------------------
(* What a step does to the Bridge's tasks. *)

\* Tasks are only added, or change their status.
TasksGrow ==
  /\ tasks' \in [Jobs -> Seq(TaskStatuses)]
  /\ \A j \in Jobs : DOMAIN tasks[j] \subseteq DOMAIN tasks'[j]

\* CreateTasks gives every accepted job a task with the next number.
LEMMA MakeTasksGrow ==
  ASSUME tasks \in [Jobs -> Seq(TaskStatuses)], NEW accepted \in SUBSET Jobs,
         MakeTasks(accepted)
  PROVE  /\ TasksGrow
         /\ \A j \in accepted : Len(tasks[j]) + 1 \in DOMAIN tasks'[j]
<1>1. ASSUME NEW j \in Jobs
      PROVE  /\ tasks'[j] \in Seq(TaskStatuses)
             /\ DOMAIN tasks[j] \subseteq DOMAIN tasks'[j]
             /\ j \in accepted => Len(tasks[j]) + 1 \in DOMAIN tasks'[j]
  <2>1. tasks[j] \in Seq(TaskStatuses) /\ DOMAIN tasks[j] = 1..Len(tasks[j])
    BY LenProperties
  <2>2. CASE j \in accepted
    <3>1. tasks'[j] = Append(tasks[j], "running")
      BY <2>2 DEF MakeTasks
    <3>2. /\ tasks'[j] \in Seq(TaskStatuses)
          /\ Len(tasks'[j]) = Len(tasks[j]) + 1
      BY <2>1, <3>1 DEF TaskStatuses
    <3>3. DOMAIN tasks'[j] = 1..(Len(tasks[j]) + 1) /\ Len(tasks[j]) \in Nat
      BY <2>1, <3>2, LenProperties
    <3> QED
      BY <2>1, <3>2, <3>3
  <2>3. CASE j \notin accepted
    BY <2>1, <2>3 DEF MakeTasks
  <2> QED
    BY <2>2, <2>3
<1>2. tasks' \in [Jobs -> Seq(TaskStatuses)]
  BY <1>1 DEF MakeTasks
<1> QED
  BY <1>1, <1>2 DEF TasksGrow

\* A task that changes its status stays the task it was.
LEMMA SetTaskGrows ==
  ASSUME tasks \in [Jobs -> Seq(TaskStatuses)],
         NEW j \in Jobs, NEW k \in DOMAIN tasks[j], NEW status \in TaskStatuses,
         tasks' = [tasks EXCEPT ![j][k] = status]
  PROVE  TasksGrow
<1> DEFINE t == [tasks[j] EXCEPT ![k] = status]
<1>1. tasks' = [tasks EXCEPT ![j] = t]
  OBVIOUS
<1>2. tasks[j] \in Seq(TaskStatuses) /\ k \in 1..Len(tasks[j])
  BY LenProperties
<1>3. t \in Seq(TaskStatuses) /\ DOMAIN t = DOMAIN tasks[j]
  BY <1>2, ExceptSeq
<1> QED
  BY <1>1, <1>3 DEF TasksGrow

\* So does one that the Bridge is asked to abort.
LEMMA StopTaskGrows ==
  ASSUME tasks \in [Jobs -> Seq(TaskStatuses)],
         NEW j \in Jobs, NEW k \in DOMAIN tasks[j], StopTask(j, k)
  PROVE  TasksGrow
<1> DEFINE status == IF tasks[j][k] = "running" THEN "failed" ELSE tasks[j][k]
<1>1. tasks' = [tasks EXCEPT ![j][k] = status]
  BY DEF StopTask
<1>2. tasks[j][k] \in TaskStatuses
  BY ElementOfSeq, LenProperties
<1>3. status \in TaskStatuses
  BY <1>2 DEF TaskStatuses
<1> QED
  BY <1>1, <1>3, SetTaskGrows

-----------------------------------------------------------------------------
(* What a terminal transaction does to the database. *)

DbTyped ==
  /\ account' \in [Users -> Accounts]
  /\ job' \in [Jobs -> Rows]
  /\ calls' \in [Jobs -> Seq({"success", "failed"})]
  /\ charged' \in [Jobs -> Nat]

\* No row loses its Bridge task id, goes in flight, appears or vanishes.
RowsKept ==
  \A i \in Jobs :
    /\ job'[i].bridge = job[i].bridge
    /\ job'[i].status \in InFlight => job[i].status \in InFlight
    /\ job[i].status \notin {"none", "deleted"} => job'[i].status \notin {"none", "deleted"}

\* Releasing a hold leaves an account row, with the same balance.
LEMMA ReleaseHoldTyped ==
  ASSUME TypeOK, NEW j \in Jobs
  PROVE  ReleaseHold(j) \in Accounts
BY UsersJobsAssumption, AmountsAssumption, ReleaseTyped DEF TypeOK, ReleaseHold

\* Closing a row leaves a row, with the same Bridge task.
LEMMA CloseRowTyped ==
  ASSUME TypeOK, NEW j \in Jobs, NEW status \in Terminal, job' = CloseRow(j, status)
  PROVE  job' \in [Jobs -> Rows] /\ RowsKept
<1> DEFINE r == [job[j] EXCEPT !.status = status, !.record = TRUE,
                   !.lock = IF @ = "held" THEN "released" ELSE @]
<1>1. job' = [job EXCEPT ![j] = r]
  BY DEF CloseRow
<1>2. job[j] \in Rows
  BY DEF TypeOK
<1>3. r \in Rows /\ r.status = status /\ r.bridge = job[j].bridge
  BY <1>2 DEF Rows
<1>4. status \notin InFlight /\ status \notin {"none", "deleted"}
  BY DEF Terminal, InFlight
<1> HIDE DEF r
<1> QED
  BY <1>1, <1>3, <1>4 DEF TypeOK, RowsKept

\* A further call record is a call record.
LEMMA AppendCall ==
  ASSUME TypeOK, NEW j \in Jobs, NEW status \in {"success", "failed"},
         calls' = [calls EXCEPT ![j] = Append(@, status)]
  PROVE  calls' \in [Jobs -> Seq({"success", "failed"})]
<1>1. Append(calls[j], status) \in Seq({"success", "failed"})
  BY DEF TypeOK
<1> QED
  BY <1>1 DEF TypeOK

\* The failure transaction keeps the database well-typed.
LEMMA FailAndRecordTyped ==
  ASSUME TypeOK, NEW j \in Jobs, FailAndRecord(j)
  PROVE  DbTyped /\ RowsKept
<1>1. CASE UNCHANGED db
  BY <1>1 DEF TypeOK, db, DbTyped, RowsKept
<1>2. CASE WriteFailure(j)
  <2>1. job' \in [Jobs -> Rows] /\ RowsKept
    BY <1>2, CloseRowTyped DEF WriteFailure, Terminal
  <2>2. calls' \in [Jobs -> Seq({"success", "failed"})]
    BY <1>2, AppendCall DEF WriteFailure
  <2>3. account' \in [Users -> Accounts]
    BY <1>2, ReleaseHoldTyped DEF WriteFailure, TypeOK
  <2> QED
    BY <1>2, <2>1, <2>2, <2>3 DEF WriteFailure, DbTyped, TypeOK
<1> QED
  BY <1>1, <1>2 DEF FailAndRecord

\* The settle transaction keeps the database well-typed: what it charges is
\* covered by the balance.
LEMMA CompleteAndSettleTyped ==
  ASSUME TypeOK, NEW j \in Jobs, NEW computed \in Costs, CompleteAndSettle(j, computed)
  PROVE  DbTyped /\ RowsKept
<1>1. CASE UNCHANGED db
  BY <1>1 DEF TypeOK, db, DbTyped, RowsKept
<1>2. CASE WriteSuccess(j, computed)
  <2>1. job' \in [Jobs -> Rows] /\ RowsKept
    BY <1>2, CloseRowTyped DEF WriteSuccess, Terminal
  <2>2. calls' \in [Jobs -> Seq({"success", "failed"})]
    BY <1>2, AppendCall DEF WriteSuccess
  <2>3. ChargeFor(j, computed) \in Nat /\ ChargeFor(j, computed) <= ReleaseHold(j).balance
    BY ReleaseHoldTyped, ChargeBounds, AmountsAssumption DEF ChargeFor
  <2>4. Debit(ReleaseHold(j), ChargeFor(j, computed)) \in Accounts
    BY <2>3, ReleaseHoldTyped, DebitTyped
  <2>5. account' \in [Users -> Accounts]
    BY <1>2, <2>4 DEF WriteSuccess, TypeOK
  <2>6. charged' \in [Jobs -> Nat]
    BY <1>2, <2>3 DEF WriteSuccess, TypeOK
  <2> QED
    BY <2>1, <2>2, <2>5, <2>6 DEF DbTyped
<1> QED
  BY <1>1, <1>2 DEF CompleteAndSettle

-----------------------------------------------------------------------------
(* Type correctness, with what it rests on. *)

TypeInv == TypeOK /\ CopiesAreGrounded

\* The invariant holds before anything has happened.
LEMMA TypeInit == Init => TypeInv
<1> SUFFICES ASSUME Init PROVE TypeInv
  OBVIOUS
<1>1. <<>> \in Seq({"success", "failed"}) /\ <<>> \in Seq({"running", "success", "failed"})
  BY EmptySeq
<1>2. TypeOK
  BY <1>1 DEF Init, NoJobs, TypeOK, Accounts, Rows, Ticks, Steps, Aborters, AbortSteps, AllIdle, Idle
<1>3. CopiesAreGrounded
  BY DEF Init, NoJobs, CopiesAreGrounded, AllIdle, Idle, InFlight, Answers
<1> QED
  BY <1>2, <1>3 DEF TypeInv

\* What a deposit brings to a user is an amount.
LEMMA GainTyped ==
  ASSUME NEW u \in Users, NEW amount \in Deposits, NEW reward \in Rewards, NEW v \in Users
  PROVE  Gain(u, amount, reward, v) \in Nat
BY AmountsAssumption DEF Gain

\* Steps outside the worker and the abort requests.
LEMMA TypeEnvironment ==
  ASSUME TypeInv
  PROVE  /\ \A u \in Users, amount \in Deposits, reward \in Rewards :
              Deposit(u, amount, reward) => TypeInv'
         /\ \A j \in Jobs : ReserveCreditsAndCreateTaskJob(j) => TypeInv'
         /\ \A j \in Jobs : Expire(j) => TypeInv'
         /\ \A j \in Jobs : DeleteTerminal(j) => TypeInv'
         /\ \A j \in Jobs, k \in Nat : TaskFinishes(j, k) => TypeInv'
         /\ \A u \in Users : Reconcile(u) => TypeInv'
<1>1. ASSUME NEW u \in Users, NEW amount \in Deposits, NEW reward \in Rewards,
             Deposit(u, amount, reward)
      PROVE  TypeInv'
  <2>1a. account' \in [Users -> Accounts]
    <3>1. ASSUME NEW v \in Users PROVE account'[v] \in Accounts
      <4>1. account[v] \in Accounts /\ Gain(u, amount, reward, v) \in Nat
        BY GainTyped DEF TypeInv, TypeOK
      <4>2. account'[v] = [account[v] EXCEPT !.balance = @ + Gain(u, amount, reward, v)]
        BY <1>1 DEF Deposit
      <4> QED
        BY <4>1, <4>2 DEF Accounts
    <3> QED
      BY <1>1, <3>1 DEF Deposit
  <2>1b. deposited' \in [Users -> Nat]
    BY <1>1, GainTyped DEF TypeInv, TypeOK, Deposit
  <2>1. TypeOK'
    BY <1>1, <2>1a, <2>1b DEF TypeInv, TypeOK, Deposit
  <2>2. CopiesAreGrounded'
    BY <1>1 DEF TypeInv, Deposit, CopiesAreGrounded
  <2> QED
    BY <2>1, <2>2 DEF TypeInv
<1>2. ASSUME NEW j \in Jobs, ReserveCreditsAndCreateTaskJob(j) PROVE TypeInv'
  <2>1. Owner[j] \in Users /\ Hold[j] \in Nat /\ j \in JobsOf(Owner[j]) /\ j >= j
    BY UsersJobsAssumption, AmountsAssumption DEF JobsOf
  <2>2. Reserve(account[Owner[j]], Hold[j]) \in Accounts
    BY <2>1, ReserveTyped DEF TypeInv, TypeOK
  <2>3. job' \in [Jobs -> Rows]
    <3> DEFINE r == [job[j] EXCEPT !.status = "pending_submit", !.lock = "held"]
    <3>1. r \in Rows
      BY DEF TypeInv, TypeOK, Rows, Unfinished
    <3>2. job' = [job EXCEPT ![j] = r]
      BY <1>2 DEF ReserveCreditsAndCreateTaskJob
    <3> QED
      BY <3>1, <3>2 DEF TypeInv, TypeOK
  <2>4. TypeOK'
    BY <1>2, <2>1, <2>2, <2>3 DEF TypeInv, TypeOK, ReserveCreditsAndCreateTaskJob
  <2>5. CopiesAreGrounded'
    BY <1>2, <2>1 DEF TypeInv, TypeOK, ReserveCreditsAndCreateTaskJob, CopiesAreGrounded, InFlight
  <2> QED
    BY <2>4, <2>5 DEF TypeInv
<1>3. ASSUME NEW j \in Jobs, Expire(j) PROVE TypeInv'
  BY <1>3 DEF TypeInv, TypeOK, Expire, CopiesAreGrounded
<1>4. ASSUME NEW j \in Jobs, DeleteTerminal(j) PROVE TypeInv'
  <2>1. TypeOK'
    BY <1>4 DEF TypeInv, TypeOK, DeleteTerminal, Rows
  <2>2. CopiesAreGrounded'
    BY <1>4 DEF TypeInv, TypeOK, DeleteTerminal, CopiesAreGrounded, InFlight, Idle
  <2> QED
    BY <2>1, <2>2 DEF TypeInv
<1>5. ASSUME NEW j \in Jobs, NEW k \in Nat, TaskFinishes(j, k) PROVE TypeInv'
  <2>1. TasksGrow
    BY <1>5, SetTaskGrows DEF TypeInv, TypeOK, TaskFinishes, TaskStatuses
  <2> QED
    BY <1>5, <2>1 DEF TypeInv, TypeOK, TaskFinishes, CopiesAreGrounded, TasksGrow, TaskStatuses
<1>6. ASSUME NEW u \in Users, Reconcile(u) PROVE TypeInv'
  <2>1. HeldSum(u) \in Nat
    <3>1. IsFiniteSet(JobsOf(u))
      BY UsersJobsAssumption, FS_Subset DEF JobsOf
    <3>2. [j \in JobsOf(u) |-> IF job[j].lock = "held" THEN Hold[j] ELSE 0] \in [JobsOf(u) -> Nat]
      BY AmountsAssumption DEF JobsOf
    <3> QED
      BY <3>1, <3>2, TotalBounds DEF HeldSum
  <2>2. TypeOK'
    BY <1>6, <2>1 DEF TypeInv, TypeOK, Reconcile, Accounts
  <2>3. CopiesAreGrounded'
    BY <1>6 DEF TypeInv, Reconcile, CopiesAreGrounded
  <2> QED
    BY <2>2, <2>3 DEF TypeInv
<1> QED
  BY <1>1, <1>2, <1>3, <1>4, <1>5, <1>6

\* Abort requests.
LEMMA TypeAbort ==
  ASSUME TypeInv, NEW j \in Jobs, Abort(j)
  PROVE  TypeInv'
<1> USE DEF TypeInv
<1>1. CASE AbortLoad(j)
  <2>1. [step |-> "loaded", bridge |-> job[j].bridge] \in Aborters
    BY DEF TypeOK, Rows, Aborters, AbortSteps
  <2>2. TypeOK'
    BY <1>1, <2>1 DEF TypeOK, AbortLoad
  <2>3. CopiesAreGrounded'
    BY <1>1, <2>1 DEF TypeOK, AbortLoad, CopiesAreGrounded, Unfinished, InFlight
  <2> QED
    BY <2>2, <2>3
<1>2. ASSUME FailAndRecord(j), aborter' = [aborter EXCEPT ![j] = Idle],
             UNCHANGED <<deposited, expired, tasks, tick, recovered, faults>>
      PROVE  TypeInv'
  <2>1. DbTyped /\ RowsKept
    BY <1>2, FailAndRecordTyped
  <2>2. Idle \in Aborters
    BY DEF Idle, Aborters, AbortSteps
  <2>3. TypeOK'
    BY <1>2, <2>1, <2>2 DEF TypeOK, DbTyped
  <2>4. CopiesAreGrounded'
    BY <1>2, <2>1 DEF TypeOK, CopiesAreGrounded, RowsKept, Idle
  <2> QED
    BY <2>3, <2>4
<1>3. CASE AbortUnsubmitted(j)
  BY <1>2, <1>3 DEF AbortUnsubmitted
<1>4. CASE AbortRecord(j)
  BY <1>2, <1>4 DEF AbortRecord
<1>5. CASE AbortAtBridge(j)
  <2>1. aborter[j].bridge \in DOMAIN tasks[j]
    BY <1>5 DEF AbortAtBridge, CopiesAreGrounded
  <2>2. TasksGrow
    BY <1>5, <2>1, StopTaskGrows DEF AbortAtBridge, TypeOK, TaskStatuses
  <2> DEFINE a == [aborter[j] EXCEPT !.step = "aborted"]
  <2>3. aborter' = [aborter EXCEPT ![j] = a]
    BY <1>5 DEF AbortAtBridge
  <2>4. a \in Aborters /\ a.bridge = aborter[j].bridge
    <3>1. aborter[j] \in Aborters
      BY DEF TypeOK
    <3> QED
      BY <3>1 DEF Aborters, AbortSteps
  <2> HIDE DEF a
  <2>4a. aborter' \in [Jobs -> Aborters]
    BY <2>3, <2>4 DEF TypeOK
  <2>4b. tasks' \in [Jobs -> Seq({"running", "success", "failed"})]
    BY <2>2 DEF TasksGrow, TaskStatuses
  <2>5. TypeOK'
    BY <1>5, <2>4a, <2>4b DEF TypeOK, AbortAtBridge
  <2>7. CopiesAreGrounded'
    BY <1>5, <2>1, <2>2, <2>3, <2>4 DEF TypeOK, AbortAtBridge, CopiesAreGrounded, TasksGrow
  <2> QED
    BY <2>5, <2>7
<1>6. CASE AbortStops(j)
  <2>1. Idle \in Aborters
    BY DEF Idle, Aborters, AbortSteps
  <2>2. TypeOK'
    BY <1>6, <2>1 DEF TypeOK, AbortStops
  <2>3. CopiesAreGrounded'
    BY <1>6 DEF TypeOK, AbortStops, CopiesAreGrounded, Idle
  <2> QED
    BY <2>2, <2>3
<1> QED
  BY <1>1, <1>3, <1>4, <1>5, <1>6 DEF Abort

\* The job of a tick is done with.
LEMMA ClearTyped ==
  ASSUME TypeOK
  PROVE  /\ Idle \in Ticks /\ AllIdle \in [Jobs -> Ticks]
         /\ \A j \in Jobs : Clear(j) \in [Jobs -> Ticks]
BY DEF TypeOK, Clear, Idle, AllIdle, Ticks, Steps

\* The tick goes idle, for some jobs or for all, and the transaction it ran
\* only touches the database.
LEMMA TypeTickEnds ==
  ASSUME TypeInv, DbTyped, RowsKept,
         \/ tick' = AllIdle
         \/ \E j \in Jobs : tick' = Clear(j),
         aborter' \in {aborter, AllIdle}, recovered' \in BOOLEAN, faults' \in Nat,
         UNCHANGED <<deposited, expired, tasks>>
  PROVE  TypeInv'
<1>1. tick' \in [Jobs -> Ticks]
  BY ClearTyped DEF TypeInv
<1>2. AllIdle \in [Jobs -> Aborters]
  BY DEF AllIdle, Idle, Aborters, AbortSteps
<1>3. TypeOK'
  BY <1>1, <1>2 DEF TypeInv, TypeOK, DbTyped
<1>4. ASSUME NEW i \in Jobs
      PROVE  /\ tick'[i] = tick[i] \/ tick'[i].step = "idle"
             /\ aborter'[i] = aborter[i] \/ aborter'[i].step = "idle"
  BY DEF TypeInv, TypeOK, AllIdle, Clear, Idle
<1>5. CopiesAreGrounded'
  BY <1>4 DEF TypeInv, CopiesAreGrounded, RowsKept, Answers
<1> QED
  BY <1>3, <1>5 DEF TypeInv

\* No write, no change of the rows.
LEMMA DbUnchanged ==
  ASSUME TypeOK, UNCHANGED db
  PROVE  DbTyped /\ RowsKept
BY DEF TypeOK, db, DbTyped, RowsKept

\* Worker steps that close a job, give it up until the next tick, or end.
LEMMA TypeWorkerEnds ==
  ASSUME TypeInv
  PROVE  /\ \A j \in Jobs : FailJob(j) => TypeInv'
         /\ \A j \in Jobs, computed \in Costs : Settle(j, computed) => TypeInv'
         /\ \A j \in Jobs : RejectResult(j) => TypeInv'
         /\ \A j \in Jobs : RetryLater(j) => TypeInv'
         /\ TickFails => TypeInv'
         /\ Crash => TypeInv'
<1>0. /\ TypeOK
      /\ recovered \in BOOLEAN /\ faults \in Nat
  BY DEF TypeInv, TypeOK
<1>1. ASSUME NEW j \in Jobs, FailJob(j) PROVE TypeInv'
  <2>1. DbTyped /\ RowsKept
    BY <1>0, <1>1, FailAndRecordTyped DEF FailJob
  <2> QED
    BY <1>0, <1>1, <2>1, TypeTickEnds DEF FailJob
<1>2. ASSUME NEW j \in Jobs, NEW computed \in Costs, Settle(j, computed) PROVE TypeInv'
  <2>1. DbTyped /\ RowsKept
    BY <1>0, <1>2, CompleteAndSettleTyped DEF Settle
  <2> QED
    BY <1>0, <1>2, <2>1, TypeTickEnds DEF Settle
<1>3. ASSUME NEW j \in Jobs, RejectResult(j) PROVE TypeInv'
  <2>1. DbTyped /\ RowsKept
    BY <1>0, <1>3, FailAndRecordTyped DEF RejectResult
  <2> QED
    BY <1>0, <1>3, <2>1, TypeTickEnds DEF RejectResult
<1>4. ASSUME NEW j \in Jobs, RetryLater(j) PROVE TypeInv'
  <2>1. DbTyped /\ RowsKept
    BY <1>0, <1>4, DbUnchanged DEF RetryLater, db
  <2> QED
    BY <1>0, <1>4, <2>1, TypeTickEnds DEF RetryLater, Fault
<1>5. ASSUME TickFails PROVE TypeInv'
  <2>1. DbTyped /\ RowsKept
    BY <1>0, <1>5, DbUnchanged DEF TickFails, db
  <2> QED
    BY <1>0, <1>5, <2>1, TypeTickEnds DEF TickFails, Fault
<1>6. ASSUME Crash PROVE TypeInv'
  <2>1. DbTyped /\ RowsKept
    BY <1>0, <1>6, DbUnchanged DEF Crash, db
  <2>2. faults' \in Nat /\ aborter' = AllIdle /\ tick' = AllIdle
    BY <1>0, <1>6 DEF Crash, Fault
  <2>3. recovered' \in BOOLEAN /\ UNCHANGED <<deposited, expired, tasks>>
    BY <1>6, Zenon DEF Crash
  <2> QED
    BY <2>1, <2>2, <2>3, TypeTickEnds
<1> QED
  BY <1>1, <1>2, <1>3, <1>4, <1>5, <1>6

\* Worker steps that move a job on in the tick.
LEMMA TypeLoadBatch ==
  ASSUME TypeInv, LoadBatch
  PROVE  TypeInv'
<1>1. ASSUME NEW i \in Jobs
      PROVE  Loaded(i) \in Ticks /\ Idle \in Ticks
  BY DEF TypeInv, TypeOK, Loaded, Ticks, Steps, Submitting, Rows, Idle
<1>2. tick' \in [Jobs -> Ticks]
  BY <1>1 DEF LoadBatch
<1>3. TypeOK'
  BY <1>2 DEF TypeInv, TypeOK, LoadBatch
<1>4. ASSUME NEW i \in Jobs
      PROVE  /\ tick'[i].step \in {"created", "inflight", "finalizing"} \cup Answers =>
                  tick'[i].bridge # 0 /\ tick'[i].bridge = job[i].bridge
             /\ tick'[i].step # "idle" => job[i].status \notin {"none", "deleted"}
  BY DEF TypeInv, TypeOK, LoadBatch, Batch, Oldest, Loaded, Idle, Answers, Unfinished, InFlight
<1>5. CopiesAreGrounded'
  BY <1>4 DEF TypeInv, LoadBatch, CopiesAreGrounded
<1> QED
  BY <1>3, <1>5 DEF TypeInv

LEMMA TypeCreateTasks ==
  ASSUME TypeInv, NEW accepted \in SUBSET Jobs,
         CreateTasks(accepted) \/ CreateTasksReplyLost(accepted)
  PROVE  TypeInv'
<1>1. /\ TasksGrow
      /\ \A j \in accepted : Len(tasks[j]) + 1 \in DOMAIN tasks'[j]
  BY MakeTasksGrow DEF TypeInv, TypeOK, TaskStatuses, CreateTasks, CreateTasksReplyLost
<1>2. ASSUME NEW i \in Jobs
      PROVE  /\ tick'[i] \in Ticks
             /\ \/ tick'[i] = tick[i]
                \/ tick'[i].step \in {"idle", "rejected"} /\ tick[i].step # "idle"
                \/ tick[i].step = "idle" /\ tick'[i] = tick[i]
                \/ tick[i].step # "idle" /\ tick'[i].bridge \in DOMAIN tasks'[i]
  <2>1. Len(tasks[i]) \in Nat
    BY LenProperties DEF TypeInv, TypeOK
  <2> QED
    BY <1>1, <2>1 DEF TypeInv, TypeOK, CreateTasks, CreateTasksReplyLost, Ticks, Steps,
                      Submitting, Idle
<1>3. TypeOK'
  <2>1. tick' \in [Jobs -> Ticks]
    BY <1>2 DEF CreateTasks, CreateTasksReplyLost
  <2>2. tasks' \in [Jobs -> Seq({"running", "success", "failed"})]
    BY <1>1 DEF TasksGrow, TaskStatuses
  <2> QED
    BY <2>1, <2>2 DEF TypeInv, TypeOK, CreateTasks, CreateTasksReplyLost, Fault
<1>4. UNCHANGED <<job, aborter>>
  BY DEF CreateTasks, CreateTasksReplyLost
<1>5. CopiesAreGrounded'
  BY <1>1, <1>2, <1>4 DEF TypeInv, CopiesAreGrounded, TasksGrow, Answers
<1> QED
  BY <1>3, <1>5 DEF TypeInv

LEMMA TypeStoreBridgeTask ==
  ASSUME TypeInv, NEW j \in Jobs, StoreBridgeTask(j)
  PROVE  TypeInv'
<1>1. /\ tick' \in [Jobs -> Ticks]
      /\ tick[j].bridge \in DOMAIN tasks[j]
      /\ faults' \in Nat
  BY ClearTyped DEF TypeInv, TypeOK, StoreBridgeTask, CopiesAreGrounded, Fault
<1>2. TasksGrow
  <2>1. CASE StopTask(j, tick[j].bridge)
    BY <1>1, <2>1, StopTaskGrows DEF TypeInv, TypeOK, TaskStatuses
  <2>2. CASE UNCHANGED tasks
    BY <2>2 DEF TypeInv, TypeOK, TasksGrow, TaskStatuses
  <2> QED
    BY <2>1, <2>2 DEF StoreBridgeTask
<1>3. /\ job' \in [Jobs -> Rows]
      /\ \A i \in Jobs :
           \/ job'[i] = job[i]
           \/ /\ job'[i].bridge = tick[i].bridge /\ tick[i].bridge \in DOMAIN tasks[i]
              /\ job'[i].status = "submitted"
  <2>1. CASE job' = Submitted(j)
    <3> DEFINE r == [job[j] EXCEPT !.bridge = tick[j].bridge, !.status = "submitted"]
    <3>1. job[j] \in Rows /\ tick[j].bridge \in Nat
      BY DEF TypeInv, TypeOK, Ticks
    <3>2. r \in Rows /\ r.bridge = tick[j].bridge /\ r.status = "submitted"
      BY <3>1 DEF Rows, Unfinished, InFlight
    <3>3. job' = [job EXCEPT ![j] = r]
      BY <2>1 DEF Submitted
    <3> QED
      BY <1>1, <3>2, <3>3 DEF TypeInv, TypeOK
  <2>2. CASE UNCHANGED job
    BY <2>2 DEF TypeInv, TypeOK
  <2> QED
    BY <2>1, <2>2 DEF StoreBridgeTask
<1>4. TypeOK'
  BY <1>1, <1>2, <1>3 DEF TypeInv, TypeOK, StoreBridgeTask, TasksGrow, TaskStatuses
<1>5. ASSUME NEW i \in Jobs
      PROVE  /\ tick'[i] = tick[i] \/ tick'[i].step = "idle"
             /\ 0 \notin DOMAIN tasks[i]
  <2>1. DOMAIN tasks[i] = 1..Len(tasks[i]) /\ Len(tasks[i]) \in Nat
    BY LenProperties DEF TypeInv, TypeOK
  <2> QED
    BY <2>1 DEF TypeInv, TypeOK, StoreBridgeTask, Clear, Idle
<1>6. CopiesAreGrounded'
  BY <1>2, <1>3, <1>5 DEF TypeInv, CopiesAreGrounded, StoreBridgeTask, TasksGrow, Answers
<1> QED
  BY <1>4, <1>6 DEF TypeInv

LEMMA TypeGetTaskStatuses ==
  ASSUME TypeInv, NEW erroneous \in SUBSET Jobs, GetTaskStatuses(erroneous)
  PROVE  TypeInv'
<1>1. ASSUME NEW i \in Jobs
      PROVE  /\ tick'[i] \in Ticks
             /\ tick'[i].bridge = tick[i].bridge
             /\ \/ tick'[i] = tick[i]
                \/ tick[i].step = "inflight" /\ tick'[i].step \in Answers
  <2>1. CASE tick[i].step = "inflight"
    <3>1. tick[i].bridge \in DOMAIN tasks[i]
      BY <2>1 DEF TypeInv, CopiesAreGrounded
    <3>2. Answer(i) \in TaskStatuses
      BY <3>1, LenProperties DEF TypeInv, TypeOK, Answer, TaskStatuses
    <3>3. PICK step \in Answers : tick'[i] = [tick[i] EXCEPT !.step = step]
      BY <2>1, <3>2 DEF GetTaskStatuses, Answers, TaskStatuses
    <3>4. tick[i] \in Ticks
      BY DEF TypeInv, TypeOK
    <3> QED
      BY <2>1, <3>3, <3>4 DEF Ticks, Steps, Answers
  <2>2. CASE tick[i].step # "inflight"
    BY <2>2 DEF TypeInv, TypeOK, GetTaskStatuses
  <2> QED
    BY <2>1, <2>2
<1>2. tick' \in [Jobs -> Ticks] /\ faults' \in Nat
  <2>1. tick' = [j \in Jobs |-> tick'[j]]
    BY DEF GetTaskStatuses
  <2>2. faults' \in {faults, faults + 1}
    BY DEF GetTaskStatuses, Fault
  <2> QED
    BY <1>1, <2>1, <2>2 DEF TypeInv, TypeOK
<1>3. TypeOK'
  BY <1>2 DEF TypeInv, TypeOK, GetTaskStatuses
<1>4. CopiesAreGrounded'
  BY <1>1 DEF TypeInv, GetTaskStatuses, CopiesAreGrounded, Answers
<1> QED
  BY <1>3, <1>4 DEF TypeInv

\* UpdateTaskJobPhase only takes rows in flight to "in_progress".
LEMMA AdvancedTyped ==
  ASSUME TypeOK, NEW j \in Jobs, job' = Advanced(j)
  PROVE  job' \in [Jobs -> Rows] /\ RowsKept
BY DEF TypeOK, Advanced, Rows, RowsKept, Unfinished, InFlight

\* The two steps that record the phase of a task that was polled.
LEMMA TypePhase ==
  ASSUME TypeInv, NEW j \in Jobs, UpdateTaskJobPhase(j) \/ Finalize(j)
  PROVE  TypeInv'
<1>1. job' \in [Jobs -> Rows] /\ RowsKept
  BY AdvancedTyped DEF TypeInv, UpdateTaskJobPhase, Finalize
<1>2. ASSUME NEW i \in Jobs
      PROVE  /\ tick'[i] \in Ticks
             /\ \/ tick'[i] = tick[i] \/ tick'[i].step = "idle"
                \/ tick[i].step = "success" /\ tick'[i].bridge = tick[i].bridge
  <2>1. tick[i] \in Ticks /\ Idle \in Ticks
    BY ClearTyped DEF TypeInv, TypeOK
  <2>2. CASE UpdateTaskJobPhase(j)
    <3>1. tick'[i] \in {tick[i], Idle}
      BY <2>2 DEF TypeInv, TypeOK, UpdateTaskJobPhase, Clear
    <3> QED
      BY <2>1, <3>1 DEF Idle
  <2>3. CASE Finalize(j)
    <3>1. \/ tick'[i] = tick[i]
          \/ tick[i].step = "success" /\ tick'[i] = [tick[i] EXCEPT !.step = "finalizing"]
      BY <2>3 DEF TypeInv, TypeOK, Finalize
    <3> QED
      BY <2>1, <3>1 DEF Ticks, Steps
  <2> QED
    BY <2>2, <2>3
<1>3. tick' \in [Jobs -> Ticks]
  BY <1>2 DEF TypeInv, TypeOK, UpdateTaskJobPhase, Finalize, Clear
<1>4. TypeOK'
  BY <1>1, <1>3 DEF TypeInv, TypeOK, UpdateTaskJobPhase, Finalize
<1>5. CopiesAreGrounded'
  BY <1>1, <1>2 DEF TypeInv, UpdateTaskJobPhase, Finalize, CopiesAreGrounded, RowsKept, Answers
<1> QED
  BY <1>4, <1>5 DEF TypeInv

\* The reset at start finds nothing to reset, wherever an error stops it: every
\* in-flight row names its Bridge task.
LEMMA NothingToReset ==
  ASSUME TypeInv, NEW js \in SUBSET Jobs
  PROVE  ResetRows(js) = job
<1>1. \A i \in Jobs : job[i].status \in InFlight => job[i].bridge # 0
  BY DEF TypeInv, CopiesAreGrounded
<1> QED
  BY <1>1 DEF TypeInv, TypeOK, ResetRows

LEMMA TypeRecover ==
  ASSUME TypeInv, RecoverIncompleteJobs \/ RecoveryFails
  PROVE  TypeInv'
<1>1. job' = job
  BY NothingToReset DEF RecoverIncompleteJobs, RecoveryFails
<1>2. recovered' = TRUE /\ faults' \in {faults, faults + 1} /\ faults \in Nat
  BY DEF TypeInv, TypeOK, RecoverIncompleteJobs, RecoveryFails, Fault
<1>3. UNCHANGED <<account, deposited, calls, charged, expired, tasks, tick, aborter>>
  BY DEF RecoverIncompleteJobs, RecoveryFails
<1>4. recovered' \in BOOLEAN /\ faults' \in Nat
  BY <1>2
<1> QED
  BY <1>1, <1>3, <1>4 DEF TypeInv, TypeOK, CopiesAreGrounded

\* Every step preserves the invariant.
LEMMA TypeNext ==
  ASSUME TypeInv, [Next]_vars
  PROVE  TypeInv'
<1>1. CASE UNCHANGED vars
  BY <1>1 DEF vars, TypeInv, TypeOK, CopiesAreGrounded
<1>2. CASE WorkerStep
  BY <1>2, TypeLoadBatch, TypeCreateTasks, TypeGetTaskStatuses, TypeWorkerEnds,
     TypeStoreBridgeTask, TypePhase DEF WorkerStep
<1>3. CASE WorkerFault
  BY <1>3, TypeCreateTasks, TypeGetTaskStatuses, TypeRecover, TypeWorkerEnds DEF WorkerFault
<1>4. CASE \E j \in RawJobs : Abort(j)
  BY <1>4, TypeAbort, UsersJobsAssumption
<1>5. CASE \E j \in Jobs : \E k \in DOMAIN tasks[j] : TaskFinishes(j, k)
  <2>1. \A j \in Jobs : DOMAIN tasks[j] \subseteq Nat
    BY LenProperties DEF TypeInv, TypeOK
  <2> QED
    BY <1>5, <2>1, TypeEnvironment
<1> QED
  BY <1>1, <1>2, <1>3, <1>4, <1>5, TypeRecover, TypeEnvironment DEF Next

\* The invariant behind both theorems.
LEMMA TypeInvariant == Spec => []TypeInv
<1>1. Init => TypeInv
  BY TypeInit
<1>2. TypeInv /\ [Next]_vars => TypeInv'
  BY TypeNext
<1> QED
  BY <1>1, <1>2, PTL DEF Spec

\* In every reachable state the variables have their types; no locked column or
\* balance is ever negative.
THEOREM TypeCorrect == Spec => []TypeOK
<1>1. TypeInv => TypeOK
  BY DEF TypeInv
<1> QED
  BY <1>1, TypeInvariant, PTL

\* Ids are those of existing Bridge tasks, and copies are copies of existing
\* rows, however stale they are.
THEOREM CopiesCorrect == Spec => []CopiesAreGrounded
<1>1. TypeInv => CopiesAreGrounded
  BY DEF TypeInv
<1> QED
  BY <1>1, TypeInvariant, PTL

-----------------------------------------------------------------------------
(* What a step does to the accounts, the records and the state of the rows. *)

\* No account, record or hold changes, and no row is accepted, closed or reopened.
Relabel ==
  /\ UNCHANGED <<account, calls, charged>>
  /\ \A j \in Jobs :
       /\ job'[j].lock = job[j].lock /\ job'[j].record = job[j].record
       /\ job'[j].status \in Unfinished <=> job[j].status \in Unfinished
       /\ job'[j].status = "none" <=> job[j].status = "none"
       /\ job'[j].status \in Terminal => job'[j].status = job[j].status
       /\ job[j].status \in Terminal \cup {"deleted"} =>
            /\ job'[j].status \in {job[j].status, "deleted"}
            /\ job'[j].bridge = job[j].bridge

\* The first terminal transaction of an accepted job.
Closes(j) ==
  /\ ~job[j].record
  /\ job[j].status \notin {"none", "deleted"}
  /\ WriteFailure(j) \/ \E computed \in Costs : WriteSuccess(j, computed)

DbStep ==
  \/ Relabel
  \/ \E u \in Users, amount \in Deposits, reward \in Rewards : Deposit(u, amount, reward)
  \/ \E j \in Jobs : ReserveCreditsAndCreateTaskJob(j)
  \/ \E j \in Jobs : Closes(j)
  \/ \E u \in Users : Reconcile(u)

\* A step that writes nothing changes no account, record or hold.
LEMMA SameDbRelabels ==
  ASSUME UNCHANGED db
  PROVE  Relabel
BY DEF db, Relabel

\* A failure transaction closes the job or finds it closed.
LEMMA FailAndRecordIsDbStep ==
  ASSUME NEW j \in Jobs, job[j].status \notin {"none", "deleted"}, FailAndRecord(j)
  PROVE  DbStep
BY SameDbRelabels DEF FailAndRecord, DbStep, Closes

\* A settle transaction closes the job or finds it closed.
LEMMA CompleteAndSettleIsDbStep ==
  ASSUME NEW j \in Jobs, job[j].status \notin {"none", "deleted"},
         NEW computed \in Costs, CompleteAndSettle(j, computed)
  PROVE  DbStep
BY SameDbRelabels DEF CompleteAndSettle, DbStep, Closes

\* Every step is one of five kinds as far as accounts and records go.
LEMMA NextIsDbStep ==
  ASSUME TypeInv, [Next]_vars
  PROVE  DbStep
<1>1. CASE UNCHANGED db
  BY <1>1, SameDbRelabels DEF DbStep
<1>2. ASSUME NEW j \in Jobs, tick[j].step # "idle" \/ aborter[j].step # "idle"
      PROVE  job[j].status \notin {"none", "deleted"}
  BY <1>2 DEF TypeInv, CopiesAreGrounded
<1>3. CASE WorkerStep
  <2>1. CASE LoadBatch
    BY <1>1, <2>1 DEF LoadBatch, db
  <2>2. CASE \E accepted \in SUBSET Jobs : CreateTasks(accepted)
    BY <1>1, <2>2 DEF CreateTasks, db
  <2>3. CASE GetTaskStatuses({})
    BY <1>1, <2>3 DEF GetTaskStatuses, db
  <2>4. ASSUME NEW j \in Jobs, FailJob(j) PROVE DbStep
    BY <1>2, <2>4, FailAndRecordIsDbStep DEF FailJob
  <2>5. ASSUME NEW j \in Jobs, StoreBridgeTask(j) PROVE DbStep
    <3>1. CASE UNCHANGED job
      BY <1>1, <2>5, <3>1 DEF StoreBridgeTask, db
    <3>2. CASE job[j].status = "pending_submit" /\ job' = Submitted(j)
      <4>1. Relabel
        <5> DEFINE r == [job[j] EXCEPT !.bridge = tick[j].bridge, !.status = "submitted"]
        <5>1. job' = [job EXCEPT ![j] = r]
          BY <3>2 DEF Submitted
        <5>2. job[j] \in Rows
          BY DEF TypeInv, TypeOK
        <5>3. r.lock = job[j].lock /\ r.record = job[j].record /\ r.status = "submitted"
          BY <5>2 DEF Rows
        <5>4. UNCHANGED <<account, calls, charged>>
          BY <2>5 DEF StoreBridgeTask
        <5> QED
          BY <3>2, <5>1, <5>3, <5>4 DEF TypeInv, TypeOK, Relabel, Unfinished, InFlight, Terminal
      <4> QED
        BY <4>1 DEF DbStep
    <3> QED
      BY <2>5, <3>1, <3>2 DEF StoreBridgeTask
  <2>6. ASSUME NEW j \in Jobs, UpdateTaskJobPhase(j) \/ Finalize(j) PROVE DbStep
    <3>1. job' = Advanced(j) /\ UNCHANGED <<account, calls, charged>>
      BY <2>6 DEF UpdateTaskJobPhase, Finalize
    <3>2. ASSUME NEW i \in Jobs
          PROVE  \/ job'[i] = job[i]
                 \/ /\ job'[i].lock = job[i].lock /\ job'[i].record = job[i].record
                    /\ job[i].status \in InFlight /\ job'[i].status = "in_progress"
      <4>1. job[i] \in Rows
        BY DEF TypeInv, TypeOK
      <4> QED
        BY <3>1, <4>1 DEF TypeInv, TypeOK, Advanced, Rows
    <3>3. Relabel
      BY <3>1, <3>2 DEF Relabel, Unfinished, InFlight, Terminal
    <3> QED
      BY <3>3 DEF DbStep
  <2>7. ASSUME NEW j \in Jobs, NEW computed \in Costs, Settle(j, computed) PROVE DbStep
    BY <1>2, <2>7, CompleteAndSettleIsDbStep DEF Settle
  <2>8. ASSUME NEW j \in Jobs, RejectResult(j) PROVE DbStep
    BY <1>2, <2>8, FailAndRecordIsDbStep DEF RejectResult
  <2> QED
    BY <1>3, <2>1, <2>2, <2>3, <2>4, <2>5, <2>6, <2>7, <2>8 DEF WorkerStep
<1>4. CASE WorkerFault
  <2>1. CASE RecoveryFails
    <3>1. job' = job
      BY <2>1, NothingToReset DEF RecoveryFails
    <3> QED
      BY <1>1, <2>1, <3>1 DEF RecoveryFails, db
  <2> QED
    BY <1>1, <1>4, <2>1 DEF WorkerFault, CreateTasksReplyLost, GetTaskStatuses, RetryLater,
                            TickFails, Crash, db
<1>5. ASSUME NEW j \in RawJobs, Abort(j) PROVE DbStep
  <2>1. j \in Jobs
    BY UsersJobsAssumption
  <2>2. CASE AbortLoad(j) \/ AbortAtBridge(j) \/ AbortStops(j)
    BY <1>1, <2>2 DEF AbortLoad, AbortAtBridge, AbortStops, db
  <2>3. CASE AbortUnsubmitted(j) \/ AbortRecord(j)
    BY <1>2, <2>1, <2>3, FailAndRecordIsDbStep DEF AbortUnsubmitted, AbortRecord
  <2> QED
    BY <1>5, <2>2, <2>3 DEF Abort
<1>6. CASE RecoverIncompleteJobs
  <2>1. job' = job
    BY <1>6, NothingToReset DEF RecoverIncompleteJobs
  <2> QED
    BY <1>1, <1>6, <2>1 DEF RecoverIncompleteJobs, db
<1>7. ASSUME NEW j \in Jobs, DeleteTerminal(j) PROVE DbStep
  <2>1. Relabel
    BY <1>7 DEF TypeInv, TypeOK, DeleteTerminal, Relabel, Rows, Unfinished, InFlight, Terminal
  <2> QED
    BY <2>1 DEF DbStep
<1>8. CASE \E j \in Jobs : Expire(j)
  BY <1>1, <1>8 DEF Expire, db
<1>9. CASE \E j \in Jobs : \E k \in DOMAIN tasks[j] : TaskFinishes(j, k)
  BY <1>1, <1>9 DEF TaskFinishes, db
<1>10. CASE UNCHANGED vars
  BY <1>1, <1>10 DEF vars, db
<1> QED
  BY <1>3, <1>4, <1>5, <1>6, <1>7, <1>8, <1>9, <1>10 DEF Next, DbStep

-----------------------------------------------------------------------------
(* Records. *)

\* No job, no record.
LEMMA RecordsInit == Init => RecordedOnce
BY EmptySeq DEF Init, NoJobs, RecordedOnce, Unfinished, InFlight, Terminal

\* Every step preserves the agreement of row, hold, call record and charge.
LEMMA RecordsNext ==
  ASSUME TypeInv, RecordedOnce, [Next]_vars
  PROVE  RecordedOnce'
<1>0. TypeInv'
  BY TypeNext
<1>1. CASE Relabel
  <2>1. \A j \in Jobs : job'[j] \in Rows
    BY <1>0 DEF TypeInv, TypeOK
  <2>2. ASSUME NEW j \in Jobs
        PROVE  /\ job'[j].status \in Terminal \cup {"deleted"} <=>
                    job'[j].status # "none" /\ job'[j].status \notin Unfinished
               /\ job[j].status \in Terminal \cup {"deleted"} <=>
                    job[j].status # "none" /\ job[j].status \notin Unfinished
    <3>1. job[j] \in Rows
      BY DEF TypeInv, TypeOK
    <3> QED
      BY <2>1, <3>1 DEF Rows, Terminal, Unfinished, InFlight
  <2>3. /\ "completed" \in Terminal /\ "failed" \in Terminal
        /\ calls' = calls /\ charged' = charged
    BY <1>1 DEF Terminal, Relabel
  <2> QED
    BY <1>1, <2>2, <2>3 DEF RecordedOnce, Relabel
<1>2. ASSUME NEW u \in Users, NEW amount \in Deposits, NEW reward \in Rewards,
             Deposit(u, amount, reward)
      PROVE  RecordedOnce'
  BY <1>2 DEF RecordedOnce, Deposit
<1>3. ASSUME NEW j \in Jobs, ReserveCreditsAndCreateTaskJob(j) PROVE RecordedOnce'
  <2>1. job[j].status = "none"
    BY <1>3, UsersJobsAssumption DEF ReserveCreditsAndCreateTaskJob, JobsOf
  <2> DEFINE r == [job[j] EXCEPT !.status = "pending_submit", !.lock = "held"]
  <2>2. job' = [job EXCEPT ![j] = r]
    BY <1>3 DEF ReserveCreditsAndCreateTaskJob
  <2>3. r.status = "pending_submit" /\ r.lock = "held" /\ r.record = job[j].record
    BY DEF TypeInv, TypeOK, Rows
  <2>4. UNCHANGED <<calls, charged>>
    BY <1>3 DEF ReserveCreditsAndCreateTaskJob
  <2>5. ~job[j].record
    BY <2>1 DEF RecordedOnce, Terminal
  <2> QED
    BY <2>1, <2>2, <2>3, <2>4, <2>5 DEF TypeInv, TypeOK, RecordedOnce, Unfinished, InFlight, Terminal
<1>4. ASSUME NEW j \in Jobs, Closes(j) PROVE RecordedOnce'
  <2>1. /\ job[j] \in Rows /\ calls[j] = <<>> /\ charged[j] = 0
        /\ job[j].status \in Unfinished /\ job[j].lock = "held"
    <3>1. job[j] \in Rows /\ charged[j] \in Nat
      BY DEF TypeInv, TypeOK
    <3>2. job[j].status \in Unfinished
      BY <1>4, <3>1 DEF Closes, RecordedOnce, Rows
    <3>3. calls[j] = <<>> /\ job[j].lock = "held"
      BY <1>4, <3>2 DEF Closes, RecordedOnce
    <3>4. <<>> # <<"success">>
      OBVIOUS
    <3>5. ~(charged[j] > 0)
      BY <3>3, <3>4 DEF RecordedOnce
    <3> QED
      BY <3>1, <3>2, <3>3, <3>5
  <2>2. PICK status \in Terminal, call \in {"success", "failed"} :
          /\ job' = CloseRow(j, status)
          /\ calls' = [calls EXCEPT ![j] = <<call>>]
          /\ status = "completed" <=> call = "success"
          /\ \A i \in Jobs : charged'[i] = charged[i] \/ (i = j /\ call = "success")
    <3>1. Append(<<>>, "failed") = <<"failed">> /\ Append(<<>>, "success") = <<"success">>
      OBVIOUS
    <3>2. CASE WriteFailure(j)
      <4>1. /\ job' = CloseRow(j, "failed")
            /\ calls' = [calls EXCEPT ![j] = <<"failed">>]
            /\ \A i \in Jobs : charged'[i] = charged[i]
        BY <2>1, <3>1, <3>2 DEF WriteFailure
      <4>2. "failed" \in Terminal /\ "failed" \in {"success", "failed"}
        BY DEF Terminal
      <4>3. "failed" = "completed" <=> "failed" = "success"
        OBVIOUS
      <4> QED
        BY <4>1, <4>2, <4>3, Zenon
    <3>3. ASSUME NEW computed \in Costs, WriteSuccess(j, computed)
          PROVE  /\ job' = CloseRow(j, "completed")
                 /\ calls' = [calls EXCEPT ![j] = <<"success">>]
                 /\ \A i \in Jobs : charged'[i] = charged[i] \/ i = j
      BY <2>1, <3>1, <3>3 DEF WriteSuccess, TypeInv, TypeOK
    <3>4. CASE \E computed \in Costs : WriteSuccess(j, computed)
      <4>1. /\ job' = CloseRow(j, "completed")
            /\ calls' = [calls EXCEPT ![j] = <<"success">>]
            /\ \A i \in Jobs : charged'[i] = charged[i] \/ i = j
        BY <3>3, <3>4
      <4>2. "completed" \in Terminal /\ "success" \in {"success", "failed"}
        BY DEF Terminal
      <4> QED
        BY <4>1, <4>2, Zenon
    <3> QED
      BY <1>4, <3>2, <3>4 DEF Closes
  <2>3. \A i \in Jobs : i # j => job'[i] = job[i] /\ calls'[i] = calls[i]
    BY <2>2 DEF CloseRow, TypeInv, TypeOK
  <2>4. /\ calls'[j] = <<call>> /\ Len(<<call>>) = 1 /\ <<call>> # <<>>
        /\ job'[j].status = status /\ job'[j].lock = "released" /\ job'[j].record = TRUE
    <3> DEFINE r == [job[j] EXCEPT !.status = status, !.record = TRUE,
                       !.lock = IF @ = "held" THEN "released" ELSE @]
    <3>1. job' = [job EXCEPT ![j] = r]
      BY <2>2 DEF CloseRow
    <3>2. r.status = status /\ r.lock = "released" /\ r.record = TRUE
      BY <2>1 DEF Rows
    <3> QED
      BY <2>2, <3>1, <3>2 DEF TypeInv, TypeOK
  <2>5. charged'[j] > 0 => call = "success"
    BY <2>1, <2>2
  <2>6. ASSUME NEW i \in Jobs
        PROVE  /\ Len(calls'[i]) <= 1
               /\ job'[i].record <=> calls'[i] # <<>>
               /\ job'[i].status = "none" <=> job'[i].lock = "none"
               /\ job'[i].status \in Unfinished <=> job'[i].lock = "held"
               /\ job'[i].status \in Terminal \cup {"deleted"} <=> job'[i].record
               /\ job'[i].status = "completed" => calls'[i] = <<"success">>
               /\ job'[i].status = "failed" => calls'[i] = <<"failed">>
               /\ charged'[i] > 0 => calls'[i] = <<"success">>
    <3>1. CASE i = j
      <4>1. /\ status \in {"completed", "failed"} /\ status # "none"
            /\ status \notin Unfinished /\ status \in Terminal \cup {"deleted"}
        BY DEF Terminal, Unfinished, InFlight
      <4>2. /\ status = "completed" => call = "success"
            /\ status = "failed" => call = "failed"
        BY <2>2, <4>1
      <4>3. Len(calls'[j]) <= 1 /\ calls'[j] # <<>>
        <5>1. calls'[j] = <<call>> /\ Len(<<call>>) = 1 /\ <<call>> # <<>>
          BY <2>4
        <5>2. Len(calls'[j]) = 1
          BY <5>1, Zenon
        <5>3. calls'[j] # <<>>
          BY <5>1, Zenon
        <5> QED
          BY <5>2, <5>3
      <4> QED
        BY <2>4, <2>5, <3>1, <4>1, <4>2, <4>3
    <3>2. CASE i # j
      <4>1. job'[i] = job[i] /\ calls'[i] = calls[i] /\ charged'[i] = charged[i]
        BY <2>2, <2>3, <3>2
      <4> QED
        BY <4>1 DEF RecordedOnce
    <3> QED
      BY <3>1, <3>2
  <2> QED
    BY <2>6 DEF RecordedOnce
<1>5. ASSUME NEW u \in Users, Reconcile(u) PROVE RecordedOnce'
  BY <1>5 DEF RecordedOnce, Reconcile
<1> QED
  BY <1>1, <1>2, <1>3, <1>4, <1>5, NextIsDbStep DEF DbStep

\* Every job is recorded once, by one transaction: the row, the hold, the call
\* record and the charge always agree.
THEOREM RecordsCorrect == Spec => []RecordedOnce
<1>1. Init => TypeInv /\ RecordedOnce
  BY TypeInit, RecordsInit
<1>2. TypeInv /\ RecordedOnce /\ [Next]_vars => TypeInv' /\ RecordedOnce'
  BY TypeNext, RecordsNext
<1> QED
  BY <1>1, <1>2, PTL DEF Spec

\* A step leaves a closed job closed.
LEMMA ClosedKept ==
  ASSUME TypeInv, RecordedOnce, [Next]_vars, NEW j \in Jobs, calls[j] # <<>>
  PROVE  /\ calls'[j] = calls[j] /\ charged'[j] = charged[j]
         /\ job'[j].status \in {job[j].status, "deleted"}
         /\ job'[j].bridge = job[j].bridge
<1>1. job[j].record /\ job[j].status \in Terminal \cup {"deleted"}
  BY DEF RecordedOnce
<1>2. CASE Relabel
  BY <1>1, <1>2 DEF Relabel
<1>3. ASSUME NEW u \in Users, NEW amount \in Deposits, NEW reward \in Rewards,
             Deposit(u, amount, reward) \/ Reconcile(u)
      PROVE  UNCHANGED <<job, calls, charged>>
  BY <1>3 DEF Deposit, Reconcile
<1>4. ASSUME NEW i \in Jobs, ReserveCreditsAndCreateTaskJob(i)
      PROVE  i # j /\ job'[j] = job[j] /\ UNCHANGED <<calls, charged>>
  <2>1. job[i].status = "none"
    BY <1>4, UsersJobsAssumption DEF ReserveCreditsAndCreateTaskJob, JobsOf
  <2>2. i # j
    BY <1>1, <2>1 DEF Terminal
  <2> QED
    BY <1>4, <2>2 DEF ReserveCreditsAndCreateTaskJob, TypeInv, TypeOK
<1>5. ASSUME NEW i \in Jobs, Closes(i)
      PROVE  i # j /\ job'[j] = job[j] /\ calls'[j] = calls[j] /\ charged'[j] = charged[j]
  <2>1. i # j
    BY <1>1, <1>5 DEF Closes
  <2> QED
    BY <1>5, <2>1 DEF Closes, WriteFailure, WriteSuccess, CloseRow, TypeInv, TypeOK
<1>6. ASSUME NEW u \in Users, Reconcile(u) PROVE UNCHANGED <<job, calls, charged>>
  BY <1>6 DEF Reconcile
<1> QED
  BY <1>2, <1>3, <1>4, <1>5, <1>6, NextIsDbStep DEF DbStep

\* A closed job is never reopened, recorded or charged again, whatever stale
\* copies the worker and the abort requests still act on.
THEOREM ClosedStaysClosed == Spec => ClosedIsFinal
<1>1. Init => TypeInv /\ RecordedOnce
  BY TypeInit, RecordsInit
<1>2. TypeInv /\ RecordedOnce /\ [Next]_vars => TypeInv' /\ RecordedOnce'
  BY TypeNext, RecordsNext
<1>3. TypeInv /\ RecordedOnce /\ [Next]_vars =>
        [\A j \in Jobs :
           calls[j] # <<>> =>
             /\ calls'[j] = calls[j] /\ charged'[j] = charged[j]
             /\ job'[j].status \in {job[j].status, "deleted"}
             /\ job'[j].bridge = job[j].bridge]_vars
  BY ClosedKept
<1> QED
  BY <1>1, <1>2, <1>3, PTL DEF Spec, ClosedIsFinal

-----------------------------------------------------------------------------
(* Holds, balances and the ledger. *)

HeldOf(u) == [j \in JobsOf(u) |-> IF job[j].lock = "held" THEN Hold[j] ELSE 0]
ChargedOf(u) == [j \in JobsOf(u) |-> charged[j]]

AccountsInv == LockedMatchesHolds /\ Solvent /\ LedgerExplainsBalance

\* The holds and the charges of a user's jobs are finite families of amounts.
LEMMA FamiliesTyped ==
  ASSUME TypeOK, NEW u \in Users
  PROVE  /\ IsFiniteSet(JobsOf(u)) /\ JobsOf(u) \subseteq Jobs
         /\ HeldOf(u) \in [JobsOf(u) -> Nat] /\ HeldSum(u) = Total(HeldOf(u))
         /\ ChargedOf(u) \in [JobsOf(u) -> Nat]
<1>1. JobsOf(u) \subseteq Jobs
  BY DEF JobsOf
<1>2. IsFiniteSet(JobsOf(u))
  BY <1>1, UsersJobsAssumption, FS_Subset
<1> QED
  BY <1>1, <1>2, AmountsAssumption DEF TypeOK, HeldOf, ChargedOf, HeldSum

\* A job belongs to its owner's jobs and to nobody else's.
LEMMA OwnersJobs ==
  ASSUME NEW j \in Jobs
  PROVE  /\ Owner[j] \in Users /\ j \in JobsOf(Owner[j])
         /\ Hold[j] \in Nat /\ Hold[j] > 0
         /\ \A u \in Users : u # Owner[j] => j \notin JobsOf(u)
BY UsersJobsAssumption, AmountsAssumption DEF JobsOf

\* Before the first create every sum is zero.
LEMMA AccountsInit == Init => AccountsInv
<1> SUFFICES ASSUME Init PROVE AccountsInv
  OBVIOUS
<1>1. TypeOK
  BY TypeInit DEF TypeInv
<1>2. ASSUME NEW u \in Users PROVE Total(HeldOf(u)) = 0 /\ Total(ChargedOf(u)) = 0
  <2>1. \A j \in JobsOf(u) : HeldOf(u)[j] = 0 /\ ChargedOf(u)[j] = 0
    BY <1>1, FamiliesTyped DEF Init, NoJobs, HeldOf, ChargedOf
  <2> QED
    BY <1>1, <2>1, FamiliesTyped, TotalZero
<1>3. \A u \in Users : HeldSum(u) = 0
  BY <1>1, <1>2, FamiliesTyped
<1>4. LedgerExplainsBalance
  BY <1>2 DEF Init, NoJobs, LedgerExplainsBalance, ChargedOf
<1> QED
  BY <1>3, <1>4 DEF Init, AccountsInv, LockedMatchesHolds, Solvent

\* Only ProcessDeposit writes inflow events.
LEMMA OnlyDepositsPayIn ==
  ASSUME [Next]_vars
  PROVE  \/ deposited' = deposited
         \/ \E u \in Users, amount \in Deposits, reward \in Rewards : Deposit(u, amount, reward)
BY DEF Next, vars, ReserveCreditsAndCreateTaskJob, Expire, RecoverIncompleteJobs,
       RecoveryFails, WorkerStep, WorkerFault, LoadBatch, FailJob, CreateTasks, CreateTasksReplyLost, StoreBridgeTask,
       GetTaskStatuses, UpdateTaskJobPhase, Finalize, Settle, RejectResult, RetryLater,
       TickFails, Crash, Abort, AbortLoad, AbortUnsubmitted, AbortAtBridge, AbortRecord,
       AbortStops, TaskFinishes, Reconcile, DeleteTerminal

\* The invariant of one user survives when neither the account nor the jobs of
\* the user change.
LEMMA OthersKept ==
  ASSUME TypeOK, AccountsInv, NEW u \in Users,
         account'[u] = account[u], deposited'[u] = deposited[u],
         \A i \in JobsOf(u) : job'[i].lock = job[i].lock /\ charged'[i] = charged[i]
  PROVE  /\ account'[u].locked = HeldSum(u)'
         /\ account'[u].locked <= account'[u].balance
         /\ deposited'[u] = account'[u].balance + Total(ChargedOf(u)')
<1>1. HeldSum(u)' = HeldSum(u)
  BY DEF HeldSum
<1>2. ChargedOf(u)' = ChargedOf(u)
  BY DEF ChargedOf
<1> QED
  BY <1>1, <1>2 DEF AccountsInv, LockedMatchesHolds, Solvent, LedgerExplainsBalance, ChargedOf

\* What the invariant says of one user after a step.
UserKept(u) ==
  /\ account'[u].locked = HeldSum(u)'
  /\ account'[u].locked <= account'[u].balance
  /\ deposited'[u] = account'[u].balance + Total(ChargedOf(u)')

\* A deposit, and the referrer's reward, add the same to the ledger as to the
\* balance.
LEMMA AccountsDeposit ==
  ASSUME TypeOK, AccountsInv, NEW u \in Users, NEW v \in Users, NEW amount \in Deposits,
         NEW reward \in Rewards, Deposit(v, amount, reward)
  PROVE  UserKept(u)
<1> DEFINE g == Gain(v, amount, reward, u)
<1>1. account[u] \in Accounts /\ deposited[u] \in Nat /\ g \in Nat
  BY GainTyped DEF TypeOK
<1>2. account'[u] = [account[u] EXCEPT !.balance = @ + g]
  BY DEF Deposit
<1>3. deposited'[u] = deposited[u] + g
  BY DEF Deposit
<1>4. HeldSum(u)' = HeldSum(u) /\ ChargedOf(u)' = ChargedOf(u)
  BY DEF Deposit, HeldSum, ChargedOf
<1>5. Total(ChargedOf(u)) \in Nat
  BY FamiliesTyped, TotalBounds
<1>6. /\ account[u].locked = HeldSum(u) /\ account[u].locked <= account[u].balance
      /\ deposited[u] = account[u].balance + Total(ChargedOf(u))
  BY DEF AccountsInv, LockedMatchesHolds, Solvent, LedgerExplainsBalance, ChargedOf
<1> HIDE DEF g
<1>7. account'[u].balance = account[u].balance + g /\ account'[u].locked = account[u].locked
  BY <1>1, <1>2 DEF Accounts
<1> QED
  BY <1>1, <1>3, <1>4, <1>5, <1>6, <1>7 DEF UserKept, Accounts

\* A create adds its hold to the account and to the holds, within the balance.
LEMMA AccountsReserve ==
  ASSUME TypeOK, TypeOK', AccountsInv, NEW u \in Users, NEW j \in Jobs,
         ReserveCreditsAndCreateTaskJob(j), job[j].lock = "none"
  PROVE  UserKept(u)
<1> DEFINE r == [job[j] EXCEPT !.status = "pending_submit", !.lock = "held"]
<1>1. /\ \A i \in Jobs : i # j => job'[i] = job[i]
      /\ job'[j].lock = "held"
      /\ charged' = charged /\ deposited' = deposited
  <2>1. job' = [job EXCEPT ![j] = r]
    BY DEF ReserveCreditsAndCreateTaskJob
  <2>2. r.lock = "held"
    BY DEF TypeOK, Rows
  <2> QED
    BY <2>1, <2>2 DEF TypeOK, ReserveCreditsAndCreateTaskJob
<1>2. CASE u # Owner[j]
  <2>1. \A i \in JobsOf(u) : job'[i] = job[i]
    BY <1>1, <1>2, OwnersJobs, FamiliesTyped
  <2>2. account'[u] = account[u]
    BY <1>2 DEF TypeOK, ReserveCreditsAndCreateTaskJob
  <2> QED
    BY <1>1, <2>1, <2>2, OthersKept DEF UserKept
<1>3. CASE u = Owner[j]
  <2>1. account[u] \in Accounts /\ Hold[j] \in Nat
    BY OwnersJobs DEF TypeOK
  <2>2. account'[u] = Reserve(account[u], Hold[j])
    BY <1>3 DEF TypeOK, ReserveCreditsAndCreateTaskJob
  <2>3. /\ account'[u].locked = account[u].locked + Hold[j]
        /\ account'[u].balance = account[u].balance
    BY <2>1, <2>2, ReserveTyped
  <2>4. HeldSum(u)' = HeldSum(u) + Hold[j]
    <3>1. j \in JobsOf(u) /\ IsFiniteSet(JobsOf(u)) /\ JobsOf(u) \subseteq Jobs
      BY <1>3, OwnersJobs, FamiliesTyped
    <3>2. HeldOf(u) \in [JobsOf(u) -> Nat] /\ HeldOf(u)' \in [JobsOf(u) -> Nat]
      BY OwnersJobs, FamiliesTyped, AmountsAssumption DEF HeldOf
    <3>3. \A i \in JobsOf(u) \ {j} : HeldOf(u)[i] = HeldOf(u)'[i]
      BY <1>1, <3>1 DEF HeldOf
    <3>4. HeldOf(u)[j] = 0 /\ HeldOf(u)'[j] = Hold[j]
      BY <1>1, <3>1 DEF HeldOf
    <3>5. Total(HeldOf(u)') + HeldOf(u)[j] = Total(HeldOf(u)) + HeldOf(u)'[j]
      BY <3>1, <3>2, <3>3, TotalUpdate
    <3>6. Total(HeldOf(u)) \in Nat /\ Total(HeldOf(u)') \in Nat
      BY <3>1, <3>2, TotalBounds
    <3>7. HeldSum(u) = Total(HeldOf(u)) /\ HeldSum(u)' = Total(HeldOf(u)')
      BY DEF HeldSum, HeldOf
    <3> QED
      BY <2>1, <3>4, <3>5, <3>6, <3>7
  <2>5. ChargedOf(u)' = ChargedOf(u)
    BY <1>1 DEF ChargedOf
  <2>6. Hold[j] <= Available(account[u])
    BY <1>3 DEF ReserveCreditsAndCreateTaskJob
  <2>7. /\ account[u].locked = HeldSum(u) /\ account[u].locked <= account[u].balance
        /\ deposited[u] = account[u].balance + Total(ChargedOf(u))
    BY DEF AccountsInv, LockedMatchesHolds, Solvent, LedgerExplainsBalance, ChargedOf
  <2>8. account[u].locked + Hold[j] <= account[u].balance
    BY <2>1, <2>6, <2>7 DEF Available, Accounts
  <2> QED
    BY <1>1, <2>3, <2>4, <2>5, <2>7, <2>8 DEF UserKept
<1> QED
  BY <1>2, <1>3

\* The effect of a terminal transaction that charges c for job j on the owner's
\* account: the hold is gone, and c is paid from what is then available.
PaidFrom(j, c) ==
  LET a == account[Owner[j]]
      b == account'[Owner[j]]
  IN  /\ Hold[j] <= a.locked
      /\ b.locked = a.locked - Hold[j]
      /\ b.balance = a.balance - c
      /\ b.locked <= b.balance

\* The hold of a job is part of what is locked on its owner's account.
LEMMA HoldIsLocked ==
  ASSUME TypeOK, AccountsInv, NEW j \in Jobs, job[j].lock = "held"
  PROVE  Hold[j] <= account[Owner[j]].locked
<1>1. Owner[j] \in Users /\ j \in JobsOf(Owner[j])
  BY OwnersJobs
<1>2. HeldOf(Owner[j])[j] = Hold[j]
  BY <1>1 DEF HeldOf
<1>3. HeldOf(Owner[j])[j] <= Total(HeldOf(Owner[j]))
  BY <1>1, FamiliesTyped, TotalBounds
<1> QED
  BY <1>1, <1>2, <1>3, FamiliesTyped DEF AccountsInv, LockedMatchesHolds

\* A failure releases the hold and charges nothing.
LEMMA FailurePays ==
  ASSUME TypeOK, AccountsInv, NEW j \in Jobs, job[j].lock = "held", WriteFailure(j)
  PROVE  PaidFrom(j, 0)
<1>1. account[Owner[j]] \in Accounts /\ Hold[j] \in Nat /\ Owner[j] \in Users
  BY OwnersJobs DEF TypeOK
<1>2. account'[Owner[j]] = Release(account[Owner[j]], Hold[j])
  BY <1>1 DEF WriteFailure, ReleaseHold, TypeOK
<1>3. account[Owner[j]].locked <= account[Owner[j]].balance
  BY <1>1 DEF AccountsInv, Solvent
<1>4. Hold[j] <= account[Owner[j]].locked
  BY HoldIsLocked
<1>5. /\ account'[Owner[j]].balance = account[Owner[j]].balance
      /\ account'[Owner[j]].locked = account[Owner[j]].locked - Hold[j]
  BY <1>1, <1>2, <1>4, ReleaseTyped
<1>6. account[Owner[j]].balance \in Nat /\ account[Owner[j]].locked \in Nat
  BY <1>1 DEF Accounts
<1> QED
  BY <1>1, <1>3, <1>4, <1>5, <1>6 DEF PaidFrom

\* A success releases the hold and charges what the other holds leave.
LEMMA SuccessPays ==
  ASSUME TypeOK, AccountsInv, NEW j \in Jobs, job[j].lock = "held",
         NEW computed \in Costs, WriteSuccess(j, computed)
  PROVE  ChargeFor(j, computed) \in Nat /\ PaidFrom(j, ChargeFor(j, computed))
<1> DEFINE a == account[Owner[j]]
           b == Release(a, Hold[j])
           c == ChargeFor(j, computed)
<1>1. a \in Accounts /\ Hold[j] \in Nat /\ Owner[j] \in Users /\ computed \in Nat
  BY OwnersJobs, AmountsAssumption DEF TypeOK
<1>2. Hold[j] <= a.locked /\ a.locked <= a.balance
  BY <1>1, HoldIsLocked DEF AccountsInv, Solvent
<1>3. /\ b \in Accounts /\ b.balance = a.balance
      /\ b.locked = a.locked - Hold[j]
  BY <1>1, <1>2, ReleaseTyped
<1>4. c = ChargeOf(b, computed)
  BY DEF ChargeFor, ReleaseHold
<1>5. c \in Nat /\ c <= Available(b) /\ c <= b.balance
  BY <1>1, <1>3, <1>4, ChargeBounds
<1>6. account'[Owner[j]] = Debit(b, c)
  BY <1>1 DEF WriteSuccess, ReleaseHold, TypeOK
<1>7. Debit(b, c).balance = b.balance - c /\ Debit(b, c).locked = b.locked
  BY <1>3, <1>5, DebitTyped
<1> HIDE DEF b, c
<1>8. b.locked <= b.balance - c
  BY <1>1, <1>2, <1>3, <1>5 DEF Available, Accounts
<1>9. PaidFrom(j, c)
  BY <1>2, <1>3, <1>6, <1>7, <1>8 DEF PaidFrom
<1> QED
  BY <1>5, <1>9 DEF c

\* A terminal transaction takes the hold out of the holds and moves the charge
\* from the balance to the ledger.
LEMMA AccountsClose ==
  ASSUME TypeOK, TypeOK', AccountsInv, NEW u \in Users, NEW j \in Jobs, NEW c \in Nat,
         NEW status, job[j].lock = "held", job' = CloseRow(j, status), PaidFrom(j, c),
         \A v \in Users : v # Owner[j] => account'[v] = account[v],
         charged' = [charged EXCEPT ![j] = @ + c],
         UNCHANGED deposited
  PROVE  UserKept(u)
<1> DEFINE r == [job[j] EXCEPT !.status = status, !.record = TRUE,
                   !.lock = IF @ = "held" THEN "released" ELSE @]
<1>1. \A i \in Jobs : i # j => job'[i] = job[i] /\ charged'[i] = charged[i]
  BY DEF TypeOK, CloseRow
<1>2. job'[j].lock = "released" /\ charged'[j] = charged[j] + c
  <2>1. job' = [job EXCEPT ![j] = r]
    BY DEF CloseRow
  <2>2. r.lock = "released"
    BY DEF TypeOK, Rows
  <2> QED
    BY <2>1, <2>2 DEF TypeOK
<1>3. CASE u # Owner[j]
  <2>1. \A i \in JobsOf(u) : job'[i] = job[i] /\ charged'[i] = charged[i]
    BY <1>1, <1>3, OwnersJobs, FamiliesTyped
  <2> QED
    BY <1>3, <2>1, OthersKept DEF UserKept
<1>4. CASE u = Owner[j]
  <2>1. j \in JobsOf(u) /\ IsFiniteSet(JobsOf(u)) /\ JobsOf(u) \subseteq Jobs
    BY <1>4, OwnersJobs, FamiliesTyped
  <2>2. HeldSum(u)' = HeldSum(u) - Hold[j]
    <3>1. HeldOf(u) \in [JobsOf(u) -> Nat] /\ HeldOf(u)' \in [JobsOf(u) -> Nat]
      BY FamiliesTyped, AmountsAssumption DEF HeldOf
    <3>2. \A i \in JobsOf(u) \ {j} : HeldOf(u)[i] = HeldOf(u)'[i]
      BY <1>1, <2>1 DEF HeldOf
    <3>3. HeldOf(u)[j] = Hold[j] /\ HeldOf(u)'[j] = 0
      BY <1>2, <2>1 DEF HeldOf
    <3>4. Total(HeldOf(u)') + HeldOf(u)[j] = Total(HeldOf(u)) + HeldOf(u)'[j]
      BY <2>1, <3>1, <3>2, TotalUpdate
    <3>5. Total(HeldOf(u)) \in Nat /\ Total(HeldOf(u)') \in Nat /\ Hold[j] \in Nat
      BY <2>1, <3>1, TotalBounds, OwnersJobs
    <3>6. HeldSum(u) = Total(HeldOf(u)) /\ HeldSum(u)' = Total(HeldOf(u)')
      BY DEF HeldSum, HeldOf
    <3> QED
      BY <3>3, <3>4, <3>5, <3>6
  <2>3. /\ Total(ChargedOf(u)') = Total(ChargedOf(u)) + c
        /\ Total(ChargedOf(u)) \in Nat
    <3>1. ChargedOf(u) \in [JobsOf(u) -> Nat] /\ ChargedOf(u)' \in [JobsOf(u) -> Nat]
      BY <2>1 DEF ChargedOf, TypeOK
    <3>2. \A i \in JobsOf(u) \ {j} : ChargedOf(u)[i] = ChargedOf(u)'[i]
      BY <1>1, <2>1 DEF ChargedOf
    <3>3. ChargedOf(u)[j] = charged[j] /\ ChargedOf(u)'[j] = charged[j] + c
      BY <1>2, <2>1 DEF ChargedOf
    <3>4. Total(ChargedOf(u)') + ChargedOf(u)[j] = Total(ChargedOf(u)) + ChargedOf(u)'[j]
      BY <2>1, <3>1, <3>2, TotalUpdate
    <3>5. Total(ChargedOf(u)) \in Nat /\ Total(ChargedOf(u)') \in Nat /\ charged[j] \in Nat
      BY <2>1, <3>1, TotalBounds DEF TypeOK
    <3> QED
      BY <3>3, <3>4, <3>5
  <2>4. account[u] \in Accounts /\ account'[u] \in Accounts /\ deposited[u] \in Nat
    BY DEF TypeOK
  <2>5. /\ account[u].locked = HeldSum(u)
        /\ deposited[u] = account[u].balance + Total(ChargedOf(u))
    BY DEF AccountsInv, LockedMatchesHolds, LedgerExplainsBalance, ChargedOf
  <2>6. /\ account'[u].locked = account[u].locked - Hold[j]
        /\ account'[u].balance = account[u].balance - c
        /\ account'[u].locked <= account'[u].balance
    BY <1>4 DEF PaidFrom
  <2>7. account[u].balance \in Nat
    BY <2>4 DEF Accounts
  <2> QED
    BY <2>2, <2>3, <2>4, <2>5, <2>6, <2>7 DEF UserKept
<1> QED
  BY <1>3, <1>4

\* Every step keeps the accounts consistent with the jobs and with the ledger.
LEMMA AccountsNext ==
  ASSUME TypeInv, RecordedOnce, AccountsInv, [Next]_vars
  PROVE  AccountsInv'
<1>0. TypeOK /\ TypeOK'
  BY TypeNext DEF TypeInv
<1>1. DbStep
  BY NextIsDbStep
<1> SUFFICES ASSUME NEW u \in Users PROVE UserKept(u)
  BY DEF AccountsInv, LockedMatchesHolds, Solvent, LedgerExplainsBalance, UserKept, ChargedOf
<1>2. CASE \E v \in Users, amount \in Deposits, reward \in Rewards : Deposit(v, amount, reward)
  BY <1>0, <1>2, AccountsDeposit
<1>3. CASE UNCHANGED deposited
  <2>1. CASE Relabel
    BY <1>0, <1>3, <2>1, OthersKept, FamiliesTyped DEF Relabel, UserKept
  <2>2. CASE \E j \in Jobs : ReserveCreditsAndCreateTaskJob(j)
    <3>1. PICK j \in Jobs : ReserveCreditsAndCreateTaskJob(j)
      BY <2>2
    <3>2. job[j].lock = "none"
      BY <3>1, UsersJobsAssumption DEF ReserveCreditsAndCreateTaskJob, JobsOf, RecordedOnce
    <3> QED
      BY <1>0, <3>1, <3>2, AccountsReserve
  <2>3. ASSUME NEW j \in Jobs, Closes(j) PROVE UserKept(u)
    <3>1. job[j].lock = "held"
      BY <1>0, <2>3 DEF TypeOK, Rows, Closes, RecordedOnce
    <3>2. CASE WriteFailure(j)
      <4>1. PaidFrom(j, 0)
        BY <1>0, <3>1, <3>2, FailurePays
      <4>2. charged' = [charged EXCEPT ![j] = @ + 0]
        BY <1>0, <3>2 DEF WriteFailure, TypeOK
      <4>3. \A v \in Users : v # Owner[j] => account'[v] = account[v]
        BY <1>0, <3>2 DEF WriteFailure, TypeOK
      <4>4. job' = CloseRow(j, "failed")
        BY <3>2 DEF WriteFailure
      <4> QED
        BY <1>0, <1>3, <3>1, <4>1, <4>2, <4>3, <4>4, AccountsClose
    <3>3. ASSUME NEW computed \in Costs, WriteSuccess(j, computed) PROVE UserKept(u)
      <4>1. ChargeFor(j, computed) \in Nat /\ PaidFrom(j, ChargeFor(j, computed))
        BY <1>0, <3>1, <3>3, SuccessPays
      <4>2. charged' = [charged EXCEPT ![j] = @ + ChargeFor(j, computed)]
        BY <3>3 DEF WriteSuccess
      <4>3. \A v \in Users : v # Owner[j] => account'[v] = account[v]
        BY <1>0, <3>3 DEF WriteSuccess, TypeOK
      <4>4. job' = CloseRow(j, "completed")
        BY <3>3 DEF WriteSuccess
      <4> QED
        BY <1>0, <1>3, <3>1, <4>1, <4>2, <4>3, <4>4, AccountsClose
    <3> QED
      BY <2>3, <3>2, <3>3 DEF Closes
  <2>4. ASSUME NEW v \in Users, Reconcile(v) PROVE FALSE
    BY <2>4 DEF Reconcile, AccountsInv, LockedMatchesHolds
  <2> QED
    BY <1>1, <1>2, <2>1, <2>2, <2>3, <2>4 DEF DbStep
<1> QED
  BY <1>2, <1>3, OnlyDepositsPayIn

\* The invariant behind the theorems on Credits.
LEMMA AccountsCorrect == Spec => []AccountsInv
<1>1. Init => TypeInv /\ RecordedOnce /\ AccountsInv
  BY TypeInit, RecordsInit, AccountsInit
<1>2. TypeInv /\ RecordedOnce /\ AccountsInv /\ [Next]_vars
        => TypeInv' /\ RecordedOnce' /\ AccountsInv'
  BY TypeNext, RecordsNext, AccountsNext
<1> QED
  BY <1>1, <1>2, PTL DEF Spec

\* What is locked on an account is at every moment what its unfinished jobs
\* reserved, whatever worker, aborts, retries, crashes and the reconciler do.
THEOREM LocksAreHolds == Spec => []LockedMatchesHolds
<1>1. AccountsInv => LockedMatchesHolds
  BY DEF AccountsInv
<1> QED
  BY <1>1, AccountsCorrect, PTL

\* The Credits locked for unfinished jobs are always covered by the balance, so
\* no charge is ever paid from what another job reserved.
THEOREM HoldsCovered == Spec => []Solvent
<1>1. AccountsInv => Solvent
  BY DEF AccountsInv
<1> QED
  BY <1>1, AccountsCorrect, PTL

\* The balance is what was paid in less what was charged.
THEOREM LedgerConsistent == Spec => []LedgerExplainsBalance
<1>1. AccountsInv => LedgerExplainsBalance
  BY DEF AccountsInv
<1> QED
  BY <1>1, AccountsCorrect, PTL

-----------------------------------------------------------------------------
(* What a step does to the ClientTasks of one job and to the tick's copy. *)

\* Statuses that are final stay, nothing starts to run, and no task is added.
Settling(j) ==
  /\ Len(tasks'[j]) = Len(tasks[j])
  /\ \A k \in DOMAIN tasks[j] :
       /\ tasks[j][k] # "running" => tasks'[j][k] = tasks[j][k]
       /\ tasks'[j][k] = "running" => tasks[j][k] = "running"

\* The tick goes on with what it holds about j; only an abort request may record it.
Waits(j) ==
  /\ tick'[j] = tick[j] /\ Settling(j)
  /\ job'[j].bridge = job[j].bridge
  /\ job'[j].status \in {"none", "pending_submit"} => job'[j].status = job[j].status
  /\ \/ calls'[j] = calls[j]
     \/ j \in RawJobs /\ calls[j] = <<>> /\ calls'[j] = <<"failed">>

\* The job is created.
Appears(j) ==
  /\ job[j].status = "none" /\ job'[j].status = "pending_submit"
  /\ job'[j].bridge = job[j].bridge
  /\ UNCHANGED <<tick, tasks, calls>>

\* A tick loads the unfinished job.
Loads(j) ==
  /\ tick[j].step = "idle" /\ tick'[j] = Loaded(j)
  /\ job[j].status \in Unfinished
  /\ UNCHANGED <<job, tasks, calls>>

\* The Bridge accepts the job or rejects it.
Created(j) ==
  /\ tick[j].step = "pending"
  /\ \/ /\ tick'[j].step = "created" /\ tick'[j].bridge = Len(tasks[j]) + 1
        /\ tasks'[j] = Append(tasks[j], "running")
     \/ tick'[j].step = "rejected" /\ tasks'[j] = tasks[j]
  /\ UNCHANGED <<job, calls>>

\* A fault takes the job from the tick, after the Bridge made a task or not.
Lost(j) ==
  /\ faults' = faults + 1
  /\ tick'[j].step = "idle"
  /\ \/ tasks'[j] = tasks[j]
     \/ tick[j].step = "pending" /\ tasks'[j] = Append(tasks[j], "running")
  /\ UNCHANGED <<job, calls>>

\* The tick stores the new task's id, or has the task stopped.
Stored(j) ==
  /\ tick[j].step = "created" /\ tick'[j].step = "idle"
  /\ \/ /\ job[j].status = "pending_submit"
        /\ job'[j].bridge = tick[j].bridge /\ job'[j].status = "submitted"
        /\ tasks'[j] = tasks[j]
     \/ /\ job' = job /\ job[j].status # "pending_submit"
        /\ Settling(j) /\ tasks'[j][tick[j].bridge] # "running"
  /\ UNCHANGED calls

\* The tick learns the status of the task, or of an error.
Polls(j) ==
  /\ tick[j].step = "inflight" /\ tick'[j].bridge = tick[j].bridge
  /\ \/ tick'[j].step = Answer(j)
     \/ tick'[j].step = "error" /\ faults' = faults + 1
  /\ UNCHANGED <<job, tasks, calls>>

\* The phase of the row follows the answer.
Advances(j) ==
  /\ \/ tick[j].step = "running" /\ tick'[j].step = "idle"
     \/ /\ tick[j].step = "success" /\ tick'[j].step = "finalizing"
        /\ tick'[j].bridge = tick[j].bridge
  /\ job'[j].bridge = job[j].bridge
  /\ job'[j].status \in {"none", "pending_submit"} => job'[j].status = job[j].status
  /\ UNCHANGED <<tasks, calls>>

\* The tick closes the job.
Ends(j) ==
  /\ tick[j].step \in {"late", "rejected", "failed", "error", "finalizing"}
  /\ tick'[j].step = "idle"
  /\ job'[j].bridge = job[j].bridge
  /\ job'[j].status \in {"none", "pending_submit"} => job'[j].status = job[j].status
  /\ \/ calls'[j] = calls[j]
     \/ calls[j] = <<>> /\ calls'[j] = <<"failed">>
     \/ calls[j] = <<>> /\ calls'[j] = <<"success">> /\ tick[j].step = "finalizing"
  /\ tasks' = tasks

JobStep(j) ==
  /\ faults' \in {faults, faults + 1}
  /\ \/ Waits(j) \/ Appears(j) \/ Loads(j) \/ Created(j) \/ Lost(j)
     \/ Stored(j) \/ Polls(j) \/ Advances(j) \/ Ends(j)

\* A job none of whose data changes waits.
LEMMA SameWaits ==
  ASSUME NEW j \in Jobs, tick'[j] = tick[j], tasks'[j] = tasks[j],
         job'[j] = job[j], calls'[j] = calls[j]
  PROVE  Waits(j)
BY DEF Waits, Settling

\* Setting the status of a task that runs.
LEMMA EndedTaskSettles ==
  ASSUME TypeInv, NEW i \in Jobs, NEW k \in DOMAIN tasks[i],
         NEW status \in {"success", "failed"}, tasks[i][k] = "running",
         tasks' = [tasks EXCEPT ![i][k] = status], NEW j \in Jobs
  PROVE  Settling(j) /\ (i = j => tasks'[j][k] = status)
<1>1. tasks[i] \in Seq(TaskStatuses) /\ k \in 1..Len(tasks[i])
  BY LenProperties DEF TypeInv, TypeOK, TaskStatuses
<1> DEFINE t == [tasks[i] EXCEPT ![k] = status]
<1>2. tasks' = [tasks EXCEPT ![i] = t]
  OBVIOUS
<1>3. t \in Seq(TaskStatuses) /\ Len(t) = Len(tasks[i]) /\ t[k] = status
      /\ \A n \in DOMAIN tasks[i] : n # k => t[n] = tasks[i][n]
  BY <1>1, ExceptSeq DEF TaskStatuses
<1> HIDE DEF t
<1>4. CASE i = j
  <2>1. tasks'[j] = t
    BY <1>2, <1>4 DEF TypeInv, TypeOK
  <2> QED
    BY <1>3, <1>4, <2>1 DEF Settling
<1>5. CASE i # j
  BY <1>2, <1>5 DEF Settling, TypeInv, TypeOK
<1> QED
  BY <1>4, <1>5

\* So does the Bridge's abort, after which the task does not run.
LEMMA StoppedTaskSettles ==
  ASSUME TypeInv, NEW i \in Jobs, NEW k \in DOMAIN tasks[i], StopTask(i, k), NEW j \in Jobs
  PROVE  Settling(j) /\ (i = j => tasks'[j][k] # "running")
<1>1. CASE tasks[i][k] = "running"
  <2>1. tasks' = [tasks EXCEPT ![i][k] = "failed"]
    BY <1>1 DEF StopTask
  <2> QED
    BY <1>1, <2>1, EndedTaskSettles
<1>2. CASE tasks[i][k] # "running"
  <2>1. tasks' = [tasks EXCEPT ![i][k] = tasks[i][k]]
    BY <1>2 DEF StopTask
  <2>2. tasks[i] \in Seq(TaskStatuses) /\ [tasks[i] EXCEPT ![k] = tasks[i][k]] = tasks[i]
    BY DEF TypeInv, TypeOK, TaskStatuses
  <2>3. tasks' = tasks
    BY <2>1, <2>2 DEF TypeInv, TypeOK
  <2> QED
    BY <1>2, <2>3 DEF Settling
<1> QED
  BY <1>1, <1>2

\* A failure transaction on the job writes a failure, or nothing.
LEMMA FailureRecords ==
  ASSUME TypeInv, RecordedOnce, NEW i \in Jobs, FailAndRecord(i), NEW j \in Jobs
  PROVE  /\ i # j => job'[j] = job[j] /\ calls'[j] = calls[j]
         /\ job'[j].bridge = job[j].bridge
         /\ job'[j].status \in {"none", "pending_submit"} => job'[j].status = job[j].status
         /\ \/ calls'[j] = calls[j]
            \/ calls[j] = <<>> /\ calls'[j] = <<"failed">>
<1>1. CASE UNCHANGED db
  BY <1>1 DEF db
<1>2. CASE WriteFailure(i) /\ ~job[i].record
  <2>0. calls[i] = <<>>
    BY <1>2 DEF RecordedOnce
  <2>1. calls[i] = <<>> /\ Append(calls[i], "failed") = <<"failed">>
    BY <2>0
  <2>2. calls' = [calls EXCEPT ![i] = <<"failed">>]
    BY <1>2, <2>1 DEF WriteFailure
  <2> DEFINE r == [job[i] EXCEPT !.status = "failed", !.record = TRUE,
                   !.lock = IF @ = "held" THEN "released" ELSE @]
  <2>3. job' = [job EXCEPT ![i] = r]
    BY <1>2 DEF WriteFailure, CloseRow
  <2>4. job[i] \in Rows
    BY DEF TypeInv, TypeOK
  <2>5. r.status = "failed" /\ r.bridge = job[i].bridge
    BY <2>4 DEF Rows
  <2> HIDE DEF r
  <2> QED
    BY <2>1, <2>2, <2>3, <2>5 DEF TypeInv, TypeOK
<1> QED
  BY <1>1, <1>2 DEF FailAndRecord

\* A settle transaction writes a success, or nothing.
LEMMA SettleRecords ==
  ASSUME TypeInv, RecordedOnce, NEW i \in Jobs, NEW computed \in Costs,
         CompleteAndSettle(i, computed), NEW j \in Jobs
  PROVE  /\ i # j => job'[j] = job[j] /\ calls'[j] = calls[j]
         /\ job'[j].bridge = job[j].bridge
         /\ job'[j].status \in {"none", "pending_submit"} => job'[j].status = job[j].status
         /\ \/ calls'[j] = calls[j]
            \/ calls[j] = <<>> /\ calls'[j] = <<"success">>
<1>1. CASE UNCHANGED db
  BY <1>1 DEF db
<1>2. CASE WriteSuccess(i, computed) /\ ~job[i].record
  <2>0. calls[i] = <<>>
    BY <1>2 DEF RecordedOnce
  <2>1. calls[i] = <<>> /\ Append(calls[i], "success") = <<"success">>
    BY <2>0
  <2>2. calls' = [calls EXCEPT ![i] = <<"success">>]
    BY <1>2, <2>1 DEF WriteSuccess
  <2> DEFINE r == [job[i] EXCEPT !.status = "completed", !.record = TRUE,
                   !.lock = IF @ = "held" THEN "released" ELSE @]
  <2>3. job' = [job EXCEPT ![i] = r]
    BY <1>2 DEF WriteSuccess, CloseRow
  <2>4. job[i] \in Rows
    BY DEF TypeInv, TypeOK
  <2>5. r.status = "completed" /\ r.bridge = job[i].bridge
    BY <2>4 DEF Rows
  <2> HIDE DEF r
  <2> QED
    BY <2>1, <2>2, <2>3, <2>5 DEF TypeInv, TypeOK
<1> QED
  BY <1>1, <1>2 DEF CompleteAndSettle

\* Every step is one of these kinds for every job.
LEMMA NextIsJobStep ==
  ASSUME TypeInv, RecordedOnce, [Next]_vars, NEW j \in Jobs
  PROVE  JobStep(j)
<1>0. /\ faults \in Nat /\ tick \in [Jobs -> Ticks]
      /\ \A i \in Jobs : tick[i].step # "idle" \/ aborter[i].step # "idle" =>
           job[i].status \notin {"none", "deleted"}
  BY DEF TypeInv, TypeOK, CopiesAreGrounded
<1>1. CASE UNCHANGED <<job, calls, tasks, tick>> /\ faults' \in {faults, faults + 1}
  BY <1>1, SameWaits DEF JobStep
<1>2. CASE UNCHANGED vars
  BY <1>1, <1>2 DEF vars
<1>3. ASSUME NEW u \in Users, NEW amount \in Deposits, NEW reward \in Rewards,
             Deposit(u, amount, reward)
      PROVE  JobStep(j)
  BY <1>1, <1>3 DEF Deposit
<1>4. ASSUME NEW i \in Jobs, ReserveCreditsAndCreateTaskJob(i) PROVE JobStep(j)
  <2>1. CASE i = j
    <3>1. job[j].status = "none"
      BY <1>4, <2>1, OwnersJobs, UsersJobsAssumption DEF ReserveCreditsAndCreateTaskJob
    <3>2. job'[j].status = "pending_submit" /\ job'[j].bridge = job[j].bridge
      BY <1>4, <2>1 DEF ReserveCreditsAndCreateTaskJob, TypeInv, TypeOK, Rows
    <3> QED
      BY <1>4, <3>1, <3>2 DEF ReserveCreditsAndCreateTaskJob, JobStep, Appears
  <2>2. CASE i # j
    <3>1. job'[j] = job[j]
      BY <1>4, <2>2 DEF ReserveCreditsAndCreateTaskJob, TypeInv, TypeOK
    <3> QED
      BY <1>4, <3>1, SameWaits DEF ReserveCreditsAndCreateTaskJob, JobStep
  <2> QED
    BY <2>1, <2>2
<1>5. ASSUME NEW i \in Jobs, Expire(i) PROVE JobStep(j)
  BY <1>1, <1>5 DEF Expire
<1>6. CASE RecoverIncompleteJobs \/ RecoveryFails
  <2>1. job' = job
    BY <1>6, NothingToReset DEF RecoverIncompleteJobs, RecoveryFails
  <2>2. UNCHANGED <<calls, tasks, tick>> /\ faults' \in {faults, faults + 1}
    BY <1>6 DEF RecoverIncompleteJobs, RecoveryFails, Fault
  <2> QED
    BY <1>1, <2>1, <2>2
<1>7. CASE LoadBatch
  <2>1. j \in Batch => job[j].status \in Unfinished
    BY DEF Batch, Oldest
  <2>2. /\ UNCHANGED <<job, tasks, calls, faults>>
        /\ tick[j] = Idle /\ tick'[j] = IF j \in Batch THEN Loaded(j) ELSE Idle
    BY <1>7 DEF LoadBatch, AllIdle
  <2>3. CASE j \in Batch
    BY <2>1, <2>2, <2>3 DEF JobStep, Loads, Idle
  <2>4. CASE j \notin Batch
    BY <2>2, <2>4, SameWaits DEF JobStep
  <2> QED
    BY <2>3, <2>4
<1>8. ASSUME NEW accepted \in SUBSET Jobs, CreateTasks(accepted) PROVE JobStep(j)
  <2>1. /\ UNCHANGED <<job, calls, faults>>
        /\ tasks'[j] = IF j \in accepted THEN Append(tasks[j], "running") ELSE tasks[j]
        /\ j \in accepted => tick[j].step = "pending"
    BY <1>8 DEF CreateTasks, MakeTasks, InTick
  <2>2. CASE tick[j].step # "pending"
    <3>1. tick'[j] = tick[j] /\ tasks'[j] = tasks[j]
      BY <1>8, <2>1, <2>2 DEF CreateTasks
    <3> QED
      BY <2>1, <3>1, SameWaits DEF JobStep
  <2>3. CASE tick[j].step = "pending"
    <3>1. tick'[j] = IF j \in accepted THEN [step |-> "created", bridge |-> Len(tasks[j]) + 1]
                     ELSE [step |-> "rejected", bridge |-> 0]
      BY <1>8, <2>3 DEF CreateTasks
    <3>2. Created(j)
      BY <2>1, <2>3, <3>1 DEF Created
    <3> QED
      BY <2>1, <3>2 DEF JobStep
  <2> QED
    BY <2>2, <2>3
<1>9. ASSUME NEW accepted \in SUBSET Jobs, CreateTasksReplyLost(accepted) PROVE JobStep(j)
  <2>1. /\ UNCHANGED <<job, calls>> /\ faults' = faults + 1
        /\ tasks'[j] = IF j \in accepted THEN Append(tasks[j], "running") ELSE tasks[j]
        /\ j \in accepted => tick[j].step = "pending"
        /\ tick'[j] = IF tick[j].step = "pending" THEN Idle ELSE tick[j]
    BY <1>9 DEF CreateTasksReplyLost, MakeTasks, InTick, Fault
  <2>2. CASE tick[j].step # "pending"
    BY <2>1, <2>2, SameWaits DEF JobStep
  <2>3. CASE tick[j].step = "pending"
    BY <2>1, <2>3 DEF JobStep, Lost, Idle
  <2> QED
    BY <2>2, <2>3
<1>10. ASSUME NEW i \in Jobs, StoreBridgeTask(i) PROVE JobStep(j)
  <2>1. /\ UNCHANGED calls /\ tick[i].step = "created"
        /\ tick' = [tick EXCEPT ![i] = Idle]
        /\ faults' \in {faults, faults + 1}
    BY <1>10 DEF StoreBridgeTask, Clear, Fault
  <2>2. tick[i].bridge \in DOMAIN tasks[i]
    BY <2>1 DEF TypeInv, CopiesAreGrounded
  <2>3. CASE job[i].status = "pending_submit" /\ job' = Submitted(i) /\ UNCHANGED tasks
    <3> DEFINE r == [job[i] EXCEPT !.bridge = tick[i].bridge, !.status = "submitted"]
    <3>1. job' = [job EXCEPT ![i] = r] /\ job[i] \in Rows
      BY <2>3 DEF Submitted, TypeInv, TypeOK
    <3>2. r.bridge = tick[i].bridge /\ r.status = "submitted"
      BY <3>1 DEF Rows
    <3> HIDE DEF r
    <3>3. CASE i = j
      <4>1. Stored(j)
        BY <1>0, <2>1, <2>3, <3>1, <3>2, <3>3 DEF Stored, Idle, TypeInv, TypeOK
      <4> QED
        BY <2>1, <4>1 DEF JobStep
    <3>4. CASE i # j
      <4>1. job'[j] = job[j] /\ tick'[j] = tick[j]
        BY <1>0, <2>1, <3>1, <3>4 DEF TypeInv, TypeOK
      <4> QED
        BY <2>1, <2>3, <4>1, SameWaits DEF JobStep
    <3> QED
      BY <3>3, <3>4
  <2>4. CASE job[i].status # "pending_submit" /\ UNCHANGED job /\ StopTask(i, tick[i].bridge)
    <3>1. Settling(j) /\ (i = j => tasks'[j][tick[i].bridge] # "running")
      BY <2>2, <2>4, StoppedTaskSettles
    <3>2. CASE i = j
      BY <1>0, <2>1, <2>4, <3>1, <3>2 DEF JobStep, Stored, Idle
    <3>3. CASE i # j
      BY <1>0, <2>1, <2>4, <3>1, <3>3 DEF JobStep, Waits
    <3> QED
      BY <3>2, <3>3
  <2>5. CASE Fault /\ UNCHANGED <<job, tasks>>
    <3>1. CASE i = j
      BY <1>0, <2>1, <2>5, <3>1 DEF JobStep, Lost, Idle, Fault
    <3>2. CASE i # j
      BY <1>0, <2>1, <2>5, <3>2, SameWaits DEF JobStep
    <3> QED
      BY <3>1, <3>2
  <2> QED
    BY <1>10, <2>3, <2>4, <2>5 DEF StoreBridgeTask
<1>11. ASSUME NEW erroneous \in SUBSET Jobs, GetTaskStatuses(erroneous) PROVE JobStep(j)
  <2>1. /\ UNCHANGED <<job, tasks, calls>>
        /\ j \in erroneous => faults' = faults + 1
        /\ faults' \in {faults, faults + 1}
    BY <1>11 DEF GetTaskStatuses, Fault
  <2>2. CASE tick[j].step # "inflight"
    <3>1. tick'[j] = tick[j]
      BY <1>11, <2>2 DEF GetTaskStatuses
    <3> QED
      BY <2>1, <3>1, SameWaits DEF JobStep
  <2>3. CASE tick[j].step = "inflight"
    <3>1. tick'[j] = IF j \in erroneous THEN [tick[j] EXCEPT !.step = "error"]
                     ELSE [tick[j] EXCEPT !.step = Answer(j)]
      BY <1>11, <2>3 DEF GetTaskStatuses
    <3>2. Polls(j)
      BY <1>0, <2>1, <2>3, <3>1 DEF Polls, Ticks
    <3> QED
      BY <2>1, <3>2 DEF JobStep
  <2> QED
    BY <2>2, <2>3
<1>12. ASSUME NEW i \in Jobs, UpdateTaskJobPhase(i) \/ Finalize(i) PROVE JobStep(j)
  <2>1. /\ UNCHANGED <<tasks, calls, faults>> /\ job' = Advanced(i)
        /\ \/ tick[i].step = "running" /\ tick' = [tick EXCEPT ![i] = Idle]
           \/ tick[i].step = "success" /\ tick' = [tick EXCEPT ![i].step = "finalizing"]
    BY <1>12 DEF UpdateTaskJobPhase, Finalize, Clear
  <2>2. /\ job'[j].bridge = job[j].bridge
        /\ job'[j].status \in {"none", "pending_submit"} => job'[j].status = job[j].status
        /\ i # j => job'[j] = job[j]
    BY <2>1 DEF Advanced, TypeInv, TypeOK, Rows, InFlight
  <2>3. CASE i = j
    <3>1. \/ tick[j].step = "running" /\ tick'[j] = Idle
          \/ tick[j].step = "success" /\ tick'[j] = [tick[j] EXCEPT !.step = "finalizing"]
      BY <1>0, <2>1, <2>3
    <3>2. Advances(j)
      BY <1>0, <2>1, <2>2, <3>1 DEF Advances, Idle, Ticks
    <3> QED
      BY <2>1, <3>2 DEF JobStep
  <2>4. CASE i # j
    <3>1. tick'[j] = tick[j]
      BY <1>0, <2>1, <2>4
    <3> QED
      BY <2>1, <2>2, <2>4, <3>1, SameWaits DEF JobStep
  <2> QED
    BY <2>3, <2>4
<1>13. ASSUME NEW i \in Jobs, tick' = Clear(i), FailAndRecord(i), UNCHANGED <<tasks, faults>>,
              tick[i].step \in {"late", "rejected", "failed", "error", "finalizing"}
       PROVE  JobStep(j)
  <2>1. /\ i # j => job'[j] = job[j] /\ calls'[j] = calls[j]
        /\ job'[j].bridge = job[j].bridge
        /\ job'[j].status \in {"none", "pending_submit"} => job'[j].status = job[j].status
        /\ \/ calls'[j] = calls[j]
           \/ calls[j] = <<>> /\ calls'[j] = <<"failed">>
    BY <1>13, FailureRecords
  <2>2. CASE i = j
    <3>1. tick'[j].step = "idle"
      BY <1>0, <1>13, <2>2 DEF Clear, Idle
    <3>2. Ends(j)
      BY <1>13, <2>1, <2>2, <3>1 DEF Ends
    <3> QED
      BY <1>13, <3>2 DEF JobStep
  <2>3. CASE i # j
    <3>1. tick'[j] = tick[j]
      BY <1>0, <1>13, <2>3 DEF Clear
    <3> QED
      BY <1>13, <2>1, <2>3, <3>1, SameWaits DEF JobStep
  <2> QED
    BY <2>2, <2>3
<1>14. ASSUME NEW i \in Jobs, FailJob(i) \/ RejectResult(i) PROVE JobStep(j)
  BY <1>13, <1>14 DEF FailJob, RejectResult
<1>15. ASSUME NEW i \in Jobs, NEW computed \in Costs, Settle(i, computed) PROVE JobStep(j)
  <2>0. /\ CompleteAndSettle(i, computed) /\ tick[i].step = "finalizing"
        /\ tick' = Clear(i) /\ UNCHANGED <<tasks, faults>>
    BY <1>15 DEF Settle
  <2>1. /\ i # j => job'[j] = job[j] /\ calls'[j] = calls[j]
        /\ job'[j].bridge = job[j].bridge
        /\ job'[j].status \in {"none", "pending_submit"} => job'[j].status = job[j].status
        /\ \/ calls'[j] = calls[j]
           \/ calls[j] = <<>> /\ calls'[j] = <<"success">>
    BY <2>0, SettleRecords
  <2>2. CASE i = j
    <3>1. tick'[j].step = "idle"
      BY <1>0, <2>0, <2>2 DEF Clear, Idle
    <3>2. Ends(j)
      BY <2>0, <2>1, <2>2, <3>1 DEF Ends
    <3> QED
      BY <2>0, <3>2 DEF JobStep
  <2>3. CASE i # j
    <3>1. tick'[j] = tick[j]
      BY <1>0, <2>0, <2>3 DEF Clear
    <3> QED
      BY <2>0, <2>1, <2>3, <3>1, SameWaits DEF JobStep
  <2> QED
    BY <2>2, <2>3
<1>16. ASSUME NEW i \in Jobs, RetryLater(i) PROVE JobStep(j)
  <2>1. UNCHANGED <<job, calls, tasks>> /\ faults' = faults + 1 /\ tick' = Clear(i)
    BY <1>16 DEF RetryLater, Fault
  <2>2. CASE i = j
    BY <1>0, <2>1, <2>2 DEF JobStep, Lost, Clear, Idle
  <2>3. CASE i # j
    BY <1>0, <2>1, <2>3, SameWaits DEF JobStep, Clear
  <2> QED
    BY <2>2, <2>3
<1>17. CASE TickFails \/ Crash
  <2>1. UNCHANGED <<job, calls, tasks>> /\ faults' = faults + 1 /\ tick' = AllIdle
    BY <1>17 DEF TickFails, Crash, Fault
  <2> QED
    BY <1>0, <2>1 DEF JobStep, Lost, AllIdle, Idle
<1>18. ASSUME NEW i \in RawJobs, Abort(i) PROVE JobStep(j)
  <2>0. i \in Jobs
    BY UsersJobsAssumption
  <2>1. CASE AbortLoad(i) \/ AbortStops(i)
    BY <1>1, <2>1 DEF AbortLoad, AbortStops
  <2>2. CASE AbortUnsubmitted(i) \/ AbortRecord(i)
    <3>1. FailAndRecord(i) /\ UNCHANGED <<tasks, tick, faults>>
      BY <2>2 DEF AbortUnsubmitted, AbortRecord
    <3>2. /\ i # j => job'[j] = job[j] /\ calls'[j] = calls[j]
          /\ job'[j].bridge = job[j].bridge
          /\ job'[j].status \in {"none", "pending_submit"} => job'[j].status = job[j].status
          /\ \/ calls'[j] = calls[j]
             \/ calls[j] = <<>> /\ calls'[j] = <<"failed">>
      BY <2>0, <3>1, FailureRecords
    <3>3. Waits(j)
      BY <3>1, <3>2 DEF Waits, Settling
    <3> QED
      BY <3>1, <3>3 DEF JobStep
  <2>3. CASE AbortAtBridge(i)
    <3>1. aborter[i].bridge \in DOMAIN tasks[i]
      BY <2>0, <2>3 DEF AbortAtBridge, TypeInv, CopiesAreGrounded
    <3>2. StopTask(i, aborter[i].bridge) /\ UNCHANGED <<job, calls, tick, faults>>
      BY <2>3 DEF AbortAtBridge
    <3>3. Settling(j)
      BY <2>0, <3>1, <3>2, StoppedTaskSettles
    <3> QED
      BY <3>2, <3>3 DEF JobStep, Waits
  <2> QED
    BY <1>18, <2>1, <2>2, <2>3 DEF Abort
<1>19. ASSUME NEW i \in Jobs, NEW k \in DOMAIN tasks[i], TaskFinishes(i, k) PROVE JobStep(j)
  <2>1. PICK status \in {"success", "failed"} : tasks' = [tasks EXCEPT ![i][k] = status]
    BY <1>19 DEF TaskFinishes
  <2>2. Settling(j)
    BY <1>19, <2>1, EndedTaskSettles DEF TaskFinishes
  <2> QED
    BY <1>19, <2>2 DEF TaskFinishes, JobStep, Waits
<1>20. ASSUME NEW u \in Users, Reconcile(u) PROVE JobStep(j)
  BY <1>1, <1>20 DEF Reconcile
<1>21. ASSUME NEW i \in Jobs, DeleteTerminal(i) PROVE JobStep(j)
  <2>1. /\ UNCHANGED <<calls, tasks, tick, faults>>
        /\ job'[j].bridge = job[j].bridge
        /\ job'[j].status \in {"none", "pending_submit"} => job'[j].status = job[j].status
    BY <1>21 DEF DeleteTerminal, TypeInv, TypeOK, Rows
  <2> QED
    BY <2>1 DEF JobStep, Waits, Settling
<1>22. WorkerStep => JobStep(j)
  BY <1>7, <1>8, <1>10, <1>11, <1>12, <1>14, <1>15 DEF WorkerStep
<1>23. WorkerFault => JobStep(j)
  BY <1>6, <1>9, <1>11, <1>16, <1>17 DEF WorkerFault
<1> QED
  BY <1>2, <1>3, <1>4, <1>5, <1>6, <1>18, <1>19, <1>20, <1>21, <1>22, <1>23 DEF Next

\* Nobody but the client of a Raw Task aborts.
LEMMA OnlyRawJobsAbort ==
  ASSUME TypeInv, [Next]_vars, NEW j \in Jobs \ RawJobs, aborter[j].step = "idle"
  PROVE  aborter'[j].step = "idle"
<1>1. CASE UNCHANGED aborter
  BY <1>1
<1>2. CASE Crash
  BY <1>2 DEF Crash, AllIdle, Idle
<1>3. CASE \E i \in RawJobs : Abort(i)
  <2>1. PICK i \in RawJobs : Abort(i)
    BY <1>3
  <2>2. aborter'[j] = aborter[j]
    BY <2>1 DEF Abort, AbortLoad, AbortUnsubmitted, AbortAtBridge, AbortRecord, AbortStops,
                TypeInv, TypeOK
  <2> QED
    BY <2>2
<1> QED
  BY <1>1, <1>2, <1>3 DEF Next, vars, Deposit, ReserveCreditsAndCreateTaskJob, Expire,
     RecoverIncompleteJobs, RecoveryFails, WorkerStep, WorkerFault, LoadBatch, FailJob,
     CreateTasks, CreateTasksReplyLost, StoreBridgeTask, GetTaskStatuses, UpdateTaskJobPhase,
     Finalize, Settle, RejectResult, RetryLater, TickFails, TaskFinishes, Reconcile,
     DeleteTerminal


-----------------------------------------------------------------------------
(* The ClientTasks of a job, its row and its records. *)

\* A job that can still be submitted has at most one task per fault, any other
\* one more.
Submits(j) ==
  /\ job[j].status = "none" => Len(tasks[j]) = 0
  /\ Len(tasks[j]) <= 1 + faults
  /\ \/ job[j].status = "pending_submit" /\ tick[j].step # "created"
     \/ tick[j].step \in {"late", "pending", "rejected"}
     => Len(tasks[j]) <= faults

\* A tick in flight is about the task on the row, and what it has heard of that
\* task's end stays true.
Polled(j) ==
  /\ tick[j].step \in {"inflight", "finalizing"} \cup Answers => tick[j].bridge = job[j].bridge
  /\ tick[j].step \in {"success", "finalizing"} => tasks[j][tick[j].bridge] = "success"
  /\ tick[j].step = "failed" => tasks[j][tick[j].bridge] = "failed"
  /\ tick[j].step = "error" => faults > 0

\* Only the tick closes a job that no client can abort.
Undisturbed(j) ==
  j \notin RawJobs =>
    /\ aborter[j].step = "idle"
    /\ tick[j].step # "idle" => calls[j] = <<>>

\* SuccessIsPaidWork, NoOrphanWithoutFault and ClosedJobsAreStopped for one job.
PaidWork(j) ==
  calls[j] = <<"success">> =>
    /\ job[j].bridge \in DOMAIN tasks[j]
    /\ tasks[j][job[j].bridge] = "success"

Tracked(j) ==
  faults = 0 =>
    \A k \in DOMAIN tasks[j] :
      tasks[j][k] = "running" =>
        \/ job[j].bridge = k
        \/ tick[j].step = "created" /\ tick[j].bridge = k

Stopped(j) ==
  j \notin RawJobs /\ faults = 0 /\ calls[j] # <<>> =>
    \A k \in DOMAIN tasks[j] : tasks[j][k] # "running"

BridgeInv(j) ==
  Submits(j) /\ Polled(j) /\ Undisturbed(j) /\ PaidWork(j) /\ Tracked(j) /\ Stopped(j)

\* The new task is the last.
LEMMA AppendedTask ==
  ASSUME TypeInv, NEW j \in Jobs, tasks'[j] = Append(tasks[j], "running")
  PROVE  /\ Len(tasks'[j]) = Len(tasks[j]) + 1
         /\ DOMAIN tasks'[j] = DOMAIN tasks[j] \cup {Len(tasks[j]) + 1}
         /\ \A k \in DOMAIN tasks[j] : tasks'[j][k] = tasks[j][k]
<1>1. tasks[j] \in Seq(TaskStatuses) /\ "running" \in TaskStatuses
  BY DEF TypeInv, TypeOK, TaskStatuses
<1>2. /\ Len(tasks'[j]) = Len(tasks[j]) + 1 /\ Len(tasks[j]) \in Nat
      /\ tasks'[j] \in Seq(TaskStatuses)
      /\ \A k \in 1..Len(tasks[j]) : tasks'[j][k] = tasks[j][k]
  BY <1>1, AppendProperties
<1>3. DOMAIN tasks[j] = 1..Len(tasks[j]) /\ DOMAIN tasks'[j] = 1..Len(tasks'[j])
  BY <1>1, <1>2, LenProperties
<1> QED
  BY <1>2, <1>3

\* What the steps on one job read of the global invariants.
Grounded(j) ==
  /\ Len(tasks[j]) \in Nat /\ DOMAIN tasks[j] = 1..Len(tasks[j])
  /\ job[j].status \in InFlight => job[j].bridge # 0
  /\ job[j].bridge # 0 => job[j].bridge \in DOMAIN tasks[j]
  /\ tick[j].step \in {"created", "inflight", "finalizing"} \cup Answers =>
       tick[j].bridge \in DOMAIN tasks[j]
  /\ tick[j].step = "inflight" => Answer(j) \in TaskStatuses
  /\ tick[j].step # "idle" => job[j].status \notin {"none", "deleted"}
  /\ job[j].status \in Unfinished => calls[j] = <<>>
  /\ faults \in Nat

LEMMA GroundedJob ==
  ASSUME TypeInv, RecordedOnce, NEW j \in Jobs
  PROVE  Grounded(j)
<1>1. /\ tasks[j] \in Seq(TaskStatuses)
      /\ Len(tasks[j]) \in Nat /\ DOMAIN tasks[j] = 1..Len(tasks[j])
  BY LenProperties DEF TypeInv, TypeOK, TaskStatuses
<1>2. tick[j].step \in {"created", "inflight", "finalizing"} \cup Answers =>
        tick[j].bridge \in DOMAIN tasks[j]
  BY DEF TypeInv, CopiesAreGrounded
<1>3. tick[j].step = "inflight" => Answer(j) \in TaskStatuses
  BY <1>1, <1>2 DEF Answer
<1>4. job[j].status \in Unfinished => calls[j] = <<>>
  BY DEF TypeInv, TypeOK, RecordedOnce, Rows, Unfinished, InFlight, Terminal
<1> QED
  BY <1>1, <1>2, <1>3, <1>4 DEF TypeInv, TypeOK, CopiesAreGrounded, Grounded

\* The number of tasks.
LEMMA SubmitsKept ==
  ASSUME TypeInv, NEW j \in Jobs, Grounded(j), Submits(j), JobStep(j)
  PROVE  Submits(j)'
<1>0. tasks'[j] = Append(tasks[j], "running") => Len(tasks'[j]) = Len(tasks[j]) + 1
  BY AppendedTask
<1>1. CASE Waits(j)
  BY <1>1 DEF Submits, JobStep, Waits, Settling, Grounded
<1>2. CASE Appears(j)
  BY <1>2 DEF Submits, JobStep, Appears, Grounded
<1>3. CASE Loads(j)
  BY <1>3 DEF Submits, JobStep, Loads, Loaded, Grounded, Unfinished
<1>4. CASE Created(j)
  BY <1>0, <1>4 DEF Submits, JobStep, Created, Grounded
<1>5. CASE Lost(j)
  BY <1>0, <1>5 DEF Submits, JobStep, Lost, Grounded
<1>6. CASE Stored(j)
  BY <1>6 DEF Submits, JobStep, Stored, Settling, Grounded
<1>7. CASE Polls(j)
  BY <1>7 DEF Submits, JobStep, Polls, Grounded, TaskStatuses
<1>8. CASE Advances(j)
  BY <1>8 DEF Submits, JobStep, Advances, Grounded
<1>9. CASE Ends(j)
  BY <1>9 DEF Submits, JobStep, Ends, Grounded
<1> QED
  BY <1>1, <1>2, <1>3, <1>4, <1>5, <1>6, <1>7, <1>8, <1>9 DEF JobStep

\* What the tick has heard.
LEMMA PolledKept ==
  ASSUME TypeInv, NEW j \in Jobs, Grounded(j), Polled(j), JobStep(j)
  PROVE  Polled(j)'
<1>0. faults > 0 => faults' > 0
  BY DEF JobStep, Grounded
<1>1. CASE Waits(j)
  BY <1>0, <1>1 DEF Polled, Waits, Settling, Grounded, Answers
<1>2. CASE Appears(j)
  BY <1>0, <1>2 DEF Polled, Appears, Answers
<1>3. CASE Loads(j)
  BY <1>3 DEF Polled, JobStep, Loads, Loaded, Answers
<1>4. CASE Created(j)
  BY <1>4 DEF Polled, JobStep, Created, Answers
<1>5. CASE Lost(j)
  BY <1>5 DEF Polled, JobStep, Lost, Answers
<1>6. CASE Stored(j)
  BY <1>6 DEF Polled, JobStep, Stored, Answers
<1>7. CASE Polls(j)
  BY <1>7 DEF Polled, JobStep, Polls, Grounded, Answer, TaskStatuses, Answers
<1>8. CASE Advances(j)
  BY <1>8 DEF Polled, JobStep, Advances, Grounded, Answers
<1>9. CASE Ends(j)
  BY <1>9 DEF Polled, JobStep, Ends, Answers
<1> QED
  BY <1>1, <1>2, <1>3, <1>4, <1>5, <1>6, <1>7, <1>8, <1>9 DEF JobStep

\* Who closes the job.
LEMMA UndisturbedKept ==
  ASSUME TypeInv, NEW j \in Jobs, Grounded(j), Undisturbed(j), JobStep(j), [Next]_vars
  PROVE  Undisturbed(j)'
<1>0. j \notin RawJobs => aborter'[j].step = "idle"
  BY OnlyRawJobsAbort DEF Undisturbed
<1>1. CASE Waits(j)
  BY <1>0, <1>1 DEF Undisturbed, Waits
<1>2. CASE Appears(j)
  BY <1>0, <1>2 DEF Undisturbed, Appears
<1>3. CASE Loads(j)
  BY <1>0, <1>3 DEF Undisturbed, Loads, Grounded
<1>4. CASE Created(j)
  BY <1>0, <1>4 DEF Undisturbed, Created
<1>5. CASE Lost(j)
  BY <1>0, <1>5 DEF Undisturbed, Lost
<1>6. CASE Stored(j)
  BY <1>0, <1>6 DEF Undisturbed, Stored
<1>7. CASE Polls(j)
  BY <1>0, <1>7 DEF Undisturbed, Polls
<1>8. CASE Advances(j)
  BY <1>0, <1>8 DEF Undisturbed, Advances
<1>9. CASE Ends(j)
  BY <1>0, <1>9 DEF Undisturbed, Ends
<1> QED
  BY <1>1, <1>2, <1>3, <1>4, <1>5, <1>6, <1>7, <1>8, <1>9 DEF JobStep

\* A step that records no success keeps what was paid for.
LEMMA PaidWorkKept ==
  ASSUME TypeInv, RecordedOnce, NEW j \in Jobs, Grounded(j), Polled(j),
         PaidWork(j), JobStep(j), [Next]_vars
  PROVE  PaidWork(j)'
<1>0. /\ calls[j] # <<>> => job'[j].bridge = job[j].bridge
      /\ <<"success">> # <<>> /\ <<"failed">> # <<"success">>
  BY ClosedKept
<1>1. tasks'[j] = Append(tasks[j], "running") =>
        /\ \A k \in DOMAIN tasks[j] : tasks'[j][k] = tasks[j][k]
        /\ DOMAIN tasks'[j] = DOMAIN tasks[j] \cup {Len(tasks[j]) + 1}
  BY AppendedTask
<1>2. /\ DOMAIN tasks[j] \subseteq DOMAIN tasks'[j]
      /\ \A k \in DOMAIN tasks[j] : tasks[j][k] = "success" => tasks'[j][k] = "success"
  BY <1>1 DEF JobStep, Waits, Appears, Loads, Created, Lost, Stored, Polls, Advances, Ends,
              Settling, Grounded
<1>3. CASE calls'[j] = calls[j]
  BY <1>0, <1>2, <1>3 DEF PaidWork
<1>4. CASE calls'[j] = <<"failed">>
  BY <1>0, <1>4 DEF PaidWork
<1>5. CASE Ends(j) /\ tick[j].step = "finalizing"
  BY <1>2, <1>5 DEF PaidWork, Polled, Grounded, Ends
<1> QED
  BY <1>3, <1>4, <1>5 DEF JobStep, Waits, Appears, Loads, Created, Lost, Stored, Polls,
                         Advances, Ends

\* Running tasks are known.
LEMMA TrackedKept ==
  ASSUME TypeInv, NEW j \in Jobs, Grounded(j), Submits(j), Tracked(j), JobStep(j)
  PROVE  Tracked(j)'
<1>0. CASE faults' # 0
  BY <1>0 DEF Tracked
<1> SUFFICES ASSUME faults' = 0 PROVE Tracked(j)'
  BY <1>0
<1>a. faults = 0 /\ faults' # faults + 1
  BY DEF JobStep, Grounded
<1>1. CASE Waits(j)
  BY <1>a, <1>1 DEF Tracked, Waits, Settling, Grounded
<1>2. CASE Appears(j)
  BY <1>a, <1>2 DEF Tracked, Appears
<1>3. CASE Loads(j)
  BY <1>a, <1>3 DEF Tracked, Loads
<1>4. CASE Created(j)
  BY <1>a, <1>4, AppendedTask DEF Tracked, Created
<1>5. CASE Lost(j)
  BY <1>a, <1>5 DEF Lost
<1>6. CASE Stored(j)
  BY <1>a, <1>6 DEF Tracked, Submits, Stored, Settling, Grounded
<1>7. CASE Polls(j)
  BY <1>a, <1>7 DEF Tracked, Polls
<1>8. CASE Advances(j)
  BY <1>a, <1>8 DEF Tracked, Advances
<1>9. CASE Ends(j)
  BY <1>a, <1>9 DEF Tracked, Ends
<1> QED
  BY <1>1, <1>2, <1>3, <1>4, <1>5, <1>6, <1>7, <1>8, <1>9 DEF JobStep

\* A job is closed after its tasks.
LEMMA StoppedKept ==
  ASSUME TypeInv, RecordedOnce, NEW j \in Jobs, Grounded(j), Submits(j), Polled(j),
         Undisturbed(j), Stopped(j), JobStep(j)
  PROVE  Stopped(j)'
<1>0. CASE faults' # 0 \/ j \in RawJobs
  BY <1>0 DEF Stopped
<1> SUFFICES ASSUME faults' = 0, j \notin RawJobs PROVE Stopped(j)'
  BY <1>0
<1>a. faults = 0 /\ faults' # faults + 1
  BY DEF JobStep, Grounded
<1>1. CASE Waits(j)
  BY <1>a, <1>1 DEF Stopped, Waits, Settling, Grounded
<1>2. CASE Appears(j)
  BY <1>a, <1>2 DEF Stopped, Appears
<1>3. CASE Loads(j)
  BY <1>a, <1>3 DEF Stopped, Loads
<1>4. CASE Created(j)
  BY <1>a, <1>4 DEF Stopped, Undisturbed, Created
<1>5. CASE Lost(j)
  BY <1>a, <1>5 DEF Lost
<1>6. CASE Stored(j)
  BY <1>a, <1>6 DEF Stopped, Undisturbed, Stored
<1>7. CASE Polls(j)
  BY <1>a, <1>7 DEF Stopped, Polls
<1>8. CASE Advances(j)
  BY <1>a, <1>8 DEF Stopped, Advances
<1>9. CASE Ends(j)
  BY <1>a, <1>9 DEF Stopped, Submits, Polled, Ends, Grounded, Answers
<1> QED
  BY <1>1, <1>2, <1>3, <1>4, <1>5, <1>6, <1>7, <1>8, <1>9 DEF JobStep

-----------------------------------------------------------------------------
\* The invariant of the Bridge side, for all jobs.
TasksInv == \A j \in Jobs : BridgeInv(j)

LEMMA TasksInit == Init => TasksInv
<1> SUFFICES ASSUME Init, NEW j \in Jobs PROVE BridgeInv(j)
  BY DEF TasksInv
<1>1. /\ job[j].status = "none" /\ calls[j] = <<>> /\ tasks[j] = <<>>
      /\ tick[j].step = "idle" /\ aborter[j].step = "idle" /\ faults = 0
  BY DEF Init, NoJobs, AllIdle, Idle
<1>2. Len(tasks[j]) = 0 /\ DOMAIN tasks[j] = {} /\ <<"success">> # <<>>
  BY <1>1
<1> QED
  BY <1>1, <1>2 DEF BridgeInv, Submits, Polled, Undisturbed, PaidWork, Tracked, Stopped, Answers

LEMMA TasksNext ==
  ASSUME TypeInv, RecordedOnce, TasksInv, [Next]_vars
  PROVE  TasksInv'
<1> SUFFICES ASSUME NEW j \in Jobs PROVE BridgeInv(j)'
  BY DEF TasksInv
<1>1. /\ Submits(j) /\ Polled(j) /\ Undisturbed(j) /\ PaidWork(j) /\ Tracked(j) /\ Stopped(j)
      /\ Grounded(j) /\ JobStep(j)
  BY GroundedJob, NextIsJobStep DEF TasksInv, BridgeInv
<1>2. Submits(j)' /\ Polled(j)' /\ Undisturbed(j)' /\ PaidWork(j)' /\ Tracked(j)' /\ Stopped(j)'
  BY <1>1, SubmitsKept, PolledKept, UndisturbedKept, PaidWorkKept, TrackedKept, StoppedKept
<1> QED
  BY <1>2 DEF BridgeInv

LEMMA TasksCorrect == Spec => [](TypeInv /\ TasksInv)
<1>1. Init => TypeInv /\ RecordedOnce /\ TasksInv
  BY TypeInit, RecordsInit, TasksInit
<1>2. TypeInv /\ RecordedOnce /\ TasksInv /\ [Next]_vars
        => TypeInv' /\ RecordedOnce' /\ TasksInv'
  BY TypeNext, RecordsNext, TasksNext
<1> QED
  BY <1>1, <1>2, PTL DEF Spec

\* A job has a success record only if the ClientTask on its row succeeded,
\* although the worker settles from a status it read earlier.
THEOREM SuccessWasWorkedFor == Spec => []SuccessIsPaidWork
<1>1. TasksInv => SuccessIsPaidWork
  BY DEF TasksInv, BridgeInv, PaidWork, SuccessIsPaidWork
<1> QED
  BY <1>1, TasksCorrect, PTL

\* A job never has more than one ClientTask and one more for every fault.
THEOREM SubmissionsBounded == Spec => []SubmittedOncePerFault
<1>1. TasksInv => SubmittedOncePerFault
  BY DEF TasksInv, BridgeInv, Submits, SubmittedOncePerFault
<1> QED
  BY <1>1, TasksCorrect, PTL

\* Without a fault every ClientTask that runs is on its row, or is the one the
\* tick is about to store.
THEOREM NoTaskIsLost == Spec => []NoOrphanWithoutFault
<1>1. TypeInv /\ TasksInv => NoOrphanWithoutFault
  <2> SUFFICES ASSUME TypeInv, TasksInv, faults = 0, NEW j \in Jobs,
                      NEW k \in DOMAIN tasks[j], tasks[j][k] = "running",
                      job[j].bridge # k
               PROVE  tick[j] = [step |-> "created", bridge |-> k]
    BY DEF NoOrphanWithoutFault
  <2>1. tick[j].step = "created" /\ tick[j].bridge = k
    BY DEF TasksInv, BridgeInv, Tracked
  <2>2. tick[j] \in Ticks
    BY DEF TypeInv, TypeOK
  <2> QED
    BY <2>1, <2>2 DEF Ticks
<1> QED
  BY <1>1, TasksCorrect, PTL

\* Without a fault or an abort, a job is closed only after its ClientTasks ended.
THEOREM ClosedAfterTasks == Spec => []ClosedJobsAreStopped
<1>1. TasksInv => ClosedJobsAreStopped
  BY DEF TasksInv, BridgeInv, Stopped, ClosedJobsAreStopped
<1> QED
  BY <1>1, TasksCorrect, PTL

-----------------------------------------------------------------------------
(* Abort requests. *)

\* A row has no task before it was submitted; a request that read an id read the
\* one the row has, and one that was answered by the Bridge has stopped the task.
AbortsKnow(j) ==
  /\ job[j].status \in {"none", "pending_submit"} => job[j].bridge = 0
  /\ aborter[j].step # "idle" /\ aborter[j].bridge # 0 => aborter[j].bridge = job[j].bridge
  /\ aborter[j].step = "aborted" =>
       aborter[j].bridge # 0 /\ tasks[j][aborter[j].bridge] = "failed"

\* What a step does to the abort request of a job.
AborterStep(j) ==
  \/ aborter'[j] = aborter[j]
  \/ /\ aborter'[j].step = "idle"
     /\ \/ calls'[j] = calls[j]
        \/ aborter[j].step = "loaded" /\ aborter[j].bridge = 0
        \/ aborter[j].step = "aborted"
  \/ /\ aborter'[j].step = "loaded" /\ aborter'[j].bridge = job[j].bridge
     /\ UNCHANGED <<job, tasks>>
  \/ /\ aborter[j].step = "loaded" /\ aborter[j].bridge # 0
     /\ aborter'[j].step = "aborted" /\ aborter'[j].bridge = aborter[j].bridge
     /\ tasks'[j][aborter[j].bridge] = "failed" /\ UNCHANGED job

LEMMA NextIsAborterStep ==
  ASSUME TypeInv, [Next]_vars, NEW j \in Jobs
  PROVE  AborterStep(j)
<1>1. CASE UNCHANGED aborter
  BY <1>1 DEF AborterStep
<1>2. CASE Crash
  BY <1>2 DEF Crash, AllIdle, Idle, AborterStep
<1>3. ASSUME NEW i \in RawJobs, Abort(i) PROVE AborterStep(j)
  <2>0. i \in Jobs /\ aborter \in [Jobs -> Aborters]
    BY UsersJobsAssumption DEF TypeInv, TypeOK
  <2>1. CASE i # j
    <3>1. aborter'[j] = aborter[j]
      BY <1>3, <2>0, <2>1 DEF Abort, AbortLoad, AbortUnsubmitted, AbortAtBridge, AbortRecord,
                              AbortStops
    <3> QED
      BY <3>1 DEF AborterStep
  <2>2. CASE i = j /\ AbortLoad(i)
    BY <2>0, <2>2 DEF AbortLoad, AborterStep
  <2>3. CASE i = j /\ AbortUnsubmitted(i)
    BY <2>0, <2>3 DEF AbortUnsubmitted, AborterStep, Idle
  <2>4. CASE i = j /\ AbortAtBridge(i)
    <3>1. j \in Jobs /\ aborter[j].bridge \in DOMAIN tasks[j]
      BY <2>4 DEF AbortAtBridge, TypeInv, CopiesAreGrounded
    <3>2. StopTask(j, aborter[j].bridge) /\ tasks[j][aborter[j].bridge] # "success"
      BY <2>4 DEF AbortAtBridge
    <3>3. tasks[j] \in Seq(TaskStatuses) /\ tasks[j][aborter[j].bridge] \in TaskStatuses
      BY <3>1, ElementOfSeq, LenProperties DEF TypeInv, TypeOK, TaskStatuses
    <3>4. tasks'[j][aborter[j].bridge] = "failed"
      <4>1. CASE tasks[j][aborter[j].bridge] = "running"
        <5>1. tasks' = [tasks EXCEPT ![j][aborter[j].bridge] = "failed"]
          BY <3>2, <4>1 DEF StopTask
        <5> QED
          BY <3>1, <4>1, <5>1, EndedTaskSettles
      <4>2. CASE tasks[j][aborter[j].bridge] # "running"
        <5>1. Settling(j)
          BY <3>1, <3>2, StoppedTaskSettles
        <5> QED
          BY <3>1, <3>2, <3>3, <4>2, <5>1 DEF Settling, TaskStatuses
      <4> QED
        BY <4>1, <4>2
    <3> DEFINE a == [aborter[j] EXCEPT !.step = "aborted"]
    <3>5. aborter' = [aborter EXCEPT ![j] = a] /\ aborter[j].step = "loaded"
          /\ aborter[j].bridge # 0 /\ UNCHANGED job
      BY <2>4 DEF AbortAtBridge
    <3>6. a.step = "aborted" /\ a.bridge = aborter[j].bridge
      BY <2>0 DEF Aborters
    <3> HIDE DEF a
    <3> QED
      BY <2>0, <3>4, <3>5, <3>6 DEF AborterStep
  <2>5. CASE i = j /\ AbortRecord(i)
    BY <2>0, <2>5 DEF AbortRecord, AborterStep, Idle
  <2>6. CASE i = j /\ AbortStops(i)
    BY <2>0, <2>6 DEF AbortStops, AborterStep, Idle
  <2> QED
    BY <1>3, <2>1, <2>2, <2>3, <2>4, <2>5, <2>6 DEF Abort
<1> QED
  BY <1>1, <1>2, <1>3 DEF Next, vars, Deposit, ReserveCreditsAndCreateTaskJob, Expire,
     RecoverIncompleteJobs, RecoveryFails, WorkerStep, WorkerFault, LoadBatch, FailJob,
     CreateTasks, CreateTasksReplyLost, StoreBridgeTask, GetTaskStatuses, UpdateTaskJobPhase,
     Finalize, Settle, RejectResult, RetryLater, TickFails, TaskFinishes, Reconcile,
     DeleteTerminal

\* An id on a row is never replaced, and a task that has failed stays so.
LEMMA AbortsKnowKept ==
  ASSUME TypeInv, NEW j \in Jobs, Grounded(j), AbortsKnow(j), JobStep(j), AborterStep(j)
  PROVE  AbortsKnow(j)'
<1>1. /\ job'[j].status \in {"none", "pending_submit"} => job'[j].bridge = 0
      /\ job[j].bridge # 0 => job'[j].bridge = job[j].bridge
  BY DEF AbortsKnow, JobStep, Waits, Appears, Loads, Created, Lost, Stored, Polls, Advances, Ends
<1>2. tasks'[j] = Append(tasks[j], "running") =>
        \A k \in DOMAIN tasks[j] : tasks'[j][k] = tasks[j][k]
  BY AppendedTask
<1>3. \A k \in DOMAIN tasks[j] : tasks[j][k] = "failed" => tasks'[j][k] = "failed"
  BY <1>2 DEF JobStep, Waits, Appears, Loads, Created, Lost, Stored, Polls, Advances, Ends, Settling
<1>4. aborter[j].step = "aborted" => aborter[j].bridge \in DOMAIN tasks[j]
  BY DEF AbortsKnow, TypeInv, CopiesAreGrounded
<1> QED
  BY <1>1, <1>3, <1>4 DEF AbortsKnow, AborterStep

AbortsInv == \A j \in Jobs : AbortsKnow(j)

\* The task that an abort request stopped is the one on the row, and it stays
\* stopped until the request has recorded the failure.
THEOREM AbortedAfterTask == Spec => AbortedTaskIsStopped
<1>1. Init => TypeInv /\ RecordedOnce /\ AbortsInv
  BY TypeInit, RecordsInit DEF AbortsInv, AbortsKnow, Init, NoJobs, AllIdle, Idle
<1>2. TypeInv /\ RecordedOnce /\ AbortsInv /\ [Next]_vars
        => TypeInv' /\ RecordedOnce' /\ AbortsInv'
  <2> SUFFICES ASSUME TypeInv, RecordedOnce, AbortsInv, [Next]_vars
               PROVE  TypeInv' /\ RecordedOnce' /\ AbortsInv'
    OBVIOUS
  <2>1. ASSUME NEW j \in Jobs PROVE AbortsKnow(j)'
    <3>1. AbortsKnow(j) /\ Grounded(j) /\ JobStep(j) /\ AborterStep(j)
      BY GroundedJob, NextIsJobStep, NextIsAborterStep DEF AbortsInv
    <3> QED
      BY <3>1, AbortsKnowKept
  <2> QED
    BY <2>1, TypeNext, RecordsNext DEF AbortsInv
<1>3. TypeInv /\ AbortsInv /\ [Next]_vars =>
        [\A j \in Jobs :
           /\ aborter[j].step # "idle" /\ aborter[j].bridge # 0
           /\ aborter'[j].step = "idle" /\ calls'[j] # calls[j]
           => tasks[j][job[j].bridge] = "failed"]_vars
  <2> SUFFICES ASSUME TypeInv, AbortsInv, [Next]_vars, NEW j \in Jobs,
                      aborter[j].step # "idle", aborter[j].bridge # 0,
                      aborter'[j].step = "idle", calls'[j] # calls[j]
               PROVE  tasks[j][job[j].bridge] = "failed"
    OBVIOUS
  <2>1. AborterStep(j) /\ AbortsKnow(j)
    BY NextIsAborterStep DEF AbortsInv
  <2> QED
    BY <2>1 DEF AborterStep, AbortsKnow
<1> QED
  BY <1>1, <1>2, <1>3, PTL DEF Spec, AbortedTaskIsStopped

-----------------------------------------------------------------------------
(* TaskJobs implements JobBilling. *)

\* The abstract state of a state of TaskJobs.
Funds == [u \in Users |-> account[u].balance]
Phase == [j \in Jobs |-> BillingPhase(j)]

\* A job is open while its hold is held.
LEMMA OpenIsHeld ==
  ASSUME TypeOK, RecordedOnce, NEW j \in Jobs
  PROVE  /\ BillingPhase(j) = "open" <=> job[j].lock = "held"
         /\ BillingPhase(j) = "none" <=> job[j].status = "none"
<1>1. job[j] \in Rows
  BY DEF TypeOK
<1> QED
  BY <1>1 DEF RecordedOnce, BillingPhase, Rows, Terminal, Unfinished, InFlight

\* What is promised to the open jobs of a user is what is locked.
LEMMA PromisedIsLocked ==
  ASSUME TypeOK, RecordedOnce, AccountsInv, NEW u \in Users
  PROVE  Billing!Promised(u) = account[u].locked
<1>1. Billing!JobsOf(u) = JobsOf(u) /\ JobsOf(u) \subseteq Jobs
  BY DEF Billing!JobsOf, JobsOf
<1>2. [j \in Billing!JobsOf(u) |-> IF Phase[j] = "open" THEN Hold[j] ELSE 0]
        = [j \in JobsOf(u) |-> IF job[j].lock = "held" THEN Hold[j] ELSE 0]
  BY <1>1, OpenIsHeld DEF Phase
<1>3. Billing!Promised(u)
        = Total([j \in Billing!JobsOf(u) |-> IF Phase[j] = "open" THEN Hold[j] ELSE 0])
  <2>1. \A f : Billing!Total(f) = Total(f)
    BY DEF Billing!Total, Billing!Units, Billing!Cardinality, Total, Units, Cardinality
  <2>2. Billing!Promised(u) = Billing!Total(
          [j \in Billing!JobsOf(u) |-> IF Phase[j] = "open" THEN Hold[j] ELSE 0])
    BY DEF Billing!Promised, Phase
  <2> QED
    BY <2>1, <2>2
<1>4. HeldSum(u) = Total([j \in JobsOf(u) |-> IF job[j].lock = "held" THEN Hold[j] ELSE 0])
  BY DEF HeldSum
<1>5. Billing!Promised(u) = HeldSum(u)
  BY <1>2, <1>3, <1>4, Zenon
<1> QED
  BY <1>5 DEF AccountsInv, LockedMatchesHolds

-----------------------------------------------------------------------------
(* Steps. *)

\* A step that only relabels rows is a stutter.
LEMMA RelabelStutters ==
  ASSUME Relabel
  PROVE  UNCHANGED Billing!vars
<1>1. \A j \in Jobs : BillingPhase(j)' = BillingPhase(j)
  BY DEF Relabel, BillingPhase
<1> QED
  BY <1>1 DEF Relabel, Billing!vars

\* A deposit pays in, for the user and the referrer.
LEMMA DepositPaysIn ==
  ASSUME TypeOK, NEW u \in Users, NEW amount \in Deposits, NEW reward \in Rewards,
         Deposit(u, amount, reward)
  PROVE  Billing!PayIn \/ UNCHANGED Billing!vars
<1>1. ASSUME NEW v \in Users
      PROVE  Funds'[v] \in Nat /\ Funds[v] <= Funds'[v]
  <2>1. account[v] \in Accounts /\ Gain(u, amount, reward, v) \in Nat
    BY GainTyped DEF TypeOK
  <2>2. account'[v] = [account[v] EXCEPT !.balance = @ + Gain(u, amount, reward, v)]
    BY DEF Deposit
  <2>3. Funds[v] = account[v].balance /\ Funds'[v] = account'[v].balance
    BY DEF Funds
  <2> QED
    BY <2>1, <2>2, <2>3 DEF Accounts
<1>2. UNCHANGED <<Phase, charged>>
  BY DEF Deposit, Phase, BillingPhase
<1>3. Funds' = [v \in Users |-> Funds'[v]]
  BY DEF Funds
<1> QED
  BY <1>1, <1>2, <1>3 DEF Billing!PayIn, Billing!vars, Funds, Phase

\* A create is covered by funds that are not promised.
LEMMA ReserveAccepts ==
  ASSUME TypeOK, RecordedOnce, AccountsInv, NEW j \in Jobs,
         ReserveCreditsAndCreateTaskJob(j)
  PROVE  Billing!Accept(j)
<1> DEFINE r == [job[j] EXCEPT !.status = "pending_submit", !.lock = "held"]
<1>1. Owner[j] \in Users /\ j \in JobsOf(Owner[j]) /\ Hold[j] \in Nat /\ j >= j
  BY OwnersJobs, UsersJobsAssumption
<1>2. job[j].status = "none" /\ calls[j] = <<>>
  BY <1>1 DEF ReserveCreditsAndCreateTaskJob, RecordedOnce, Terminal
<1>3. Phase[j] = "none"
  BY <1>2 DEF Phase, BillingPhase
<1>4. Billing!Promised(Owner[j]) + Hold[j] <= Funds[Owner[j]]
  <2>1. Billing!Promised(Owner[j]) = account[Owner[j]].locked
    BY <1>1, PromisedIsLocked
  <2>2. account[Owner[j]] \in Accounts
    BY <1>1 DEF TypeOK
  <2>3. account[Owner[j]].locked <= account[Owner[j]].balance
    BY <1>1 DEF AccountsInv, Solvent
  <2>4. Hold[j] <= Available(account[Owner[j]])
    BY DEF ReserveCreditsAndCreateTaskJob
  <2>5. Funds[Owner[j]] = account[Owner[j]].balance
    BY <1>1 DEF Funds
  <2> QED
    BY <1>1, <2>1, <2>2, <2>3, <2>4, <2>5 DEF Available, Accounts
<1>5. Phase' = [Phase EXCEPT ![j] = "open"]
  <2>1. job' = [job EXCEPT ![j] = r]
    BY DEF ReserveCreditsAndCreateTaskJob
  <2>2. r.status = "pending_submit" /\ calls' = calls
    BY DEF TypeOK, Rows, ReserveCreditsAndCreateTaskJob
  <2>3. BillingPhase(j)' = "open"
    BY <1>2, <2>1, <2>2 DEF BillingPhase, TypeOK
  <2>4. \A i \in Jobs : i # j => BillingPhase(i)' = BillingPhase(i)
    BY <2>1, <2>2 DEF BillingPhase, TypeOK
  <2> QED
    BY <2>3, <2>4 DEF Phase
<1>6. UNCHANGED <<Funds, charged>>
  <2>1. account' = [account EXCEPT ![Owner[j]] = Reserve(@, Hold[j])] /\ charged' = charged
    BY DEF ReserveCreditsAndCreateTaskJob
  <2>2. account[Owner[j]] \in Accounts
    BY <1>1 DEF TypeOK
  <2>3. Reserve(account[Owner[j]], Hold[j]).balance = account[Owner[j]].balance
    BY <1>1, <2>2, ReserveTyped
  <2>4. \A u \in Users : account'[u].balance = account[u].balance
    BY <2>1, <2>3 DEF TypeOK
  <2> QED
    BY <2>1, <2>4 DEF Funds
<1> QED
  BY <1>3, <1>4, <1>5, <1>6 DEF Billing!Accept, Funds, Phase

\* A terminal transaction that pays c closes the job at that price.
LEMMA PaidCloses ==
  ASSUME TypeOK, RecordedOnce, AccountsInv, NEW j \in Jobs, NEW c \in Nat,
         NEW status \in Terminal, NEW call \in {"success", "failed"},
         job[j].lock = "held", job' = CloseRow(j, status), PaidFrom(j, c),
         calls' = [calls EXCEPT ![j] = Append(@, call)],
         charged' = [charged EXCEPT ![j] = @ + c],
         \A v \in Users : v # Owner[j] => account'[v] = account[v]
  PROVE  Billing!Close(j)
<1>1. Owner[j] \in Users /\ j \in JobsOf(Owner[j]) /\ Hold[j] \in Nat
  BY OwnersJobs
<1>2. Phase[j] = "open"
  BY OpenIsHeld DEF Phase
<1>3. calls[j] = <<>> /\ charged[j] = 0
  <2>1. calls[j] = <<>>
    BY <1>2 DEF Phase, BillingPhase
  <2>2. <<>> # <<"success">>
    OBVIOUS
  <2>3. charged[j] \in Nat /\ ~(charged[j] > 0)
    BY <2>1, <2>2 DEF RecordedOnce, TypeOK
  <2> QED
    BY <2>1, <2>3
<1>4. charged'[j] = c /\ charged' = [charged EXCEPT ![j] = charged'[j]]
  BY <1>3 DEF TypeOK
<1>5. Phase' = [Phase EXCEPT ![j] = "closed"]
  <2> DEFINE r == [job[j] EXCEPT !.status = status, !.record = TRUE,
                     !.lock = IF @ = "held" THEN "released" ELSE @]
  <2>1. job' = [job EXCEPT ![j] = r]
    BY DEF CloseRow
  <2>2. r.status # "none"
    BY DEF TypeOK, Rows, Terminal
  <2>3. calls'[j] # <<>>
    <3>1. calls'[j] = Append(<<>>, call)
      BY <1>3 DEF TypeOK
    <3>2. Append(<<>>, call) # <<>>
      OBVIOUS
    <3> QED
      BY <3>1, <3>2, Zenon
  <2> HIDE DEF r
  <2>4. job'[j] = r
    BY <2>1 DEF TypeOK
  <2>5. BillingPhase(j)' = "closed"
    BY <2>2, <2>3, <2>4 DEF BillingPhase
  <2>6. \A i \in Jobs : i # j => BillingPhase(i)' = BillingPhase(i)
    BY <2>1 DEF BillingPhase, TypeOK
  <2> QED
    BY <2>5, <2>6 DEF Phase
<1>6. /\ Funds[Owner[j]] \in Nat /\ Funds'[Owner[j]] = Funds[Owner[j]] - c
      /\ c <= Funds[Owner[j]] - (Billing!Promised(Owner[j]) - Hold[j])
  <2>1. Billing!Promised(Owner[j]) = account[Owner[j]].locked
    BY <1>1, PromisedIsLocked
  <2>2. account[Owner[j]] \in Accounts
    BY <1>1 DEF TypeOK
  <2>3. /\ Funds[Owner[j]] = account[Owner[j]].balance
        /\ Funds'[Owner[j]] = account'[Owner[j]].balance
    BY <1>1 DEF Funds
  <2>4. /\ account'[Owner[j]].locked = account[Owner[j]].locked - Hold[j]
        /\ account'[Owner[j]].balance = account[Owner[j]].balance - c
        /\ account'[Owner[j]].locked <= account'[Owner[j]].balance
    BY DEF PaidFrom
  <2>5. account[Owner[j]].balance \in Nat /\ account[Owner[j]].locked \in Nat
    BY <2>2 DEF Accounts
  <2>6. account[Owner[j]].locked - Hold[j] <= account[Owner[j]].balance - c
    BY <2>4
  <2> QED
    BY <1>1, <2>1, <2>3, <2>4, <2>5, <2>6
<1>7. Funds' = [Funds EXCEPT ![Owner[j]] = @ - c]
  <2>1. \A v \in Users : v # Owner[j] => Funds'[v] = Funds[v]
    BY DEF Funds
  <2> QED
    BY <1>1, <1>6, <2>1 DEF Funds
<1> QED
  BY <1>2, <1>4, <1>5, <1>6, <1>7 DEF Billing!Close, Funds, Phase

\* The first terminal transaction of a job closes it.
LEMMA ClosesCloses ==
  ASSUME TypeOK, RecordedOnce, AccountsInv, NEW j \in Jobs, Closes(j)
  PROVE  Billing!Close(j)
<1>1. job[j].lock = "held"
  BY DEF TypeOK, Rows, Closes, RecordedOnce
<1>2. CASE WriteFailure(j)
  <2>1. PaidFrom(j, 0)
    BY <1>1, <1>2, FailurePays
  <2>2. charged' = [charged EXCEPT ![j] = @ + 0]
    BY <1>2 DEF WriteFailure, TypeOK
  <2>3. \A v \in Users : v # Owner[j] => account'[v] = account[v]
    BY <1>2 DEF WriteFailure, TypeOK
  <2>4. job' = CloseRow(j, "failed") /\ "failed" \in Terminal
    BY <1>2 DEF WriteFailure, Terminal
  <2>5. calls' = [calls EXCEPT ![j] = Append(@, "failed")]
    BY <1>2 DEF WriteFailure
  <2> QED
    BY <1>1, <2>1, <2>2, <2>3, <2>4, <2>5, PaidCloses
<1>3. ASSUME NEW computed \in Costs, WriteSuccess(j, computed) PROVE Billing!Close(j)
  <2>1. ChargeFor(j, computed) \in Nat /\ PaidFrom(j, ChargeFor(j, computed))
    BY <1>1, <1>3, SuccessPays
  <2>2. charged' = [charged EXCEPT ![j] = @ + ChargeFor(j, computed)]
    BY <1>3 DEF WriteSuccess
  <2>3. \A v \in Users : v # Owner[j] => account'[v] = account[v]
    BY <1>3 DEF WriteSuccess, TypeOK
  <2>4. job' = CloseRow(j, "completed") /\ "completed" \in Terminal
    BY <1>3 DEF WriteSuccess, Terminal
  <2>5. calls' = [calls EXCEPT ![j] = Append(@, "success")]
    BY <1>3 DEF WriteSuccess
  <2> QED
    BY <1>1, <2>1, <2>2, <2>3, <2>4, <2>5, PaidCloses
<1> QED
  BY <1>2, <1>3 DEF Closes

\* Nothing is promised and nothing is paid before the first deposit.
LEMMA BillingInit == Init => Billing!Init
<1> SUFFICES ASSUME Init PROVE Billing!Init
  OBVIOUS
<1>1. \A u \in Users : account[u].balance = 0
  BY DEF Init
<1>2. \A j \in Jobs : BillingPhase(j) = "none"
  BY DEF Init, NoJobs, BillingPhase
<1>3. charged = [i \in Jobs |-> 0]
  BY DEF Init, NoJobs
<1> QED
  BY <1>1, <1>2, <1>3 DEF Billing!Init

\* Every step is a step of the promise or changes nothing it speaks of.
LEMMA BillingNext ==
  ASSUME TypeInv, RecordedOnce, AccountsInv, [Next]_vars
  PROVE  [Billing!Next]_(Billing!vars)
<1>0. TypeOK /\ DbStep
  BY NextIsDbStep DEF TypeInv
<1>1. CASE Relabel
  BY <1>1, RelabelStutters
<1>2. ASSUME NEW u \in Users, NEW amount \in Deposits, NEW reward \in Rewards,
             Deposit(u, amount, reward)
      PROVE  [Billing!Next]_(Billing!vars)
  BY <1>0, <1>2, DepositPaysIn DEF Billing!Next
<1>3. ASSUME NEW j \in Jobs, ReserveCreditsAndCreateTaskJob(j)
      PROVE  [Billing!Next]_(Billing!vars)
  BY <1>0, <1>3, ReserveAccepts DEF Billing!Next
<1>4. ASSUME NEW j \in Jobs, Closes(j)
      PROVE  [Billing!Next]_(Billing!vars)
  BY <1>0, <1>4, ClosesCloses DEF Billing!Next
<1>5. ASSUME NEW u \in Users, Reconcile(u)
      PROVE  FALSE
  BY <1>5 DEF Reconcile, AccountsInv, LockedMatchesHolds
<1> QED
  BY <1>0, <1>1, <1>2, <1>3, <1>4, <1>5 DEF DbStep

\* The worker, the aborts, the retries and the restarts keep the promise about
\* Credits: every accepted job is covered by funds promised to no other job,
\* and is closed once for a price that leaves the other promises covered.
THEOREM BillingImplemented == Spec => ImplementsBilling
<1>1. Init => TypeInv /\ RecordedOnce /\ AccountsInv
  BY TypeInit, RecordsInit, AccountsInit
<1>2. TypeInv /\ RecordedOnce /\ AccountsInv /\ [Next]_vars
        => TypeInv' /\ RecordedOnce' /\ AccountsInv'
  BY TypeNext, RecordsNext, AccountsNext
<1>3. Init => Billing!Init
  BY BillingInit
<1>4. TypeInv /\ RecordedOnce /\ AccountsInv /\ [Next]_vars => [Billing!Next]_(Billing!vars)
  BY BillingNext
<1> QED
  BY <1>1, <1>2, <1>3, <1>4, PTL DEF Spec, ImplementsBilling, Billing!Spec
=============================================================================
