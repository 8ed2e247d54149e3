------------------------- MODULE ProviderJobsProofs -------------------------
(***************************************************************************)
(* Theorems about ProviderJobs, for every set of consumers, jobs and keys, *)
(* every amount, limit and number of upsets.                               *)
(***************************************************************************)
EXTENDS ProviderJobs, AmountsProofs, SequenceTheorems

-----------------------------------------------------------------------------
(* What type correctness rests on. *)

HasKey == {"starting", "executing", "refused", "confirmed", "unsaved", "settling", "last"}
HasNoSlot == {"idle", "switching", "listed", "selected"}

\* The scheduler and the goroutines have chosen the keys their steps use, and
\* hold no slot between two keys.
KeysAreChosen ==
  /\ sched.step \in {"selected", "reserved"} => sched.key \in Keys
  /\ \A j \in Jobs :
       /\ runner[j].step \in HasKey => runner[j].current \in Keys
       /\ runner[j].step = "selected" => runner[j].next \in Keys
       /\ runner[j].step \in HasNoSlot => runner[j].held = NoKey

\* A goroutine owns only a claimed job, a handler that has not published its
\* job admits it still, and the scheduler's batch holds published jobs.
OwnersAgree ==
  \A j \in Jobs :
    /\ runner[j].step # "idle" => job[j] \notin {"none", "admitting", "queued"}
    /\ client[j] \in {"created", "registered"} => job[j] = "admitting"
    /\ client[j] # "none" => job[j] # "none"
    /\ j \in sched.batch => job[j] \notin {"none", "admitting"}

\* A process that starts has neither goroutines nor requests.
StartsEmpty ==
  mode = "recovering" =>
    /\ sched = NoIteration
    /\ \A j \in Jobs : runner[j].step = "idle" /\ client[j] \in {"none", "gone"}

TypeInv == TypeOK /\ KeysAreChosen /\ OwnersAgree /\ StartsEmpty

-----------------------------------------------------------------------------
(* What the steps of the parts do to one row or one goroutine. *)

\* A goroutine that goes on to another step keeps its local variables.
LEMMA ToTyped ==
  ASSUME runner \in [Jobs -> Runners], NEW j \in Jobs, NEW step \in RunnerSteps
  PROVE  /\ To(j, step) \in [Jobs -> Runners]
         /\ To(j, step)[j].step = step
         /\ To(j, step)[j].current = runner[j].current
         /\ To(j, step)[j].held = runner[j].held
         /\ To(j, step)[j].next = runner[j].next
         /\ \A i \in Jobs : i # j => To(j, step)[i] = runner[i]
<1> DEFINE r == [runner[j] EXCEPT !.step = step]
<1>1. To(j, step) = [runner EXCEPT ![j] = r]
  BY DEF To
<1>2. /\ r \in Runners /\ r.step = step /\ r.current = runner[j].current
      /\ r.held = runner[j].held /\ r.next = runner[j].next
  BY DEF Runners
<1> HIDE DEF r
<1> QED
  BY <1>1, <1>2

\* The goroutine and the iteration that have nothing to do.
LEMMA IdleTyped ==
  /\ NoRunner \in Runners /\ NoRunner.step = "idle" /\ NoRunner.held = NoKey
  /\ NoIteration \in Schedulers /\ NoIteration.step = "idle" /\ NoIteration.batch = {}
BY DEF NoRunner, NoUsage, Runners, RunnerSteps, NoIteration, Schedulers

\* Slots stay counts.
LEMMA SlotsTyped ==
  ASSUME slots \in [Keys -> Nat], NEW k
  PROVE  /\ k \in Keys => Reserved(k) \in [Keys -> Nat]
         /\ Released(k) \in [Keys -> Nat]
<1>1. k \in Keys => Reserved(k) \in [Keys -> Nat]
  BY DEF Reserved
<1>2. ASSUME NEW i \in Keys
      PROVE  (IF i = k /\ slots[i] > 0 THEN slots[i] - 1 ELSE slots[i]) \in Nat
  OBVIOUS
<1>3. Released(k) \in [Keys -> Nat]
  BY <1>2 DEF Released
<1> QED
  BY <1>1, <1>3

\* A refused call leaves a key row, cooling or not.
LEMMA UnavailableTyped ==
  ASSUME NEW row \in KeyRows
  PROVE  Unavailable(row) \in KeyRows
<1>1. [row EXCEPT !.misses = 0, !.cooling = TRUE] \in KeyRows
  BY DEF KeyRows
<1>2. [row EXCEPT !.misses = @ + 1] \in KeyRows
  BY DEF KeyRows
<1> QED
  BY <1>1, <1>2 DEF Unavailable

\* A failure ends the job, if it has not ended, and keeps the rows well-typed.
LEMMA FailTyped ==
  ASSUME TypeOK, NEW j \in Jobs, Fail(j)
  PROVE  /\ account' \in [Users -> Accounts]
         /\ calls' \in [Jobs -> Seq(Records)]
         /\ job' \in [Jobs -> JobStates]
         /\ job'[j] \in Terminal
         /\ \A i \in Jobs : i # j => job'[i] = job[i]
<1>1. CASE job[j] \in Terminal
  BY <1>1 DEF TypeOK, Fail, rows
<1>2. CASE job[j] \notin Terminal
  <2>1. WriteFailure(j)
    BY <1>2 DEF Fail
  <2>2. Owner[j] \in Users /\ Hold[j] \in Nat /\ account[Owner[j]] \in Accounts
    BY ProviderJobsAssumption DEF TypeOK
  <2>3. Release(account[Owner[j]], Hold[j]) \in Accounts
    BY <2>2, ReleaseTyped
  <2>4. FailureRecord \in Records
    BY DEF FailureRecord, Records
  <2>5. Append(calls[j], FailureRecord) \in Seq(Records)
    BY <2>4 DEF TypeOK
  <2>6. "failed" \in JobStates /\ "failed" \in Terminal
    BY DEF JobStates, Terminal
  <2> QED
    BY <2>1, <2>3, <2>5, <2>6 DEF WriteFailure, TypeOK
<1> QED
  BY <1>1, <1>2

\* The same when the error is ignored.
LEMMA FailIgnoringErrorTyped ==
  ASSUME TypeOK, NEW j \in Jobs, NEW cancelled \in BOOLEAN, FailIgnoringError(j, cancelled)
  PROVE  /\ account' \in [Users -> Accounts]
         /\ calls' \in [Jobs -> Seq(Records)]
         /\ job' \in [Jobs -> JobStates]
         /\ left' \in Nat
         /\ \A i \in Jobs : job'[i] = job[i] \/ (i = j /\ job'[i] \in Terminal)
<1>1. CASE Fail(j) /\ UNCHANGED left
  BY <1>1, FailTyped DEF TypeOK
<1>2. CASE UNCHANGED rows /\ Take("faults")
  BY <1>2 DEF TypeOK, rows, Take
<1>3. CASE UNCHANGED <<account, job, calls, left>>
  BY <1>3 DEF TypeOK
<1> QED
  BY <1>1, <1>2, <1>3 DEF FailIgnoringError

\* What a settlement would record and charge: no more than the balance.
LEMMA SettlementTyped ==
  ASSUME TypeOK, NEW j \in Jobs
  PROVE  LET a == Release(account[Owner[j]], Hold[j])
             record == SuccessRecord(j)
         IN  /\ Owner[j] \in Users /\ Hold[j] \in Nat /\ a \in Accounts
             /\ record \in Records /\ record.key = runner[j].current
             /\ record.tokens \in Nat /\ record.earning \in Nat
             /\ record.charge = ChargeOf(a, runner[j].usage.price)
             /\ record.charge \in Nat /\ record.charge <= a.balance /\ record.charge <= Available(a)
<1> DEFINE a == Release(account[Owner[j]], Hold[j])
           u == runner[j].usage
           c == ChargeOf(a, u.price)
           record == SuccessRecord(j)
<1>1. Owner[j] \in Users /\ Hold[j] \in Nat /\ account[Owner[j]] \in Accounts
  BY ProviderJobsAssumption DEF TypeOK
<1>2. a \in Accounts
  BY <1>1, ReleaseTyped
<1>3. u.tokens \in Nat /\ u.price \in Nat /\ runner[j].current \in Keys \cup {NoKey}
  BY DEF TypeOK, Runners
<1>4. c \in Nat /\ c <= a.balance /\ c <= Available(a)
  BY <1>2, <1>3, ChargeBounds
<1>5. /\ record \in Records /\ record.charge = c /\ record.key = runner[j].current
      /\ record.tokens \in Nat /\ record.earning \in Nat
  <2> HIDE DEF a
  <2> QED
    BY <1>3, <1>4 DEF SuccessRecord, Records, a
<1> HIDE DEF a, c, record
<1> QED
  BY <1>1, <1>2, <1>4, <1>5 DEF a, c, record

\* The settlement charges what the balance covers and keeps the rows well-typed.
LEMMA SettleTyped ==
  ASSUME TypeOK, NEW j \in Jobs, SettleProviderTaskJob(j)
  PROVE  /\ account' \in [Users -> Accounts]
         /\ calls' \in [Jobs -> Seq(Records)]
         /\ job' \in [Jobs -> JobStates]
         /\ key' \in [Keys -> KeyRows]
         /\ income' \in [Keys -> Nat]
         /\ \A i \in Jobs : job'[i] = job[i] \/ (i = j /\ job'[i] \in Terminal)
<1>1. CASE UNCHANGED <<account, job, calls, key, income>>
  BY <1>1 DEF TypeOK
<1>2. CASE WriteSettlement(j)
  <2> DEFINE a == Release(account[Owner[j]], Hold[j])
             record == SuccessRecord(j)
             c == record.charge
             k == record.key
  <2>5. /\ Owner[j] \in Users /\ a \in Accounts /\ record \in Records /\ record.tokens \in Nat
        /\ record.earning \in Nat /\ c \in Nat /\ c <= a.balance
    BY SettlementTyped
  <2>6. Debit(a, c) \in Accounts
    BY <2>5, DebitTyped
  <2> HIDE DEF a, c, record
  <2>7. account' = [account EXCEPT ![Owner[j]] = Debit(a, c)]
    BY <1>2 DEF WriteSettlement, a, c, record
  <2>8. account' \in [Users -> Accounts]
    BY <2>6, <2>7 DEF TypeOK
  <2>9. calls' \in [Jobs -> Seq(Records)]
    <3>1. Append(calls[j], record) \in Seq(Records)
      BY <2>5 DEF TypeOK
    <3>2. calls' = [calls EXCEPT ![j] = Append(calls[j], record)]
      BY <1>2 DEF WriteSettlement, record
    <3> QED
      BY <3>1, <3>2 DEF TypeOK
  <2>10. key' \in [Keys -> KeyRows]
    <3> DEFINE row == [key[k] EXCEPT !.used = @ + record.tokens]
    <3>1. key' = [key EXCEPT ![k] = row]
      BY <1>2 DEF WriteSettlement, record
    <3>2. ASSUME k \in Keys PROVE row \in KeyRows
      <4>1. key[k] \in KeyRows /\ record.tokens \in Nat
        BY <2>5, <3>2 DEF TypeOK
      <4> QED
        BY <4>1 DEF KeyRows
    <3> HIDE DEF row
    <3> QED
      BY <3>1, <3>2 DEF TypeOK
  <2>11. income' \in [Keys -> Nat]
    <3> DEFINE amount == income[k] + record.earning
    <3>1. income' = [income EXCEPT ![k] = amount]
      BY <1>2 DEF WriteSettlement, record
    <3>2. ASSUME k \in Keys PROVE amount \in Nat
      BY <2>5, <3>2 DEF TypeOK
    <3> HIDE DEF amount
    <3> QED
      BY <3>1, <3>2 DEF TypeOK
  <2>12. job' = [job EXCEPT ![j] = "completed"] /\ "completed" \in JobStates \cap Terminal
    BY <1>2 DEF WriteSettlement, JobStates, Terminal
  <2> QED
    BY <2>8, <2>9, <2>10, <2>11, <2>12 DEF TypeOK
<1> QED
  BY <1>1, <1>2 DEF SettleProviderTaskJob

-----------------------------------------------------------------------------
(* Every step keeps the types. *)

\* The invariant holds before anything has happened.
LEMMA TypeInit == Init => TypeInv
<1> SUFFICES ASSUME Init PROVE TypeInv
  OBVIOUS
<1>1. <<>> \in Seq(Records) /\ <<>> \in Seq(Keys)
  BY EmptySeq
<1>2. TypeOK
  BY <1>1, IdleTyped, ProviderJobsAssumption, ProviderBoundsAssumption
     DEF Init, TypeOK, Accounts, JobStates, KeyRows, Modes, StreamStates, ClientSteps, ProviderConfigIsChecked
<1>3. KeysAreChosen /\ OwnersAgree /\ StartsEmpty
  BY IdleTyped DEF Init, KeysAreChosen, OwnersAgree, StartsEmpty, HasKey
<1> QED
  BY <1>2, <1>3 DEF TypeInv

\* The request handler: admission, publication, and the end of its stream.
LEMMA TypeClient ==
  ASSUME TypeInv, NEW j \in Jobs
  PROVE  /\ ReserveCreditsAndCreateProviderTaskJob(j) => TypeInv'
         /\ ClientStep(j) => TypeInv'
         /\ PublishFails(j) => TypeInv'
         /\ Disconnect(j) => TypeInv'
         /\ SlowSubscriber(j) => TypeInv'
         /\ Expire(j) => TypeInv'
<1> USE DEF TypeInv
<1>0. Unregistered(j) \in [Jobs -> StreamStates]
  BY DEF Unregistered, TypeOK, StreamStates
<1>1. ASSUME ReserveCreditsAndCreateProviderTaskJob(j) PROVE TypeInv'
  <2>1. Owner[j] \in Users /\ Hold[j] \in Nat /\ account[Owner[j]] \in Accounts
    BY ProviderJobsAssumption DEF TypeOK
  <2>2. account' \in [Users -> Accounts]
    BY <1>1, <2>1, ReserveTyped DEF TypeOK, ReserveCreditsAndCreateProviderTaskJob
  <2>3. TypeOK'
    BY <1>1, <2>2 DEF TypeOK, ReserveCreditsAndCreateProviderTaskJob, AdmissionPhase, JobStates,
                      Unfinished, ClientSteps, upstream
  <2>4. KeysAreChosen' /\ OwnersAgree' /\ StartsEmpty'
    BY <1>1 DEF TypeOK, ReserveCreditsAndCreateProviderTaskJob, AdmissionPhase, KeysAreChosen,
                OwnersAgree, StartsEmpty
  <2> QED
    BY <2>3, <2>4
<1>2. ASSUME Register(j) PROVE TypeInv'
  <2>1. TypeOK'
    BY <1>2 DEF TypeOK, Register, StreamStates, ClientSteps, rows, upstream
  <2>2. KeysAreChosen' /\ OwnersAgree' /\ StartsEmpty'
    BY <1>2 DEF TypeOK, Register, KeysAreChosen, OwnersAgree, StartsEmpty, rows
  <2> QED
    BY <2>1, <2>2
<1>3. ASSUME Publish(j) PROVE TypeInv'
  <2>1. TypeOK'
    BY <1>3 DEF TypeOK, Publish, JobStates, Unfinished, ClientSteps, upstream
  <2>2. KeysAreChosen' /\ OwnersAgree' /\ StartsEmpty'
    BY <1>3 DEF TypeOK, Publish, KeysAreChosen, OwnersAgree, StartsEmpty
  <2> QED
    BY <2>1, <2>2
<1>4. ASSUME PublishFails(j) PROVE TypeInv'
  <2>0. job' \in [Jobs -> JobStates]
    BY <1>4 DEF TypeOK, PublishFails, JobStates, Unfinished
  <2>0a. stream' \in [Jobs -> StreamStates] /\ client' \in [Jobs -> ClientSteps] /\ left' \in Nat
    BY <1>0, <1>4 DEF TypeOK, PublishFails, Take, ClientSteps
  <2>1. TypeOK'
    BY <1>4, <2>0, <2>0a DEF TypeOK, PublishFails, upstream
  <2>2. KeysAreChosen' /\ OwnersAgree' /\ StartsEmpty'
    BY <1>4 DEF TypeOK, PublishFails, KeysAreChosen, OwnersAgree, StartsEmpty
  <2> QED
    BY <2>1, <2>2
<1>5. ASSUME FailUnpublished(j) PROVE TypeInv'
  <2>1. /\ account' \in [Users -> Accounts] /\ calls' \in [Jobs -> Seq(Records)]
        /\ job' \in [Jobs -> JobStates] /\ left' \in Nat
        /\ \A i \in Jobs : job'[i] = job[i] \/ (i = j /\ job'[i] \in Terminal)
    BY <1>5, FailIgnoringErrorTyped DEF FailUnpublished
  <2>2. TypeOK'
    BY <1>5, <2>1 DEF TypeOK, FailUnpublished, ClientSteps, upstream
  <2>3. KeysAreChosen' /\ OwnersAgree' /\ StartsEmpty'
    BY <1>5, <2>1 DEF TypeOK, FailUnpublished, KeysAreChosen, OwnersAgree, StartsEmpty, Terminal
  <2> QED
    BY <2>2, <2>3
<1>6. ASSUME StreamEnds(j) PROVE TypeInv'
  <2>1. TypeOK'
    BY <1>6 DEF TypeOK, StreamEnds, ClientSteps, rows, upstream
  <2>2. KeysAreChosen' /\ OwnersAgree' /\ StartsEmpty'
    BY <1>6 DEF TypeOK, StreamEnds, KeysAreChosen, OwnersAgree, StartsEmpty, rows
  <2> QED
    BY <2>1, <2>2
<1>7. ASSUME Disconnect(j) PROVE TypeInv'
  <2>1. TypeOK'
    BY <1>0, <1>7 DEF TypeOK, Disconnect, ClientSteps, rows, upstream
  <2>2. KeysAreChosen' /\ OwnersAgree' /\ StartsEmpty'
    BY <1>7 DEF TypeOK, Disconnect, KeysAreChosen, OwnersAgree, StartsEmpty, rows
  <2> QED
    BY <2>1, <2>2
<1>8. ASSUME SlowSubscriber(j) PROVE TypeInv'
  BY <1>0, <1>8 DEF TypeOK, SlowSubscriber, KeysAreChosen, OwnersAgree, StartsEmpty, rows, upstream
<1>9. ASSUME Expire(j) PROVE TypeInv'
  BY <1>9 DEF TypeOK, Expire, KeysAreChosen, OwnersAgree, StartsEmpty, rows, upstream, memory
<1> QED
  BY <1>1, <1>2, <1>3, <1>4, <1>5, <1>6, <1>7, <1>8, <1>9 DEF ClientStep

\* The scheduler.
LEMMA TypeScheduler ==
  ASSUME TypeInv
  PROVE  /\ SchedulerStep => TypeInv'
         /\ \A j \in Jobs : ListingFails(j) => TypeInv'
         /\ \A j \in Jobs : ClaimFails(j) => TypeInv'
<1> USE DEF TypeInv
<1>0. /\ \A j \in Jobs : Proceed \in Schedulers /\ Proceed.step = "idle" /\ Proceed.batch \subseteq sched.batch
      /\ sched \in Schedulers
  BY DEF Proceed, NoIteration, Schedulers, TypeOK
<1>1. ASSUME StartIteration PROVE TypeInv'
  <2>1. Batch \subseteq Jobs /\ \A j \in Batch : job[j] = "queued"
    BY DEF Batch, Queued
  <2>2. sched' = [NoIteration EXCEPT !.batch = Batch]
    BY <1>1 DEF StartIteration
  <2>3. sched' \in Schedulers /\ sched'.step = "idle" /\ sched'.batch = Batch
    BY <2>1, <2>2, IdleTyped DEF Schedulers
  <2>4. TypeOK'
    BY <1>1, <2>3 DEF TypeOK, StartIteration, rows, upstream
  <2>5. KeysAreChosen' /\ OwnersAgree' /\ StartsEmpty'
    BY <1>1, <2>1, <2>3 DEF TypeOK, StartIteration, KeysAreChosen, OwnersAgree, StartsEmpty, rows
  <2> QED
    BY <2>4, <2>5
<1>2. ASSUME SchedulerStops PROVE TypeInv'
  <2>1. slots' \in [Keys -> Nat]
    BY <1>2, SlotsTyped DEF TypeOK, SchedulerStops
  <2>2. TypeOK'
    BY <1>2, <2>1, IdleTyped DEF TypeOK, SchedulerStops, rows, upstream
  <2>3. KeysAreChosen' /\ OwnersAgree' /\ StartsEmpty'
    BY <1>2, IdleTyped DEF SchedulerStops, KeysAreChosen, OwnersAgree, StartsEmpty, rows
  <2> QED
    BY <2>2, <2>3
<1>3. ASSUME NEW j \in Jobs, FailExpired(j) PROVE TypeInv'
  <2>1. /\ account' \in [Users -> Accounts] /\ calls' \in [Jobs -> Seq(Records)]
        /\ job' \in [Jobs -> JobStates] /\ left' \in Nat
        /\ \A i \in Jobs : job'[i] = job[i] \/ (i = j /\ job'[i] \in Terminal)
    BY <1>3, FailIgnoringErrorTyped DEF FailExpired
  <2>2. /\ sched' \in Schedulers /\ sched'.batch \subseteq sched.batch
        /\ sched'.step = "idle" /\ j \in sched.batch /\ mode = "up"
    BY <1>0, <1>3 DEF FailExpired, IsNext, Schedulers
  <2>3. TypeOK'
    BY <1>3, <2>1, <2>2 DEF TypeOK, FailExpired, upstream
  <2>4. KeysAreChosen' /\ OwnersAgree' /\ StartsEmpty'
    BY <1>3, <2>1, <2>2 DEF FailExpired, KeysAreChosen, OwnersAgree, StartsEmpty, Terminal
  <2> QED
    BY <2>3, <2>4
<1>4. ASSUME NEW j \in Jobs, ListKeys(j) PROVE TypeInv'
  <2>1. Eligible \subseteq Keys
    BY DEF Eligible
  <2>2. sched' \in Schedulers /\ sched'.batch = sched.batch /\ sched'.step = "listed" /\ mode = "up"
    BY <1>0, <1>4, <2>1 DEF ListKeys, IsNext, Schedulers
  <2>3. TypeOK'
    BY <1>4, <2>2 DEF TypeOK, ListKeys, rows, upstream
  <2>4. KeysAreChosen' /\ OwnersAgree' /\ StartsEmpty'
    BY <1>4, <2>2 DEF ListKeys, KeysAreChosen, OwnersAgree, StartsEmpty, rows
  <2> QED
    BY <2>3, <2>4
<1>5. ASSUME NEW j \in Jobs, SelectKey(j) PROVE TypeInv'
  <2>1. /\ sched' \in Schedulers /\ sched'.batch \subseteq sched.batch /\ mode = "up"
        /\ sched'.step = "idle" \/ (sched'.step = "selected" /\ sched'.key \in Keys)
    BY <1>0, <1>5 DEF SelectKey, Working, Schedulers
  <2>2. TypeOK'
    BY <1>5, <2>1 DEF TypeOK, SelectKey, rows, upstream
  <2>3. KeysAreChosen' /\ OwnersAgree' /\ StartsEmpty'
    BY <1>5, <2>1 DEF SelectKey, KeysAreChosen, OwnersAgree, StartsEmpty, rows
  <2> QED
    BY <2>2, <2>3
<1>6. ASSUME NEW j \in Jobs, ReserveSlot(j) PROVE TypeInv'
  <2>1. /\ sched' \in Schedulers /\ sched'.batch \subseteq sched.batch /\ mode = "up"
        /\ sched'.step = "idle" \/ (sched'.step = "reserved" /\ sched'.key \in Keys)
        /\ sched.key \in Keys
    BY <1>0, <1>6 DEF ReserveSlot, Working, Schedulers, KeysAreChosen
  <2>2. slots' \in [Keys -> Nat]
    BY <1>6, <2>1, SlotsTyped DEF ReserveSlot, TypeOK
  <2>3. TypeOK'
    BY <1>6, <2>1, <2>2 DEF TypeOK, ReserveSlot, rows, upstream
  <2>4. KeysAreChosen' /\ OwnersAgree' /\ StartsEmpty'
    BY <1>6, <2>1 DEF ReserveSlot, KeysAreChosen, OwnersAgree, StartsEmpty, rows
  <2> QED
    BY <2>3, <2>4
<1>7. ASSUME NEW j \in Jobs, Claim(j) PROVE TypeInv'
  <2>1. sched.key \in Keys /\ mode = "up"
    BY <1>7 DEF Claim, Working, KeysAreChosen
  <2>2. /\ Started(sched.key) \in Runners /\ Started(sched.key).step = "starting"
        /\ Started(sched.key).current = sched.key
    BY <2>1, IdleTyped DEF Started, Runners, RunnerSteps
  <2>3. /\ runner' = [runner EXCEPT ![j] = Started(sched.key)] /\ job' = [job EXCEPT ![j] = "running"]
        /\ sched' = Proceed /\ job[j] = "queued"
    BY <1>7 DEF Claim
  <2>4. TypeOK'
    BY <1>0, <1>7, <2>2, <2>3 DEF TypeOK, Claim, JobStates, Unfinished, upstream
  <2>5. KeysAreChosen' /\ OwnersAgree' /\ StartsEmpty'
    BY <1>0, <1>7, <2>1, <2>2, <2>3 DEF TypeOK, Claim, KeysAreChosen, OwnersAgree, StartsEmpty, HasNoSlot
  <2> QED
    BY <2>4, <2>5
<1>8. ASSUME NEW j \in Jobs, ClaimRefused(j) PROVE TypeInv'
  <2>1. slots' \in [Keys -> Nat] /\ sched' = Proceed /\ mode = "up"
    BY <1>8, SlotsTyped DEF ClaimRefused, Working, TypeOK
  <2>2. TypeOK'
    BY <1>0, <1>8, <2>1 DEF TypeOK, ClaimRefused, rows, upstream
  <2>3. KeysAreChosen' /\ OwnersAgree' /\ StartsEmpty'
    BY <1>0, <1>8, <2>1 DEF ClaimRefused, KeysAreChosen, OwnersAgree, StartsEmpty, rows
  <2> QED
    BY <2>2, <2>3
<1>9. ASSUME NEW j \in Jobs, ClaimFails(j) PROVE TypeInv'
  <2>1. /\ slots' \in [Keys -> Nat] /\ sched' = Proceed /\ mode = "up" /\ left' \in Nat
        /\ job' = job \/ (job[j] = "queued" /\ job' = [job EXCEPT ![j] = "running"])
    BY <1>9, SlotsTyped DEF ClaimFails, Working, TypeOK, Take
  <2>2. TypeOK'
    BY <1>0, <1>9, <2>1 DEF TypeOK, ClaimFails, JobStates, Unfinished, upstream
  <2>3. KeysAreChosen' /\ OwnersAgree' /\ StartsEmpty'
    BY <1>0, <1>9, <2>1 DEF TypeOK, ClaimFails, KeysAreChosen, OwnersAgree, StartsEmpty
  <2> QED
    BY <2>2, <2>3
<1>10. ASSUME NEW j \in Jobs, ListingFails(j) PROVE TypeInv'
  <2>1. /\ sched' \in Schedulers /\ sched'.batch \subseteq sched.batch
        /\ sched'.step = "idle" /\ mode = "up" /\ left' \in Nat
    <3>1. sched' = NoIteration \/ sched' = [sched EXCEPT !.batch = @ \ {j}]
      BY <1>10 DEF ListingFails
    <3>2. sched.step = "idle" /\ mode = "up" /\ left' \in Nat
      BY <1>10 DEF ListingFails, IsNext, Take, TypeOK
    <3>3. CASE sched' = NoIteration
      BY <3>2, <3>3, IdleTyped
    <3>4. CASE sched' = [sched EXCEPT !.batch = @ \ {j}]
      BY <1>0, <3>2, <3>4 DEF Schedulers
    <3> QED
      BY <3>1, <3>3, <3>4
  <2>2. TypeOK'
    BY <1>10, <2>1 DEF TypeOK, ListingFails, rows, upstream
  <2>3. KeysAreChosen' /\ OwnersAgree' /\ StartsEmpty'
    BY <1>10, <2>1 DEF ListingFails, KeysAreChosen, OwnersAgree, StartsEmpty, rows
  <2> QED
    BY <2>2, <2>3
<1> QED
  BY <1>1, <1>2, <1>3, <1>4, <1>5, <1>6, <1>7, <1>8, <1>9, <1>10 DEF SchedulerStep

\* What a step of the goroutine of j makes of the goroutines and the slots.
RunnerTyped(j) ==
  /\ runner' \in [Jobs -> Runners] /\ slots' \in [Keys -> Nat]
  /\ \A i \in Jobs : i # j => runner'[i] = runner[i]
  /\ runner'[j].step \in HasKey => runner'[j].current \in Keys
  /\ runner'[j].step = "selected" => runner'[j].next \in Keys
  /\ runner'[j].step \in HasNoSlot => runner'[j].held = NoKey

\* What it makes of the rows: it may only end its own job.
RowsTyped(j) ==
  /\ account' \in [Users -> Accounts]
  /\ calls' \in [Jobs -> Seq(Records)]
  /\ job' \in [Jobs -> JobStates]
  /\ key' \in [Keys -> KeyRows]
  /\ income' \in [Keys -> Nat]
  /\ left' \in Nat
  /\ \A i \in Jobs : job'[i] = job[i] \/ (i = j /\ job'[i] \in Terminal)

UpstreamTyped ==
  /\ stream' \in [Jobs -> StreamStates]
  /\ asked' \in [Jobs -> Seq(Keys)]
  /\ refused' \in [Jobs -> Nat]

\* A step of a goroutine that is typed in all its parts is typed.
LEMMA TypeGoroutine ==
  ASSUME TypeInv, NEW j \in Jobs, ~At(j, "idle"),
         RunnerTyped(j), RowsTyped(j), UpstreamTyped,
         UNCHANGED <<late, mode, sched, client, dropped>>
  PROVE  TypeInv'
<1>1. TypeOK'
  BY DEF TypeInv, TypeOK, RunnerTyped, RowsTyped, UpstreamTyped
<1>2. KeysAreChosen'
  BY DEF TypeInv, KeysAreChosen, RunnerTyped
<1>3. OwnersAgree'
  BY DEF TypeInv, OwnersAgree, RunnerTyped, RowsTyped, At, Terminal
<1>4. StartsEmpty'
  BY DEF TypeInv, StartsEmpty, At
<1> QED
  BY <1>1, <1>2, <1>3, <1>4 DEF TypeInv

\* Nothing but the goroutine changes.
LEMMA RowsUnchanged ==
  ASSUME TypeOK, NEW j \in Jobs, UNCHANGED <<rows, key, income>>, left' \in Nat
  PROVE  RowsTyped(j)
BY DEF TypeOK, rows, RowsTyped

\* A step that sends nothing upstream keeps the record of the calls typed.
LEMMA UpstreamUnchanged ==
  ASSUME TypeOK, UNCHANGED <<stream, upstream>>
  PROVE  UpstreamTyped
BY DEF TypeOK, upstream, UpstreamTyped

\* A goroutine that returns holds nothing.
LEMMA ReturnTyped ==
  ASSUME TypeOK, NEW j \in Jobs, Return(j)
  PROVE  RunnerTyped(j)
<1>1. runner' = [runner EXCEPT ![j] = NoRunner] /\ slots' \in [Keys -> Nat]
  BY SlotsTyped DEF Return, TypeOK
<1>2. NoRunner \in Runners /\ NoRunner.step = "idle" /\ NoRunner.held = NoKey
  BY IdleTyped
<1> HIDE DEF NoRunner
<1> QED
  BY <1>1, <1>2 DEF TypeOK, RunnerTyped, HasKey

\* One that goes on with its key, and has one.
LEMMA GoOnTyped ==
  ASSUME TypeInv, NEW j \in Jobs, NEW step \in RunnerSteps \ {"idle", "switching", "listed", "selected"},
         runner[j].current \in Keys, runner' = To(j, step), UNCHANGED slots
  PROVE  RunnerTyped(j)
BY ToTyped DEF TypeInv, TypeOK, RunnerTyped, HasNoSlot

\* A failure whose error is ignored touches neither keys nor earnings.
LEMMA FailedRows ==
  ASSUME TypeOK, NEW j \in Jobs, NEW cancelled \in BOOLEAN, FailIgnoringError(j, cancelled),
         UNCHANGED <<key, income>>
  PROVE  RowsTyped(j)
BY FailIgnoringErrorTyped DEF TypeOK, RowsTyped

\* The goroutine up to the end of its upstream call.
LEMMA TypeCall ==
  ASSUME TypeInv, NEW j \in Jobs
  PROVE  /\ ReturnAtLoad(j) => TypeInv'
         /\ Execute(j) => TypeInv'
         /\ \A usage \in Usages : Complete(j, usage) => TypeInv'
         /\ Refuse(j) => TypeInv'
         /\ FailExecution(j) => TypeInv'
<1>0. /\ TypeOK /\ left \in Nat /\ runner[j] \in Runners
      /\ runner[j].step \in HasKey => runner[j].current \in Keys
  BY DEF TypeInv, TypeOK, KeysAreChosen
<1>1. ASSUME ReturnAtLoad(j) PROVE TypeInv'
  <2>1. left' \in Nat
    BY <1>0, <1>1 DEF ReturnAtLoad, Take
  <2>2. RunnerTyped(j) /\ RowsTyped(j) /\ UpstreamTyped
    BY <1>0, <1>1, <2>1, ReturnTyped, RowsUnchanged, UpstreamUnchanged DEF ReturnAtLoad
  <2> QED
    BY <1>1, <2>2, TypeGoroutine DEF ReturnAtLoad, At
<1>2. ASSUME Execute(j) PROVE TypeInv'
  <2>1. runner[j].current \in Keys
    BY <1>0, <1>2 DEF Execute, At, HasKey
  <2>2. RunnerTyped(j)
    BY <1>2, <2>1, GoOnTyped DEF Execute, RunnerSteps
  <2>3. RowsTyped(j)
    BY <1>0, <1>2, RowsUnchanged DEF Execute
  <2>4. UpstreamTyped
    <3>1. Append(asked[j], runner[j].current) \in Seq(Keys)
      BY <1>0, <2>1 DEF TypeOK
    <3> QED
      BY <1>0, <1>2, <3>1 DEF Execute, TypeOK, UpstreamTyped
  <2> QED
    BY <1>2, <2>2, <2>3, <2>4, TypeGoroutine DEF Execute, At
<1>3. ASSUME NEW usage \in Usages, Complete(j, usage) PROVE TypeInv'
  <2> DEFINE r == [runner[j] EXCEPT !.step = "confirmed", !.usage = usage]
  <2>1. runner[j].current \in Keys
    BY <1>0, <1>3 DEF Complete, At, HasKey
  <2>2. /\ r \in Runners /\ r.step = "confirmed" /\ r.current = runner[j].current
        /\ usage \in [tokens : Nat, price : Nat]
    BY <1>0, ProviderBoundsAssumption DEF Runners, RunnerSteps
  <2>3. runner' = [runner EXCEPT ![j] = r] /\ slots' = slots
    BY <1>3 DEF Complete
  <2> HIDE DEF r
  <2>4. RunnerTyped(j)
    BY <1>0, <2>1, <2>2, <2>3 DEF TypeOK, RunnerTyped, HasNoSlot
  <2>5. key' \in [Keys -> KeyRows] /\ left' \in Nat
    <3>1. CASE key' = [key EXCEPT ![runner[j].current].misses = 0] /\ UNCHANGED left
      BY <1>0, <3>1 DEF TypeOK, KeyRows
    <3>2. CASE UNCHANGED key /\ Take("faults")
      BY <1>0, <3>2 DEF TypeOK, Take
    <3> QED
      BY <1>3, <3>1, <3>2 DEF Complete
  <2>6. RowsTyped(j) /\ UpstreamTyped
    BY <1>0, <1>3, <2>5, UpstreamUnchanged DEF Complete, RowsTyped, TypeOK, rows
  <2> QED
    BY <1>3, <2>4, <2>6, TypeGoroutine DEF Complete, At
<1>4. ASSUME Refuse(j) PROVE TypeInv'
  <2>1. runner[j].current \in Keys
    BY <1>0, <1>4 DEF Refuse, At, HasKey
  <2>2. RunnerTyped(j)
    BY <1>4, <2>1, GoOnTyped DEF Refuse, RunnerSteps
  <2>3. key' \in [Keys -> KeyRows] /\ left' \in Nat
    <3>1. Unavailable(key[runner[j].current]) \in KeyRows
      BY <1>0, <2>1, UnavailableTyped DEF TypeOK
    <3>2. CASE key' = [key EXCEPT ![runner[j].current] = Unavailable(@)] /\ UNCHANGED left
      BY <1>0, <3>1, <3>2 DEF TypeOK
    <3>3. CASE UNCHANGED key /\ Take("faults")
      BY <1>0, <3>3 DEF TypeOK, Take
    <3> QED
      BY <1>4, <3>2, <3>3 DEF Refuse
  <2>4. RowsTyped(j) /\ UpstreamTyped
    BY <1>0, <1>4, <2>3 DEF Refuse, RowsTyped, UpstreamTyped, TypeOK, rows
  <2> QED
    BY <1>4, <2>2, <2>4, TypeGoroutine DEF Refuse, At
<1>5. ASSUME FailExecution(j) PROVE TypeInv'
  <2>1. RowsTyped(j)
    BY <1>0, <1>5, FailedRows DEF FailExecution, Cancelled
  <2>2. UpstreamTyped
    BY <1>0, <1>5 DEF FailExecution, UpstreamTyped, Unregistered, StreamStates, TypeOK, upstream
  <2>3. RunnerTyped(j)
    BY <1>0, <1>5, ReturnTyped DEF FailExecution
  <2> QED
    BY <1>5, <2>1, <2>2, <2>3, TypeGoroutine DEF FailExecution, At
<1> QED
  BY <1>1, <1>2, <1>3, <1>4, <1>5

\* The search for another key.
LEMMA TypeSwitch ==
  ASSUME TypeInv, NEW j \in Jobs
  PROVE  /\ StartSwitch(j) => TypeInv'
         /\ ListKeysForSwitch(j) => TypeInv'
         /\ \A k \in Keys : SelectForSwitch(j, k) => TypeInv'
         /\ SwitchKey(j) => TypeInv'
         /\ FailQuietly(j) => TypeInv'
<1>0. /\ TypeOK /\ left \in Nat /\ runner[j] \in Runners
      /\ runner[j].step = "selected" => runner[j].next \in Keys
      /\ runner[j].step \in HasNoSlot => runner[j].held = NoKey
  BY DEF TypeInv, TypeOK, KeysAreChosen
<1>1. ASSUME StartSwitch(j) PROVE TypeInv'
  <2> DEFINE r == [runner[j] EXCEPT !.step = "switching", !.held = NoKey]
  <2>1. r \in Runners /\ r.step = "switching" /\ r.held = NoKey
    BY <1>0 DEF Runners, RunnerSteps
  <2>2. runner' = [runner EXCEPT ![j] = r] /\ slots' \in [Keys -> Nat]
    BY <1>0, <1>1, SlotsTyped DEF StartSwitch, LeaveKey, TypeOK
  <2> HIDE DEF r
  <2>3. RunnerTyped(j)
    BY <1>0, <2>1, <2>2 DEF TypeOK, RunnerTyped, HasKey
  <2> QED
    BY <1>0, <1>1, <2>3, RowsUnchanged, UpstreamUnchanged, TypeGoroutine DEF StartSwitch, At
<1>2. ASSUME ListKeysForSwitch(j) PROVE TypeInv'
  <2> DEFINE r == [runner[j] EXCEPT !.step = "listed", !.listed = Eligible]
  <2>1. r \in Runners /\ r.step = "listed" /\ r.held = NoKey
    BY <1>0, <1>2 DEF Runners, RunnerSteps, Eligible, ListKeysForSwitch, At, HasNoSlot
  <2>2. runner' = [runner EXCEPT ![j] = r] /\ slots' = slots
    BY <1>2 DEF ListKeysForSwitch
  <2> HIDE DEF r
  <2>3. RunnerTyped(j)
    BY <1>0, <2>1, <2>2 DEF TypeOK, RunnerTyped, HasKey
  <2> QED
    BY <1>0, <1>2, <2>3, RowsUnchanged, UpstreamUnchanged, TypeGoroutine DEF ListKeysForSwitch, At
<1>3. ASSUME NEW k \in Keys, SelectForSwitch(j, k) PROVE TypeInv'
  <2> DEFINE r == [runner[j] EXCEPT !.step = "selected", !.next = k, !.listed = {}]
  <2>1. r \in Runners /\ r.step = "selected" /\ r.next = k /\ r.held = NoKey
    BY <1>0, <1>3 DEF Runners, RunnerSteps, SelectForSwitch, At, HasNoSlot
  <2>2. runner' = [runner EXCEPT ![j] = r] /\ slots' = slots
    BY <1>3 DEF SelectForSwitch
  <2> HIDE DEF r
  <2>3. RunnerTyped(j)
    BY <1>0, <2>1, <2>2 DEF TypeOK, RunnerTyped, HasKey
  <2> QED
    BY <1>0, <1>3, <2>3, RowsUnchanged, UpstreamUnchanged, TypeGoroutine DEF SelectForSwitch, At
<1>4. ASSUME SwitchKey(j) PROVE TypeInv'
  <2> DEFINE k == runner[j].next
             r == [NoRunner EXCEPT !.step = "starting", !.current = k, !.held = k, !.tried = runner[j].tried \cup {k}]
  <2>1. k \in Keys
    BY <1>0, <1>4 DEF SwitchKey, At
  <2>2. r \in Runners /\ r.step = "starting" /\ r.current \in Keys
    BY <1>0, <2>1 DEF NoRunner, NoUsage, Runners, RunnerSteps
  <2>3. runner' = [runner EXCEPT ![j] = r] /\ slots' = Reserved(k)
    BY <1>4 DEF SwitchKey
  <2>4. slots' \in [Keys -> Nat]
    BY <1>0, <2>1, <2>3, SlotsTyped DEF TypeOK
  <2> HIDE DEF r
  <2>5. RunnerTyped(j)
    BY <1>0, <2>2, <2>3, <2>4 DEF TypeOK, RunnerTyped, HasNoSlot
  <2> QED
    BY <1>0, <1>4, <2>5, RowsUnchanged, UpstreamUnchanged, TypeGoroutine DEF SwitchKey, At
<1>5. ASSUME FailQuietly(j) PROVE TypeInv'
  <2>1. RowsTyped(j)
    <3>1. CASE \E cancelled \in BOOLEAN : FailIgnoringError(j, cancelled)
      BY <1>0, <1>5, <3>1, FailedRows DEF FailQuietly
    <3>2. CASE Take("faults") /\ Fail(j)
      <4>1. /\ account' \in [Users -> Accounts] /\ calls' \in [Jobs -> Seq(Records)]
            /\ job' \in [Jobs -> JobStates] /\ job'[j] \in Terminal
            /\ \A i \in Jobs : i # j => job'[i] = job[i]
        BY <1>0, <3>2, FailTyped
      <4>2. left' \in Nat /\ key' = key /\ income' = income
        BY <1>0, <1>5, <3>2 DEF Take, FailQuietly
      <4> QED
        BY <1>0, <4>1, <4>2 DEF RowsTyped, TypeOK
    <3> QED
      BY <1>5, <3>1, <3>2 DEF FailQuietly, Cancelled
  <2>2. RunnerTyped(j) /\ UpstreamTyped
    BY <1>0, <1>5, ReturnTyped, UpstreamUnchanged DEF FailQuietly
  <2> QED
    BY <1>5, <2>1, <2>2, TypeGoroutine DEF FailQuietly, At
<1> QED
  BY <1>1, <1>2, <1>3, <1>4, <1>5

\* The settlement.
LEMMA TypeSettlement ==
  ASSUME TypeInv, NEW j \in Jobs
  PROVE  /\ SaveFails(j) => TypeInv'
         /\ Settle(j) => TypeInv'
         /\ SettleFails(j) => TypeInv'
         /\ LastAttempt(j) => TypeInv'
         /\ Finish(j) => TypeInv'
<1>0. /\ TypeOK /\ left \in Nat /\ runner[j] \in Runners
      /\ runner[j].step \in HasKey => runner[j].current \in Keys
  BY DEF TypeInv, TypeOK, KeysAreChosen
<1>1. ASSUME SaveFails(j) PROVE TypeInv'
  <2>1. RunnerTyped(j) /\ left' \in Nat
    BY <1>0, <1>1, GoOnTyped DEF SaveFails, At, HasKey, RunnerSteps, Take
  <2> QED
    BY <1>0, <1>1, <2>1, RowsUnchanged, UpstreamUnchanged, TypeGoroutine DEF SaveFails, At
<1>2. ASSUME Settle(j) PROVE TypeInv'
  <2>1. RunnerTyped(j)
    BY <1>0, <1>2, GoOnTyped DEF Settle, HasKey, RunnerSteps
  <2>2. RowsTyped(j) /\ UpstreamTyped
    BY <1>0, <1>2, SettleTyped, UpstreamUnchanged DEF Settle, RowsTyped
  <2> QED
    BY <1>2, <2>1, <2>2, TypeGoroutine DEF Settle, At
<1>3. ASSUME SettleFails(j) PROVE TypeInv'
  <2>1. RunnerTyped(j)
    BY <1>0, <1>3, GoOnTyped, ReturnTyped DEF SettleFails, HasKey, RunnerSteps
  <2>2. left' \in Nat
    BY <1>0, <1>3 DEF SettleFails, Take
  <2>3. RowsTyped(j)
    <3>1. CASE SettleProviderTaskJob(j)
      BY <1>0, <2>2, <3>1, SettleTyped DEF RowsTyped
    <3>2. CASE UNCHANGED <<rows, key, income>>
      BY <1>0, <2>2, <3>2, RowsUnchanged
    <3> QED
      BY <1>3, <3>1, <3>2 DEF SettleFails
  <2> QED
    BY <1>0, <1>3, <2>1, <2>3, UpstreamUnchanged, TypeGoroutine DEF SettleFails, At
<1>4. ASSUME LastAttempt(j) PROVE TypeInv'
  <2>1. RunnerTyped(j)
    BY <1>0, <1>4, GoOnTyped DEF LastAttempt, At, HasKey, RunnerSteps
  <2> QED
    BY <1>0, <1>4, <2>1, RowsUnchanged, UpstreamUnchanged, TypeGoroutine DEF LastAttempt, At
<1>5. ASSUME Finish(j) PROVE TypeInv'
  <2>1. RunnerTyped(j) /\ RowsTyped(j)
    BY <1>0, <1>5, ReturnTyped, RowsUnchanged DEF Finish
  <2>2. UpstreamTyped
    <3>1. stream' \in [Jobs -> StreamStates]
      BY <1>0, <1>5 DEF Finish, TypeOK, StreamStates
    <3> QED
      BY <1>0, <1>5, <3>1 DEF Finish, TypeOK, upstream, UpstreamTyped
  <2> QED
    BY <1>5, <2>1, <2>2, TypeGoroutine DEF Finish, At
<1> QED
  BY <1>1, <1>2, <1>3, <1>4, <1>5

\* Key Owners and the process.
LEMMA TypeEnvironment ==
  ASSUME TypeInv
  PROVE  /\ \A k \in Keys : OwnerStep(k) \/ CooldownEnds(k) => TypeInv'
         /\ BeginShutdown \/ Crash \/ ProcessStep => TypeInv'
<1> USE DEF TypeInv
<1>1. ASSUME NEW k \in Keys, OwnerStep(k) \/ CooldownEnds(k) PROVE TypeInv'
  <2>1. key' \in [Keys -> KeyRows] /\ left' \in Nat /\ dropped' \in [Keys -> Nat]
    <3>1. key[k] \in KeyRows
      BY DEF TypeOK
    <3>2. ASSUME CooldownEnds(k)
          PROVE  key' \in [Keys -> KeyRows] /\ UNCHANGED <<left, dropped>>
      BY <3>1, <3>2 DEF TypeOK, CooldownEnds, KeyRows
    <3>3. ASSUME NEW row \in KeyRows, Alter(k, row)
          PROVE  key' \in [Keys -> KeyRows]
      BY <3>3 DEF Alter, TypeOK
    <3>4. CASE SetEnabled(k)
      <4>1. [key[k] EXCEPT !.enabled = ~@] \in KeyRows
        BY <3>1 DEF KeyRows
      <4> QED
        BY <3>3, <3>4, <4>1 DEF SetEnabled, Take, TypeOK
    <3>5. CASE DeleteSharedAPIKey(k)
      <4>1. [key[k] EXCEPT !.enabled = FALSE, !.deleted = TRUE] \in KeyRows
        BY <3>1 DEF KeyRows
      <4> QED
        BY <3>3, <3>5, <4>1 DEF DeleteSharedAPIKey, Take, TypeOK
    <3>6. ASSUME NEW limit \in Limits, UpdateSharedAPIKeyLimits(k, limit)
          PROVE  key' \in [Keys -> KeyRows] /\ left' \in Nat /\ dropped' = dropped
      <4>1. [key[k] EXCEPT !.limit = limit] \in KeyRows
        BY <3>1, ProviderBoundsAssumption DEF KeyRows
      <4> QED
        BY <3>3, <3>6, <4>1 DEF UpdateSharedAPIKeyLimits, Take, TypeOK
    <3>7. CASE ResetSharedAPIKeyUsage(k)
      <4>1. [key[k] EXCEPT !.used = 0] \in KeyRows /\ key[k].used \in Nat
        BY <3>1 DEF KeyRows
      <4> QED
        BY <3>3, <3>7, <4>1 DEF ResetSharedAPIKeyUsage, Take, TypeOK
    <3> QED
      BY <1>1, <3>2, <3>4, <3>5, <3>6, <3>7 DEF OwnerStep, TypeOK
  <2>2. UNCHANGED <<rows, income, late, mode, memory, upstream>>
    BY <1>1 DEF OwnerStep, SetEnabled, DeleteSharedAPIKey, UpdateSharedAPIKeyLimits,
                ResetSharedAPIKeyUsage, Alter, CooldownEnds
  <2>3. TypeOK'
    BY <2>1, <2>2 DEF TypeOK, rows, memory, upstream
  <2> QED
    BY <2>2, <2>3 DEF KeysAreChosen, OwnersAgree, StartsEmpty, rows, memory
<1>2. ASSUME BeginShutdown PROVE TypeInv'
  <2>1. TypeOK'
    BY <1>2 DEF BeginShutdown, Take, TypeOK, Modes, rows, memory, upstream
  <2> QED
    BY <1>2, <2>1 DEF BeginShutdown, KeysAreChosen, OwnersAgree, StartsEmpty, rows, memory
<1>3. ASSUME LoseMemory, left' \in Nat PROVE TypeInv'
  <2>1. TypeOK'
    BY <1>3, IdleTyped DEF LoseMemory, TypeOK, Modes, StreamStates, ClientSteps, rows, upstream
  <2> QED
    BY <1>3, <2>1, IdleTyped DEF LoseMemory, KeysAreChosen, OwnersAgree, StartsEmpty, HasKey, rows
<1>4. ASSUME ShutdownDeadline PROVE TypeInv'
  <2>1. TypeOK'
    BY <1>4 DEF ShutdownDeadline, TypeOK, Modes, StreamStates, rows, upstream
  <2> QED
    BY <1>4, <2>1 DEF ShutdownDeadline, KeysAreChosen, OwnersAgree, StartsEmpty, rows
<1>5. ASSUME NEW j \in Jobs, FailPrior(j) PROVE TypeInv'
  <2>1. /\ account' \in [Users -> Accounts] /\ calls' \in [Jobs -> Seq(Records)]
        /\ job' \in [Jobs -> JobStates] /\ job'[j] \in Terminal
        /\ \A i \in Jobs : i # j => job'[i] = job[i]
    BY <1>5, FailTyped DEF FailPrior
  <2>2. TypeOK'
    BY <1>5, <2>1 DEF FailPrior, TypeOK, memory, upstream
  <2> QED
    BY <1>5, <2>1, <2>2 DEF FailPrior, KeysAreChosen, OwnersAgree, StartsEmpty, memory, Terminal
<1>6. ASSUME Start PROVE TypeInv'
  <2>1. TypeOK'
    BY <1>6 DEF Start, TypeOK, Modes, rows, memory, upstream
  <2> QED
    BY <1>6, <2>1 DEF Start, KeysAreChosen, OwnersAgree, StartsEmpty, rows, memory
<1> QED
  BY <1>1, <1>2, <1>3, <1>4, <1>5, <1>6 DEF ProcessStep, Crash, Exit, Take, TypeOK

\* Every step keeps the types.
LEMMA TypeNext == TypeInv /\ [Next]_vars => TypeInv'
<1> SUFFICES ASSUME TypeInv, [Next]_vars PROVE TypeInv'
  OBVIOUS
<1>1. CASE UNCHANGED vars
  BY <1>1 DEF vars, TypeInv, TypeOK, KeysAreChosen, OwnersAgree, StartsEmpty
<1>2. ASSUME NEW j \in Jobs, RunnerStep(j) PROVE TypeInv'
  BY <1>2, TypeCall, TypeSwitch, TypeSettlement DEF RunnerStep
<1> QED
  BY <1>1, <1>2, TypeClient, TypeScheduler, TypeSettlement, TypeEnvironment DEF Next

\* All state of the Provider path has its type, the keys that steps use are
\* keys, a goroutine owns only a claimed job, and a handler that has not
\* published its job admits it still, whatever fails or restarts in between.
THEOREM TypeCorrect == Spec => [](TypeOK /\ KeysAreChosen /\ OwnersAgree)
<1>1. Init => TypeInv
  BY TypeInit
<1>2. TypeInv /\ [Next]_vars => TypeInv'
  BY TypeNext
<1>3. TypeInv => TypeOK /\ KeysAreChosen /\ OwnersAgree
  BY DEF TypeInv
<1> QED
  BY <1>1, <1>2, <1>3, PTL DEF Spec

-----------------------------------------------------------------------------
(* The slots. *)

\* The key whose slot the scheduler holds.
SchedulerHolds == IF sched.step = "reserved" THEN sched.key ELSE NoKey

Holders(k) == {j \in Jobs : runner[j].held = k}

OthersHold(j) == \A i \in Jobs : i # j => runner'[i].held = runner[i].held

\* All that a step can do to slots: nothing, or one of five moves of one slot.
SlotsKept ==
  /\ slots' = slots /\ SchedulerHolds' = SchedulerHolds
  /\ \A j \in Jobs : runner'[j].held = runner[j].held
GivesBack(j) ==
  /\ slots' = Released(runner[j].held) /\ SchedulerHolds' = SchedulerHolds
  /\ runner'[j].held = NoKey /\ OthersHold(j)
TakesNext(j, k) ==
  /\ HasSlot(k) /\ slots' = Reserved(k) /\ SchedulerHolds' = SchedulerHolds
  /\ runner[j].held = NoKey /\ runner'[j].held = k /\ OthersHold(j)
SchedulerTakes(k) ==
  /\ HasSlot(k) /\ slots' = Reserved(k) /\ SchedulerHolds = NoKey /\ SchedulerHolds' = k
  /\ \A j \in Jobs : runner'[j].held = runner[j].held
HandsOver(j, k) ==
  /\ slots' = slots /\ SchedulerHolds = k /\ SchedulerHolds' = NoKey
  /\ runner[j].held = NoKey /\ runner'[j].held = k /\ OthersHold(j)
SchedulerGivesBack ==
  /\ slots' = Released(SchedulerHolds) /\ SchedulerHolds' = NoKey
  /\ \A j \in Jobs : runner'[j].held = runner[j].held

SlotStep ==
  \/ SlotsKept
  \/ \E j \in Jobs : GivesBack(j)
  \/ \E j \in Jobs, k \in Keys : TakesNext(j, k) \/ HandsOver(j, k)
  \/ \E k \in Keys : SchedulerTakes(k)
  \/ SchedulerGivesBack
  \/ LoseMemory

\* A goroutine that returns gives its slot back.
LEMMA ReturnGivesBack ==
  ASSUME TypeOK, NEW j \in Jobs, Return(j), UNCHANGED sched
  PROVE  GivesBack(j)
<1>1. NoRunner.held = NoKey
  BY IdleTyped
<1> HIDE DEF NoRunner
<1> QED
  BY <1>1 DEF TypeOK, Return, GivesBack, OthersHold, SchedulerHolds

\* One that goes on keeps it.
LEMMA GoOnKeepsSlots ==
  ASSUME TypeOK, NEW j \in Jobs, NEW step \in RunnerSteps, runner' = To(j, step), UNCHANGED <<slots, sched>>
  PROVE  SlotsKept
<1>1. /\ To(j, step)[j].held = runner[j].held
      /\ \A i \in Jobs : i # j => To(j, step)[i] = runner[i]
  BY ToTyped, Zenon DEF TypeOK
<1>2. \A i \in Jobs : To(j, step)[i].held = runner[i].held
  BY <1>1
<1> QED
  BY <1>2 DEF SlotsKept, SchedulerHolds

\* A goroutine's step gives its slot back, takes the next one, or leaves the slots alone.
LEMMA RunnerSlots ==
  ASSUME TypeInv, NEW j \in Jobs, RunnerStep(j) \/ SaveFails(j) \/ SettleFails(j)
  PROVE  SlotStep
<1>0. /\ TypeOK /\ runner[j] \in Runners
      /\ runner[j].step = "selected" => runner[j].next \in Keys
      /\ runner[j].step \in HasNoSlot => runner[j].held = NoKey
  BY DEF TypeInv, TypeOK, KeysAreChosen
<1>1. CASE ReturnAtLoad(j) \/ FailExecution(j) \/ FailQuietly(j) \/ Finish(j)
  <2>1. Return(j) /\ UNCHANGED sched
    BY <1>1 DEF ReturnAtLoad, FailExecution, FailQuietly, Finish
  <2> QED
    BY <1>0, <2>1, ReturnGivesBack DEF SlotStep
<1>2. CASE Execute(j) \/ Refuse(j) \/ SaveFails(j) \/ Settle(j) \/ LastAttempt(j)
  <2>1. /\ \E step \in RunnerSteps : runner' = To(j, step)
        /\ UNCHANGED <<slots, sched>>
    BY <1>2 DEF Execute, Refuse, SaveFails, Settle, LastAttempt, RunnerSteps
  <2> QED
    BY <1>0, <2>1, GoOnKeepsSlots DEF SlotStep
<1>3. CASE SettleFails(j)
  <2>1. CASE Return(j)
    BY <1>0, <1>3, <2>1, ReturnGivesBack DEF SettleFails, SlotStep
  <2>2. CASE runner' = To(j, "settling") /\ UNCHANGED slots
    BY <1>0, <1>3, <2>2, GoOnKeepsSlots DEF SettleFails, SlotStep, RunnerSteps
  <2> QED
    BY <1>3, <2>1, <2>2 DEF SettleFails
<1>4. ASSUME NEW usage \in Usages, Complete(j, usage) PROVE SlotStep
  <2> DEFINE r == [runner[j] EXCEPT !.step = "confirmed", !.usage = usage]
  <2>1. r.held = runner[j].held
    BY <1>0 DEF Runners
  <2>2. runner' = [runner EXCEPT ![j] = r] /\ UNCHANGED <<slots, sched>>
    BY <1>4 DEF Complete
  <2> HIDE DEF r
  <2> QED
    BY <1>0, <2>1, <2>2 DEF TypeOK, SlotStep, SlotsKept, SchedulerHolds
<1>5. CASE StartSwitch(j)
  <2> DEFINE r == [runner[j] EXCEPT !.step = "switching", !.held = NoKey]
  <2>1. r.held = NoKey
    BY <1>0 DEF Runners
  <2>2. runner' = [runner EXCEPT ![j] = r] /\ slots' = Released(runner[j].held) /\ UNCHANGED sched
    BY <1>5 DEF StartSwitch, LeaveKey
  <2> HIDE DEF r
  <2>3. GivesBack(j)
    BY <1>0, <2>1, <2>2 DEF TypeOK, GivesBack, OthersHold, SchedulerHolds
  <2> QED
    BY <2>3 DEF SlotStep
<1>6. CASE ListKeysForSwitch(j)
  <2> DEFINE r == [runner[j] EXCEPT !.step = "listed", !.listed = Eligible]
  <2>1. r.held = runner[j].held
    BY <1>0 DEF Runners
  <2>2. runner' = [runner EXCEPT ![j] = r] /\ UNCHANGED <<slots, sched>>
    BY <1>6 DEF ListKeysForSwitch
  <2> HIDE DEF r
  <2> QED
    BY <1>0, <2>1, <2>2 DEF TypeOK, SlotStep, SlotsKept, SchedulerHolds
<1>7. ASSUME NEW k \in Keys, SelectForSwitch(j, k) PROVE SlotStep
  <2> DEFINE r == [runner[j] EXCEPT !.step = "selected", !.next = k, !.listed = {}]
  <2>1. r.held = runner[j].held
    BY <1>0 DEF Runners
  <2>2. runner' = [runner EXCEPT ![j] = r] /\ UNCHANGED <<slots, sched>>
    BY <1>7 DEF SelectForSwitch
  <2> HIDE DEF r
  <2> QED
    BY <1>0, <2>1, <2>2 DEF TypeOK, SlotStep, SlotsKept, SchedulerHolds
<1>8. CASE SwitchKey(j)
  <2> DEFINE k == runner[j].next
             r == [NoRunner EXCEPT !.step = "starting", !.current = k, !.held = k, !.tried = runner[j].tried \cup {k}]
  <2>1. k \in Keys /\ runner[j].held = NoKey
    BY <1>0, <1>8 DEF SwitchKey, At, HasNoSlot
  <2>2. r.held = k
    BY DEF NoRunner
  <2>3. runner' = [runner EXCEPT ![j] = r] /\ slots' = Reserved(k) /\ HasSlot(k) /\ UNCHANGED sched
    BY <1>8 DEF SwitchKey
  <2> HIDE DEF r
  <2>4. TakesNext(j, k)
    BY <1>0, <2>1, <2>2, <2>3 DEF TypeOK, TakesNext, OthersHold, SchedulerHolds
  <2> QED
    BY <2>1, <2>4 DEF SlotStep
<1> QED
  BY <1>1, <1>2, <1>3, <1>4, <1>5, <1>6, <1>7, <1>8 DEF RunnerStep

\* So does a step of the scheduler, which also hands its slot over to the goroutine it starts.
LEMMA SchedulerSlots ==
  ASSUME TypeInv,
         SchedulerStep \/ \E j \in Jobs : ListingFails(j) \/ ClaimFails(j)
  PROVE  SlotStep
<1>0. TypeOK /\ sched \in Schedulers /\ (sched.step \in {"selected", "reserved"} => sched.key \in Keys)
  BY DEF TypeInv, TypeOK, KeysAreChosen
<1>1. \A j \in Jobs : Proceed.step = "idle"
  BY DEF Proceed, NoIteration
<1>2. ASSUME UNCHANGED <<runner, slots>>, sched.step # "reserved", sched'.step # "reserved"
      PROVE  SlotStep
  BY <1>2 DEF SlotStep, SlotsKept, SchedulerHolds
<1>3. ASSUME StartIteration PROVE SlotStep
  <2>1. sched' = [NoIteration EXCEPT !.batch = Batch]
    BY <1>3 DEF StartIteration
  <2> QED
    BY <1>2, <1>3, <2>1 DEF StartIteration, NoIteration
<1>4. ASSUME SchedulerStops PROVE SlotStep
  <2>1. sched' = NoIteration /\ runner' = runner /\ NoIteration.step = "idle"
    BY <1>4, IdleTyped DEF SchedulerStops
  <2>2. CASE sched.step = "reserved"
    BY <1>4, <2>1, <2>2 DEF SchedulerStops, SlotStep, SchedulerGivesBack, SchedulerHolds
  <2>3. CASE sched.step # "reserved"
    BY <1>2, <1>4, <2>1, <2>3 DEF SchedulerStops
  <2> QED
    BY <2>2, <2>3
<1>5. ASSUME NEW j \in Jobs, FailExpired(j) \/ ListKeys(j) \/ SelectKey(j) \/ ListingFails(j) PROVE SlotStep
  <2>1. UNCHANGED <<runner, slots>> /\ sched.step # "reserved"
    BY <1>5 DEF FailExpired, ListKeys, SelectKey, ListingFails, IsNext
  <2>2. sched'.step # "reserved"
    <3>1. CASE FailExpired(j)
      BY <1>0, <3>1 DEF FailExpired, IsNext, Schedulers
    <3>2. CASE ListKeys(j)
      BY <1>0, <3>2 DEF ListKeys, Schedulers
    <3>3. CASE SelectKey(j)
      BY <1>0, <1>1, <3>3 DEF SelectKey, Schedulers
    <3>4. CASE ListingFails(j)
      <4>1. sched' = NoIteration \/ sched' = [sched EXCEPT !.batch = @ \ {j}]
        BY <3>4 DEF ListingFails
      <4> QED
        BY <1>0, <3>4, <4>1, IdleTyped DEF ListingFails, IsNext, Schedulers
    <3> QED
      BY <1>5, <3>1, <3>2, <3>3, <3>4
  <2> QED
    BY <1>2, <2>1, <2>2
<1>6. ASSUME NEW j \in Jobs, ReserveSlot(j) PROVE SlotStep
  <2>1. sched.step = "selected" /\ sched.key \in Keys /\ runner' = runner
    BY <1>0, <1>6 DEF ReserveSlot
  <2>2. CASE HasSlot(sched.key)
    <3>1. sched' = [sched EXCEPT !.step = "reserved"] /\ slots' = Reserved(sched.key)
      BY <1>6, <2>2 DEF ReserveSlot
    <3>2. sched'.step = "reserved" /\ sched'.key = sched.key
      BY <1>0, <3>1 DEF Schedulers
    <3>3. SchedulerTakes(sched.key)
      BY <2>1, <2>2, <3>1, <3>2 DEF SchedulerTakes, SchedulerHolds
    <3> QED
      BY <2>1, <3>3 DEF SlotStep
  <2>3. CASE ~HasSlot(sched.key)
    BY <1>1, <1>2, <1>6, <2>1, <2>3 DEF ReserveSlot
  <2> QED
    BY <2>2, <2>3
<1>7. ASSUME NEW j \in Jobs, Claim(j) PROVE SlotStep
  <2>1. sched.step = "reserved" /\ sched.key \in Keys /\ sched'.step = "idle" /\ slots' = slots
    BY <1>0, <1>1, <1>7 DEF Claim
  <2>2. runner' = [runner EXCEPT ![j] = Started(sched.key)] /\ Started(sched.key).held = sched.key
    BY <1>7 DEF Claim, Started, NoRunner
  <2>3. runner[j].held = NoKey
    BY <1>7 DEF Claim, TypeInv, OwnersAgree, KeysAreChosen, HasNoSlot
  <2>4. HandsOver(j, sched.key)
    BY <1>0, <2>1, <2>2, <2>3 DEF TypeOK, HandsOver, OthersHold, SchedulerHolds
  <2> QED
    BY <2>1, <2>4 DEF SlotStep
<1>8. ASSUME NEW j \in Jobs, ClaimRefused(j) \/ ClaimFails(j) PROVE SlotStep
  <2>1. /\ sched.step = "reserved" /\ sched'.step = "idle" /\ slots' = Released(sched.key)
        /\ runner' = runner
    BY <1>1, <1>8 DEF ClaimRefused, ClaimFails
  <2> QED
    BY <2>1 DEF SlotStep, SchedulerGivesBack, SchedulerHolds
<1> QED
  BY <1>3, <1>4, <1>5, <1>6, <1>7, <1>8 DEF SchedulerStep

\* Every step of the program is one of these.
LEMMA NextIsSlotStep ==
  ASSUME TypeInv, [Next]_vars
  PROVE  SlotStep
<1>1. ASSUME UNCHANGED <<sched, runner, slots>> PROVE SlotStep
  BY <1>1 DEF SlotStep, SlotsKept, SchedulerHolds
<1>2. CASE UNCHANGED vars
  BY <1>1, <1>2 DEF vars
<1>3. ASSUME NEW j \in Jobs,
             \/ ReserveCreditsAndCreateProviderTaskJob(j) \/ ClientStep(j) \/ PublishFails(j)
             \/ Disconnect(j) \/ SlowSubscriber(j) \/ Expire(j)
      PROVE  SlotStep
  BY <1>1, <1>3 DEF ReserveCreditsAndCreateProviderTaskJob, ClientStep, Register, Publish, FailUnpublished,
                    StreamEnds, PublishFails, Disconnect, SlowSubscriber, Expire, memory
<1>4. ASSUME NEW k \in Keys, OwnerStep(k) \/ CooldownEnds(k) PROVE SlotStep
  BY <1>1, <1>4 DEF OwnerStep, SetEnabled, DeleteSharedAPIKey, UpdateSharedAPIKeyLimits,
                    ResetSharedAPIKeyUsage, Alter, CooldownEnds, memory
<1>5. CASE BeginShutdown \/ Crash \/ ProcessStep
  BY <1>1, <1>5 DEF BeginShutdown, Crash, ProcessStep, ShutdownDeadline, Exit, Start, FailPrior, memory, SlotStep
<1> QED
  BY <1>2, <1>3, <1>4, <1>5, RunnerSlots, SchedulerSlots DEF Next

\* The holders of a key are finitely many.
LEMMA HoldersFinite ==
  ASSUME NEW k
  PROVE  IsFiniteSet(Holders(k)) /\ Cardinality(Holders(k)) \in Nat
BY ProviderJobsAssumption, FS_Subset, FS_CardinalityType DEF Holders

\* A goroutine that takes a key is one holder more.
LEMMA HolderAdded ==
  ASSUME NEW j \in Jobs, NEW k, runner[j].held # k, runner'[j].held = k, OthersHold(j)
  PROVE  Cardinality(Holders(k)') = Cardinality(Holders(k)) + 1
<1>1. Holders(k)' = Holders(k) \cup {j} /\ j \notin Holders(k)
  BY DEF Holders, OthersHold
<1>2. Cardinality(Holders(k) \cup {j}) = Cardinality(Holders(k)) + 1
  BY <1>1, HoldersFinite, FS_AddElement
<1> QED
  BY <1>1, <1>2, Zenon

\* One that leaves it is one less.
LEMMA HolderRemoved ==
  ASSUME NEW j \in Jobs, NEW k, runner[j].held = k, runner'[j].held # k, OthersHold(j)
  PROVE  Cardinality(Holders(k)') = Cardinality(Holders(k)) - 1 /\ Cardinality(Holders(k)) > 0
<1>1. Holders(k)' = Holders(k) \ {j} /\ j \in Holders(k)
  BY DEF Holders, OthersHold
<1>2. Cardinality(Holders(k) \ {j}) = Cardinality(Holders(k)) - 1
  BY <1>1, HoldersFinite, FS_RemoveElement
<1>3. Cardinality(Holders(k)') = Cardinality(Holders(k)) - 1
  BY <1>1, <1>2, Zenon
<1>4. Cardinality(Holders(k)) # 0
  BY <1>1, HoldersFinite, FS_EmptySet
<1> QED
  BY <1>3, <1>4, HoldersFinite

\* The others keep theirs.
LEMMA HoldersKept ==
  ASSUME NEW k, \A j \in Jobs : runner'[j].held = k <=> runner[j].held = k
  PROVE  Holders(k)' = Holders(k)
BY DEF Holders

\* What the invariant says of one key.
Accounted(k) ==
  /\ slots[k] <= MaxSlots
  /\ slots[k] = Cardinality(Holders(k)) + (IF SchedulerHolds = k THEN 1 ELSE 0)

\* The invariant, one key at a time.
LEMMA AccountedMeans ==
  SlotsAreHeld <=> \A k \in Keys : Accounted(k)
BY ProviderJobsAssumption DEF SlotsAreHeld, Accounted, Holders, SchedulerHolds

\* Every move of a slot leaves every key accounted for.
LEMMA SlotsNext ==
  ASSUME TypeInv, SlotStep, SlotsAreHeld, NEW k \in Keys
  PROVE  Accounted(k)'
<1> DEFINE n == Cardinality(Holders(k))
<1>0. /\ slots \in [Keys -> Nat] /\ slots[k] \in Nat /\ n \in Nat /\ k # NoKey /\ MaxSlots \in Nat \ {0}
      /\ Accounted(k)
  BY AccountedMeans, HoldersFinite, ProviderJobsAssumption, ProviderBoundsAssumption
     DEF TypeInv, TypeOK, ProviderConfigIsChecked
<1>1. CASE SlotsKept
  BY <1>0, <1>1, HoldersKept DEF SlotsKept, Accounted
<1>2. ASSUME NEW j \in Jobs, GivesBack(j) PROVE Accounted(k)'
  <2>1. CASE runner[j].held = k
    <3>1. Cardinality(Holders(k)') = n - 1 /\ n > 0
      BY <1>0, <1>2, <2>1, HolderRemoved DEF GivesBack
    <3>2. slots'[k] = slots[k] - 1
      BY <1>0, <1>2, <2>1, <3>1 DEF GivesBack, Released, Accounted
    <3> QED
      BY <1>0, <1>2, <3>1, <3>2 DEF GivesBack, Accounted
  <2>2. CASE runner[j].held # k
    <3>1. Holders(k)' = Holders(k)
      BY <1>0, <1>2, <2>2, HoldersKept DEF GivesBack, OthersHold
    <3>2. slots'[k] = slots[k]
      BY <1>2, <2>2 DEF GivesBack, Released
    <3> QED
      BY <1>0, <1>2, <3>1, <3>2 DEF GivesBack, Accounted
  <2> QED
    BY <2>1, <2>2
<1>3. ASSUME NEW j \in Jobs, NEW l \in Keys, TakesNext(j, l) PROVE Accounted(k)'
  <2>1. CASE l = k
    <3>1. Cardinality(Holders(k)') = n + 1
      BY <1>0, <1>3, <2>1, HolderAdded DEF TakesNext
    <3>2. slots'[k] = slots[k] + 1 /\ slots[k] < MaxSlots
      BY <1>0, <1>3, <2>1 DEF TakesNext, Reserved, HasSlot
    <3> QED
      BY <1>0, <1>3, <3>1, <3>2 DEF TakesNext, Accounted
  <2>2. CASE l # k
    <3>1. Holders(k)' = Holders(k)
      BY <1>0, <1>3, <2>2, HoldersKept DEF TakesNext, OthersHold
    <3>2. slots'[k] = slots[k]
      BY <1>0, <1>3, <2>2 DEF TakesNext, Reserved
    <3> QED
      BY <1>0, <1>3, <3>1, <3>2 DEF TakesNext, Accounted
  <2> QED
    BY <2>1, <2>2
<1>4. ASSUME NEW j \in Jobs, NEW l \in Keys, HandsOver(j, l) PROVE Accounted(k)'
  <2>1. CASE l = k
    <3>1. Cardinality(Holders(k)') = n + 1
      BY <1>0, <1>4, <2>1, HolderAdded DEF HandsOver
    <3> QED
      BY <1>0, <1>4, <2>1, <3>1 DEF HandsOver, Accounted
  <2>2. CASE l # k
    <3>1. Holders(k)' = Holders(k)
      BY <1>0, <1>4, <2>2, HoldersKept DEF HandsOver, OthersHold
    <3> QED
      BY <1>0, <1>4, <2>2, <3>1 DEF HandsOver, Accounted
  <2> QED
    BY <2>1, <2>2
<1>5. ASSUME NEW l \in Keys, SchedulerTakes(l) PROVE Accounted(k)'
  <2>1. Holders(k)' = Holders(k)
    BY <1>5, HoldersKept DEF SchedulerTakes
  <2>2. slots'[k] = IF l = k THEN slots[k] + 1 ELSE slots[k]
    BY <1>0, <1>5 DEF SchedulerTakes, Reserved
  <2> QED
    BY <1>0, <1>5, <2>1, <2>2 DEF SchedulerTakes, HasSlot, Accounted
<1>6. CASE SchedulerGivesBack
  <2>1. Holders(k)' = Holders(k)
    BY <1>6, HoldersKept DEF SchedulerGivesBack
  <2>2. slots'[k] = IF SchedulerHolds = k THEN slots[k] - 1 ELSE slots[k]
    BY <1>0, <1>6 DEF SchedulerGivesBack, Released, Accounted
  <2> QED
    BY <1>0, <1>6, <2>1, <2>2 DEF SchedulerGivesBack, Accounted
<1>7. CASE LoseMemory
  <2>1. slots'[k] = 0 /\ Holders(k)' = {}
    BY <1>0, <1>7, IdleTyped DEF LoseMemory, Holders
  <2>2. SchedulerHolds' = NoKey
    BY <1>7, IdleTyped DEF LoseMemory, SchedulerHolds
  <2>3. Cardinality(Holders(k)') = 0
    BY <2>1, FS_EmptySet, Zenon
  <2> QED
    BY <1>0, <2>1, <2>2, <2>3 DEF Accounted
<1> QED
  BY <1>1, <1>2, <1>3, <1>4, <1>5, <1>6, <1>7 DEF SlotStep

\* Before any claim no slot is taken.
LEMMA SlotsInit == Init => SlotsAreHeld
<1> SUFFICES ASSUME Init, NEW k \in Keys PROVE Accounted(k)
  BY AccountedMeans
<1>1. slots[k] = 0 /\ Holders(k) = {} /\ SchedulerHolds = NoKey
  BY IdleTyped, ProviderJobsAssumption DEF Init, Holders, SchedulerHolds
<1>2. Cardinality(Holders(k)) = 0
  BY <1>1, FS_EmptySet, Zenon
<1> QED
  BY <1>1, <1>2, ProviderJobsAssumption, ProviderBoundsAssumption DEF Accounted, ProviderConfigIsChecked

\* The slots of every key are exactly those that the scheduler and the
\* goroutines hold, and never more than the limit: no failed claim, key switch,
\* settlement, shutdown or crash leaks one or gives one back twice.
THEOREM SlotsAccounted == Spec => []SlotsAreHeld
<1>1. Init => TypeInv /\ SlotsAreHeld
  BY TypeInit, SlotsInit
<1>2. TypeInv /\ SlotsAreHeld /\ [Next]_vars => TypeInv' /\ SlotsAreHeld'
  <2>1. ASSUME TypeInv, SlotsAreHeld, [Next]_vars PROVE SlotsAreHeld'
    <3>1. \A k \in Keys : Accounted(k)'
      BY <2>1, NextIsSlotStep, SlotsNext
    <3>2. SlotsAreHeld' <=> \A k \in Keys : Accounted(k)'
      BY ProviderJobsAssumption DEF SlotsAreHeld, Accounted, Holders, SchedulerHolds
    <3> QED
      BY <3>1, <3>2
  <2> QED
    BY <2>1, TypeNext
<1> QED
  BY <1>1, <1>2, PTL DEF Spec

-----------------------------------------------------------------------------
(* The rows. *)

\* The keys' counters and the owners' earnings are left as they are; a reset
\* moves tokens from the counter to what it forgot.
EarningsKept ==
  /\ income' = income
  /\ \A k \in Keys : key'[k].used + dropped'[k] = key[k].used + dropped[k]

\* All that a step can do to the rows: relabel unfinished ones, or one of the
\* three transactions.
Relabel ==
  /\ UNCHANGED <<account, calls>> /\ EarningsKept
  /\ \A j \in Jobs : job'[j] = job[j] \/ (job[j] \in Unfinished /\ job'[j] \in Unfinished)
Admits(j) ==
  /\ ReserveCreditsAndCreateProviderTaskJob(j) /\ EarningsKept
Fails(j) ==
  /\ job[j] \in Unfinished /\ WriteFailure(j) /\ EarningsKept
Settles(j) ==
  /\ job[j] \in Unfinished /\ calls[j] = <<>> /\ runner[j].current \in Keys
  /\ WriteSettlement(j) /\ UNCHANGED dropped

RowStep == Relabel \/ \E j \in Jobs : Admits(j) \/ Fails(j) \/ Settles(j)

\* A failure of a job that exists is one of them.
LEMMA FailRowStep ==
  ASSUME TypeOK, NEW j \in Jobs, job[j] # "none", Fail(j), EarningsKept
  PROVE  RowStep
<1>1. CASE job[j] \in Terminal
  BY <1>1 DEF Fail, rows, RowStep, Relabel
<1>2. CASE job[j] \notin Terminal
  BY <1>2 DEF Fail, RowStep, Fails, TypeOK, JobStates
<1> QED
  BY <1>1, <1>2

\* Also when its error is ignored.
LEMMA FailIgnoringErrorRowStep ==
  ASSUME TypeOK, NEW j \in Jobs, NEW cancelled \in BOOLEAN, job[j] # "none",
         FailIgnoringError(j, cancelled), EarningsKept
  PROVE  RowStep
<1>1. CASE UNCHANGED <<account, job, calls>>
  BY <1>1 DEF RowStep, Relabel
<1> QED
  BY <1>1, FailRowStep DEF FailIgnoringError, rows

\* A settlement settles, or finds that it has settled.
LEMMA SettleRowStep ==
  ASSUME TypeInv, NEW j \in Jobs, runner[j].step \in {"confirmed", "settling", "last"},
         SettleProviderTaskJob(j), UNCHANGED dropped
  PROVE  RowStep
<1>1. CASE UNCHANGED <<account, job, calls, key, income>>
  BY <1>1 DEF RowStep, Relabel, EarningsKept
<1>2. CASE job[j] \notin Terminal /\ calls[j] = <<>> /\ WriteSettlement(j)
  <2>1. job[j] \in Unfinished /\ runner[j].current \in Keys
    BY <1>2 DEF TypeInv, TypeOK, OwnersAgree, KeysAreChosen, HasKey, JobStates
  <2> QED
    BY <1>2, <2>1 DEF RowStep, Settles
<1> QED
  BY <1>1, <1>2 DEF SettleProviderTaskJob

\* A step that changes neither earnings nor counters keeps them.
LEMMA KeysUntouched ==
  ASSUME UNCHANGED <<key, income, dropped>>
  PROVE  EarningsKept
BY DEF EarningsKept

\* The outcome of a call changes only the misses and the cooldown of its key.
LEMMA OutcomeKeepsEarnings ==
  ASSUME TypeInv, NEW j \in Jobs, Refuse(j) \/ \E usage \in Usages : Complete(j, usage)
  PROVE  EarningsKept
<1> DEFINE k == runner[j].current
<1>1. UNCHANGED <<income, dropped>>
  BY DEF Refuse, Complete
<1>2. key \in [Keys -> KeyRows]
  BY DEF TypeInv, TypeOK
<1>3. CASE key' = [key EXCEPT ![k].misses = 0]
  <2> DEFINE row == [key[k] EXCEPT !.misses = 0]
  <2>1. k \in Keys => row.used = key[k].used
    BY <1>2 DEF KeyRows
  <2>2. key' = [key EXCEPT ![k] = row]
    BY <1>3
  <2> HIDE DEF row
  <2> QED
    BY <1>1, <1>2, <2>1, <2>2 DEF EarningsKept
<1>4. CASE key' = [key EXCEPT ![k] = Unavailable(@)]
  <2>1. k \in Keys => Unavailable(key[k]).used = key[k].used
    BY <1>2 DEF KeyRows, Unavailable
  <2> QED
    BY <1>1, <1>2, <1>4, <2>1 DEF EarningsKept
<1>5. CASE key' = key
  BY <1>1, <1>5 DEF EarningsKept
<1> QED
  BY <1>3, <1>4, <1>5 DEF Refuse, Complete

\* A goroutine moves its job on, fails it or settles it.
LEMMA RunnerRows ==
  ASSUME TypeInv, NEW j \in Jobs, RunnerStep(j) \/ SaveFails(j) \/ SettleFails(j)
  PROVE  RowStep
<1>0. TypeOK /\ (runner[j].step # "idle" => job[j] # "none")
  BY DEF TypeInv, OwnersAgree
<1>1. ASSUME UNCHANGED rows, EarningsKept PROVE RowStep
  BY <1>1 DEF rows, RowStep, Relabel
<1>2. CASE ReturnAtLoad(j) \/ Execute(j) \/ StartSwitch(j) \/ ListKeysForSwitch(j) \/ SwitchKey(j)
           \/ (\E k \in Keys : SelectForSwitch(j, k)) \/ SaveFails(j) \/ LastAttempt(j) \/ Finish(j)
  <2>1. UNCHANGED <<rows, key, income, dropped>>
    BY <1>2 DEF ReturnAtLoad, Execute, StartSwitch, ListKeysForSwitch, SwitchKey, SelectForSwitch,
                SaveFails, LastAttempt, Finish
  <2> QED
    BY <1>1, <2>1, KeysUntouched
<1>3. CASE Refuse(j) \/ \E usage \in Usages : Complete(j, usage)
  BY <1>1, <1>3, OutcomeKeepsEarnings DEF Refuse, Complete
<1>4. CASE FailExecution(j) \/ FailQuietly(j)
  <2>1. EarningsKept /\ job[j] # "none"
    BY <1>0, <1>4, KeysUntouched DEF FailExecution, FailQuietly, At
  <2>2. (\E cancelled \in BOOLEAN : FailIgnoringError(j, cancelled)) \/ Fail(j)
    BY <1>4 DEF FailExecution, FailQuietly, Cancelled
  <2> QED
    BY <1>0, <2>1, <2>2, FailRowStep, FailIgnoringErrorRowStep
<1>5. CASE Settle(j)
  BY <1>5, SettleRowStep DEF Settle
<1>6. CASE SettleFails(j)
  <2>1. CASE SettleProviderTaskJob(j)
    BY <1>6, <2>1, SettleRowStep DEF SettleFails
  <2>2. CASE UNCHANGED <<rows, key, income>>
    BY <1>1, <1>6, <2>2, KeysUntouched DEF SettleFails
  <2> QED
    BY <1>6, <2>1, <2>2 DEF SettleFails
<1> QED
  BY <1>2, <1>3, <1>4, <1>5, <1>6 DEF RunnerStep

\* A request handler admits its job, publishes it or fails it.
LEMMA ClientRows ==
  ASSUME TypeInv, NEW j \in Jobs,
         \/ ReserveCreditsAndCreateProviderTaskJob(j) \/ ClientStep(j) \/ PublishFails(j)
         \/ Disconnect(j) \/ SlowSubscriber(j) \/ Expire(j)
  PROVE  RowStep
<1>0. EarningsKept
  BY KeysUntouched DEF ReserveCreditsAndCreateProviderTaskJob, ClientStep, Register, Publish, FailUnpublished,
                       StreamEnds, PublishFails, Disconnect, SlowSubscriber, Expire
<1>1. CASE ReserveCreditsAndCreateProviderTaskJob(j)
  BY <1>0, <1>1 DEF RowStep, Admits
<1>2. CASE Publish(j) \/ PublishFails(j)
  <2>1. job[j] = "admitting" /\ UNCHANGED <<account, calls>> /\ (job' = job \/ job' = [job EXCEPT ![j] = "queued"])
    BY <1>2 DEF Publish, PublishFails, TypeInv, OwnersAgree
  <2>2. \A i \in Jobs : job'[i] = job[i] \/ (job[i] \in Unfinished /\ job'[i] \in Unfinished)
    BY <2>1 DEF TypeInv, TypeOK, Unfinished
  <2> QED
    BY <1>0, <2>1, <2>2 DEF RowStep, Relabel
<1>3. CASE FailUnpublished(j)
  <2>1. job[j] # "none" /\ FailIgnoringError(j, FALSE)
    BY <1>3 DEF FailUnpublished, TypeInv, OwnersAgree
  <2> QED
    BY <1>0, <2>1, FailIgnoringErrorRowStep DEF TypeInv
<1>4. CASE Register(j) \/ StreamEnds(j) \/ Disconnect(j) \/ SlowSubscriber(j) \/ Expire(j)
  BY <1>0, <1>4 DEF Register, StreamEnds, Disconnect, SlowSubscriber, Expire, rows, RowStep, Relabel
<1> QED
  BY <1>1, <1>2, <1>3, <1>4 DEF ClientStep

\* The scheduler claims jobs and fails the expired ones.
LEMMA SchedulerRows ==
  ASSUME TypeInv,
         SchedulerStep \/ \E j \in Jobs : ListingFails(j) \/ ClaimFails(j)
  PROVE  RowStep
<1>0. EarningsKept
  BY KeysUntouched DEF SchedulerStep, StartIteration, SchedulerStops, FailExpired, ListKeys, SelectKey,
                       ReserveSlot, Claim, ClaimRefused, ListingFails, ClaimFails
<1>1. ASSUME NEW j \in Jobs, FailExpired(j) PROVE RowStep
  <2>1. job[j] # "none" /\ FailIgnoringError(j, FALSE)
    BY <1>1 DEF FailExpired, IsNext, TypeInv, OwnersAgree
  <2> QED
    BY <1>0, <2>1, FailIgnoringErrorRowStep DEF TypeInv
<1>2. ASSUME NEW j \in Jobs, Claim(j) \/ ClaimFails(j) PROVE RowStep
  <2>1. /\ UNCHANGED <<account, calls>>
        /\ job' = job \/ (job[j] = "queued" /\ job' = [job EXCEPT ![j] = "running"])
    BY <1>2 DEF Claim, ClaimFails
  <2>2. \A i \in Jobs : job'[i] = job[i] \/ (job[i] \in Unfinished /\ job'[i] \in Unfinished)
    BY <2>1 DEF TypeInv, TypeOK, Unfinished
  <2> QED
    BY <1>0, <2>1, <2>2 DEF RowStep, Relabel
<1>3. ASSUME UNCHANGED rows PROVE RowStep
  BY <1>0, <1>3 DEF rows, RowStep, Relabel
<1> QED
  BY <1>1, <1>2, <1>3 DEF SchedulerStep, StartIteration, SchedulerStops, ListKeys, SelectKey,
                          ReserveSlot, ClaimRefused, ListingFails

\* Key Owners and the end of a cooldown change nothing but keys.
LEMMA OwnersKeep ==
  ASSUME NEW k \in Keys, OwnerStep(k) \/ CooldownEnds(k)
  PROVE  UNCHANGED <<rows, income, late, mode, memory, upstream>>
<1>1. ASSUME NEW row, Alter(k, row) PROVE UNCHANGED <<rows, income, late, mode, memory, upstream>>
  BY <1>1 DEF Alter
<1>2. CASE SetEnabled(k)
  BY <1>1, <1>2, Zenon DEF SetEnabled
<1>3. CASE DeleteSharedAPIKey(k)
  BY <1>1, <1>3, Zenon DEF DeleteSharedAPIKey
<1>4. ASSUME NEW limit \in Limits, UpdateSharedAPIKeyLimits(k, limit)
      PROVE  UNCHANGED <<rows, income, late, mode, memory, upstream>>
  BY <1>1, <1>4, Zenon DEF UpdateSharedAPIKeyLimits
<1>5. CASE ResetSharedAPIKeyUsage(k)
  BY <1>1, <1>5, Zenon DEF ResetSharedAPIKeyUsage
<1>6. CASE CooldownEnds(k)
  BY <1>6, Zenon DEF CooldownEnds
<1> QED
  BY <1>2, <1>3, <1>4, <1>5, <1>6, Zenon DEF OwnerStep

\* Crashes, recovery, key edits and lost replies end in the same four kinds of step.
LEMMA EnvironmentRows ==
  ASSUME TypeInv,
         \/ \E k \in Keys : OwnerStep(k) \/ CooldownEnds(k)
         \/ BeginShutdown \/ Crash \/ ProcessStep
  PROVE  RowStep
<1>1. ASSUME UNCHANGED rows, EarningsKept PROVE RowStep
  BY <1>1 DEF rows, RowStep, Relabel
<1>2. ASSUME NEW k \in Keys, OwnerStep(k) \/ CooldownEnds(k) PROVE RowStep
  <2>1. UNCHANGED <<rows, income>> /\ key[k] \in KeyRows /\ key \in [Keys -> KeyRows] /\ dropped \in [Keys -> Nat]
    BY <1>2, OwnersKeep DEF TypeInv, TypeOK
  <2>2. ASSUME NEW row, row.used = key[k].used, key' = [key EXCEPT ![k] = row], UNCHANGED dropped PROVE EarningsKept
    BY <2>1, <2>2 DEF EarningsKept
  <2>3. CASE ResetSharedAPIKeyUsage(k)
    <3> DEFINE row == [key[k] EXCEPT !.used = 0]
    <3>1. row.used = 0 /\ key[k].used \in Nat
      BY <2>1 DEF KeyRows
    <3>2. key' = [key EXCEPT ![k] = row] /\ dropped' = [dropped EXCEPT ![k] = @ + key[k].used]
      BY <2>3 DEF ResetSharedAPIKeyUsage, Alter
    <3> HIDE DEF row
    <3>3. key'[k].used = 0 /\ dropped'[k] = dropped[k] + key[k].used /\ dropped[k] \in Nat
      BY <2>1, <3>1, <3>2
    <3>4. \A l \in Keys : l # k => key'[l] = key[l] /\ dropped'[l] = dropped[l]
      BY <2>1, <3>2
    <3>5. EarningsKept
      BY <2>1, <3>1, <3>3, <3>4 DEF EarningsKept
    <3> QED
      BY <1>1, <2>1, <3>5
  <2>4. CASE SetEnabled(k)
    <3>1. [key[k] EXCEPT !.enabled = ~@].used = key[k].used
      BY <2>1 DEF KeyRows
    <3> QED
      BY <1>1, <2>1, <2>2, <2>4, <3>1 DEF SetEnabled, Alter
  <2>5. CASE DeleteSharedAPIKey(k)
    <3>1. [key[k] EXCEPT !.enabled = FALSE, !.deleted = TRUE].used = key[k].used
      BY <2>1 DEF KeyRows
    <3> QED
      BY <1>1, <2>1, <2>2, <2>5, <3>1 DEF DeleteSharedAPIKey, Alter
  <2>6. ASSUME NEW limit \in Limits, UpdateSharedAPIKeyLimits(k, limit) PROVE RowStep
    <3>1. [key[k] EXCEPT !.limit = limit].used = key[k].used
      BY <2>1 DEF KeyRows
    <3> QED
      BY <1>1, <2>1, <2>2, <2>6, <3>1 DEF UpdateSharedAPIKeyLimits, Alter
  <2>7. CASE CooldownEnds(k)
    <3>1. [key[k] EXCEPT !.cooling = FALSE].used = key[k].used
      BY <2>1 DEF KeyRows
    <3>2. key' = [key EXCEPT ![k] = [key[k] EXCEPT !.cooling = FALSE]] /\ UNCHANGED dropped
      BY <2>7 DEF CooldownEnds
    <3> QED
      BY <1>1, <2>1, <2>2, <3>1, <3>2
  <2> QED
    BY <1>2, <2>3, <2>4, <2>5, <2>6, <2>7, Zenon DEF OwnerStep
<1>3. ASSUME NEW j \in Jobs, FailPrior(j) PROVE RowStep
  <2>1. Fail(j) /\ job[j] # "none" /\ EarningsKept /\ TypeOK
    BY <1>3, KeysUntouched DEF FailPrior, Prior, TypeInv
  <2> QED
    BY <2>1, FailRowStep
<1>4. CASE BeginShutdown \/ Crash \/ ShutdownDeadline \/ Exit \/ Start
  BY <1>1, <1>4, KeysUntouched DEF BeginShutdown, Crash, ShutdownDeadline, Exit, Start, LoseMemory
<1> QED
  BY <1>2, <1>3, <1>4 DEF ProcessStep

\* Every step of the program is one of the four.
LEMMA NextIsRowStep ==
  ASSUME TypeInv, [Next]_vars
  PROVE  RowStep
<1>1. CASE UNCHANGED vars
  BY <1>1 DEF vars, RowStep, Relabel, EarningsKept
<1> QED
  BY <1>1, ClientRows, RunnerRows, SchedulerRows, EnvironmentRows DEF Next

\* The first call record of a job.
LEMMA FirstCall ==
  ASSUME TypeOK, NEW j \in Jobs, calls[j] = <<>>, NEW record \in Records,
         calls' = [calls EXCEPT ![j] = Append(@, record)]
  PROVE  /\ calls'[j] # <<>> /\ Len(calls'[j]) = 1 /\ calls'[j][1] = record
         /\ \A i \in Jobs : i # j => calls'[i] = calls[i]
<1>1. calls'[j] = Append(<<>>, record) /\ \A i \in Jobs : i # j => calls'[i] = calls[i]
  BY DEF TypeOK
<1>2. /\ Append(<<>>, record) # <<>> /\ Len(Append(<<>>, record)) = 1
      /\ Append(<<>>, record)[1] = record
  OBVIOUS
<1> QED
  BY <1>1, <1>2, Zenon

\* A job without a call record is not terminal, and the reverse.
LEMMA RecordsNext ==
  ASSUME TypeInv, RecordedOnce, RowStep
  PROVE  RecordedOnce'
<1>0. TypeOK
  BY DEF TypeInv
<1>1. CASE Relabel
  BY <1>1 DEF Relabel, RecordedOnce, Unfinished, Terminal
<1>2. ASSUME NEW j \in Jobs, Admits(j) PROVE RecordedOnce'
  <2>1. /\ calls' = calls /\ job[j] = "none" /\ job'[j] \in {"admitting", "queued"}
        /\ \A i \in Jobs : i # j => job'[i] = job[i]
    BY <1>0, <1>2 DEF Admits, ReserveCreditsAndCreateProviderTaskJob, AdmissionPhase, TypeOK
  <2> QED
    BY <2>1 DEF RecordedOnce, Terminal
<1>3. ASSUME NEW j \in Jobs, job[j] \in Unfinished, NEW record \in Records, NEW status \in Terminal,
             calls' = [calls EXCEPT ![j] = Append(@, record)], job' = [job EXCEPT ![j] = status],
             status = "completed" <=> record.status = "success"
      PROVE  RecordedOnce'
  <2>1. calls[j] = <<>>
    BY <1>3 DEF RecordedOnce, Unfinished, Terminal
  <2>2. /\ calls'[j] # <<>> /\ Len(calls'[j]) = 1 /\ calls'[j][1] = record
        /\ \A i \in Jobs : i # j => calls'[i] = calls[i]
    BY <1>0, <1>3, <2>1, FirstCall
  <2>3. job'[j] = status /\ \A i \in Jobs : i # j => job'[i] = job[i]
    BY <1>0, <1>3 DEF TypeOK
  <2> QED
    BY <1>3, <2>2, <2>3 DEF RecordedOnce
<1>4. ASSUME NEW j \in Jobs, Fails(j) PROVE RecordedOnce'
  <2>1. FailureRecord \in Records /\ FailureRecord.status = "failed" /\ "failed" \in Terminal
    BY DEF FailureRecord, Records, Terminal
  <2> QED
    BY <1>3, <1>4, <2>1 DEF Fails, WriteFailure
<1>5. ASSUME NEW j \in Jobs, Settles(j) PROVE RecordedOnce'
  <2>1. SuccessRecord(j) \in Records /\ SuccessRecord(j).status = "success" /\ "completed" \in Terminal
    BY <1>0, SettlementTyped DEF SuccessRecord, Terminal
  <2> QED
    BY <1>3, <1>5, <2>1 DEF Settles, WriteSettlement
<1> QED
  BY <1>1, <1>2, <1>4, <1>5 DEF RowStep

\* Before the first request nothing is recorded.
LEMMA RecordsInit == Init => RecordedOnce
BY DEF Init, RecordedOnce, Terminal

\* A Provider job has one call record exactly when it is terminal, written by
\* whoever ended it first: the goroutine, the scheduler, the handler, or the
\* next process, however often the settlement is retried.
THEOREM RecordsCorrect == Spec => []RecordedOnce
<1>1. Init => TypeInv /\ RecordedOnce
  BY TypeInit, RecordsInit
<1>2. TypeInv /\ RecordedOnce /\ [Next]_vars => TypeInv' /\ RecordedOnce'
  BY TypeNext, RecordsNext, NextIsRowStep
<1> QED
  BY <1>1, <1>2, PTL DEF Spec

-----------------------------------------------------------------------------
(* Holds, balances, earnings and counters. *)

HeldOf(u) == [j \in JobsOf(u) |-> IF job[j] \in Unfinished THEN Hold[j] ELSE 0]
Recorded(js, field) == [j \in js |-> IF calls[j] = <<>> THEN 0 ELSE calls[j][1][field]]

AccountsInv == HoldsAreCovered /\ LedgersAgree

\* What the invariant says of one consumer.
UserAgrees(u) ==
  /\ account[u].locked = Total(HeldOf(u))
  /\ account[u].locked <= account[u].balance
  /\ account[u].balance + Total(Recorded(JobsOf(u), "charge")) = Funds[u]

\* What it says of one key.
KeyAgrees(k) ==
  /\ income[k] = Total(Recorded(CallsWith(k), "earning"))
  /\ key[k].used + dropped[k] = Total(Recorded(CallsWith(k), "tokens"))

\* The two invariants, one user and one key at a time.
LEMMA AgreementMeans ==
  AccountsInv <=> (\A u \in Users : UserAgrees(u)) /\ (\A k \in Keys : KeyAgrees(k))
BY DEF AccountsInv, HoldsAreCovered, LedgersAgree, UserAgrees, KeyAgrees, HeldSum, HeldOf, Sum, Recorded

\* A job belongs to its owner's jobs and to nobody else's.
LEMMA OwnersJobs ==
  /\ \A j \in Jobs : Owner[j] \in Users /\ j \in JobsOf(Owner[j]) /\ Hold[j] \in Nat
  /\ \A u \in Users : JobsOf(u) \subseteq Jobs /\ IsFiniteSet(JobsOf(u)) /\ \A j \in JobsOf(u) : Owner[j] = u
<1>1. \A u \in Users : JobsOf(u) \subseteq Jobs
  BY DEF JobsOf
<1> QED
  BY <1>1, ProviderJobsAssumption, FS_Subset DEF JobsOf

\* What was recorded of any jobs, and what they hold, are finite families of amounts.
LEMMA RecordedTyped ==
  ASSUME TypeOK, RecordedOnce, NEW js \in SUBSET Jobs, NEW field \in {"charge", "tokens", "earning"}
  PROVE  Recorded(js, field) \in [js -> Nat] /\ IsFiniteSet(js)
<1>1. ASSUME NEW j \in js, calls[j] # <<>> PROVE calls[j][1][field] \in Nat
  <2>1. calls[j] \in Seq(Records) /\ calls[j] # <<>>
    BY <1>1 DEF TypeOK
  <2>2. calls[j][1] \in Records
    BY <2>1
  <2> QED
    BY <2>2 DEF Records
<1>2. Recorded(js, field) \in [js -> Nat]
  BY <1>1 DEF Recorded
<1> QED
  BY <1>2, ProviderJobsAssumption, FS_Subset

\* The holds of a user are finitely many amounts.
LEMMA HeldTyped ==
  ASSUME NEW u \in Users
  PROVE  HeldOf(u) \in [JobsOf(u) -> Nat] /\ IsFiniteSet(JobsOf(u))
BY OwnersJobs DEF HeldOf

\* Before the first admission every sum is zero.
LEMMA AccountsInit == Init => AccountsInv
<1> SUFFICES ASSUME Init PROVE AccountsInv
  OBVIOUS
<1>0. TypeOK /\ RecordedOnce
  BY TypeInit, RecordsInit DEF TypeInv
<1>1. ASSUME NEW js \in SUBSET Jobs, NEW field \in {"charge", "tokens", "earning"}
      PROVE  Total(Recorded(js, field)) = 0
  <2>1. \A j \in js : Recorded(js, field)[j] = 0
    BY DEF Init, Recorded
  <2> QED
    BY <1>0, <2>1, RecordedTyped, TotalZero
<1>2. ASSUME NEW u \in Users PROVE UserAgrees(u)
  <2>1. \A j \in JobsOf(u) : HeldOf(u)[j] = 0
    BY OwnersJobs DEF Init, HeldOf, Unfinished
  <2>2. Total(HeldOf(u)) = 0
    BY <2>1, HeldTyped, TotalZero
  <2>3. Total(Recorded(JobsOf(u), "charge")) = 0
    BY <1>1, OwnersJobs
  <2> QED
    BY <2>2, <2>3, ProviderJobsAssumption DEF Init, UserAgrees
<1>3. ASSUME NEW k \in Keys PROVE KeyAgrees(k)
  <2>1. CallsWith(k) \subseteq Jobs
    BY DEF CallsWith
  <2> QED
    BY <1>1, <2>1 DEF Init, KeyAgrees
<1> QED
  BY <1>2, <1>3, AgreementMeans

\* The effect of a terminal transaction that charges c for job j on the owner's
\* account: the hold is gone, and c is paid from what is then available.
PaidFrom(j, c) ==
  LET a == account[Owner[j]]
      b == account'[Owner[j]]
  IN  /\ Hold[j] <= a.locked
      /\ b.locked = a.locked - Hold[j]
      /\ b.balance = a.balance - c
      /\ b.locked <= b.balance

\* A terminal transaction, as far as rows and consumers go.
Closes(j, record) ==
  /\ record \in Records /\ job[j] \in Unfinished
  /\ calls' = [calls EXCEPT ![j] = Append(@, record)]
  /\ \E status \in Terminal : job' = [job EXCEPT ![j] = status]
  /\ PaidFrom(j, record.charge)
  /\ \A v \in Users : v # Owner[j] => account'[v] = account[v]

\* The hold of an unfinished job is part of what is locked on its owner's account.
LEMMA HoldIsLocked ==
  ASSUME TypeOK, AccountsInv, NEW j \in Jobs, job[j] \in Unfinished
  PROVE  Hold[j] <= account[Owner[j]].locked
<1>1. Owner[j] \in Users /\ j \in JobsOf(Owner[j])
  BY OwnersJobs
<1>2. HeldOf(Owner[j])[j] = Hold[j]
  BY <1>1 DEF HeldOf
<1>3. HeldOf(Owner[j])[j] <= Total(HeldOf(Owner[j]))
  BY <1>1, HeldTyped, TotalBounds
<1> QED
  BY <1>1, <1>2, <1>3, AgreementMeans DEF UserAgrees

\* A failure releases the hold and charges nothing.
LEMMA FailsCloses ==
  ASSUME TypeOK, AccountsInv, NEW j \in Jobs, Fails(j)
  PROVE  Closes(j, FailureRecord)
<1>1. account[Owner[j]] \in Accounts /\ Hold[j] \in Nat /\ Owner[j] \in Users
  BY OwnersJobs DEF TypeOK
<1>2. account' = [account EXCEPT ![Owner[j]] = Release(@, Hold[j])]
  BY DEF Fails, WriteFailure
<1>3. Hold[j] <= account[Owner[j]].locked /\ account[Owner[j]].locked <= account[Owner[j]].balance
  BY <1>1, HoldIsLocked, AgreementMeans DEF Fails, UserAgrees
<1>4. /\ account'[Owner[j]].balance = account[Owner[j]].balance
      /\ account'[Owner[j]].locked = account[Owner[j]].locked - Hold[j]
  BY <1>1, <1>2, <1>3, ReleaseTyped DEF TypeOK
<1>5. FailureRecord \in Records /\ FailureRecord.charge = 0 /\ "failed" \in Terminal
  BY DEF FailureRecord, Records, Terminal
<1>6. account[Owner[j]].balance \in Nat /\ account[Owner[j]].locked \in Nat
  BY <1>1 DEF Accounts
<1>7. PaidFrom(j, FailureRecord.charge)
  BY <1>1, <1>3, <1>4, <1>5, <1>6 DEF PaidFrom
<1>8. \A v \in Users : v # Owner[j] => account'[v] = account[v]
  BY <1>2 DEF TypeOK
<1> QED
  BY <1>5, <1>7, <1>8 DEF Closes, Fails, WriteFailure

\* A settlement releases the hold and charges what the other holds leave.
LEMMA SettlesCloses ==
  ASSUME TypeOK, AccountsInv, NEW j \in Jobs, Settles(j)
  PROVE  Closes(j, SuccessRecord(j))
<1> DEFINE a == account[Owner[j]]
           b == Release(a, Hold[j])
           record == SuccessRecord(j)
           c == record.charge
<1>1. /\ Owner[j] \in Users /\ Hold[j] \in Nat /\ a \in Accounts /\ b \in Accounts
      /\ record \in Records /\ c \in Nat /\ c <= b.balance /\ c <= Available(b)
  BY SettlementTyped DEF TypeOK
<1>2. Hold[j] <= a.locked /\ a.locked <= a.balance
  BY <1>1, HoldIsLocked, AgreementMeans DEF Settles, UserAgrees
<1>3. b.balance = a.balance /\ b.locked = a.locked - Hold[j]
  BY <1>1, <1>2, ReleaseTyped
<1>4. account' = [account EXCEPT ![Owner[j]] = Debit(b, c)]
  BY DEF Settles, WriteSettlement
<1>5. Debit(b, c).balance = b.balance - c /\ Debit(b, c).locked = b.locked
  BY <1>1, DebitTyped
<1> HIDE DEF b, record, c
<1>6. b.locked <= b.balance - c
  BY <1>1, <1>2, <1>3 DEF Available, Accounts
<1>7. account'[Owner[j]] = Debit(b, c) /\ \A v \in Users : v # Owner[j] => account'[v] = account[v]
  BY <1>1, <1>4 DEF TypeOK
<1>8. PaidFrom(j, c)
  BY <1>2, <1>3, <1>5, <1>6, <1>7 DEF PaidFrom
<1>9. "completed" \in Terminal /\ job' = [job EXCEPT ![j] = "completed"]
  BY DEF Terminal, Settles, WriteSettlement
<1> QED
  BY <1>1, <1>7, <1>8, <1>9 DEF Closes, Settles, WriteSettlement, record, c

\* A consumer is untouched when neither the account nor the jobs change.
LEMMA UserKept ==
  ASSUME NEW u \in Users, UserAgrees(u), account'[u] = account[u],
         \A i \in JobsOf(u) : calls'[i] = calls[i] /\ (job'[i] \in Unfinished <=> job[i] \in Unfinished)
  PROVE  UserAgrees(u)'
<1>1. HeldOf(u)' = HeldOf(u)
  BY DEF HeldOf
<1>2. Recorded(JobsOf(u), "charge")' = Recorded(JobsOf(u), "charge")
  BY DEF Recorded
<1> QED
  BY <1>1, <1>2 DEF UserAgrees

\* An admission adds its hold to the account and to the holds, within the balance.
LEMMA UserAdmits ==
  ASSUME TypeOK, AccountsInv, NEW u \in Users, NEW j \in Jobs, Admits(j)
  PROVE  UserAgrees(u)'
<1>0. /\ Owner[j] \in Users /\ j \in JobsOf(Owner[j]) /\ Hold[j] \in Nat /\ UserAgrees(u)
      /\ account \in [Users -> Accounts] /\ account[u] \in Accounts
  BY OwnersJobs, AgreementMeans DEF TypeOK
<1>1. /\ job[j] = "none" /\ job'[j] \in Unfinished /\ calls' = calls
      /\ \A i \in Jobs : i # j => job'[i] = job[i]
      /\ account' = [account EXCEPT ![Owner[j]] = Reserve(@, Hold[j])]
      /\ Hold[j] <= Available(account[Owner[j]])
  BY DEF Admits, ReserveCreditsAndCreateProviderTaskJob, AdmissionPhase, Unfinished, TypeOK
<1>2. CASE u # Owner[j]
  <2>1. \A i \in JobsOf(u) : job'[i] = job[i]
    BY <1>1, <1>2, OwnersJobs
  <2>2. account'[u] = account[u]
    BY <1>0, <1>1, <1>2
  <2> QED
    BY <1>0, <1>1, <2>1, <2>2, UserKept
<1>3. CASE u = Owner[j]
  <2>1. /\ account'[u].locked = account[u].locked + Hold[j]
        /\ account'[u].balance = account[u].balance
    BY <1>0, <1>1, <1>3, ReserveTyped
  <2>2. Total(HeldOf(u)') = Total(HeldOf(u)) + Hold[j]
    <3>1. HeldOf(u) \in [JobsOf(u) -> Nat] /\ HeldOf(u)' \in [JobsOf(u) -> Nat] /\ IsFiniteSet(JobsOf(u))
      BY HeldTyped, OwnersJobs DEF HeldOf
    <3>2. \A i \in JobsOf(u) \ {j} : HeldOf(u)[i] = HeldOf(u)'[i]
      BY <1>1, OwnersJobs DEF HeldOf
    <3>3. HeldOf(u)[j] = 0 /\ HeldOf(u)'[j] = Hold[j]
      BY <1>0, <1>1, <1>3 DEF HeldOf, Unfinished
    <3>4. Total(HeldOf(u)') + HeldOf(u)[j] = Total(HeldOf(u)) + HeldOf(u)'[j]
      BY <1>0, <1>3, <3>1, <3>2, TotalUpdate
    <3>5. Total(HeldOf(u)) \in Nat /\ Total(HeldOf(u)') \in Nat
      BY <3>1, TotalBounds
    <3> QED
      BY <1>0, <3>3, <3>4, <3>5
  <2>3. Recorded(JobsOf(u), "charge")' = Recorded(JobsOf(u), "charge")
    BY <1>1 DEF Recorded
  <2>4. account[u].locked + Hold[j] <= account[u].balance
    BY <1>0, <1>1, <1>3 DEF Available, Accounts, UserAgrees
  <2> QED
    BY <1>0, <2>1, <2>2, <2>3, <2>4 DEF UserAgrees
<1> QED
  BY <1>2, <1>3

\* A terminal transaction takes the hold out of the holds and moves the charge
\* from the balance to the call records.
LEMMA UserCloses ==
  ASSUME TypeOK, TypeOK', RecordedOnce, RecordedOnce', AccountsInv, NEW u \in Users, NEW j \in Jobs,
         NEW record \in Records, Closes(j, record)
  PROVE  UserAgrees(u)'
<1>0. /\ Owner[j] \in Users /\ j \in JobsOf(Owner[j]) /\ Hold[j] \in Nat /\ UserAgrees(u)
      /\ account[u] \in Accounts /\ account'[u] \in Accounts /\ record.charge \in Nat
      /\ JobsOf(u) \subseteq Jobs
  BY OwnersJobs, AgreementMeans DEF TypeOK, Records
<1>1. calls[j] = <<>>
  BY DEF Closes, RecordedOnce, Unfinished, Terminal
<1>2. /\ calls'[j] # <<>> /\ calls'[j][1] = record
      /\ \A i \in Jobs : i # j => calls'[i] = calls[i]
  BY <1>1, FirstCall DEF Closes
<1>3. job'[j] \notin Unfinished /\ job[j] \in Unfinished /\ \A i \in Jobs : i # j => job'[i] = job[i]
  BY DEF Closes, TypeOK, Unfinished, Terminal
<1>4. CASE u # Owner[j]
  <2>1. \A i \in JobsOf(u) : job'[i] = job[i] /\ calls'[i] = calls[i]
    BY <1>2, <1>3, <1>4, OwnersJobs
  <2>2. account'[u] = account[u]
    BY <1>4 DEF Closes
  <2> QED
    BY <1>0, <2>1, <2>2, UserKept
<1>5. CASE u = Owner[j]
  <2>1. Total(HeldOf(u)') = Total(HeldOf(u)) - Hold[j] /\ Total(HeldOf(u)) \in Nat
    <3>1. HeldOf(u) \in [JobsOf(u) -> Nat] /\ HeldOf(u)' \in [JobsOf(u) -> Nat] /\ IsFiniteSet(JobsOf(u))
      BY HeldTyped, OwnersJobs DEF HeldOf
    <3>2. \A i \in JobsOf(u) \ {j} : HeldOf(u)[i] = HeldOf(u)'[i]
      BY <1>3, OwnersJobs DEF HeldOf
    <3>3. HeldOf(u)[j] = Hold[j] /\ HeldOf(u)'[j] = 0
      BY <1>0, <1>3, <1>5 DEF HeldOf
    <3>4. Total(HeldOf(u)') + HeldOf(u)[j] = Total(HeldOf(u)) + HeldOf(u)'[j]
      BY <1>0, <1>5, <3>1, <3>2, TotalUpdate
    <3>5. Total(HeldOf(u)) \in Nat /\ Total(HeldOf(u)') \in Nat
      BY <3>1, TotalBounds
    <3> QED
      BY <1>0, <3>3, <3>4, <3>5
  <2>2. /\ Total(Recorded(JobsOf(u), "charge")') = Total(Recorded(JobsOf(u), "charge")) + record.charge
        /\ Total(Recorded(JobsOf(u), "charge")) \in Nat
    <3> DEFINE f == Recorded(JobsOf(u), "charge")
               g == Recorded(JobsOf(u), "charge")'
    <3>1. f \in [JobsOf(u) -> Nat] /\ g \in [JobsOf(u) -> Nat] /\ IsFiniteSet(JobsOf(u))
      <4>1. JobsOf(u)' = JobsOf(u)
        BY DEF JobsOf
      <4>2. f \in [JobsOf(u) -> Nat] /\ IsFiniteSet(JobsOf(u))
        BY <1>0, RecordedTyped
      <4>3. ASSUME NEW i \in JobsOf(u), calls'[i] # <<>> PROVE calls'[i][1].charge \in Nat
        <5>1. calls'[i] \in Seq(Records)
          BY <1>0 DEF TypeOK
        <5>2. calls'[i][1] \in Records
          BY <4>3, <5>1
        <5> QED
          BY <5>2 DEF Records
      <4>4. g \in [JobsOf(u) -> Nat]
        BY <4>1, <4>3 DEF Recorded
      <4> QED
        BY <4>2, <4>4
    <3>2. \A i \in JobsOf(u) \ {j} : f[i] = g[i]
      BY <1>0, <1>2 DEF Recorded
    <3>3. f[j] = 0 /\ g[j] = record.charge
      BY <1>0, <1>1, <1>2, <1>5 DEF Recorded
    <3> HIDE DEF f, g
    <3>4. Total(g) + f[j] = Total(f) + g[j]
      BY <1>0, <1>5, <3>1, <3>2, TotalUpdate
    <3>5. Total(f) \in Nat /\ Total(g) \in Nat
      BY <3>1, TotalBounds
    <3>6. Total(g) = Total(f) + record.charge
      BY <1>0, <3>3, <3>4, <3>5
    <3> QED
      BY <3>5, <3>6 DEF f, g
  <2>3. /\ account'[u].locked = account[u].locked - Hold[j]
        /\ account'[u].balance = account[u].balance - record.charge
        /\ account'[u].locked <= account'[u].balance
    BY <1>5 DEF Closes, PaidFrom
  <2>4. account[u].locked \in Nat /\ account[u].balance \in Nat
    BY <1>0 DEF Accounts
  <2> QED
    BY <1>0, <2>1, <2>2, <2>3, <2>4 DEF UserAgrees
<1> QED
  BY <1>4, <1>5

\* A key is untouched when no call is recorded for it.
LEMMA KeyKept ==
  ASSUME NEW k \in Keys, KeyAgrees(k), income'[k] = income[k],
         key'[k].used + dropped'[k] = key[k].used + dropped[k],
         CallsWith(k)' = CallsWith(k), \A i \in CallsWith(k) : calls'[i] = calls[i]
  PROVE  KeyAgrees(k)'
<1>1. /\ Recorded(CallsWith(k), "earning")' = Recorded(CallsWith(k), "earning")
      /\ Recorded(CallsWith(k), "tokens")' = Recorded(CallsWith(k), "tokens")
  BY DEF Recorded
<1> QED
  BY <1>1 DEF KeyAgrees

\* A call recorded for a key is one amount more in both of its sums.
LEMMA RecordAdded ==
  ASSUME TypeOK, RecordedOnce, NEW j \in Jobs, NEW record \in Records, NEW field \in {"tokens", "earning"},
         calls[j] = <<>>, calls' = [calls EXCEPT ![j] = Append(@, record)], record.key \in Keys
  PROVE  /\ Total(Recorded(CallsWith(record.key), field)') = Total(Recorded(CallsWith(record.key), field)) + record[field]
         /\ \A k \in Keys \ {record.key} :
              CallsWith(k)' = CallsWith(k) /\ \A i \in CallsWith(k) : calls'[i] = calls[i]
<1> DEFINE k == record.key
           js == CallsWith(k)
           f == Recorded(js, field)
           g == Recorded(CallsWith(k), field)'
<1>1. /\ calls'[j] # <<>> /\ calls'[j][1] = record
      /\ \A i \in Jobs : i # j => calls'[i] = calls[i]
  BY FirstCall
<1>2. js \subseteq Jobs /\ j \notin js /\ CallsWith(k)' = js \cup {j}
  BY <1>1 DEF CallsWith
<1>3. f \in [js -> Nat] /\ IsFiniteSet(js)
  BY <1>2, RecordedTyped
<1>4. g = [i \in js \cup {j} |-> IF i = j THEN record[field] ELSE f[i]]
  BY <1>1, <1>2 DEF Recorded
<1>5. record[field] \in Nat
  BY DEF Records
<1>6. g \in [js \cup {j} -> Nat] /\ g[j] = record[field] /\ \A i \in js : f[i] = g[i]
  <2> HIDE DEF f, g, js
  <2> QED
    BY <1>2, <1>3, <1>4, <1>5
<1>7. Total(g) = Total(f) + record[field]
  <2> HIDE DEF f, g, js
  <2>1. UnitsBut(g, j) = Units(f)
    BY <1>2, <1>3, <1>6 DEF UnitsBut, Units
  <2>2. IsFiniteSet(js \cup {j}) /\ j \in js \cup {j}
    BY <1>3, FS_AddElement
  <2>3. Total(g) = Cardinality(UnitsBut(g, j)) + g[j]
    BY <2>2, <1>6, TotalSplit
  <2> QED
    BY <1>6, <2>1, <2>3 DEF Total
<1>8. ASSUME NEW l \in Keys \ {k}
      PROVE  CallsWith(l)' = CallsWith(l) /\ \A i \in CallsWith(l) : calls'[i] = calls[i]
  BY <1>1 DEF CallsWith
<1> QED
  BY <1>7, <1>8

\* A settlement adds tokens and earning to the key and to its calls.
LEMMA KeySettles ==
  ASSUME TypeOK, RecordedOnce, NEW k \in Keys, KeyAgrees(k), NEW j \in Jobs, Settles(j)
  PROVE  KeyAgrees(k)'
<1> DEFINE record == SuccessRecord(j)
           l == record.key
<1>1. record \in Records /\ l \in Keys /\ calls[j] = <<>> /\ record.tokens \in Nat /\ record.earning \in Nat
  BY SettlementTyped DEF Settles
<1>2. /\ calls' = [calls EXCEPT ![j] = Append(@, record)]
      /\ key' = [key EXCEPT ![l].used = @ + record.tokens]
      /\ income' = [income EXCEPT ![l] = @ + record.earning] /\ dropped' = dropped
  BY DEF Settles, WriteSettlement
<1>3. key[k] \in KeyRows /\ key \in [Keys -> KeyRows] /\ income \in [Keys -> Nat] /\ dropped[k] \in Nat
  BY DEF TypeOK
<1> HIDE DEF record
<1>4. CASE k = l
  <2>1. /\ Total(Recorded(CallsWith(k), "earning")') = Total(Recorded(CallsWith(k), "earning")) + record.earning
        /\ Total(Recorded(CallsWith(k), "tokens")') = Total(Recorded(CallsWith(k), "tokens")) + record.tokens
    BY <1>1, <1>2, <1>4, RecordAdded
  <2>2. income'[k] = income[k] + record.earning
    BY <1>2, <1>3, <1>4
  <2>3. key'[k].used = key[k].used + record.tokens /\ key[k].used \in Nat
    <3> DEFINE row == [key[k] EXCEPT !.used = @ + record.tokens]
    <3>1. row.used = key[k].used + record.tokens /\ key[k].used \in Nat
      BY <1>3 DEF KeyRows
    <3>2. key' = [key EXCEPT ![k] = row]
      BY <1>2, <1>4
    <3> HIDE DEF row
    <3> QED
      BY <1>3, <3>1, <3>2
  <2> QED
    BY <1>1, <1>2, <1>3, <2>1, <2>2, <2>3 DEF KeyAgrees
<1>5. CASE k # l
  <2>1. CallsWith(k)' = CallsWith(k) /\ \A i \in CallsWith(k) : calls'[i] = calls[i]
    BY <1>1, <1>2, <1>5, RecordAdded
  <2>2. income'[k] = income[k] /\ key'[k] = key[k]
    BY <1>2, <1>3, <1>5
  <2> QED
    BY <1>2, <2>1, <2>2, KeyKept
<1> QED
  BY <1>4, <1>5

\* A failure is recorded for no key.
LEMMA KeyFails ==
  ASSUME TypeOK, RecordedOnce, NEW k \in Keys, KeyAgrees(k), NEW j \in Jobs, Fails(j)
  PROVE  KeyAgrees(k)'
<1>1. FailureRecord \in Records /\ FailureRecord.key = NoKey /\ NoKey # k
  BY ProviderJobsAssumption DEF FailureRecord, Records
<1>2. calls[j] = <<>> /\ calls' = [calls EXCEPT ![j] = Append(@, FailureRecord)]
  BY DEF Fails, WriteFailure, RecordedOnce, Unfinished, Terminal
<1>3. /\ calls'[j] # <<>> /\ calls'[j][1] = FailureRecord
      /\ \A i \in Jobs : i # j => calls'[i] = calls[i]
  BY <1>1, <1>2, FirstCall
<1>4. CallsWith(k)' = CallsWith(k) /\ \A i \in CallsWith(k) : calls'[i] = calls[i]
  BY <1>1, <1>2, <1>3 DEF CallsWith
<1> QED
  BY <1>4, KeyKept DEF Fails, EarningsKept

\* Every step keeps the three ledgers consistent.
LEMMA AccountsNext ==
  ASSUME TypeInv, TypeInv', RecordedOnce, RecordedOnce', AccountsInv, RowStep
  PROVE  AccountsInv'
<1>0. TypeOK /\ TypeOK' /\ (\A u \in Users : UserAgrees(u)) /\ (\A k \in Keys : KeyAgrees(k))
  BY AgreementMeans DEF TypeInv
<1>1. ASSUME NEW u \in Users PROVE UserAgrees(u)'
  <2>1. CASE Relabel
    <3>1. \A i \in JobsOf(u) : calls'[i] = calls[i] /\ (job'[i] \in Unfinished <=> job[i] \in Unfinished)
      BY <2>1, OwnersJobs DEF Relabel
    <3> QED
      BY <1>0, <2>1, <3>1, UserKept DEF Relabel
  <2>2. ASSUME NEW j \in Jobs, Admits(j) PROVE UserAgrees(u)'
    BY <1>0, <2>2, UserAdmits
  <2>3. ASSUME NEW j \in Jobs, Fails(j) PROVE UserAgrees(u)'
    <3>1. Closes(j, FailureRecord)
      BY <1>0, <2>3, FailsCloses
    <3> QED
      BY <1>0, <3>1, UserCloses DEF Closes
  <2>4. ASSUME NEW j \in Jobs, Settles(j) PROVE UserAgrees(u)'
    <3>1. Closes(j, SuccessRecord(j))
      BY <1>0, <2>4, SettlesCloses
    <3> QED
      BY <1>0, <3>1, UserCloses DEF Closes
  <2> QED
    BY <2>1, <2>2, <2>3, <2>4 DEF RowStep
<1>2. ASSUME NEW k \in Keys PROVE KeyAgrees(k)'
  <2>1. ASSUME EarningsKept, UNCHANGED calls PROVE KeyAgrees(k)'
    <3>1. CallsWith(k)' = CallsWith(k) /\ \A i \in CallsWith(k) : calls'[i] = calls[i]
      BY <2>1 DEF CallsWith
    <3> QED
      BY <1>0, <2>1, <3>1, KeyKept DEF EarningsKept
  <2> QED
    BY <1>0, <2>1, KeyFails, KeySettles
       DEF RowStep, Relabel, Admits, ReserveCreditsAndCreateProviderTaskJob
<1>3. AccountsInv' <=> (\A u \in Users : UserAgrees(u)') /\ (\A k \in Keys : KeyAgrees(k)')
  BY DEF AccountsInv, HoldsAreCovered, LedgersAgree, UserAgrees, KeyAgrees, HeldSum, HeldOf, Sum, Recorded
<1> QED
  BY <1>1, <1>2, <1>3

\* Together, the state of the rows.
RowsInv == TypeInv /\ RecordedOnce /\ AccountsInv

\* The invariants hold before the first request.
LEMMA RowsInit == Init => RowsInv
BY TypeInit, RecordsInit, AccountsInit DEF RowsInv

\* Every step keeps them together.
LEMMA RowsNext == RowsInv /\ [Next]_vars => RowsInv'
<1> SUFFICES ASSUME RowsInv, [Next]_vars PROVE RowsInv'
  OBVIOUS
<1>1. RowStep /\ TypeInv'
  BY NextIsRowStep, TypeNext DEF RowsInv
<1>2. RecordedOnce'
  BY <1>1, RecordsNext DEF RowsInv
<1> QED
  BY <1>1, <1>2, AccountsNext DEF RowsInv

\* What is locked is what the unfinished jobs reserved, and the balance covers
\* it, whatever price a completed call comes to.
THEOREM HoldsCovered == Spec => []HoldsAreCovered
<1>1. RowsInv => HoldsAreCovered
  BY DEF RowsInv, AccountsInv
<1> QED
  BY <1>1, RowsInit, RowsNext, PTL DEF Spec

\* Balances, earnings and token counters tell the same story as the call
\* records: a settlement is written whole, and once.
THEOREM LedgersConsistent == Spec => []LedgersAgree
<1>1. RowsInv => LedgersAgree
  BY DEF RowsInv, AccountsInv
<1> QED
  BY <1>1, RowsInit, RowsNext, PTL DEF Spec

-----------------------------------------------------------------------------
(* One job at a time: its goroutine, its calls, its stream. *)

\* The phases before a goroutine owns the job.
Waiting == {"none", "admitting", "queued"}

\* The steps at which every call so far was refused, and those at which the last one may have been accepted.
Unasked == {"starting", "refused", "switching", "listed", "selected"}
Upstream == {"executing", "confirmed", "unsaved", "settling", "last"}

CallsKept(i) == asked'[i] = asked[i] /\ refused'[i] = refused[i]
RowKept(i) == job'[i] = job[i] /\ calls'[i] = calls[i]
StreamCalm(i) == stream'[i] = stream[i] \/ stream'[i] \notin {"open", "done"}
ClientCalm(i) == client'[i] = "unpublished" => client[i] = "unpublished"
KeepsKey(i) == runner'[i].current = runner[i].current /\ runner'[i].tried = runner[i].tried

\* All that a step can do to a job: nothing but a stream cut short,
Rests(i) ==
  runner'[i] = runner[i] /\ CallsKept(i) /\ RowKept(i) /\ StreamCalm(i) /\ ClientCalm(i)

\* its admission, subscription and publication,
Prepares(i) ==
  /\ job[i] \in Waiting /\ job'[i] \in {"admitting", "queued"} /\ calls'[i] = calls[i]
  /\ runner[i].step = "idle" /\ runner'[i] = runner[i] /\ CallsKept(i)
  /\ stream'[i] = "done" => stream[i] = "done"
  /\ client'[i] = "unpublished" => stream'[i] # "open"

\* its claim, with or without a goroutine,
IsClaimed(i) ==
  /\ job[i] = "queued" /\ job'[i] = "running" /\ calls'[i] = calls[i] /\ CallsKept(i)
  /\ runner[i].step = "idle"
  /\ runner'[i] = runner[i] \/ \E k \in Keys : runner'[i] = Started(k)
  /\ stream'[i] = stream[i] /\ client'[i] = client[i]

\* an end that is no settlement,
Ends(i) ==
  /\ runner'[i].step = "idle" \/ (runner'[i] = runner[i] /\ client[i] = "unpublished")
  /\ CallsKept(i) /\ StreamCalm(i) /\ ClientCalm(i)
  /\ RowKept(i) \/ (job[i] \notin Terminal /\ job'[i] = "failed")

\* a call with the current key, and its refusal,
Asks(i) ==
  /\ runner[i].step = "starting" /\ runner'[i].step = "executing" /\ KeepsKey(i)
  /\ job[i] \notin Terminal \cup Waiting /\ runner[i].current \in Keys
  /\ asked'[i] = Append(asked[i], runner[i].current) /\ refused'[i] = refused[i]
  /\ RowKept(i) /\ stream'[i] = stream[i] /\ client'[i] = client[i]
IsRefused(i) ==
  /\ runner[i].step = "executing" /\ runner'[i].step = "refused" /\ KeepsKey(i)
  /\ asked'[i] = asked[i] /\ refused'[i] = refused[i] + 1
  /\ RowKept(i) /\ stream'[i] = stream[i] /\ client'[i] = client[i]

\* the search for another key, up to its slot,
Looks(i) ==
  /\ \/ runner[i].step \in {"refused", "switching"} /\ runner'[i].step \in {"switching", "listed"}
     \/ runner[i].step = "listed" /\ runner'[i].step = "selected" /\ runner'[i].next \notin runner[i].tried
  /\ KeepsKey(i) /\ CallsKept(i) /\ RowKept(i) /\ stream'[i] = stream[i] /\ client'[i] = client[i]
Switches(i) ==
  /\ runner[i].step = "selected" /\ runner'[i].step = "starting"
  /\ runner'[i].current = runner[i].next /\ runner'[i].tried = runner[i].tried \cup {runner[i].next}
  /\ CallsKept(i) /\ RowKept(i) /\ stream'[i] = stream[i] /\ client'[i] = client[i]

\* what follows an accepted call,
GoesOn(i) ==
  /\ \/ runner[i].step = "executing" /\ runner'[i].step = "confirmed"
     \/ runner[i].step = "confirmed" /\ runner'[i].step = "unsaved"
     \/ runner[i].step = "settling" /\ runner'[i].step = "last"
  /\ KeepsKey(i) /\ CallsKept(i) /\ RowKept(i) /\ stream'[i] = stream[i] /\ client'[i] = client[i]
Settled(i) ==
  /\ runner[i].step \in {"confirmed", "settling", "last"}
  /\ \/ runner'[i].step = "settling" /\ KeepsKey(i)
     \/ runner'[i].step \in {"settled", "idle"}
  /\ \/ RowKept(i) /\ (job[i] \in Terminal \/ calls[i] # <<>> \/ runner'[i].step # "settled")
     \/ job[i] \notin Terminal /\ job'[i] = "completed" /\ calls'[i][1].key = runner[i].current
  /\ CallsKept(i) /\ stream'[i] = stream[i] /\ client'[i] = client[i]

\* and the done event.
Finishes(i) ==
  /\ runner[i].step = "settled" /\ runner'[i].step = "idle" /\ CallsKept(i) /\ RowKept(i)
  /\ StreamCalm(i) \/ (stream[i] = "open" /\ stream'[i] = "done")
  /\ client'[i] = client[i]

CallStep(i) ==
  \/ Rests(i) \/ Prepares(i) \/ IsClaimed(i) \/ Ends(i) \/ Asks(i) \/ IsRefused(i) \/ Looks(i)
  \/ Switches(i) \/ GoesOn(i) \/ Settled(i) \/ Finishes(i)

\* What the scheduler works on has no goroutine.
BatchInv ==
  /\ sched.job # 0 => sched.job \in sched.batch
  /\ sched.step = "idle" => sched.job = 0
  /\ \A j \in sched.batch : runner[j].step = "idle"

\* A goroutine that goes on keeps its key.
LEMMA ToKeeps ==
  ASSUME runner \in [Jobs -> Runners], NEW j \in Jobs, NEW step \in RunnerSteps, runner' = To(j, step)
  PROVE  /\ runner'[j].step = step /\ KeepsKey(j)
         /\ \A i \in Jobs : i # j => runner'[i] = runner[i]
<1> DEFINE r == [runner[j] EXCEPT !.step = step]
<1>1. runner' = [runner EXCEPT ![j] = r]
  BY DEF To
<1>2. r.step = step /\ r.current = runner[j].current /\ r.tried = runner[j].tried
  BY DEF Runners
<1> HIDE DEF r
<1> QED
  BY <1>1, <1>2 DEF KeepsKey

\* One that returns leaves the others alone.
LEMMA ReturnEffect ==
  ASSUME TypeOK, NEW j \in Jobs, Return(j)
  PROVE  runner'[j].step = "idle" /\ \A i \in Jobs : i # j => runner'[i] = runner[i]
<1>1. NoRunner.step = "idle"
  BY IdleTyped
<1> HIDE DEF NoRunner
<1> QED
  BY <1>1 DEF TypeOK, Return

\* What a failure does to the rows of the jobs.
LEMMA FailEffect ==
  ASSUME TypeOK, NEW j \in Jobs, Fail(j) \/ \E cancelled \in BOOLEAN : FailIgnoringError(j, cancelled)
  PROVE  /\ \A i \in Jobs : i # j => RowKept(i)
         /\ RowKept(j) \/ (job[j] \notin Terminal /\ job'[j] = "failed")
<1>1. CASE UNCHANGED <<job, calls>>
  BY <1>1 DEF RowKept
<1>2. CASE WriteFailure(j) /\ job[j] \notin Terminal
  BY <1>2 DEF WriteFailure, RowKept, TypeOK
<1> QED
  BY <1>1, <1>2 DEF Fail, FailIgnoringError, rows

\* What a settlement does.
LEMMA SettleEffect ==
  ASSUME TypeOK, NEW j \in Jobs, SettleProviderTaskJob(j)
  PROVE  /\ \A i \in Jobs : i # j => RowKept(i)
         /\ \/ RowKept(j) /\ (job[j] \in Terminal \/ calls[j] # <<>>)
            \/ job[j] \notin Terminal /\ job'[j] = "completed" /\ calls'[j][1].key = runner[j].current
<1>1. CASE UNCHANGED <<job, calls>> /\ (job[j] \in Terminal \/ calls[j] # <<>>)
  BY <1>1 DEF RowKept
<1>2. CASE WriteSettlement(j) /\ job[j] \notin Terminal /\ calls[j] = <<>>
  <2> DEFINE record == SuccessRecord(j)
  <2>1. job' = [job EXCEPT ![j] = "completed"] /\ calls' = [calls EXCEPT ![j] = Append(calls[j], record)]
    BY <1>2 DEF WriteSettlement
  <2>2. record.key = runner[j].current
    BY DEF SuccessRecord
  <2> HIDE DEF record
  <2>3. calls'[j] = Append(<<>>, record)
    BY <1>2, <2>1 DEF TypeOK
  <2>4. Append(<<>>, record)[1] = record
    OBVIOUS
  <2>5. calls'[j][1].key = runner[j].current
    BY <2>2, <2>3, <2>4, Zenon
  <2> QED
    BY <1>2, <2>1, <2>5 DEF RowKept, TypeOK
<1> QED
  BY <1>1, <1>2 DEF SettleProviderTaskJob

\* A step of one goroutine leaves the other jobs alone.
LEMMA GoroutineApart ==
  ASSUME TypeOK, NEW j \in Jobs, RunnerStep(j) \/ SaveFails(j) \/ SettleFails(j), NEW i \in Jobs, i # j
  PROVE  Rests(i)
<1>1. runner'[i] = runner[i]
  BY DEF TypeOK, RunnerStep, ReturnAtLoad, Return, Execute, To, Complete, Refuse, FailExecution, StartSwitch,
         LeaveKey, ListKeysForSwitch, SelectForSwitch, SwitchKey, FailQuietly, Settle, LastAttempt, Finish,
         SaveFails, SettleFails
<1>2. asked'[i] = asked[i] /\ refused'[i] = refused[i]
  BY DEF TypeOK, RunnerStep, ReturnAtLoad, Execute, Complete, Refuse, FailExecution, StartSwitch,
         ListKeysForSwitch, SelectForSwitch, SwitchKey, FailQuietly, Settle, LastAttempt, Finish,
         SaveFails, SettleFails, upstream
<1>3. stream'[i] = stream[i] /\ client' = client
  BY DEF TypeOK, RunnerStep, ReturnAtLoad, Execute, Complete, Refuse, FailExecution, StartSwitch,
         ListKeysForSwitch, SelectForSwitch, SwitchKey, FailQuietly, Settle, LastAttempt, Finish,
         SaveFails, SettleFails, Unregistered
<1>4. RowKept(i)
  <2>1. CASE FailExecution(j) \/ FailQuietly(j)
    <3>1. Fail(j) \/ \E cancelled \in BOOLEAN : FailIgnoringError(j, cancelled)
      BY <2>1 DEF FailExecution, FailQuietly, Cancelled
    <3> QED
      BY <3>1, FailEffect
  <2>2. CASE SettleProviderTaskJob(j)
    BY <2>2, SettleEffect
  <2>3. CASE UNCHANGED rows
    BY <2>3 DEF rows, RowKept
  <2> QED
    BY <2>1, <2>2, <2>3 DEF RunnerStep, ReturnAtLoad, Execute, Complete, Refuse, StartSwitch,
         ListKeysForSwitch, SelectForSwitch, SwitchKey, Settle, LastAttempt, Finish, SaveFails, SettleFails
<1> QED
  BY <1>1, <1>2, <1>3, <1>4 DEF Rests, CallsKept, StreamCalm, ClientCalm

\* A step of the goroutine of a job, as the job sees it.
LEMMA GoroutineHere ==
  ASSUME TypeInv, NEW j \in Jobs, RunnerStep(j) \/ SaveFails(j) \/ SettleFails(j)
  PROVE  CallStep(j)
<1>0. /\ TypeOK /\ runner \in [Jobs -> Runners] /\ runner[j] \in Runners
      /\ runner[j].step \in HasKey => runner[j].current \in Keys
  BY DEF TypeInv, TypeOK, KeysAreChosen
<1>1. CASE ReturnAtLoad(j)
  <2>1. Return(j) /\ UNCHANGED <<rows, stream, client, upstream>>
    BY <1>1 DEF ReturnAtLoad
  <2> QED
    BY <1>0, <2>1, ReturnEffect DEF CallStep, Ends, CallsKept, RowKept, StreamCalm, ClientCalm, rows, upstream
<1>2. CASE Execute(j)
  <2>1. /\ runner' = To(j, "executing") /\ runner[j].step = "starting" /\ job[j] \notin Terminal \cup Waiting
        /\ asked' = [asked EXCEPT ![j] = Append(asked[j], runner[j].current)]
        /\ UNCHANGED <<rows, stream, client, refused>> /\ runner[j].current \in Keys
    BY <1>0, <1>2 DEF Execute, At, HasKey, TypeInv, OwnersAgree, Waiting
  <2>2. runner'[j].step = "executing" /\ KeepsKey(j)
    BY <1>0, <2>1, ToKeeps DEF RunnerSteps
  <2> QED
    BY <1>0, <2>1, <2>2 DEF CallStep, Asks, RowKept, TypeOK, rows
<1>3. ASSUME NEW usage \in Usages, Complete(j, usage) PROVE CallStep(j)
  <2> DEFINE r == [runner[j] EXCEPT !.step = "confirmed", !.usage = usage]
  <2>1. runner' = [runner EXCEPT ![j] = r]
    BY <1>0, <1>3 DEF Complete
  <2>2. r.step = "confirmed" /\ r.current = runner[j].current /\ r.tried = runner[j].tried
    BY <1>0 DEF Runners
  <2> HIDE DEF r
  <2>3. runner'[j].step = "confirmed" /\ KeepsKey(j)
    BY <1>0, <2>1, <2>2 DEF KeepsKey
  <2> QED
    BY <1>3, <2>3 DEF Complete, At, CallStep, GoesOn, CallsKept, RowKept, rows, upstream
<1>4. CASE Refuse(j)
  <2>1. /\ runner' = To(j, "refused") /\ runner[j].step = "executing"
        /\ refused' = [refused EXCEPT ![j] = refused[j] + 1] /\ UNCHANGED <<rows, asked, stream, client>>
    BY <1>4 DEF Refuse, At
  <2>2. runner'[j].step = "refused" /\ KeepsKey(j)
    BY <1>0, <2>1, ToKeeps DEF RunnerSteps
  <2> QED
    BY <1>0, <2>1, <2>2 DEF CallStep, IsRefused, RowKept, TypeOK, rows
<1>5. CASE FailExecution(j)
  <2>1. /\ Return(j) /\ \E cancelled \in BOOLEAN : FailIgnoringError(j, cancelled)
        /\ stream' = Unregistered(j) /\ UNCHANGED <<client, upstream>>
    BY <1>5 DEF FailExecution, Cancelled
  <2>2. StreamCalm(j)
    BY <1>0, <2>1 DEF StreamCalm, Unregistered, TypeOK
  <2> QED
    BY <1>0, <2>1, <2>2, ReturnEffect, FailEffect DEF CallStep, Ends, CallsKept, ClientCalm, upstream
<1>6. CASE FailQuietly(j)
  <2>1. /\ Return(j) /\ (Fail(j) \/ \E cancelled \in BOOLEAN : FailIgnoringError(j, cancelled))
        /\ UNCHANGED <<stream, client, upstream>>
    BY <1>6 DEF FailQuietly, Cancelled
  <2> QED
    BY <1>0, <2>1, ReturnEffect, FailEffect DEF CallStep, Ends, CallsKept, StreamCalm, ClientCalm, upstream
<1>7. CASE StartSwitch(j)
  <2> DEFINE r == [runner[j] EXCEPT !.step = "switching", !.held = NoKey]
  <2>1. runner' = [runner EXCEPT ![j] = r]
    BY <1>0, <1>7 DEF StartSwitch, LeaveKey
  <2>2. r.step = "switching" /\ r.current = runner[j].current /\ r.tried = runner[j].tried
    BY <1>0 DEF Runners
  <2> HIDE DEF r
  <2>3. runner'[j].step = "switching" /\ KeepsKey(j)
    BY <1>0, <2>1, <2>2 DEF KeepsKey
  <2> QED
    BY <1>7, <2>3 DEF StartSwitch, At, CallStep, Looks, CallsKept, RowKept, rows, upstream
<1>8. CASE ListKeysForSwitch(j)
  <2> DEFINE keys == Eligible
             r == [runner[j] EXCEPT !.step = "listed", !.listed = keys]
  <2>1. runner' = [runner EXCEPT ![j] = r]
    BY <1>0, <1>8 DEF ListKeysForSwitch
  <2> HIDE DEF keys
  <2>2. r.step = "listed" /\ r.current = runner[j].current /\ r.tried = runner[j].tried
    BY <1>0 DEF Runners
  <2> HIDE DEF r
  <2>3. runner'[j].step = "listed" /\ KeepsKey(j)
    BY <1>0, <2>1, <2>2 DEF KeepsKey
  <2> QED
    BY <1>8, <2>3 DEF ListKeysForSwitch, At, CallStep, Looks, CallsKept, RowKept, rows, upstream
<1>9. ASSUME NEW k \in Keys, SelectForSwitch(j, k) PROVE CallStep(j)
  <2> DEFINE r == [runner[j] EXCEPT !.step = "selected", !.next = k, !.listed = {}]
  <2>1. runner' = [runner EXCEPT ![j] = r] /\ k \notin runner[j].tried
    BY <1>0, <1>9 DEF SelectForSwitch, Candidates
  <2>2. r.step = "selected" /\ r.next = k /\ r.current = runner[j].current /\ r.tried = runner[j].tried
    BY <1>0 DEF Runners
  <2> HIDE DEF r
  <2>3. runner'[j].step = "selected" /\ runner'[j].next = k /\ KeepsKey(j)
    BY <1>0, <2>1, <2>2 DEF KeepsKey
  <2> QED
    BY <1>9, <2>1, <2>3 DEF SelectForSwitch, At, CallStep, Looks, CallsKept, RowKept, rows, upstream
<1>10. CASE SwitchKey(j)
  <2> DEFINE k == runner[j].next
             r == [NoRunner EXCEPT !.step = "starting", !.current = k, !.held = k, !.tried = runner[j].tried \cup {k}]
  <2>1. runner' = [runner EXCEPT ![j] = r]
    BY <1>10 DEF SwitchKey
  <2>2. r.step = "starting" /\ r.current = k /\ r.tried = runner[j].tried \cup {k}
    BY DEF NoRunner
  <2> HIDE DEF r
  <2>3. runner'[j] = r
    BY <1>0, <2>1
  <2> QED
    BY <1>10, <2>2, <2>3 DEF SwitchKey, At, CallStep, Switches, CallsKept, RowKept, rows, upstream
<1>11. CASE SaveFails(j) \/ LastAttempt(j)
  <2>1. \/ runner' = To(j, "unsaved") /\ runner[j].step = "confirmed"
        \/ runner' = To(j, "last") /\ runner[j].step = "settling"
    BY <1>11 DEF SaveFails, LastAttempt, At
  <2>2. UNCHANGED <<rows, stream, client, upstream>>
    BY <1>11 DEF SaveFails, LastAttempt
  <2>3. "unsaved" \in RunnerSteps /\ "last" \in RunnerSteps
    BY DEF RunnerSteps
  <2>4. \A step \in RunnerSteps : runner' = To(j, step) => runner'[j].step = step /\ KeepsKey(j)
    BY <1>0, ToKeeps
  <2> QED
    BY <2>1, <2>2, <2>3, <2>4 DEF CallStep, GoesOn, CallsKept, RowKept, rows, upstream
<1>12. CASE Settle(j) \/ SettleFails(j)
  <2>1. /\ runner[j].step \in {"confirmed", "settling", "last"} /\ UNCHANGED <<stream, client, upstream>>
        /\ \/ SettleProviderTaskJob(j) /\ runner' = To(j, "settled")
           \/ (SettleProviderTaskJob(j) \/ UNCHANGED rows) /\ (Return(j) \/ runner' = To(j, "settling"))
    BY <1>12 DEF Settle, SettleFails
  <2>2. "settled" \in RunnerSteps /\ "settling" \in RunnerSteps
    BY DEF RunnerSteps
  <2>3. \A step \in RunnerSteps : runner' = To(j, step) => runner'[j].step = step /\ KeepsKey(j)
    BY <1>0, ToKeeps
  <2>4. Return(j) => runner'[j].step = "idle"
    BY <1>0, ReturnEffect
  <2>5. SettleProviderTaskJob(j) =>
          \/ RowKept(j) /\ (job[j] \in Terminal \/ calls[j] # <<>>)
          \/ job[j] \notin Terminal /\ job'[j] = "completed" /\ calls'[j][1].key = runner[j].current
    BY <1>0, SettleEffect
  <2>6. UNCHANGED rows => RowKept(j)
    BY DEF rows, RowKept
  <2> QED
    BY <2>1, <2>2, <2>3, <2>4, <2>5, <2>6 DEF CallStep, Settled, CallsKept, upstream
<1>13. CASE Finish(j)
  <2>1. runner'[j].step = "idle" /\ runner[j].step = "settled" /\ UNCHANGED <<rows, client, upstream>>
    BY <1>0, <1>13, ReturnEffect DEF Finish, At
  <2>2. StreamCalm(j) \/ (stream[j] = "open" /\ stream'[j] = "done")
    BY <1>0, <1>13 DEF Finish, StreamCalm, TypeOK
  <2> QED
    BY <2>1, <2>2 DEF CallStep, Finishes, CallsKept, RowKept, rows, upstream
<1> QED
  BY <1>1, <1>2, <1>3, <1>4, <1>5, <1>6, <1>7, <1>8, <1>9, <1>10, <1>11, <1>12, <1>13 DEF RunnerStep

\* The steps of a request handler.
LEMMA ClientCalls ==
  ASSUME TypeInv, NEW j \in Jobs,
         \/ ReserveCreditsAndCreateProviderTaskJob(j) \/ ClientStep(j) \/ PublishFails(j)
         \/ Disconnect(j) \/ SlowSubscriber(j) \/ Expire(j),
         NEW i \in Jobs
  PROVE  CallStep(i)
<1>0. /\ TypeOK /\ runner' = runner /\ UNCHANGED upstream
      /\ \A m \in Jobs : job[m] \in Waiting => runner[m].step = "idle"
  BY DEF TypeInv, ReserveCreditsAndCreateProviderTaskJob, ClientStep, Register, Publish, FailUnpublished,
         StreamEnds, PublishFails, Disconnect, SlowSubscriber, Expire, memory, OwnersAgree, Waiting
<1>1. CASE ReserveCreditsAndCreateProviderTaskJob(j)
  <2>1. /\ job' = [job EXCEPT ![j] = AdmissionPhase(j)] /\ AdmissionPhase(j) \in {"admitting", "queued"}
        /\ client' = [client EXCEPT ![j] = IF j \in Streamed THEN "created" ELSE client[j]]
        /\ job[j] = "none" /\ UNCHANGED <<calls, stream>>
    BY <1>1 DEF ReserveCreditsAndCreateProviderTaskJob, AdmissionPhase
  <2>2. client[j] = "none"
    BY <2>1 DEF TypeInv, OwnersAgree
  <2> QED
    BY <1>0, <2>1, <2>2 DEF CallStep, Rests, Prepares, CallsKept, RowKept, StreamCalm, ClientCalm, TypeOK,
                            Waiting, upstream
<1>2. CASE Register(j)
  <2>1. job[j] = "admitting"
    BY <1>2 DEF Register, TypeInv, OwnersAgree
  <2> QED
    BY <1>0, <1>2, <2>1 DEF Register, CallStep, Rests, Prepares, CallsKept, RowKept, StreamCalm, ClientCalm, TypeOK,
                            Waiting, rows, upstream
<1>3. CASE Publish(j)
  <2>1. job[j] = "admitting"
    BY <1>3 DEF Publish, TypeInv, OwnersAgree
  <2> QED
    BY <1>0, <1>3, <2>1 DEF Publish, CallStep, Rests, Prepares, CallsKept, RowKept, StreamCalm, ClientCalm, TypeOK,
                            Waiting, rows, upstream
<1>4. CASE PublishFails(j)
  <2>1. job[j] = "admitting"
    BY <1>4 DEF PublishFails, TypeInv, OwnersAgree
  <2>2. /\ job' = job \/ job' = [job EXCEPT ![j] = "queued"]
        /\ stream' = [stream EXCEPT ![j] = IF stream[j] = "open" THEN "cut" ELSE stream[j]]
        /\ client' = [client EXCEPT ![j] = "unpublished"] /\ UNCHANGED calls
    BY <1>4 DEF PublishFails, Unregistered
  <2> QED
    BY <1>0, <2>1, <2>2 DEF CallStep, Rests, Prepares, CallsKept, RowKept, StreamCalm, ClientCalm, TypeOK,
                            Waiting, upstream
<1>5. CASE FailUnpublished(j)
  <2>1. /\ \A m \in Jobs : m # j => RowKept(m)
        /\ RowKept(j) \/ (job[j] \notin Terminal /\ job'[j] = "failed")
    <3>1. \E cancelled \in BOOLEAN : FailIgnoringError(j, cancelled)
      BY <1>5 DEF FailUnpublished
    <3> QED
      BY <1>0, <3>1, FailEffect
  <2>2. client' = [client EXCEPT ![j] = "gone"] /\ stream' = stream /\ client[j] = "unpublished"
    BY <1>5 DEF FailUnpublished
  <2> QED
    BY <1>0, <2>1, <2>2 DEF CallStep, Rests, Ends, CallsKept, StreamCalm, ClientCalm, TypeOK, upstream
<1>6. CASE StreamEnds(j) \/ Disconnect(j) \/ SlowSubscriber(j) \/ Expire(j)
  <2>1. UNCHANGED <<job, calls>>
    BY <1>6 DEF StreamEnds, Disconnect, SlowSubscriber, Expire, rows
  <2>2. stream' = stream \/ stream' = [stream EXCEPT ![j] = IF stream[j] = "open" THEN "cut" ELSE stream[j]]
    BY <1>6 DEF StreamEnds, Disconnect, SlowSubscriber, Expire, memory, Unregistered
  <2>3. client' = client \/ client' = [client EXCEPT ![j] = "gone"]
    BY <1>6 DEF StreamEnds, Disconnect, SlowSubscriber, Expire, memory
  <2> QED
    BY <1>0, <2>1, <2>2, <2>3 DEF CallStep, Rests, CallsKept, RowKept, StreamCalm, ClientCalm, TypeOK, upstream
<1> QED
  BY <1>1, <1>2, <1>3, <1>4, <1>5, <1>6 DEF ClientStep

\* The steps of the scheduler.
LEMMA SchedulerCalls ==
  ASSUME TypeInv, BatchInv, SchedulerStep \/ \E j \in Jobs : ListingFails(j) \/ ClaimFails(j), NEW i \in Jobs
  PROVE  CallStep(i)
<1>0. TypeOK /\ UNCHANGED <<stream, client, upstream>>
  <2>1. StartIteration \/ SchedulerStops => UNCHANGED <<stream, client, upstream>>
    BY DEF StartIteration, SchedulerStops
  <2>2. ASSUME NEW j \in Jobs, SelectKey(j) PROVE UNCHANGED <<stream, client, upstream>>
    BY <2>2, Zenon DEF SelectKey
  <2>3. ASSUME NEW j \in Jobs, FailExpired(j) \/ ListKeys(j) PROVE UNCHANGED <<stream, client, upstream>>
    BY <2>3 DEF FailExpired, ListKeys
  <2>4. ASSUME NEW j \in Jobs, ReserveSlot(j) \/ Claim(j) \/ ClaimRefused(j) PROVE UNCHANGED <<stream, client, upstream>>
    BY <2>4 DEF ReserveSlot, Claim, ClaimRefused
  <2>5. ASSUME NEW j \in Jobs, ListingFails(j) \/ ClaimFails(j) PROVE UNCHANGED <<stream, client, upstream>>
    BY <2>5 DEF ListingFails, ClaimFails
  <2> QED
    BY <2>1, <2>2, <2>3, <2>4, <2>5 DEF TypeInv, SchedulerStep
<1>1. ASSUME NEW j \in Jobs, FailExpired(j) PROVE CallStep(i)
  <2>1. \E cancelled \in BOOLEAN : FailIgnoringError(j, cancelled)
    BY <1>1 DEF FailExpired
  <2>2. runner[j].step = "idle" /\ runner' = runner
    BY <1>1 DEF FailExpired, IsNext, BatchInv
  <2> QED
    BY <1>0, <2>1, <2>2, FailEffect DEF CallStep, Rests, Ends, CallsKept, StreamCalm, ClientCalm, upstream
<1>2. ASSUME NEW j \in Jobs, Claim(j) PROVE CallStep(i)
  <2>1. /\ job[j] = "queued" /\ job' = [job EXCEPT ![j] = "running"] /\ calls' = calls
        /\ runner' = [runner EXCEPT ![j] = Started(sched.key)]
    BY <1>2 DEF Claim
  <2>2. sched.key \in Keys /\ runner[j].step = "idle"
    BY <1>2, <2>1 DEF Claim, TypeInv, KeysAreChosen, OwnersAgree
  <2>3. PICK k \in Keys : k = sched.key
    BY <2>2
  <2>4. /\ runner'[j] = Started(k) /\ job'[j] = "running"
        /\ \A m \in Jobs : m # j => runner'[m] = runner[m] /\ job'[m] = job[m]
    BY <1>0, <2>1, <2>3 DEF TypeOK
  <2>5. IsClaimed(j)
    BY <1>0, <2>1, <2>2, <2>4 DEF IsClaimed, CallsKept, upstream
  <2>6. i # j => Rests(i)
    BY <1>0, <2>1, <2>4 DEF Rests, CallsKept, RowKept, StreamCalm, ClientCalm, upstream
  <2> QED
    BY <2>5, <2>6 DEF CallStep
<1>3. ASSUME NEW j \in Jobs, ClaimFails(j) PROVE CallStep(i)
  <2>1. /\ job' = job \/ (job[j] = "queued" /\ job' = [job EXCEPT ![j] = "running"])
        /\ UNCHANGED <<calls, runner>>
    BY <1>3 DEF ClaimFails
  <2>2. job[j] = "queued" => runner[j].step = "idle"
    BY DEF TypeInv, OwnersAgree
  <2> QED
    BY <1>0, <2>1, <2>2 DEF CallStep, Rests, IsClaimed, CallsKept, RowKept, StreamCalm, ClientCalm, TypeOK, upstream
<1>4. ASSUME UNCHANGED <<runner, job, calls>> PROVE CallStep(i)
  BY <1>0, <1>4 DEF CallStep, Rests, CallsKept, RowKept, StreamCalm, ClientCalm, upstream
<1>5. CASE StartIteration \/ SchedulerStops
  BY <1>4, <1>5 DEF StartIteration, SchedulerStops, rows
<1>6. ASSUME NEW j \in Jobs, SelectKey(j) PROVE CallStep(i)
  <2>1. UNCHANGED <<runner, rows>>
    BY <1>6, Zenon DEF SelectKey
  <2> QED
    BY <1>4, <2>1 DEF rows
<1>8. ASSUME NEW j \in Jobs, ListKeys(j) \/ ReserveSlot(j) PROVE CallStep(i)
  BY <1>4, <1>8 DEF ListKeys, ReserveSlot, rows
<1>7. ASSUME NEW j \in Jobs, ClaimRefused(j) \/ ListingFails(j) PROVE CallStep(i)
  BY <1>4, <1>7 DEF ClaimRefused, ListingFails, rows
<1> QED
  BY <1>1, <1>2, <1>3, <1>5, <1>6, <1>7, <1>8 DEF SchedulerStep

\* The steps of Key Owners, of time and of the process.
LEMMA EnvironmentCalls ==
  ASSUME TypeInv,
         \/ \E k \in Keys : OwnerStep(k) \/ CooldownEnds(k)
         \/ BeginShutdown \/ Crash \/ ProcessStep,
         NEW i \in Jobs
  PROVE  CallStep(i)
<1>0. TypeOK /\ UNCHANGED upstream
  <2>1. ASSUME NEW k \in Keys, OwnerStep(k) \/ CooldownEnds(k) PROVE UNCHANGED upstream
    BY <2>1, OwnersKeep
  <2>2. BeginShutdown \/ Crash \/ ProcessStep => UNCHANGED upstream
    BY DEF BeginShutdown, Crash, LoseMemory, ProcessStep, ShutdownDeadline, Exit, Start, FailPrior
  <2> QED
    BY <2>1, <2>2 DEF TypeInv
<1>1. ASSUME UNCHANGED <<runner, job, calls, stream, client>> PROVE CallStep(i)
  BY <1>0, <1>1 DEF CallStep, Rests, CallsKept, RowKept, StreamCalm, ClientCalm, upstream
<1>2. ASSUME NEW k \in Keys, OwnerStep(k) \/ CooldownEnds(k) PROVE CallStep(i)
  BY <1>1, <1>2, OwnersKeep DEF rows, memory
<1>3. CASE LoseMemory
  <2>1. runner'[i].step = "idle"
    <3>1. runner'[i] = NoRunner
      BY <1>3 DEF LoseMemory
    <3> QED
      BY <3>1, IdleTyped
  <2>2. stream'[i] = "none" /\ client'[i] # "unpublished" /\ UNCHANGED <<job, calls>>
    BY <1>3 DEF LoseMemory, rows
  <2> QED
    BY <1>0, <2>1, <2>2 DEF CallStep, Ends, CallsKept, RowKept, StreamCalm, ClientCalm, upstream
<1>4. CASE ShutdownDeadline
  <2>1. stream'[i] = stream[i] \/ stream'[i] = "cut"
    BY <1>4 DEF ShutdownDeadline
  <2> QED
    BY <1>0, <1>4, <2>1 DEF ShutdownDeadline, CallStep, Rests, CallsKept, RowKept, StreamCalm, ClientCalm, rows, upstream
<1>5. ASSUME NEW j \in Jobs, FailPrior(j) PROVE CallStep(i)
  <2>1. Fail(j) /\ runner' = runner /\ runner[j].step = "idle" /\ UNCHANGED <<stream, client>>
    BY <1>5 DEF FailPrior, TypeInv, StartsEmpty, memory
  <2> QED
    BY <1>0, <2>1, FailEffect DEF CallStep, Rests, Ends, CallsKept, StreamCalm, ClientCalm, upstream
<1>6. CASE BeginShutdown \/ Start
  BY <1>1, <1>6 DEF BeginShutdown, Start, rows, memory
<1> QED
  BY <1>2, <1>3, <1>4, <1>5, <1>6 DEF ProcessStep, Crash, Exit

\* Every step is one of the eleven, for every job.
LEMMA NextIsCallStep ==
  ASSUME TypeInv, BatchInv, [Next]_vars, NEW i \in Jobs
  PROVE  CallStep(i)
<1>1. CASE UNCHANGED vars
  BY <1>1 DEF vars, CallStep, Rests, CallsKept, RowKept, StreamCalm, ClientCalm
<1>2. ASSUME NEW j \in Jobs, RunnerStep(j) \/ SaveFails(j) \/ SettleFails(j) PROVE CallStep(i)
  BY <1>2, GoroutineApart, GoroutineHere DEF CallStep, TypeInv
<1> QED
  BY <1>1, <1>2, ClientCalls, SchedulerCalls, EnvironmentCalls DEF Next

LEMMA BatchInit == Init => BatchInv
BY DEF Init, BatchInv, NoIteration

\* A goroutine at work is not the scheduler's.
LEMMA GoroutineAtWork ==
  ASSUME NEW j \in Jobs, RunnerStep(j) \/ SaveFails(j) \/ SettleFails(j)
  PROVE  sched' = sched /\ runner[j].step # "idle"
<1>1. ASSUME ReturnAtLoad(j) \/ Execute(j) \/ Refuse(j) \/ StartSwitch(j) \/ ListKeysForSwitch(j) \/ SwitchKey(j)
      PROVE  sched' = sched /\ runner[j].step # "idle"
  BY <1>1 DEF ReturnAtLoad, Execute, Refuse, StartSwitch, ListKeysForSwitch, SwitchKey, At
<1>2. ASSUME NEW usage \in Usages, Complete(j, usage) PROVE sched' = sched /\ runner[j].step # "idle"
  BY <1>2 DEF Complete, At
<1>3. ASSUME NEW k \in Keys, SelectForSwitch(j, k) PROVE sched' = sched /\ runner[j].step # "idle"
  BY <1>3 DEF SelectForSwitch, At
<1>4. ASSUME FailExecution(j) \/ FailQuietly(j) PROVE sched' = sched /\ runner[j].step # "idle"
  BY <1>4 DEF FailExecution, FailQuietly, At
<1>5. ASSUME Settle(j) \/ SettleFails(j) \/ SaveFails(j) \/ LastAttempt(j) \/ Finish(j)
      PROVE  sched' = sched /\ runner[j].step # "idle"
  BY <1>5 DEF Settle, SettleFails, SaveFails, LastAttempt, Finish, At
<1> QED
  BY <1>1, <1>2, <1>3, <1>4, <1>5 DEF RunnerStep

LEMMA BatchNext == TypeInv /\ BatchInv /\ [Next]_vars => BatchInv'
<1> SUFFICES ASSUME TypeInv, BatchInv, [Next]_vars PROVE BatchInv'
  OBVIOUS
<1>0. /\ TypeOK /\ sched \in Schedulers /\ sched.batch \subseteq Jobs
      /\ \A m \in Jobs : job[m] = "queued" => runner[m].step = "idle"
  BY DEF TypeInv, TypeOK, Schedulers, OwnersAgree
<1>1. ASSUME UNCHANGED sched, \A m \in sched.batch : runner'[m] = runner[m] PROVE BatchInv'
  BY <1>1 DEF BatchInv
<1>2. ASSUME sched' = NoIteration PROVE BatchInv'
  BY <1>2 DEF NoIteration, BatchInv
<1>3. ASSUME NEW b \in SUBSET sched.batch, sched' = [NoIteration EXCEPT !.batch = b],
             \A m \in b : runner'[m] = runner[m]
      PROVE  BatchInv'
  <2>1. sched'.job = 0 /\ sched'.batch = b
    BY <1>3 DEF NoIteration
  <2> QED
    BY <1>3, <2>1 DEF BatchInv
<1>4. ASSUME NEW j \in Jobs, RunnerStep(j) \/ SaveFails(j) \/ SettleFails(j) PROVE BatchInv'
  <2>1. UNCHANGED sched /\ runner[j].step # "idle"
    BY <1>4, GoroutineAtWork
  <2>3. \A m \in Jobs : m # j => runner'[m] = runner[m]
    BY <1>0, <1>4, GoroutineApart DEF Rests
  <2> QED
    BY <1>0, <1>1, <2>1, <2>3 DEF BatchInv
<1>5. ASSUME NEW j \in Jobs,
             \/ ReserveCreditsAndCreateProviderTaskJob(j) \/ ClientStep(j) \/ PublishFails(j)
             \/ Disconnect(j) \/ SlowSubscriber(j) \/ Expire(j)
      PROVE  BatchInv'
  BY <1>1, <1>5 DEF ReserveCreditsAndCreateProviderTaskJob, ClientStep, Register, Publish, FailUnpublished,
         StreamEnds, PublishFails, Disconnect, SlowSubscriber, Expire, memory
<1>6. ASSUME NEW k \in Keys, OwnerStep(k) \/ CooldownEnds(k) PROVE BatchInv'
  BY <1>1, <1>6 DEF OwnerStep, SetEnabled, DeleteSharedAPIKey, UpdateSharedAPIKeyLimits, ResetSharedAPIKeyUsage,
         Alter, CooldownEnds, memory
<1>7. CASE BeginShutdown \/ Crash \/ ProcessStep
  BY <1>1, <1>2, <1>7 DEF BeginShutdown, Crash, LoseMemory, ProcessStep, ShutdownDeadline, Exit, Start, FailPrior, memory
<1>8. CASE StartIteration
  <2>1. sched' = [sched EXCEPT !.batch = Batch] /\ sched = NoIteration /\ UNCHANGED runner
    BY <1>8 DEF StartIteration
  <2>2. \A m \in Batch : m \in Jobs /\ job[m] = "queued"
    BY DEF Batch, Queued
  <2> HIDE DEF Batch
  <2>3. sched'.job = 0 /\ sched'.batch = Batch
    BY <2>1 DEF NoIteration
  <2> QED
    BY <1>0, <2>1, <2>2, <2>3 DEF BatchInv
<1>9. CASE SchedulerStops
  BY <1>2, <1>9 DEF SchedulerStops
<1>10. ASSUME NEW j \in Jobs, FailExpired(j) PROVE BatchInv'
  <2>1. sched' = [sched EXCEPT !.batch = sched.batch \ {j}] /\ sched.job = 0 /\ UNCHANGED runner
    BY <1>10 DEF FailExpired, IsNext, BatchInv
  <2>2. sched'.job = 0 /\ sched'.batch = sched.batch \ {j}
    BY <1>0, <2>1 DEF Schedulers
  <2> QED
    BY <2>1, <2>2 DEF BatchInv
<1>11. ASSUME NEW j \in Jobs, ListingFails(j) PROVE BatchInv'
  <2>1. CASE sched' = NoIteration
    BY <1>2, <2>1
  <2>2. CASE sched' = [sched EXCEPT !.batch = sched.batch \ {j}]
    <3>1. sched.job = 0 /\ UNCHANGED runner
      BY <1>11 DEF ListingFails, IsNext, BatchInv
    <3>2. sched'.job = 0 /\ sched'.batch = sched.batch \ {j}
      BY <1>0, <2>2, <3>1 DEF Schedulers
    <3> QED
      BY <3>1, <3>2 DEF BatchInv
  <2> QED
    BY <1>11, <2>1, <2>2 DEF ListingFails
<1>12. ASSUME NEW j \in Jobs, ListKeys(j) PROVE BatchInv'
  <2> DEFINE keys == Eligible
  <2>1. sched' = [sched EXCEPT !.job = j, !.step = "listed", !.keys = keys] /\ j \in sched.batch /\ UNCHANGED runner
    BY <1>12 DEF ListKeys, IsNext
  <2> HIDE DEF keys
  <2>2. sched'.job = j /\ sched'.step = "listed" /\ sched'.batch = sched.batch
    BY <1>0, <2>1 DEF Schedulers
  <2> QED
    BY <2>1, <2>2 DEF BatchInv
<1>13. ASSUME NEW j \in Jobs, SelectKey(j) \/ ReserveSlot(j) \/ ClaimRefused(j) \/ ClaimFails(j) PROVE BatchInv'
  <2>1. UNCHANGED runner
    <3>1. CASE SelectKey(j)
      BY <3>1, Zenon DEF SelectKey
    <3>3. CASE ReserveSlot(j)
      BY <3>3 DEF ReserveSlot
    <3>2. ClaimRefused(j) \/ ClaimFails(j) => UNCHANGED runner
      BY DEF ClaimRefused, ClaimFails
    <3> QED
      BY <1>13, <3>1, <3>2, <3>3
  <2>2. CASE sched' = Proceed
    BY <1>3, <2>1, <2>2 DEF Proceed
  <2>4. ASSUME ReserveSlot(j), sched' = [sched EXCEPT !.step = "reserved"] PROVE BatchInv'
    <3>1. sched'.job = sched.job /\ sched'.batch = sched.batch /\ sched'.step = "reserved"
      BY <1>0, <2>4 DEF Schedulers
    <3> QED
      BY <2>1, <3>1 DEF BatchInv
  <2>5. CASE SelectKey(j)
    <3>1. \/ sched'.job = sched.job /\ sched'.batch = sched.batch /\ sched'.step = "selected"
          \/ sched' = Proceed
      <4>1. \/ \E k \in sched.keys : sched' = [sched EXCEPT !.step = "selected", !.key = k, !.keys = {}]
            \/ sched' = Proceed
        BY <2>5, Zenon DEF SelectKey
      <4>2. ASSUME NEW k, sched' = [sched EXCEPT !.step = "selected", !.key = k, !.keys = {}]
            PROVE  sched'.job = sched.job /\ sched'.batch = sched.batch /\ sched'.step = "selected"
        BY <1>0, <4>2 DEF Schedulers
      <4> QED
        BY <4>1, <4>2, Zenon
    <3>2. ASSUME sched'.job = sched.job, sched'.batch = sched.batch, sched'.step = "selected"
          PROVE  BatchInv'
      BY <2>1, <3>2 DEF BatchInv
    <3> QED
      BY <2>2, <3>1, <3>2
  <2>6. CASE ReserveSlot(j)
    BY <2>2, <2>4, <2>6 DEF ReserveSlot
  <2>7. CASE ClaimRefused(j) \/ ClaimFails(j)
    BY <2>2, <2>7 DEF ClaimRefused, ClaimFails
  <2> QED
    BY <1>13, <2>5, <2>6, <2>7
<1>14. ASSUME NEW j \in Jobs, Claim(j) PROVE BatchInv'
  <2>1. sched' = [NoIteration EXCEPT !.batch = sched.batch \ {j}] /\ runner' = [runner EXCEPT ![j] = Started(sched.key)]
    BY <1>14 DEF Claim, Working, Proceed
  <2>2. \A m \in sched.batch \ {j} : runner'[m] = runner[m]
    BY <1>0, <2>1 DEF TypeOK
  <2> QED
    BY <1>3, <2>1, <2>2
<1>15. UNCHANGED vars => BatchInv'
  BY <1>1 DEF vars
<1> QED
  BY <1>4, <1>5, <1>6, <1>7, <1>8, <1>9, <1>10, <1>11, <1>12, <1>13, <1>14, <1>15 DEF Next, SchedulerStep

-----------------------------------------------------------------------------
(* What was sent upstream. *)

\* The calls of a job are with different keys, all of them tried; at most the
\* last one was not refused, and a success is that call's.
CallInv(i) ==
  LET s == runner[i].step
      last == Len(asked[i])
  IN  /\ last <= refused[i] + 1
      /\ \A m, n \in DOMAIN asked[i] : asked[i][m] = asked[i][n] => m = n
      /\ s \in Unasked => last = refused[i]
      /\ s \in Upstream => last = refused[i] + 1 /\ asked[i][last] = runner[i].current
      /\ s \in Unasked \cup Upstream => \A m \in DOMAIN asked[i] : asked[i][m] \in runner[i].tried
      /\ s = "starting" => \A m \in DOMAIN asked[i] : asked[i][m] # runner[i].current
      /\ s \in {"starting", "executing"} => runner[i].current \in runner[i].tried
      /\ s = "selected" => runner[i].next \notin runner[i].tried
      /\ job[i] \in Waiting => asked[i] = <<>> /\ refused[i] = 0
      /\ job[i] = "completed" =>
           /\ last = refused[i] + 1 /\ calls[i][1].key = asked[i][last]
           /\ s \in {"idle", "settling", "last", "settled"}

LEMMA CallInit == Init => \A i \in Jobs : CallInv(i)
BY IdleTyped DEF Init, CallInv, Unasked, Upstream, Waiting

\* Every kind of step keeps the calls in order.
LEMMA CallNext ==
  ASSUME TypeOK, TypeOK', NEW i \in Jobs, CallInv(i), CallStep(i)
  PROVE  CallInv(i)'
<1>0. /\ runner[i] \in Runners /\ runner'[i] \in Runners /\ refused[i] \in Nat /\ refused'[i] \in Nat
      /\ asked[i] \in Seq(Keys) /\ asked'[i] \in Seq(Keys)
      /\ job[i] \in JobStates /\ job'[i] \in JobStates
  BY DEF TypeOK
<1> USE DEF Unasked, Upstream, Waiting
<1>1. CASE Rests(i)
  BY <1>1 DEF Rests, CallsKept, RowKept, CallInv
<1>2. CASE Prepares(i)
  BY <1>2 DEF Prepares, CallsKept, CallInv
<1>3. CASE IsClaimed(i)
  <2>1. CASE runner'[i] = runner[i]
    BY <1>3, <2>1 DEF IsClaimed, CallsKept, CallInv
  <2>2. ASSUME NEW k \in Keys, runner'[i] = Started(k) PROVE CallInv(i)'
    <3>1. runner'[i].step = "starting" /\ runner'[i].current = k /\ runner'[i].tried = {k}
      BY <2>2 DEF Started, NoRunner
    <3>2. asked'[i] = <<>> /\ refused'[i] = 0 /\ job'[i] = "running"
      BY <1>3 DEF IsClaimed, CallsKept, CallInv
    <3> QED
      BY <3>1, <3>2 DEF CallInv
  <2> QED
    BY <1>3, <2>1, <2>2 DEF IsClaimed
<1>4. CASE Ends(i)
  BY <1>0, <1>4 DEF Ends, CallsKept, RowKept, Terminal, CallInv
<1>5. CASE Asks(i)
  <2> DEFINE k == runner[i].current
             last == Len(asked[i]) + 1
  <2>1. /\ Len(asked'[i]) = last /\ asked'[i][last] = k /\ DOMAIN asked'[i] = 1..last /\ DOMAIN asked[i] = 1..(last - 1)
        /\ \A m \in DOMAIN asked[i] : asked'[i][m] = asked[i][m]
    BY <1>0, <1>5 DEF Asks
  <2>2. /\ refused'[i] = refused[i] /\ Len(asked[i]) = refused[i] /\ k \in runner[i].tried
        /\ \A m \in DOMAIN asked[i] : asked[i][m] # k /\ asked[i][m] \in runner[i].tried
        /\ \A m, n \in DOMAIN asked[i] : asked[i][m] = asked[i][n] => m = n
    <3>1. refused'[i] = refused[i] /\ runner[i].step = "starting"
      BY <1>5 DEF Asks
    <3> QED
      BY <3>1 DEF CallInv
  <2>3. /\ runner'[i].step = "executing" /\ runner'[i].current = k /\ runner'[i].tried = runner[i].tried
        /\ job'[i] \notin Waiting /\ job'[i] # "completed"
    BY <1>5 DEF Asks, KeepsKey, RowKept, Terminal
  <2> HIDE DEF k
  <2>4. last \in Nat /\ last >= 1 /\ last = refused'[i] + 1
    BY <1>0, <2>2
  <2> HIDE DEF last
  <2>5. \A m \in DOMAIN asked'[i] : m = last \/ m \in DOMAIN asked[i]
    BY <2>1, <2>4
  <2>6. \A m \in DOMAIN asked'[i] : asked'[i][m] \in runner[i].tried
    BY <2>1, <2>2, <2>5
  <2>7. \A m, n \in DOMAIN asked'[i] : asked'[i][m] = asked'[i][n] => m = n
    BY <2>1, <2>2, <2>5
  <2> QED
    BY <1>0, <2>1, <2>3, <2>4, <2>6, <2>7 DEF CallInv
<1>6. CASE IsRefused(i)
  BY <1>0, <1>6 DEF IsRefused, KeepsKey, RowKept, CallInv
<1>7. CASE Looks(i)
  BY <1>0, <1>7 DEF Looks, KeepsKey, CallsKept, RowKept, CallInv
<1>8. CASE Switches(i)
  BY <1>0, <1>8 DEF Switches, CallsKept, RowKept, CallInv
<1>9. CASE GoesOn(i)
  BY <1>0, <1>9 DEF GoesOn, KeepsKey, CallsKept, RowKept, CallInv
<1>10. CASE Settled(i)
  BY <1>0, <1>10 DEF Settled, KeepsKey, CallsKept, RowKept, Terminal, CallInv
<1>11. CASE Finishes(i)
  BY <1>0, <1>11 DEF Finishes, CallsKept, RowKept, CallInv
<1> QED
  BY <1>1, <1>2, <1>3, <1>4, <1>5, <1>6, <1>7, <1>8, <1>9, <1>10, <1>11 DEF CallStep

CallsInv == TypeInv /\ BatchInv /\ \A i \in Jobs : CallInv(i)

\* A job is sent upstream again only after a refusal, with another key, for any
\* jobs, keys, limits, faults and restarts.
THEOREM CallsCorrect == Spec => []NeverResubmitted
<1>1. Init => CallsInv
  BY TypeInit, BatchInit, CallInit DEF CallsInv
<1>2. CallsInv /\ [Next]_vars => CallsInv'
  <2> SUFFICES ASSUME CallsInv, [Next]_vars PROVE CallsInv'
    OBVIOUS
  <2>1. TypeInv /\ TypeInv' /\ BatchInv /\ BatchInv' /\ TypeOK /\ TypeOK'
    BY TypeNext, BatchNext DEF CallsInv, TypeInv
  <2>2. \A i \in Jobs : CallInv(i)'
    BY <2>1, NextIsCallStep, CallNext DEF CallsInv
  <2> QED
    BY <2>1, <2>2 DEF CallsInv
<1>3. CallsInv => NeverResubmitted
  BY DEF CallsInv, CallInv, NeverResubmitted
<1> QED
  BY <1>1, <1>2, <1>3, PTL DEF Spec

-----------------------------------------------------------------------------
(* What a client was told. *)

\* A job that was failed while its goroutine works has lost its subscriber.
StreamInv(i) ==
  /\ runner[i].step # "idle" /\ job[i] = "failed" => stream[i] # "open"
  /\ runner[i].step = "settled" => job[i] \in Terminal
  /\ stream[i] = "done" => job[i] = "completed"
  /\ client[i] = "unpublished" => stream[i] # "open"

LEMMA StreamInit == Init => \A i \in Jobs : StreamInv(i)
BY IdleTyped DEF Init, StreamInv

LEMMA StreamNext ==
  ASSUME TypeInv, TypeInv', RecordedOnce, NEW i \in Jobs, StreamInv(i), CallStep(i)
  PROVE  StreamInv(i)'
<1>0. /\ job[i] \in Terminal <=> calls[i] # <<>>
      /\ runner[i].step # "idle" => job[i] \notin Waiting
      /\ job[i] \in JobStates
  BY DEF RecordedOnce, TypeInv, TypeOK, OwnersAgree, Waiting
<1> USE DEF Terminal, Waiting, JobStates, Unfinished
<1>1. CASE Rests(i)
  BY <1>1 DEF Rests, RowKept, StreamCalm, ClientCalm, StreamInv
<1>2. CASE Prepares(i)
  BY <1>2 DEF Prepares, StreamInv
<1>3. CASE IsClaimed(i)
  <2>1. runner'[i].step \in {"idle", "starting"}
    <3>1. \A k \in Keys : Started(k).step = "starting"
      BY DEF Started, NoRunner
    <3> QED
      BY <1>3, <3>1 DEF IsClaimed
  <2> QED
    BY <1>3, <2>1 DEF IsClaimed, StreamInv
<1>4. CASE Ends(i)
  BY <1>0, <1>4 DEF Ends, RowKept, StreamCalm, ClientCalm, StreamInv
<1>5. CASE Asks(i) \/ IsRefused(i) \/ Looks(i) \/ Switches(i) \/ GoesOn(i)
  BY <1>5 DEF Asks, IsRefused, Looks, Switches, GoesOn, RowKept, StreamInv
<1>6. CASE Settled(i)
  BY <1>0, <1>6 DEF Settled, RowKept, StreamInv
<1>7. CASE Finishes(i)
  BY <1>7 DEF Finishes, RowKept, StreamCalm, StreamInv
<1> QED
  BY <1>1, <1>2, <1>3, <1>4, <1>5, <1>6, <1>7 DEF CallStep

\* A stream ends with its done event only after the settlement has committed,
\* and a goroutine starts only after the client has subscribed, for any jobs,
\* keys, limits, faults and restarts.
THEOREM StreamsCorrect == Spec => []DoneIsSettled
<1>1. Init => TypeInv /\ BatchInv /\ RecordedOnce /\ \A i \in Jobs : StreamInv(i)
  BY TypeInit, BatchInit, RecordsInit, StreamInit
<1>2. ASSUME TypeInv, BatchInv, RecordedOnce, \A i \in Jobs : StreamInv(i), [Next]_vars
      PROVE  (TypeInv /\ BatchInv /\ RecordedOnce /\ \A i \in Jobs : StreamInv(i))'
  <2>1. TypeInv' /\ BatchInv' /\ RecordedOnce'
    BY <1>2, TypeNext, BatchNext, NextIsRowStep, RecordsNext
  <2>2. \A i \in Jobs : StreamInv(i)'
    BY <1>2, <2>1, NextIsCallStep, StreamNext
  <2> QED
    BY <2>1, <2>2
<1>3. TypeInv /\ (\A i \in Jobs : StreamInv(i)) => DoneIsSettled
  BY ProviderJobsAssumption DEF TypeInv, OwnersAgree, StreamInv, DoneIsSettled, At
<1> QED
  BY <1>1, <1>2, <1>3, PTL DEF Spec

-----------------------------------------------------------------------------
(* ProviderJobs implements JobBilling: the Provider path keeps the promise *)
(* about Credits that the Bridge path keeps.                               *)

\* The abstract state of a state of ProviderJobs.
Balances == [u \in Users |-> account[u].balance]
Phase == [j \in Jobs |-> IF job[j] = "none" THEN "none"
                         ELSE IF job[j] \in Unfinished THEN "open" ELSE "closed"]
Paid == [j \in Jobs |-> IF calls[j] = <<>> THEN 0 ELSE calls[j][1].charge]

\* A job is open while it is unfinished.
LEMMA OpenIsUnfinished ==
  ASSUME NEW j \in Jobs
  PROVE  /\ Phase[j] = "open" <=> job[j] \in Unfinished
         /\ Phase[j] = "none" <=> job[j] = "none"
BY DEF Phase, Unfinished

\* What is promised to the open jobs of a user is what is locked.
LEMMA PromisedIsLocked ==
  ASSUME AccountsInv, NEW u \in Users
  PROVE  Billing!Promised(u) = account[u].locked
<1>1. Billing!JobsOf(u) = JobsOf(u) /\ JobsOf(u) \subseteq Jobs
  BY DEF Billing!JobsOf, JobsOf
<1>2. [j \in Billing!JobsOf(u) |-> IF Phase[j] = "open" THEN Hold[j] ELSE 0] = HeldOf(u)
  BY <1>1, OpenIsUnfinished DEF HeldOf
<1>3. Billing!Promised(u) = Total([j \in Billing!JobsOf(u) |-> IF Phase[j] = "open" THEN Hold[j] ELSE 0])
  <2>1. \A f : Billing!Total(f) = Total(f)
    BY DEF Billing!Total, Billing!Units, Billing!Cardinality, Total, Units, Cardinality
  <2>2. Billing!Promised(u) = Billing!Total(
          [j \in Billing!JobsOf(u) |-> IF Phase[j] = "open" THEN Hold[j] ELSE 0])
    BY DEF Billing!Promised, Phase
  <2> QED
    BY <2>1, <2>2
<1>4. account[u].locked = Total(HeldOf(u))
  BY AgreementMeans DEF UserAgrees
<1> QED
  BY <1>2, <1>3, <1>4, Zenon

-----------------------------------------------------------------------------
(* Steps. *)

\* A step that only moves unfinished jobs on is a stutter.
LEMMA RelabelStutters ==
  ASSUME Relabel
  PROVE  UNCHANGED Billing!vars
<1>1. \A j \in Jobs : Phase'[j] = Phase[j]
  BY DEF Relabel, Phase, Unfinished
<1>2. Phase' = Phase
  BY <1>1 DEF Phase
<1>3. Balances' = Balances /\ Paid' = Paid
  BY DEF Relabel, Balances, Paid
<1> QED
  BY <1>2, <1>3 DEF Billing!vars, Balances, Phase, Paid

\* A create is covered by funds that are not promised.
LEMMA AdmitsAccepts ==
  ASSUME TypeOK, RecordedOnce, AccountsInv, NEW j \in Jobs, Admits(j)
  PROVE  Billing!Accept(j)
<1>1. /\ Owner[j] \in Users /\ Hold[j] \in Nat /\ account[Owner[j]] \in Accounts
      /\ UserAgrees(Owner[j])
  BY OwnersJobs, AgreementMeans DEF TypeOK
<1>2. /\ job[j] = "none" /\ calls' = calls /\ job' = [job EXCEPT ![j] = AdmissionPhase(j)]
      /\ account' = [account EXCEPT ![Owner[j]] = Reserve(@, Hold[j])]
      /\ Hold[j] <= Available(account[Owner[j]])
  BY DEF Admits, ReserveCreditsAndCreateProviderTaskJob
<1>3. Phase[j] = "none"
  BY <1>2, OpenIsUnfinished
<1>4. Billing!Promised(Owner[j]) + Hold[j] <= Balances[Owner[j]]
  <2>1. Billing!Promised(Owner[j]) = account[Owner[j]].locked
    BY <1>1, PromisedIsLocked
  <2>2. account[Owner[j]].locked <= account[Owner[j]].balance
    BY <1>1 DEF UserAgrees
  <2>3. Balances[Owner[j]] = account[Owner[j]].balance
    BY <1>1 DEF Balances
  <2> QED
    BY <1>1, <1>2, <2>1, <2>2, <2>3 DEF Available, Accounts
<1>5. Phase' = [Phase EXCEPT ![j] = "open"]
  <2>1. job'[j] \in Unfinished /\ job'[j] # "none" /\ \A i \in Jobs : i # j => job'[i] = job[i]
    BY <1>2 DEF TypeOK, AdmissionPhase, Unfinished
  <2> QED
    BY <2>1 DEF Phase
<1>6. Balances' = Balances /\ Paid' = Paid
  <2>1. Reserve(account[Owner[j]], Hold[j]).balance = account[Owner[j]].balance
    BY <1>1, ReserveTyped
  <2>2. \A u \in Users : account'[u].balance = account[u].balance
    BY <1>2, <2>1 DEF TypeOK
  <2> QED
    BY <1>2, <2>2 DEF Balances, Paid
<1> QED
  BY <1>3, <1>4, <1>5, <1>6 DEF Billing!Accept, Balances, Phase, Paid

\* A terminal transaction closes the job at the price of its record.
LEMMA ClosesCloses ==
  ASSUME TypeOK, RecordedOnce, AccountsInv, NEW j \in Jobs, NEW record \in Records, Closes(j, record)
  PROVE  Billing!Close(j)
<1> DEFINE c == record.charge
<1>1. /\ Owner[j] \in Users /\ Hold[j] \in Nat /\ account[Owner[j]] \in Accounts /\ c \in Nat
      /\ job[j] \in Unfinished
  BY OwnersJobs DEF TypeOK, Records, Closes
<1>2. Phase[j] = "open"
  BY <1>1, OpenIsUnfinished
<1>3. calls[j] = <<>>
  BY <1>1 DEF RecordedOnce, Unfinished, Terminal
<1>4. calls'[j] # <<>> /\ calls'[j][1] = record /\ \A i \in Jobs : i # j => calls'[i] = calls[i]
  BY <1>3, FirstCall DEF Closes
<1>5. Paid' = [Paid EXCEPT ![j] = c] /\ Paid'[j] = c
  BY <1>4 DEF Paid
<1>6. Phase' = [Phase EXCEPT ![j] = "closed"]
  <2>1. job'[j] \notin Unfinished /\ job'[j] # "none" /\ \A i \in Jobs : i # j => job'[i] = job[i]
    BY DEF Closes, TypeOK, Unfinished, Terminal
  <2> QED
    BY <2>1 DEF Phase
<1>7. /\ Balances[Owner[j]] \in Nat /\ Balances'[Owner[j]] = Balances[Owner[j]] - c
      /\ c <= Balances[Owner[j]] - (Billing!Promised(Owner[j]) - Hold[j])
  <2>1. Billing!Promised(Owner[j]) = account[Owner[j]].locked
    BY <1>1, PromisedIsLocked
  <2>2. /\ Balances[Owner[j]] = account[Owner[j]].balance
        /\ Balances'[Owner[j]] = account'[Owner[j]].balance
    BY <1>1 DEF Balances
  <2>3. /\ account'[Owner[j]].locked = account[Owner[j]].locked - Hold[j]
        /\ account'[Owner[j]].balance = account[Owner[j]].balance - c
        /\ account'[Owner[j]].locked <= account'[Owner[j]].balance
    BY DEF Closes, PaidFrom
  <2>4. account[Owner[j]].balance \in Nat /\ account[Owner[j]].locked \in Nat
    BY <1>1 DEF Accounts
  <2>5. account[Owner[j]].locked - Hold[j] <= account[Owner[j]].balance - c
    BY <2>3
  <2> QED
    BY <1>1, <2>1, <2>2, <2>3, <2>4, <2>5
<1>8. Balances' = [Balances EXCEPT ![Owner[j]] = @ - c]
  <2>1. \A v \in Users : v # Owner[j] => Balances'[v] = Balances[v]
    BY DEF Balances, Closes
  <2> QED
    BY <1>1, <1>7, <2>1 DEF Balances
<1> QED
  BY <1>1, <1>2, <1>5, <1>6, <1>7, <1>8 DEF Billing!Close, Balances, Phase, Paid

\* At the start every user has its funds and nothing is promised or paid.
LEMMA BillingInit == Init => Billing!Init
<1> SUFFICES ASSUME Init PROVE Billing!Init
  OBVIOUS
<1>1. [u \in Users |-> account[u].balance] \in [Users -> Nat]
  BY ProviderJobsAssumption DEF Init
<1>2. Phase = [j \in Jobs |-> "none"] /\ Paid = [j \in Jobs |-> 0]
  BY DEF Init, Phase, Paid
<1> QED
  BY <1>1, <1>2 DEF Billing!Init, Phase, Paid

\* Every step is a step of the promise or changes nothing it speaks of.
LEMMA BillingNext ==
  ASSUME RowsInv, [Next]_vars
  PROVE  [Billing!Next]_(Billing!vars)
<1>0. TypeOK /\ RecordedOnce /\ AccountsInv /\ RowStep
  BY NextIsRowStep DEF RowsInv, TypeInv
<1>1. CASE Relabel
  BY <1>1, RelabelStutters
<1>2. ASSUME NEW j \in Jobs, Admits(j)
      PROVE  [Billing!Next]_(Billing!vars)
  BY <1>0, <1>2, AdmitsAccepts DEF Billing!Next
<1>3. ASSUME NEW j \in Jobs, Fails(j)
      PROVE  [Billing!Next]_(Billing!vars)
  <2>1. Closes(j, FailureRecord)
    BY <1>0, <1>3, FailsCloses
  <2>2. Billing!Close(j)
    BY <1>0, <2>1, ClosesCloses DEF Closes
  <2> QED
    BY <2>2 DEF Billing!Next
<1>4. ASSUME NEW j \in Jobs, Settles(j)
      PROVE  [Billing!Next]_(Billing!vars)
  <2>1. Closes(j, SuccessRecord(j))
    BY <1>0, <1>4, SettlesCloses
  <2>2. Billing!Close(j)
    BY <1>0, <2>1, ClosesCloses DEF Closes
  <2> QED
    BY <2>2 DEF Billing!Next
<1> QED
  BY <1>0, <1>1, <1>2, <1>3, <1>4 DEF RowStep

\* Key switching, crashes, shutdowns, recovery and retried settlements keep the
\* promise about Credits: an accepted Provider job is covered by funds promised
\* to no other job, and is closed once at a price that leaves the rest covered.
THEOREM BillingImplemented == Spec => ImplementsBilling
<1>1. RowsInv /\ [Next]_vars => [Billing!Next]_(Billing!vars)
  BY BillingNext
<1> QED
  BY <1>1, RowsInit, RowsNext, BillingInit, PTL DEF Spec, ImplementsBilling, Billing!Spec
=============================================================================
