----------------------------- MODULE JobBilling -----------------------------
(***************************************************************************)
(* What the task-job service promises about Credits, with no worker, no    *)
(* Bridge, no lock column and no retry in it: an accepted job is covered   *)
(* by the owner's funds, and it is closed exactly once, for a price that   *)
(* leaves the Credits promised to the owner's other open jobs untouched.   *)
(* TaskJobs.tla and ProviderJobs.tla are shown to implement it.             *)
(*                                                                         *)
(* The amount paid in and the price are whatever the step makes of funds'  *)
(* and paid', so that TLC can evaluate the actions on a step it is given.  *)
(***************************************************************************)
EXTENDS Amounts

CONSTANTS
  Users,    \* users.id
  Jobs,     \* task_jobs.id
  Owner,    \* [Jobs -> Users]
  Hold      \* [Jobs -> Nat]: Credits estimated and reserved at create

VARIABLES
  funds,    \* funds[u]: Credits the user has paid in and not yet spent
  phase,    \* phase[j]: "none", "open" or "closed"
  paid      \* paid[j]: Credits the user was charged for the job

vars == <<funds, phase, paid>>

JobsOf(u) == {j \in Jobs : Owner[j] = u}

\* The Credits promised to the open jobs of u.
Promised(u) == Total([j \in JobsOf(u) |-> IF phase[j] = "open" THEN Hold[j] ELSE 0])

TypeOK ==
  /\ funds \in [Users -> Nat]
  /\ phase \in [Jobs -> {"none", "open", "closed"}]
  /\ paid \in [Jobs -> Nat]

Init ==
  /\ funds \in [Users -> Nat]
  /\ phase = [j \in Jobs |-> "none"]
  /\ paid = [j \in Jobs |-> 0]

PayIn ==
  /\ funds' # funds
  /\ \A u \in Users : funds'[u] \in Nat /\ funds[u] <= funds'[u]
  /\ funds' = [u \in Users |-> funds'[u]]
  /\ UNCHANGED <<phase, paid>>

Accept(j) ==
  /\ phase[j] = "none"
  /\ Promised(Owner[j]) + Hold[j] <= funds[Owner[j]]
  /\ phase' = [phase EXCEPT ![j] = "open"]
  /\ UNCHANGED <<funds, paid>>

Close(j) ==
  /\ phase[j] = "open"
  /\ phase' = [phase EXCEPT ![j] = "closed"]
  /\ paid'[j] \in Nat
  /\ paid'[j] <= funds[Owner[j]] - (Promised(Owner[j]) - Hold[j])
  /\ paid' = [paid EXCEPT ![j] = paid'[j]]
  /\ funds' = [funds EXCEPT ![Owner[j]] = @ - paid'[j]]

Next ==
  \/ PayIn
  \/ \E j \in Jobs : Accept(j)
  \/ \E j \in Jobs : Close(j)

Spec == Init /\ [][Next]_vars
=============================================================================
