----------------------------- MODULE MCTaskJobs -----------------------------
(***************************************************************************)
(* Small instances of TaskJobs for TLC: two jobs of user u1, whose funds   *)
(* never cover both holds and both prices, so that creates are refused and *)
(* charges are clamped.  User u2 was invited by u1 and brings rewards.     *)
(***************************************************************************)
EXTENDS TaskJobs

CONSTANTS u1, u2

MCUsers == {u1, u2}
MCReferrals == {<<u2, u1>>}
MCRewards == {0, 1}
MCNoRewards == {0}
MCMaxDeposited == [u \in MCUsers |-> IF u = u1 THEN 2 ELSE 1]
MCMaxDepositedTwice == [u \in MCUsers |-> IF u = u1 THEN 2 ELSE 0]
MCJobs == {1, 2}
MCOwner == [j \in MCJobs |-> u1]
MCHold == [j \in MCJobs |-> 1]
MCRawJobs == {1}
MCCosts == {0, 2}
MCDeposits == {1}

(***************************************************************************)
(* Init, but with a locked column that something outside this code (an     *)
(* older release, an edit by hand) left too high on the account of u1: the *)
(* case that ReconcileCreditsLocked is there for.                          *)
(***************************************************************************)
MCDrift == {[u \in MCUsers |-> IF u = u1 THEN extra ELSE 0] : extra \in 0..1}

DriftInit ==
  /\ \E drift \in MCDrift : account = [u \in Users |-> [balance |-> 0, locked |-> drift[u]]]
  /\ NoJobs

DriftSpec == DriftInit /\ [][Next]_vars /\ Fairness
=============================================================================
