------------------------------ MODULE Payouts ------------------------------
(***************************************************************************)
(* What the earning account promises a Key Owner: earnings come in, and an *)
(* authorized withdrawal takes its total out of them once, to be paid or   *)
(* given back, once.                                                       *)
(***************************************************************************)
EXTENDS Naturals

CONSTANTS
  Users,    \* the Key Owners
  Auths,    \* the withdrawals they can authorize
  OwnerOf,  \* OwnerOf[a]: who authorizes a
  TotalOf   \* TotalOf[a]: its amount and its fee

VARIABLES
  available,  \* available[u]: earnings that are promised to no withdrawal
  payout      \* payout[a]: "none", "pending", "paid" or "refunded"

vars == <<available, payout>>

TypeOK ==
  /\ available \in [Users -> Nat]
  /\ payout \in [Auths -> {"none", "pending", "paid", "refunded"}]

Init ==
  /\ available \in [Users -> Nat]
  /\ payout = [a \in Auths |-> "none"]

Earn(u) ==
  /\ available'[u] > available[u]
  /\ available' = [available EXCEPT ![u] = available'[u]]
  /\ UNCHANGED payout

\* A request is covered by what is available, and no authorization is used twice.
Request(a) ==
  /\ payout[a] = "none"
  /\ TotalOf[a] <= available[OwnerOf[a]]
  /\ available' = [available EXCEPT ![OwnerOf[a]] = @ - TotalOf[a]]
  /\ payout' = [payout EXCEPT ![a] = "pending"]

Pay(a) ==
  /\ payout[a] = "pending"
  /\ payout' = [payout EXCEPT ![a] = "paid"]
  /\ UNCHANGED available

Refund(a) ==
  /\ payout[a] = "pending"
  /\ payout' = [payout EXCEPT ![a] = "refunded"]
  /\ available' = [available EXCEPT ![OwnerOf[a]] = @ + TotalOf[a]]

Next ==
  \/ \E u \in Users : Earn(u)
  \/ \E a \in Auths : Request(a) \/ Pay(a) \/ Refund(a)

Spec == Init /\ [][Next]_vars
=============================================================================
