------------------------------ MODULE Amounts ------------------------------
(***************************************************************************)
(* Sums of Credits over a finite family of amounts, and the arithmetic of  *)
(* one credit_accounts row (src/service/credits_lock.go).                  *)
(*                                                                         *)
(* Total(f) is the sum of the amounts f[x].  It is written as the size of  *)
(* the set that holds one element per unit of every amount, so that the    *)
(* finite-set theorems apply to it for families of any size.               *)
(***************************************************************************)
EXTENDS Integers, FiniteSets

Units(f) == UNION {{x} \X (1..f[x]) : x \in DOMAIN f}

Total(f) == Cardinality(Units(f))

(***************************************************************************)
(* A credit_accounts row: the ledger balance and the part of it reserved   *)
(* by unfinished jobs.                                                     *)
(***************************************************************************)
Accounts == [balance : Nat, locked : Nat]

\* Mutant of Available: the locked Credits are forgotten.
BalanceAvailable(a) == a.balance

\* AvailableCredits: balance - locked, negative results clamped to zero.
Available(a) == IF a.locked <= a.balance THEN a.balance - a.locked ELSE 0

\* reserveCreditsTx once EnsureSufficientAvailable has passed.
Reserve(a, amount) == [a EXCEPT !.locked = @ + amount]

\* releaseCreditsHoldTx: an underflow is logged and clamped to zero.
Release(a, hold) == [a EXCEPT !.locked = IF hold <= @ THEN @ - hold ELSE 0]

\* Mutants of ChargeOf: clamped to the whole balance, or not at all.
ChargeFromBalance(a, computed) == IF computed <= a.balance THEN computed ELSE a.balance
ChargeInFull(a, computed) == computed

\* processTaskCallTx: the debit is clamped to the available Credits.
ChargeOf(a, computed) == IF computed <= Available(a) THEN computed ELSE Available(a)

\* Mutant of Debit: the charge event is written but the account is not saved.
UnsavedDebit(a, amount) == a

\* processTaskCallTx: the balance after the charge.
Debit(a, amount) == [a EXCEPT !.balance = @ - amount]
=============================================================================
