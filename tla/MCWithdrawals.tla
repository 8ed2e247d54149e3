--------------------------- MODULE MCWithdrawals ---------------------------
(***************************************************************************)
(* A small instance of Withdrawals for TLC: two Key Owners, who can share  *)
(* a benefit address, one paid call of each, and a limit of one withdrawal a  *)
(* day.                                                                    *)
(***************************************************************************)
EXTENDS Withdrawals

CONSTANTS u1, u2, base

MCUsers == {u1, u2}
MCContract == [u \in MCUsers |-> IF u = u2 THEN u1 ELSE ZeroAddress]
MCNetworks == {base}
MCFee == [n \in MCNetworks |-> 1]
MCMinimum == [n \in MCNetworks |-> 1]
MCMaxPerDay == [n \in MCNetworks |-> 1]
MCIncomes == {[user |-> u1, call |-> 1, amount |-> 4], [user |-> u2, call |-> 2, amount |-> 2]}
MCAuths == {[user |-> u1, amount |-> 1, network |-> base, to |-> u1, at |-> 0],
            [user |-> u1, amount |-> 1, network |-> base, to |-> u1, at |-> 1],
            [user |-> u2, amount |-> 1, network |-> base, to |-> u1, at |-> 1]}
=============================================================================
