----------------------------- MODULE MCDeposits -----------------------------
(***************************************************************************)
(* A small instance of Deposits for TLC: a wallet older than invite codes, *)
(* which can invite two others, two networks with deposits of both         *)
(* invitees, one of them below a Credit, and a tier that one earlier       *)
(* purchase reaches.                                                       *)
(***************************************************************************)
EXTENDS Deposits

CONSTANTS r, a, b, near, far

MCWallets == {r, a, b}
MCOlder == {r}
MCNetworks == {near, far}
Log(n, block, index, w, amount) ==
  [network |-> n, block |-> block, index |-> index, from |-> w, amount |-> amount, valid |-> amount > 0]
MCLogs == {Log(near, 1, 0, a, 4), Log(near, 1, 1, b, 1), Log(near, 2, 0, r, 0), Log(far, 1, 0, b, 4)}
MCConfirmation == [n \in MCNetworks |-> IF n = near THEN 1 ELSE 0]
MCStartBlock == [n \in MCNetworks |-> 0]
MCLogRange == [n \in MCNetworks |-> IF n = near THEN 2 ELSE 1]
MCMaxHead == [n \in MCNetworks |-> IF n = near THEN 3 ELSE 1]
MCMaxCodes == [w \in MCWallets |-> IF w = r THEN 2 ELSE 1]
MCTiers == {[min |-> 1, extra |-> 1]}
=============================================================================
