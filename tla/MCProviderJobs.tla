--------------------------- MODULE MCProviderJobs ---------------------------
(***************************************************************************)
(* Small instances of ProviderJobs for TLC: two jobs of one consumer whose *)
(* funds cover both holds but not both prices, two keys with one slot      *)
(* each, or one key with two.                                              *)
(***************************************************************************)
EXTENDS ProviderJobs, TLC

CONSTANTS u1, k1, k2

MCUsers == {u1}
MCJobs == {1, 2}
MCOwner == [j \in MCJobs |-> u1]
MCHold == [j \in MCJobs |-> 1]
MCFunds == [u \in MCUsers |-> 2]
MCStreamed == {1}
MCAhead == {<<2, 1>>}
MCKeys == {k1, k2}
MCSymmetry == Permutations(MCKeys)
MCUsages == {[tokens |-> 1, price |-> 2]}
MCLimits == {0, 2}

(***************************************************************************)
(* What docs/provider-key-sharing says, and the code does not do.          *)
(***************************************************************************)

\* testing.md, line 221: the stream registry is cleaned up after every terminal
\* path, so a client that keeps reading is answered once its job has ended.
StreamsAreCleanedUp ==
  \A j \in Streamed : stream[j] = "open" /\ job[j] \in Terminal ~> stream[j] # "open"
=============================================================================
