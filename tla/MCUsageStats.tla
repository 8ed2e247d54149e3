---------------------------- MODULE MCUsageStats ----------------------------
(***************************************************************************)
(* A small instance of UsageStats for TLC: hours of two periods and days   *)
(* of two hours, two projects of one user, a histogram of three buckets    *)
(* shown in two bars, and a history that crosses a day.                    *)
(***************************************************************************)
EXTENDS UsageStats

CONSTANT u

Call(job, p, m, ok, age, credits, bucket) ==
  [job |-> job, project |-> p, model |-> m, success |-> ok, age |-> age,
   tokens |-> credits, credits |-> credits, bucket |-> bucket]
MCUsers == {u}
MCProjects == {1, 2}
MCOwner == [p \in MCProjects |-> u]
MCModels == {1, 2}
MCCalls == {Call(1, 1, 1, TRUE, 0, 1, 1), Call(2, 1, 2, TRUE, 1, 2, 3), Call(3, 2, 1, FALSE, 1, 0, 2)}
MCRanges == {"1h", "1d"}
MCRangeSlots == [r \in MCRanges |-> IF r = "1h" THEN 2 ELSE 4]
MCSeriesRanges == {"7d"}
MCSeriesDays == [r \in MCSeriesRanges |-> 2]
=============================================================================
