---------------------------- MODULE MC_Snowflake ----------------------------
(***************************************************************************)
(* Instances of Snowflake for TLC: one process with several goroutines,    *)
(* and a fleet of two processes.                                           *)
(***************************************************************************)
EXTENDS CodedIds, TLC

CONSTANTS p1, p2

\* Distinct WORKER_IDs, as the deployment must configure them.
DistinctWorkers == [i \in Instances |-> IF i = p1 THEN 0 ELSE 1]

\* Clock readings after the epoch and within the time field.
InRangeClock == Epoch + 1 .. Epoch + TimeCap - 1

CallerSymmetry == Permutations(Callers)

=============================================================================
