--------------------------- MODULE MCRecordStore ---------------------------
(***************************************************************************)
(* A slice of the schema for TLC.                                          *)
(***************************************************************************)
EXTENDS RecordStore, TLC

CONSTANTS p1, k1       \* a problem and a problem task

\* problem.first_reported_by_task, problem_task.problem
ProblemTableOf == (p1 :> "problem") @@ (k1 :> "problem_task")
ProblemFieldTable == [first_reported_by_task |-> "problem", problem |-> "problem_task"]
ProblemFieldTarget == [first_reported_by_task |-> "problem_task", problem |-> "problem"]

Alike == Permutations(Sessions)
=============================================================================
