----------------------------- MODULE MCWaitExit ------------------------------
(* WaitExit for TLC, with the symmetry of the task_struct pages. *)
EXTENDS WaitExit

CONSTANTS t1, t2, t3

TaskSymmetry == Permutations({t1, t2, t3})
=============================================================================
