------------------------------- MODULE MCJobs -------------------------------
(***************************************************************************)
(* Jobs for TLC: symmetric jobs.  The liveness runs do not use symmetry.   *)
(***************************************************************************)
EXTENDS Jobs, TLC

Symmetry == Permutations(Job) \cup Permutations(Session)

=============================================================================
