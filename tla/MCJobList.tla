----------------------------- MODULE MCJobList ------------------------------
(***************************************************************************)
(* Model checking of JobList.  Process IDs are interchangeable, so a       *)
(* safety run may reduce the state space by permuting them.                *)
(***************************************************************************)
EXTENDS JobList, TLC

PidSymmetry == Permutations(Pids)

=============================================================================
