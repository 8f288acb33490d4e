------------------------------- MODULE MCTsh --------------------------------
(***************************************************************************)
(* Model checking of Tsh.  Process IDs are interchangeable, so a safety    *)
(* run may reduce the state space by permuting them.                       *)
(***************************************************************************)
EXTENDS Tsh, TLC

PidSymmetry == Permutations(Pids)

=============================================================================
