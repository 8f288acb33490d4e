------------------------------ MODULE JobTable ------------------------------
(***************************************************************************)
(* What the job list promises to the rest of the shell, without slots or   *)
(* job IDs: a table that gives each tracked process one of the states FG,  *)
(* BG and ST, holds at most Capacity processes, and never has two          *)
(* processes in the foreground.  Module JobList implements it.             *)
(***************************************************************************)
EXTENDS FiniteSets, Naturals

CONSTANTS
    Pids,       \* the process IDs the kernel can hand out
    Capacity    \* how many jobs the shell can track at once

VARIABLE table  \* a function from the tracked process IDs to job states

TableStates == {"FG", "BG", "ST"}

Tracked == DOMAIN table

Foreground == {p \in Tracked : table[p] = "FG"}

(***************************************************************************)
(* The state changes of one job.  FG -> ST, ST -> FG, ST -> BG and BG -> FG *)
(* are those of the comment at the head of tsh_helper.h; BG -> ST is a      *)
(* background job that stops itself.                                       *)
(***************************************************************************)
Transitions == {<<"FG", "ST">>, <<"ST", "FG">>, <<"ST", "BG">>,
                <<"BG", "FG">>, <<"BG", "ST">>}

TableInit == table = [p \in {} |-> "FG"]

\* A new job starts to be tracked: only while no job is in the foreground.
Track(p, state) ==
    /\ p \notin Tracked
    /\ Cardinality(Tracked) < Capacity
    /\ Foreground = {}
    /\ state \in {"FG", "BG"}
    /\ table' = [q \in Tracked \union {p} |-> IF q = p THEN state ELSE table[q]]

\* A job has ended and is forgotten.
Forget(p) ==
    /\ p \in Tracked
    /\ table' = [q \in Tracked \ {p} |-> table[q]]

\* A job moves along one edge of the state diagram.  The fg and bg commands,
\* that make it FG or BG, run only while no job is in the foreground.
Change(p, state) ==
    /\ p \in Tracked
    /\ <<table[p], state>> \in Transitions
    /\ state \in {"FG", "BG"} => Foreground = {}
    /\ table' = [table EXCEPT ![p] = state]

TableNext ==
    \E p \in Pids :
        \/ Forget(p)
        \/ \E state \in TableStates : Track(p, state) \/ Change(p, state)

TableSpec == TableInit /\ [][TableNext]_table

=============================================================================
