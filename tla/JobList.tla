------------------------------ MODULE JobList -------------------------------
(***************************************************************************)
(* The job list of tsh_helper.c: an array of MAXJOBS slots, the counter    *)
(* nextjid that allocates job IDs, and the helpers that search and update  *)
(* them.  Every definition has the name of the C function it stands for.   *)
(* The shell module EXTENDS this one and calls the helpers; ListSpec is    *)
(* what any caller that respects the contract below may do to the list.    *)
(***************************************************************************)
EXTENDS Integers, FiniteSetsExt

CONSTANTS
    MaxJobs,    \* MAXJOBS, the number of slots
    Pids,       \* the process IDs the kernel can hand out
    NoPid,      \* pid 0, the pid of an empty slot
    JidBound    \* bound of the model: no job is launched once nextjid exceeds it

ASSUME MaxJobsAssumption == MaxJobs \in Nat \ {0}
ASSUME PidsAssumption == NoPid \notin Pids
ASSUME JidBoundAssumption == JidBound \in Nat

VARIABLES
    job_list,   \* static struct job_t job_list[MAXJOBS]
    nextjid     \* the next job ID to allocate

list_vars == <<job_list, nextjid>>

Slots == 1..MaxJobs

\* A pointer to a job is the index of its slot, and NULL is 0.
NULL == 0

job_state == {"UNDEF", "FG", "BG", "ST"}

job_t == [pid : Pids \union {NoPid}, jid : Nat, state : job_state]

\* A slot after clearjob.
ClearedJob == [pid |-> NoPid, jid |-> 0, state |-> "UNDEF"]

init_job_list ==
    /\ job_list = [i \in Slots |-> ClearedJob]
    /\ nextjid = 1

-----------------------------------------------------------------------------
(***************************************************************************)
(* Searches.  The loops of the C code return the first slot that matches.  *)
(***************************************************************************)

First(slots) == IF slots = {} THEN NULL ELSE Min(slots)

\* A pid below 1 is refused, so that pid 0 never matches an empty slot.
find_job_with_pid(pid) ==
    First({i \in Slots : pid # NoPid /\ job_list[i].pid = pid})

\* A jid below 1 is refused, so that jid 0 never matches an empty slot.
find_job_with_jid(jid) ==
    First({i \in Slots : jid >= 1 /\ job_list[i].jid = jid})

ForegroundSlots == {i \in Slots : job_list[i].state = "FG"}

fg_pid ==
    IF ForegroundSlots = {} THEN NoPid ELSE job_list[Min(ForegroundSlots)].pid

maxjid == Max({job_list[i].jid : i \in Slots} \union {0})

Listed == {job_list[i].pid : i \in Slots} \ {NoPid}

-----------------------------------------------------------------------------
(***************************************************************************)
(* Updates.                                                                *)
(***************************************************************************)

FreeSlots == {i \in Slots : job_list[i].pid = NoPid}

\* A mutant: a full list gives up its last slot.
add_job_evicts(pid, state) ==
    /\ job_list' = [job_list EXCEPT ![First(FreeSlots \union {MaxJobs})] =
                        [pid |-> pid, jid |-> nextjid, state |-> state]]
    /\ nextjid' = IF nextjid + 1 > MaxJobs THEN 1 ELSE nextjid + 1

\* With no free slot the function only prints a message and returns false.
add_job(pid, state) ==
    IF FreeSlots = {}
    THEN UNCHANGED list_vars
    ELSE /\ job_list' = [job_list EXCEPT ![Min(FreeSlots)] =
                            [pid |-> pid, jid |-> nextjid, state |-> state]]
         /\ nextjid' = IF nextjid + 1 > MaxJobs THEN 1 ELSE nextjid + 1

\* Mutants of delete_job: it clears the pid alone, it leaves nextjid as it was, it
\* forgets the increment.
delete_job_keeps_state(pid) ==
    /\ job_list' = [i \in Slots |->
                       IF i = find_job_with_pid(pid)
                       THEN [job_list[i] EXCEPT !.pid = NoPid] ELSE job_list[i]]
    /\ nextjid' = maxjid' + 1
delete_job_keeps_nextjid(pid) ==
    /\ job_list' = [i \in Slots |->
                       IF i = find_job_with_pid(pid) THEN ClearedJob ELSE job_list[i]]
    /\ UNCHANGED nextjid
delete_job_resets_nextjid(pid) ==
    /\ job_list' = [i \in Slots |->
                       IF i = find_job_with_pid(pid) THEN ClearedJob ELSE job_list[i]]
    /\ nextjid' = maxjid'

\* A pid that is not in the list leaves everything as it was.
delete_job(pid) ==
    IF find_job_with_pid(pid) = NULL
    THEN UNCHANGED list_vars
    ELSE /\ job_list' = [job_list EXCEPT ![find_job_with_pid(pid)] = ClearedJob]
         /\ nextjid' = maxjid' + 1

\* The C function writes through jobp whatever it is: callers must not pass NULL.
set_state_of_job(jobp, state) ==
    /\ job_list' = [job_list EXCEPT ![jobp].state = state]
    /\ UNCHANGED nextjid

-----------------------------------------------------------------------------
(***************************************************************************)
(* The contract of the callers in tsh.c: eval adds a job for a process that *)
(* is not listed yet, and neither adds a job nor runs fg or bg while a job  *)
(* is in the foreground.  The SIGCHLD handler stops and deletes any job at  *)
(* any time.                                                               *)
(***************************************************************************)

Launch(pid, state) ==
    /\ pid \notin Listed
    /\ nextjid <= JidBound
    /\ ForegroundSlots = {}
    /\ add_job(pid, state)

ChangeState(jobp, state) ==
    /\ job_list[jobp].pid # NoPid
    /\ state \in {"FG", "BG"} => ForegroundSlots = {}
    /\ set_state_of_job(jobp, state)

ListNext ==
    \/ \E pid \in Pids, state \in {"FG", "BG"} : Launch(pid, state)
    \/ \E pid \in Pids : delete_job(pid)
    \/ \E jobp \in Slots, state \in {"FG", "BG", "ST"} : ChangeState(jobp, state)

ListSpec == init_job_list /\ [][ListNext]_list_vars

-----------------------------------------------------------------------------
(***************************************************************************)
(* Properties.                                                             *)
(***************************************************************************)

\* The array holds job structs and the counter a natural number.
ListTypeOK ==
    /\ job_list \in [Slots -> job_t]
    /\ nextjid \in Nat \ {0}

\* The three fields of a slot agree on whether it is in use: add_job tests
\* pid, fg_pid and list_jobs test state, maxjid tests jid, and clearjob must
\* leave them consistent.
SlotsCoherent ==
    \A i \in Slots :
        /\ job_list[i].pid = NoPid <=> job_list[i].state = "UNDEF"
        /\ job_list[i].pid = NoPid <=> job_list[i].jid = 0

\* delete_job and find_job_with_pid stop at the first match, so a process must
\* occupy at most one slot.
PidsUnique ==
    \A i, j \in Slots :
        job_list[i].pid = job_list[j].pid /\ job_list[i].pid # NoPid => i = j

\* tsh_helper.h: "At most 1 job can be in the FG state."
AtMostOneForeground ==
    \A i, j \in Slots : job_list[i].state = "FG" /\ job_list[j].state = "FG" => i = j

\* find_job_with_jid "takes in a job ID, and returns either a pointer the job
\* struct with the respective job ID, or NULL": one job ID names one job.
JidsUnique ==
    \A i, j \in Slots :
        job_list[i].jid = job_list[j].jid /\ job_list[i].jid # 0 => i = j

\* The next job ID is never beyond the successor of the largest one in use, so
\* that the jobs of an idle shell are numbered from 1 again (nextjid++ in
\* add_job, nextjid = maxjid() + 1 in delete_job).
JidsCompact == nextjid <= maxjid + 1

\* The table of the tracked processes, read off the list.
JobsTable == [p \in Listed |-> job_list[find_job_with_pid(p)].state]

Table == INSTANCE JobTable WITH Capacity <- MaxJobs, table <- JobsTable

\* The job list implements the abstract table of jobs: add_job, delete_job and
\* set_state_of_job start, end and change one job each, along the edges of the
\* state diagram of tsh_helper.h, whatever slots and job IDs they use.
ImplementsTable == Table!TableSpec

=============================================================================
