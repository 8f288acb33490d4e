-------------------------------- MODULE Tsh ---------------------------------
(***************************************************************************)
(* The tiny shell of tsh.c: the read/eval loop, the handlers of SIGCHLD,   *)
(* SIGINT and SIGTSTP that may interrupt it and one another between any    *)
(* two steps, the signal mask that keeps them apart, and the child         *)
(* processes as the kernel runs them.  The job list is that of JobList.    *)
(*                                                                         *)
(* A context is the main program or a handler.  Each context has its       *)
(* program counter and locals; running is the one that executes, and       *)
(* caller[h] the one that handler h has interrupted.                       *)
(***************************************************************************)
EXTENDS JobList

CONSTANTS
    UserSignals,    \* the signals that others send to the shell
    Faults          \* what can go wrong around it: see FaultsAssumption

Handlers == {"CHLD", "INT", "TSTP"}
Contexts == {"main"} \union Handlers
Signals  == Handlers \union {"QUIT"}

ASSUME UserSignalsAssumption == UserSignals \subseteq {"INT", "TSTP", "QUIT"}

\* fork and execve may fail, a user may name a job that does not exist, and a
\* process other than the shell may send SIGCONT to a job.
ASSUME FaultsAssumption == Faults \subseteq {"fork", "execve", "badjob", "cont"}

VARIABLES
    pc,         \* where each context is
    pid,        \* the local pid of each context (b_pid in fg and bg)
    temp,       \* the local temp of each context: the mask to restore
    cmd,        \* what eval executes: a job to launch FG or BG, or a built-in
    built_in_job,   \* eval's pointer to the job of fg and bg
    running,    \* the context that executes
    caller,     \* the context each handler has interrupted
    oldmask,    \* the mask that the kernel puts back: for a handler when it
                \* returns, for main when sigsuspend returns
    mask,       \* the signals the shell blocks
    pending,    \* the signals that wait for the shell
    proc,       \* the child processes
    status      \* the shell is "alive", has "exited" or has "crashed"

eval_vars   == <<cmd, built_in_job>>
signal_vars == <<running, caller, oldmask, mask, pending>>
vars == <<job_list, nextjid, pc, pid, temp, cmd, built_in_job,
          running, caller, oldmask, mask, pending, proc, status>>

-----------------------------------------------------------------------------
(***************************************************************************)
(* Child processes.  A process is forked until setpgid gives it a group of *)
(* its own, grouped until execve replaces the shell's code and handlers,   *)
(* and a subshell when execve has failed and eval has returned in it.      *)
(* event is a stop that waitpid has not reported, sigs are signals that    *)
(* the process has not taken, mask is the mask inherited from the shell.   *)
(***************************************************************************)

ProcStates == {"free", "forked", "grouped", "running", "subshell", "stopped", "zombie"}

NoProcess == [st |-> "free", event |-> FALSE, sigs |-> {}, mask |-> {}]

Alive(p) == proc[p].st \notin {"free", "zombie"}

\* What waitpid(-1, &status, WNOHANG | WUNTRACED) reports.
Waitable == {p \in Pids : proc[p].st = "zombie" \/ proc[p].event}

\* kill(-p, s) reaches the members of group p, if there is such a group.
Grouped(p) == p \in Pids /\ proc[p].st \in {"grouped", "running", "subshell", "stopped"}

Killed(p, s) ==
    IF Grouped(p) THEN [proc EXCEPT ![p].sigs = @ \union {s}] ELSE proc

\* SIGCONT also cancels a pending SIGTSTP and a stop that was not reported.
Continued(p) ==
    IF Grouped(p)
    THEN [proc EXCEPT ![p].st = IF @ = "stopped" THEN "running" ELSE @,
                      ![p].event = FALSE,
                      ![p].sigs = @ \ {"TSTP"}]
    ELSE proc

\* The parent of a stopped process is told that it continues.
ContinueNotice(p) == IF p \in Pids /\ proc[p].st = "stopped" THEN {"CHLD"} ELSE {}

Ended(p) == [proc EXCEPT ![p] = [NoProcess EXCEPT !.st = "zombie"]]

Stopped(p) ==
    [proc EXCEPT ![p].st = "stopped", ![p].event = TRUE, ![p].sigs = @ \ {"TSTP"}]

-----------------------------------------------------------------------------

Init ==
    /\ init_job_list
    /\ pc = [c \in Contexts |-> IF c = "main" THEN "prompt" ELSE "idle"]
    /\ pid = [c \in Contexts |-> NoPid]
    /\ temp = [c \in Contexts |-> {}]
    /\ cmd = "none"
    /\ built_in_job = NULL
    /\ running = "main"
    /\ caller = [h \in Handlers |-> "main"]
    /\ oldmask = [c \in Contexts |-> {}]
    /\ mask = {}
    /\ pending = {}
    /\ proc = [p \in Pids |-> NoProcess]
    /\ status = "alive"

ShellAlive == status = "alive"

\* Context c executes at label l.
At(c, l) == ShellAlive /\ running = c /\ pc[c] = l

Goto(c, l) ==
    /\ pc' = [pc EXCEPT ![c] = l]
    /\ UNCHANGED status

\* The shell ends where it is: it exits, or follows a null pointer.
End(how) ==
    /\ status' = how
    /\ UNCHANGED pc

\* Mutants: a set without SIGCHLD in eval, or in the handlers of SIGINT and
\* SIGTSTP, and a SIGCHLD handler that blocks nothing more.
eval_mask_short(c) == IF c \in {"main", "CHLD"} THEN {"INT", "TSTP"} ELSE Handlers
handler_mask_short(c) == IF c = "main" THEN Handlers ELSE {"INT", "TSTP"}
chld_mask_empty(c) == IF c = "CHLD" THEN {} ELSE Handlers

\* The signals that a context adds to its set proc_mask.
proc_mask(c) == IF c = "CHLD" THEN {"INT", "TSTP"} ELSE Handlers

\* sigprocmask(SIG_BLOCK, &proc_mask, &temp)
Block(c, set) ==
    /\ temp' = [temp EXCEPT ![c] = mask]
    /\ mask' = mask \union set

\* sigprocmask(SIG_SETMASK, &temp, NULL)
Unblock(c) ==
    /\ mask' = temp[c]
    /\ temp' = [temp EXCEPT ![c] = {}]

-----------------------------------------------------------------------------
(***************************************************************************)
(* The main program: main and eval.                                        *)
(***************************************************************************)

\* eval receives a command line that is not empty, and blocks the signals.
ReadCommand(c, next) ==
    /\ At("main", "prompt")
    /\ cmd' = c
    /\ Block("main", proc_mask("main"))
    /\ Goto("main", next)
    /\ UNCHANGED <<list_vars, pid, built_in_job, running, caller, oldmask,
                   pending, proc>>

\* A program to run; the guards are bounds of the model.
ReadProgram ==
    /\ nextjid <= JidBound
    /\ \E p \in Pids : proc[p].st = "free"
    /\ \E c \in {"FG", "BG"} : ReadCommand(c, "fork")

ReadJobs == ReadCommand("jobs", "list")

\* fg or bg, with a job to name.
ReadBgFg ==
    /\ Listed # {} \/ "badjob" \in Faults
    /\ \E c \in {"bg", "fg"} : ReadCommand(c, "lookup")

\* The quit built-in, and the end of the input.
Quit ==
    /\ At("main", "prompt")
    /\ End("exited")
    /\ UNCHANGED <<list_vars, pid, temp, eval_vars, signal_vars, proc>>

\* Mutant: the child does not restore the mask.
Fork_keeps_mask ==
    /\ At("main", "fork")
    /\ \E p \in Pids :
          /\ proc[p].st = "free"
          /\ pid' = [pid EXCEPT !["main"] = p]
          /\ proc' = [proc EXCEPT ![p] = [NoProcess EXCEPT !.st = "forked", !.mask = mask]]
    /\ Goto("main", "add")
    /\ UNCHANGED <<list_vars, temp, eval_vars, signal_vars>>

\* The child restores the mask that its copy of temp holds before it does
\* anything else, and no signal can reach it earlier.
Fork ==
    /\ At("main", "fork")
    /\ \E p \in Pids :
          /\ proc[p].st = "free"
          /\ pid' = [pid EXCEPT !["main"] = p]
          /\ proc' = [proc EXCEPT ![p] = [NoProcess EXCEPT !.st = "forked",
                                                            !.mask = temp["main"]]]
    /\ Goto("main", "add")
    /\ UNCHANGED <<list_vars, temp, eval_vars, signal_vars>>

\* With pid < 0 neither branch of eval is taken: it returns to the prompt with
\* the signals blocked.
ForkFails ==
    /\ "fork" \in Faults
    /\ At("main", "fork")
    /\ Goto("main", "prompt")
    /\ cmd' = "none"
    /\ temp' = [temp EXCEPT !["main"] = {}]
    /\ UNCHANGED <<list_vars, pid, built_in_job, signal_vars, proc>>

\* Mutant: eval does not wait.
AddJob_returns ==
    /\ At("main", "add")
    /\ add_job(pid["main"], cmd)
    /\ Goto("main", "restore")
    /\ UNCHANGED <<pid, temp, eval_vars, signal_vars, proc>>

\* add_job; its result is ignored.
AddJob ==
    /\ At("main", "add")
    /\ add_job(pid["main"], cmd)
    /\ Goto("main", IF cmd = "BG" THEN "restore" ELSE "check")
    /\ UNCHANGED <<pid, temp, eval_vars, signal_vars, proc>>

\* Mutant: sigsuspend is given the mask of eval instead of an empty one.
CheckForeground_blocked ==
    /\ At("main", "check")
    /\ Goto("main", IF fg_pid = NoPid THEN "restore" ELSE "suspend")
    /\ oldmask' = [oldmask EXCEPT !["main"] = mask]
    /\ UNCHANGED <<list_vars, pid, temp, eval_vars, running, caller, mask, pending, proc>>

\* while (fg_pid() != 0)
CheckForeground ==
    /\ At("main", "check")
    /\ IF fg_pid = NoPid
       THEN /\ Goto("main", "restore")
            /\ UNCHANGED <<oldmask, mask>>
       ELSE /\ Goto("main", "suspend")     \* sigsuspend(&suspend_mask)
            /\ oldmask' = [oldmask EXCEPT !["main"] = mask]
            /\ mask' = {}
    /\ UNCHANGED <<list_vars, pid, temp, eval_vars, running, caller, pending, proc>>

\* Mutant: the jobs command leaves the signals blocked.
ListJobs_keeps_mask ==
    /\ At("main", "list")
    /\ Goto("main", "prompt")
    /\ UNCHANGED <<list_vars, pid, temp, eval_vars, signal_vars, proc>>

\* list_jobs only reads the list.
ListJobs ==
    /\ At("main", "list")
    /\ Goto("main", "restore")
    /\ UNCHANGED <<list_vars, pid, temp, eval_vars, signal_vars, proc>>

\* fg and bg with %jid: get_pid_of_job follows the pointer.  A job ID that is
\* not a number is 0, and a missing argument is a null pointer as well.
LookupJid ==
    /\ At("main", "lookup")
    /\ \E jid \in {job_list[i].jid : i \in Slots} \union {0} :
          LET jobp == find_job_with_jid(jid)
          IN  IF jobp = NULL
              THEN /\ "badjob" \in Faults
                   /\ End("crashed")
                   /\ UNCHANGED <<built_in_job, pid>>
              ELSE /\ Goto("main", "kill")
                   /\ built_in_job' = jobp
                   /\ pid' = [pid EXCEPT !["main"] = job_list[jobp].pid]
    /\ UNCHANGED <<list_vars, temp, cmd, signal_vars, proc>>

\* fg and bg with a pid: the pointer may be NULL.
LookupPid ==
    /\ At("main", "lookup")
    /\ \E p \in Pids :
          /\ p \in Listed \/ "badjob" \in Faults
          /\ built_in_job' = find_job_with_pid(p)
          /\ pid' = [pid EXCEPT !["main"] = p]
    /\ Goto("main", "kill")
    /\ UNCHANGED <<list_vars, temp, cmd, signal_vars, proc>>

\* kill(-b_pid, SIGCONT)
ContinueJob ==
    /\ At("main", "kill")
    /\ proc' = Continued(pid["main"])
    /\ pending' = pending \union ContinueNotice(pid["main"])
    /\ Goto("main", "set")
    /\ UNCHANGED <<list_vars, pid, temp, eval_vars, running, caller, oldmask, mask>>

\* set_state_of_job, then bg is done and fg waits.
SetState ==
    /\ At("main", "set")
    /\ IF built_in_job = NULL
       THEN End("crashed") /\ UNCHANGED list_vars
       ELSE /\ set_state_of_job(built_in_job, IF cmd = "bg" THEN "BG" ELSE "FG")
            /\ Goto("main", IF cmd = "bg" THEN "restore" ELSE "check")
    /\ UNCHANGED <<pid, temp, eval_vars, signal_vars, proc>>

\* The signals are unblocked and eval returns.
EvalReturn ==
    /\ At("main", "restore")
    /\ Unblock("main")
    /\ Goto("main", "prompt")
    /\ cmd' = "none"
    /\ built_in_job' = NULL
    /\ pid' = [pid EXCEPT !["main"] = NoPid]
    /\ UNCHANGED <<list_vars, running, caller, oldmask, pending, proc>>

Main ==
    \/ ReadProgram \/ ReadJobs \/ ReadBgFg \/ Quit
    \/ Fork \/ ForkFails \/ AddJob \/ CheckForeground
    \/ ListJobs \/ LookupJid \/ LookupPid \/ ContinueJob \/ SetState
    \/ EvalReturn

-----------------------------------------------------------------------------
(***************************************************************************)
(* Signal delivery, and the handlers.                                      *)
(***************************************************************************)

\* Mutant: eval waits with "if" instead of "while".
Deliver_ends_wait(h) ==
    /\ ShellAlive
    /\ h \in pending \ mask
    /\ pending' = pending \ {h}
    /\ caller' = [caller EXCEPT ![h] = running]
    /\ running' = h
    /\ oldmask' = [oldmask EXCEPT ![h] = IF pc["main"] = "suspend"
                                        THEN oldmask["main"] ELSE mask]
    /\ pc' = [pc EXCEPT ![h] = "entry", !["main"] = IF @ = "suspend" THEN "restore" ELSE @]
    /\ mask' = mask \union {h}
    /\ UNCHANGED <<list_vars, pid, temp, eval_vars, proc, status>>

\* The kernel interrupts the running context, with the signal itself blocked
\* during its handler (Signal in csapp.c installs an empty sa_mask).  A
\* sigsuspend ends: when the handler returns, the mask is the one it replaced.
Deliver(h) ==
    /\ ShellAlive
    /\ h \in pending \ mask
    /\ pending' = pending \ {h}
    /\ caller' = [caller EXCEPT ![h] = running]
    /\ running' = h
    /\ LET suspended == running = "main" /\ pc["main"] = "suspend"
       IN  /\ oldmask' = [oldmask EXCEPT
                            ![h] = IF suspended THEN oldmask["main"] ELSE mask,
                            !["main"] = IF suspended THEN {} ELSE @]
           /\ pc' = [pc EXCEPT
                       ![h] = "entry",
                       !["main"] = IF suspended THEN "check" ELSE @]
    /\ UNCHANGED status
    /\ mask' = mask \union {h}
    /\ UNCHANGED <<list_vars, pid, temp, eval_vars, proc>>

\* sigquit_handler ends the shell.
DeliverQuit ==
    /\ ShellAlive
    /\ "QUIT" \in pending \ mask
    /\ End("exited")
    /\ UNCHANGED <<list_vars, pid, temp, eval_vars, signal_vars, proc>>

\* The handlers never clear proc_mask before they add to it: whether another
\* signal, SIGQUIT, is in it depends on what the stack held.
HandlerBlock(h) ==
    /\ At(h, "entry")
    /\ \E garbage \in SUBSET (UserSignals \ Handlers) : Block(h, proc_mask(h) \union garbage)
    /\ Goto(h, IF h = "CHLD" THEN "wait" ELSE "fg")
    /\ UNCHANGED <<list_vars, pid, eval_vars, running, caller, oldmask, pending, proc>>

HandlerUnblock(h) ==
    /\ At(h, "restore")
    /\ Unblock(h)
    /\ Goto(h, "return")
    /\ UNCHANGED <<list_vars, pid, eval_vars, running, caller, oldmask, pending, proc>>

HandlerReturn(h) ==
    /\ At(h, "return")
    /\ mask' = oldmask[h]
    /\ oldmask' = [oldmask EXCEPT ![h] = {}]
    /\ running' = caller[h]
    /\ caller' = [caller EXCEPT ![h] = "main"]
    /\ pid' = [pid EXCEPT ![h] = NoPid]
    /\ Goto(h, "idle")
    /\ UNCHANGED <<list_vars, temp, eval_vars, pending, proc>>

\* waitpid returns one child that has ended or stopped, in any order.
Wait ==
    /\ At("CHLD", "wait")
    /\ \E p \in Waitable :
          /\ pid' = [pid EXCEPT !["CHLD"] = p]
          /\ IF proc[p].st = "zombie"
             THEN /\ proc' = [proc EXCEPT ![p] = NoProcess]
                  /\ Goto("CHLD", "delete")
             ELSE /\ proc' = [proc EXCEPT ![p].event = FALSE]
                  /\ Goto("CHLD", "stop")
    /\ UNCHANGED <<list_vars, temp, eval_vars, signal_vars>>

WaitNone ==
    /\ At("CHLD", "wait")
    /\ Waitable = {}
    /\ Goto("CHLD", "restore")
    /\ UNCHANGED <<list_vars, pid, temp, eval_vars, signal_vars, proc>>

\* Mutant: the SIGCHLD handler calls waitpid once.
DeleteJob_once ==
    /\ At("CHLD", "delete")
    /\ delete_job(pid["CHLD"])
    /\ Goto("CHLD", "restore")
    /\ UNCHANGED <<pid, temp, eval_vars, signal_vars, proc>>

\* The child was reaped: its job leaves the list.
DeleteJob ==
    /\ At("CHLD", "delete")
    /\ delete_job(pid["CHLD"])
    /\ Goto("CHLD", "wait")
    /\ UNCHANGED <<pid, temp, eval_vars, signal_vars, proc>>

\* The child was stopped.
StopJob ==
    /\ At("CHLD", "stop")
    /\ LET jobp == find_job_with_pid(pid["CHLD"])
       IN  IF jobp = NULL
           THEN End("crashed") /\ UNCHANGED list_vars
           ELSE /\ set_state_of_job(jobp, "ST")
                /\ Goto("CHLD", "wait")
    /\ UNCHANGED <<pid, temp, eval_vars, signal_vars, proc>>

\* pid = fg_pid(), and kill only if there is one.
FindForeground(h) ==
    /\ At(h, "fg")
    /\ pid' = [pid EXCEPT ![h] = fg_pid]
    /\ Goto(h, IF fg_pid = NoPid THEN "restore" ELSE "kill")
    /\ UNCHANGED <<list_vars, temp, eval_vars, signal_vars, proc>>

\* kill(-pid, sig)
Forward(h) ==
    /\ At(h, "kill")
    /\ proc' = Killed(pid[h], h)
    /\ Goto(h, "restore")
    /\ UNCHANGED <<list_vars, pid, temp, eval_vars, signal_vars>>

Handler(h) ==
    \/ HandlerBlock(h) \/ HandlerUnblock(h) \/ HandlerReturn(h)
    \/ h = "CHLD" /\ (Wait \/ WaitNone \/ DeleteJob \/ StopJob)
    \/ h # "CHLD" /\ (FindForeground(h) \/ Forward(h))

-----------------------------------------------------------------------------
(***************************************************************************)
(* The child processes and whoever sends signals.  SIGCHLD is one pending  *)
(* bit: several children that change at once may cause a single delivery.  *)
(***************************************************************************)

EnvUnchanged ==
    UNCHANGED <<list_vars, pc, pid, temp, eval_vars, running, caller, oldmask, mask, status>>

\* In the child: sigprocmask(SIG_SETMASK, &temp, NULL) and Setpgid(0, 0).
ChildSetup(p) ==
    /\ ShellAlive
    /\ proc[p].st = "forked"
    /\ proc' = [proc EXCEPT ![p].st = "grouped"]
    /\ UNCHANGED pending
    /\ EnvUnchanged

\* execve keeps the mask and the pending signals.
ChildExec(p) ==
    /\ ShellAlive
    /\ proc[p].st = "grouped"
    /\ \E st \in {"running"} \union (IF "execve" \in Faults THEN {"subshell"} ELSE {}) :
          proc' = [proc EXCEPT ![p].st = st]
    /\ UNCHANGED pending
    /\ EnvUnchanged

\* Before execve the child still has the handlers of the shell, and a copy of
\* the job list without a foreground job: the signal has no effect.
TakeSignal(p, s) ==
    /\ ShellAlive
    /\ s \in proc[p].sigs \ proc[p].mask
    /\ \/ /\ proc[p].st \in {"grouped", "subshell"}
          /\ proc' = [proc EXCEPT ![p].sigs = @ \ {s}]
          /\ UNCHANGED pending
       \/ /\ proc[p].st = "running"
          /\ proc' = IF s = "INT" THEN Ended(p) ELSE Stopped(p)
          /\ pending' = pending \union {"CHLD"}
    /\ EnvUnchanged

\* The child exits, or is killed by a signal that is not the shell's.
Terminate(p) ==
    /\ ShellAlive
    /\ Alive(p)
    /\ proc' = Ended(p)
    /\ pending' = pending \union {"CHLD"}
    /\ EnvUnchanged

\* The child stops, by itself or by a signal that is not the shell's.
Stop(p) ==
    /\ ShellAlive
    /\ proc[p].st = "running"
    /\ proc' = Stopped(p)
    /\ pending' = pending \union {"CHLD"}
    /\ EnvUnchanged

\* Somebody else sends SIGCONT to a stopped job.
ContinueByOthers(p) ==
    /\ ShellAlive
    /\ "cont" \in Faults
    /\ proc[p].st = "stopped"
    /\ proc' = Continued(p)
    /\ pending' = pending \union ContinueNotice(p)
    /\ EnvUnchanged

\* ctrl-c, ctrl-z, and the driver's SIGQUIT.
SendToShell(s) ==
    /\ ShellAlive
    /\ s \notin pending
    /\ pending' = pending \union {s}
    /\ UNCHANGED proc
    /\ EnvUnchanged

Child(p) ==
    \/ ChildSetup(p) \/ ChildExec(p) \/ Terminate(p) \/ Stop(p) \/ ContinueByOthers(p)
    \/ \E s \in {"INT", "TSTP"} : TakeSignal(p, s)

Environment ==
    \/ \E p \in Pids : Child(p)
    \/ \E s \in UserSignals : SendToShell(s)

\* The shell has ended.
Over == ~ ShellAlive /\ UNCHANGED vars

Next ==
    \/ Main
    \/ \E h \in Handlers : Deliver(h) \/ Handler(h)
    \/ DeliverQuit
    \/ Environment
    \/ Over

Spec == Init /\ [][Next]_vars

\* The scheduler runs the shell and its children.  A context that is resumed
\* again and again takes its next step: whoever sends signals leaves the shell
\* time between two of them.  A signal that is pending and unblocked again and
\* again is delivered: the kernel does so before sigprocmask, sigsuspend or a
\* handler's return lets the shell go on.  Nobody has to type a command, end a
\* program or send a signal.
Fairness ==
    /\ SF_vars(Main /\ pc["main"] # "prompt")
    /\ \A h \in Handlers : SF_vars(Handler(h)) /\ SF_vars(Deliver(h))
    /\ \A p \in Pids :
          /\ WF_vars(ChildSetup(p) \/ ChildExec(p))
          /\ WF_vars(\E s \in {"INT", "TSTP"} : TakeSignal(p, s))

FairSpec == Spec /\ Fairness

-----------------------------------------------------------------------------
(***************************************************************************)
(* Properties.                                                             *)
(***************************************************************************)

MainLabels == {"prompt", "fork", "add", "check", "suspend", "list", "lookup",
               "kill", "set", "restore"}

HandlerLabels(h) ==
    {"idle", "entry", "restore", "return"} \union
    (IF h = "CHLD" THEN {"wait", "delete", "stop"} ELSE {"fg", "kill"})

Labels(c) == IF c = "main" THEN MainLabels ELSE HandlerLabels(c)

AllLabels == MainLabels \union HandlerLabels("CHLD") \union HandlerLabels("INT")

Commands == {"none", "FG", "BG", "jobs", "bg", "fg"}

Process == [st : ProcStates, event : BOOLEAN,
            sigs : SUBSET {"INT", "TSTP"}, mask : SUBSET Signals]

ShellTypeOK ==
    /\ pc \in [Contexts -> AllLabels]
    /\ \A c \in Contexts : pc[c] \in Labels(c)
    /\ pid \in [Contexts -> Pids \union {NoPid}]
    /\ temp \in [Contexts -> SUBSET Signals]
    /\ cmd \in Commands
    /\ built_in_job \in Slots \union {NULL}
    /\ running \in Contexts
    /\ caller \in [Handlers -> Contexts]
    /\ oldmask \in [Contexts -> SUBSET Signals]
    /\ mask \in SUBSET Signals
    /\ pending \in SUBSET Signals
    /\ proc \in [Pids -> Process]
    /\ status \in {"alive", "exited", "crashed"}

\* Every variable of the shell and of its job list has its type, and every
\* context is at one of its own labels.
TypeOK == ListTypeOK /\ ShellTypeOK

\* check_blocked (tsh_helper.c) never warns: whoever calls a helper of the job
\* list has SIGCHLD, SIGINT and SIGTSTP blocked, so that no handler sees the
\* list half updated or changes it under main's feet.
ListAccessGuarded ==
    pc[running] \in {"add", "check", "list", "lookup", "set", "delete", "stop", "fg"}
    => Handlers \subseteq mask

\* Between fg_pid and kill in the SIGINT and SIGTSTP handlers (trace27, trace28)
\* the job stays in the foreground and its process is not reaped, so that the
\* signal cannot hit a stranger who was given the same pid.
SignalsOwnJob ==
    \A h \in {"INT", "TSTP"} :
        pc[h] = "kill" =>
            /\ proc[pid[h]].st # "free"
            /\ \E i \in ForegroundSlots : job_list[i].pid = pid[h]

\* No change of a child is missed, although SIGCHLD does not queue: as long as
\* waitpid has something to report, SIGCHLD is pending or its handler has yet
\* to leave its loop.
NoMissedEvent ==
    Waitable # {} =>
        "CHLD" \in pending \/ pc["CHLD"] \in {"entry", "wait", "delete", "stop"}

\* The list holds exactly the children that were not reaped: the one that eval
\* has forked is about to be added, and the one that waitpid has reaped is
\* about to be deleted.  (The list must be large enough.)
ListIsChildren ==
    \A p \in Pids :
        \/ p \in Listed <=> proc[p].st # "free"
        \/ pc["main"] = "add" /\ pid["main"] = p
        \/ pc["CHLD"] = "delete" /\ pid["CHLD"] = p

\* When the shell has handled what it was told, a job is listed as stopped if
\* and only if its process is.  (Only the shell sends SIGCONT.)
ListTellsStopped ==
    At("main", "prompt") /\ "CHLD" \notin pending =>
        \A i \in Slots : job_list[i].pid # NoPid =>
            (job_list[i].state = "ST" <=> proc[job_list[i].pid].st = "stopped")

\* While eval is not waiting for it, no job is in the foreground: it does not
\* return to the prompt, and launches nothing, before the foreground job has
\* ended or stopped.
ForegroundOnlyWhileWaiting ==
    ForegroundSlots # {} => pc["main"] \in {"check", "suspend"}

\* eval: "If the job is running in the foreground, wait for it to terminate and
\* then return."  It leaves the wait for a foreground job only when the process
\* has ended or stopped.  (Only the shell sends SIGCONT.)
WaitsForForeground ==
    pc["main"] = "restore" /\ cmd \in {"FG", "fg"} =>
        proc[pid["main"]].st \in {"free", "zombie", "stopped"}

\* Whatever handlers interrupted eval, and one another, the shell blocks no
\* signal at the prompt.  (fork must not fail.)
PromptUnblocked == At("main", "prompt") => mask = {}

\* The wrapper of execve (wrapper.c) never warns: no program starts with SIGCHLD,
\* SIGINT or SIGTSTP blocked.
ExecUnblocked ==
    \A p \in Pids : proc[p].st = "running" => proc[p].mask \intersect Handlers = {}

\* No null job pointer is followed.
NoNullPointer == status # "crashed"

\* A ctrl-c or ctrl-z that the shell forwards reaches the process group of the
\* foreground job (trace08, trace19).
ForwardFindsGroup ==
    \A h \in {"INT", "TSTP"} : pc[h] = "kill" => proc[pid[h]].st # "forked"

\* Every child that ends is reaped.
EveryChildReaped ==
    \A p \in Pids : proc[p].st = "zombie" ~> proc[p].st # "zombie" \/ ~ ShellAlive

\* eval does not sleep forever: when the foreground job has ended or stopped,
\* the shell gets back to the prompt, whatever signals arrive meanwhile.
ForegroundWaitEnds ==
    \A p \in Pids :
        /\ proc[p].st \in {"zombie", "stopped"}
        /\ \E i \in ForegroundSlots : job_list[i].pid = p
        ~> pc["main"] = "prompt" \/ ~ ShellAlive

\* A ctrl-c that arrives while a program runs in the foreground ends its
\* being there: the program dies, or it has stopped before.
InterruptReachesJob ==
    \A p \in Pids :
        LET InFront == /\ proc[p].st = "running"
                       /\ \E i \in ForegroundSlots : job_list[i].pid = p
        IN  "INT" \in pending /\ InFront ~> ~ InFront \/ ~ ShellAlive

=============================================================================
