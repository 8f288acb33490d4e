--------------------------- MODULE TshTrackProofs ---------------------------
(***************************************************************************)
(* The job list and the processes, for every number of slots and           *)
(* processes: the list is that of the children, it knows which ones are    *)
(* stopped, eval leaves a foreground job only when it has ended or         *)
(* stopped, and no null job pointer is followed.  Each theorem names the   *)
(* faults that it excludes.                                                *)
(***************************************************************************)
EXTENDS TshMaskProofs

\* The list has a slot for every process that the kernel can create.
Room == IsFiniteSet(Pids) /\ Cardinality(Pids) <= MaxJobs

\* Users name jobs that exist; only the shell sends SIGCONT.
JobsExist == "badjob" \notin Faults
ShellContinues == "cont" \notin Faults

Halted(p) == proc[p].st \in {"stopped", "zombie"}

\* A stop that waitpid reported, and no SIGCONT since.
Reported(p) == proc[p].st = "stopped" /\ ~ proc[p].event

\* What waitpid told the SIGCHLD handler stays true until the list is updated.
WaitInv ==
    /\ \A p \in Pids : proc[p].event => proc[p].st = "stopped"
    /\ pc["CHLD"] = "delete" => proc[pid["CHLD"]].st = "free"
    /\ pc["CHLD"] = "stop" => proc[pid["CHLD"]].st # "free"

\* Every child is listed or about to be.
ChildrenListed ==
    \A p \in Pids : proc[p].st # "free" =>
        p \in Listed \/ (pc["main"] = "add" /\ pid["main"] = p)

\* fg and bg have a job, and continue the process whose job they change.
JobOfPid ==
    pc["main"] \in {"kill", "set"} /\ built_in_job # NULL =>
        job_list[built_in_job].pid = pid["main"]

JobFound == pc["main"] \in {"kill", "set"} => built_in_job # NULL

\* What the list and the processes know of each other about stops, in the
\* middle of eval and of the handler as well.
StopInv ==
    /\ pc["CHLD"] = "stop" => Halted(pid["CHLD"])
    /\ pc["main"] \in {"add", "set"} /\ pid["main"] \in Pids => ~ Reported(pid["main"])
    /\ \A i \in Slots : job_list[i].state = "ST" =>
          \/ Halted(job_list[i].pid)
          \/ pc["CHLD"] = "delete" /\ pid["CHLD"] = job_list[i].pid
          \/ pc["main"] = "set" /\ pid["main"] = job_list[i].pid
    /\ \A i \in Slots : job_list[i].pid # NoPid /\ Reported(job_list[i].pid) =>
          \/ job_list[i].state = "ST"
          \/ pc["CHLD"] = "stop" /\ pid["CHLD"] = job_list[i].pid

\* The process that eval waits for is the foreground job, or has ended or stopped.
EndedOrStopped(p) == proc[p].st \in {"free", "zombie", "stopped"}

WaitingFor ==
    /\ cmd \in {"FG", "fg"} /\ pc["main"] \in {"check", "suspend", "restore"} =>
          /\ pid["main"] \in Pids
          /\ \/ EndedOrStopped(pid["main"])
             \/ /\ pc["main"] # "restore"
                /\ \E i \in ForegroundSlots : job_list[i].pid = pid["main"]
    /\ pc["main"] = "list" => cmd \notin {"FG", "fg"}

-----------------------------------------------------------------------------
(***************************************************************************)
(* The steps, as far as these invariants can tell them apart.              *)
(***************************************************************************)

\* What the children, and whoever signals them, do to the process table.
ChildMoves ==
    \A p \in Pids :
        /\ proc'[p].st = "free" <=> proc[p].st = "free"
        /\ (proc[p].event => proc[p].st = "stopped") =>
           (proc'[p].event => proc'[p].st = "stopped")

ChildHalts ==
    \A p \in Pids : /\ Halted(p) => Halted(p)'
                    /\ Reported(p)' => Reported(p)

LEMMA SameMoves == ASSUME UNCHANGED proc PROVE ChildMoves /\ ChildHalts
  BY DEF ChildMoves, ChildHalts, Halted, Reported

LEMMA EnvironmentMoves ==
    ASSUME ShellTypeOK, Environment
    PROVE  ChildMoves /\ (ShellContinues => ChildHalts)
<1> USE DEF ChildMoves, ChildHalts, Halted, Reported
<1>1. ASSUME NEW p \in Pids, ChildSetup(p) \/ ChildExec(p)
      PROVE  ChildMoves /\ ChildHalts
  <2>1. PICK st \in {"grouped", "running", "subshell"} : proc' = [proc EXCEPT ![p].st = st]
    BY <1>1 DEF ChildSetup, ChildExec
  <2>2. proc[p].st \in {"forked", "grouped"}
    BY <1>1 DEF ChildSetup, ChildExec
  <2>3. \A q \in Pids : /\ q = p => proc'[q].st = st /\ proc'[q].event = proc[q].event
                        /\ q # p => proc'[q] = proc[q]
    BY <2>1, StateIs
  <2> QED
    BY <2>2, <2>3
<1>2. ASSUME NEW p \in Pids, proc[p].st \notin {"free", "zombie"}, proc' = Ended(p)
      PROVE  ChildMoves /\ ChildHalts
  BY <1>2, EndedIs DEF NoProcess
<1>3. ASSUME NEW p \in Pids, proc[p].st = "running", proc' = Stopped(p)
      PROVE  ChildMoves /\ ChildHalts
  <2>1. \A q \in Pids : /\ q = p => proc'[q].st = "stopped" /\ proc'[q].event = TRUE
                        /\ q # p => proc'[q] = proc[q]
    BY <1>3, StoppedIs
  <2> QED
    BY <1>3, <2>1
<1>4. ASSUME NEW p \in Pids, NEW s, TakeSignal(p, s)
      PROVE  ChildMoves /\ ChildHalts
  <2>1. CASE proc' = [proc EXCEPT ![p].sigs = @ \ {s}]
    <3>1. \A q \in Pids : /\ q = p => proc'[q].st = proc[q].st /\ proc'[q].event = proc[q].event
                          /\ q # p => proc'[q] = proc[q]
      BY <2>1, TakenIs
    <3> QED
      BY <3>1
  <2> QED
    BY <1>2, <1>3, <1>4, <2>1 DEF TakeSignal
<1>5. ASSUME NEW p \in Pids, ContinueByOthers(p)
      PROVE  ChildMoves /\ ~ ShellContinues
  <2>1. \A q \in Pids :
           /\ q # p => proc'[q] = proc[q]
           /\ q = p /\ Grouped(p) =>
                /\ proc'[q].st = IF proc[q].st = "stopped" THEN "running" ELSE proc[q].st
                /\ proc'[q].event = FALSE
    BY <1>5, ContinuedIs DEF ContinueByOthers
  <2>2. Grouped(p) /\ proc[p].st = "stopped" /\ "cont" \in Faults
    BY <1>5 DEF ContinueByOthers, Grouped
  <2> QED
    BY <2>1, <2>2 DEF ShellContinues
<1> QED
  BY <1>1, <1>2, <1>3, <1>4, <1>5, SameMoves
     DEF Environment, Child, Terminate, Alive, Stop, SendToShell

\* Steps that touch neither the list nor what eval and the SIGCHLD handler know.
Quiet ==
    /\ UNCHANGED <<list_vars, cmd, built_in_job>>
    /\ pid'["main"] = pid["main"]
    /\ pc'["main"] = pc["main"] \/ (pc["main"] = "suspend" /\ pc'["main"] = "check")
    /\ pc["CHLD"] \in {"delete", "stop"} \/ pc'["CHLD"] \in {"delete", "stop"} =>
          pc'["CHLD"] = pc["CHLD"] /\ pid'["CHLD"] = pid["CHLD"]
    /\ status' # "crashed" \/ UNCHANGED status
    /\ ChildMoves
    /\ ShellContinues => ChildHalts

LEMMA HandlerQuiet ==
    ASSUME ShellTypeOK, Control, NEW h \in Handlers, Deliver(h) \/ Handler(h)
    PROVE  Quiet \/ (h = "CHLD" /\ (Wait \/ DeleteJob \/ StopJob))
<1> USE DEF eval_vars, signal_vars
<1>1. /\ h \in Contexts /\ h # "main" /\ "main" \in Contexts /\ "CHLD" \in Contexts
      /\ "CHLD" \in Handlers
  BY DEF Contexts, Handlers
<1>2. CASE Deliver(h)
  <2>1. h \notin Active
    BY <1>2 DEF Deliver, Control, Masking
  <2>2. pc'["CHLD"] = IF h = "CHLD" THEN "entry" ELSE pc["CHLD"]
    BY <1>1, <1>2 DEF Deliver, ShellTypeOK
  <2>3. pc'["main"] = pc["main"] \/ (pc["main"] = "suspend" /\ pc'["main"] = "check")
    BY <1>1, <1>2 DEF Deliver, ShellTypeOK
  <2> QED
    BY <1>2, <2>1, <2>2, <2>3, SameMoves DEF Deliver, Quiet, Active
<1>3. ASSUME NEW l, Goto(h, l), l \notin {"delete", "stop"}, pc[h] \notin {"delete", "stop"},
             pid' = pid \/ \E p : pid' = [pid EXCEPT ![h] = p],
             UNCHANGED <<list_vars, cmd, built_in_job>>,
             ChildMoves /\ ChildHalts
      PROVE  Quiet
  <2>1. /\ pc'["main"] = pc["main"] /\ pid'["main"] = pid["main"]
        /\ h = "CHLD" => pc'["CHLD"] = l
        /\ h # "CHLD" => pc'["CHLD"] = pc["CHLD"] /\ pid'["CHLD"] = pid["CHLD"]
    BY <1>1, <1>3 DEF Goto, ShellTypeOK
  <2> QED
    BY <1>3, <2>1 DEF Quiet, Goto
<1>4. CASE HandlerBlock(h) \/ HandlerUnblock(h)
  BY <1>3, <1>4, SameMoves DEF HandlerBlock, HandlerUnblock, At
<1>5. CASE HandlerReturn(h)
  BY <1>3, <1>5, SameMoves DEF HandlerReturn, At
<1>6. CASE WaitNone /\ h = "CHLD"
  BY <1>3, <1>6, SameMoves DEF WaitNone, At
<1>7. CASE FindForeground(h)
  BY <1>3, <1>7, SameMoves DEF FindForeground, At
<1>8. CASE Forward(h)
  <2>1. \A q \in Pids : proc'[q].st = proc[q].st /\ proc'[q].event = proc[q].event
    BY <1>8, KilledIs DEF Forward
  <2>2. ChildMoves /\ ChildHalts
    BY <2>1 DEF ChildMoves, ChildHalts, Halted, Reported
  <2> QED
    BY <1>3, <1>8, <2>2 DEF Forward, At
<1> QED
  BY <1>2, <1>4, <1>5, <1>6, <1>7, <1>8 DEF Handler

\* Every step is one of eval's, an update by the SIGCHLD handler, or quiet.
LEMMA StepShape ==
    ASSUME ShellInv, [Next]_vars
    PROVE  Main \/ Wait \/ DeleteJob \/ StopJob \/ Quiet
<1>1. ASSUME UNCHANGED <<list_vars, cmd, built_in_job, pc, pid>>,
             status' # "crashed" \/ UNCHANGED status,
             ChildMoves, ShellContinues => ChildHalts
      PROVE  Quiet
  BY <1>1 DEF Quiet
<1>2. CASE Environment
  <2>1. UNCHANGED <<list_vars, cmd, built_in_job, pc, pid, status>>
    BY <1>2 DEF Environment, Child, ChildSetup, ChildExec, TakeSignal, Terminate, Stop,
       ContinueByOthers, SendToShell, EnvUnchanged, eval_vars
  <2> QED
    BY <1>1, <1>2, <2>1, EnvironmentMoves DEF ShellInv
<1>3. CASE DeliverQuit \/ Over \/ UNCHANGED vars
  BY <1>1, <1>3, SameMoves DEF DeliverQuit, End, Over, vars, eval_vars, list_vars
<1> QED
  BY <1>2, <1>3, HandlerQuiet DEF Next, ShellInv

\* While main runs, no handler is active; while the SIGCHLD handler updates the
\* list, eval waits or is not there.
LEMMA MainAlone ==
    ASSUME ShellInv, Main
    PROVE  /\ running = "main"
           /\ \A h \in Handlers : pc[h] = "idle"
           /\ \A h \in Handlers : pc'[h] = "idle"
<1>1. running = "main"
  BY DEF Main, ReadProgram, ReadJobs, ReadBgFg, ReadCommand, Quit, Fork, ForkFails,
         AddJob, CheckForeground, ListJobs, LookupJid, LookupPid, ContinueJob,
         SetState, EvalReturn, At
<1>2. \A h \in Handlers : pc[h] = "idle"
  BY <1>1, NoHandlerActive DEF ShellInv, Active, Control
<1>3. pc' = pc \/ \E l : pc' = [pc EXCEPT !["main"] = l]
  BY DEF Main, ReadProgram, ReadJobs, ReadBgFg, ReadCommand, Quit, Fork, ForkFails,
         AddJob, CheckForeground, ListJobs, LookupJid, LookupPid, ContinueJob,
         SetState, EvalReturn, Goto, End
<1>4. \A h \in Handlers : h \in Contexts /\ h # "main"
  BY DEF Contexts, Handlers
<1> QED
  BY <1>1, <1>2, <1>3, <1>4 DEF ShellInv, ShellTypeOK

LEMMA WaiterAlone ==
    ASSUME ShellInv, running = "CHLD", pc["CHLD"] \in {"wait", "delete", "stop"}
    PROVE  pc["main"] \notin {"add", "kill", "set", "restore"}
<1>1. Critical("CHLD")
  BY DEF Critical, HandlerCritical
<1>2. Critical("main") => pc["main"] = "check"
  BY DEF ShellInv, Control, Masking
<1> QED
  BY <1>2 DEF Critical, MainCritical

\* The updates, slot by slot.
LEMMA AddJobSlot ==
    ASSUME ListInv, NEW p \in Pids, NEW state, add_job(p, state)
    PROVE  \/ FreeSlots = {} /\ UNCHANGED list_vars
           \/ \E k \in FreeSlots : \A i \in Slots :
                /\ i = k => job_list'[i].pid = p /\ job_list'[i].state = state
                /\ i # k => job_list'[i] = job_list[i]
<1>1. CASE FreeSlots # {}
  <2>1. PICK k \in FreeSlots : job_list' = [job_list EXCEPT ![k] =
                                  [pid |-> p, jid |-> nextjid, state |-> state]]
    BY <1>1, MinExists DEF add_job, FreeSlots, Slots
  <2> QED
    BY <2>1 DEF ListInv, ListTypeOK, FreeSlots
<1> QED
  BY <1>1 DEF add_job

LEMMA DeleteJobSlot ==
    ASSUME ListInv, NEW p \in Pids, delete_job(p)
    PROVE  \A i \in Slots :
              /\ job_list[i].pid = p => job_list'[i] = ClearedJob
              /\ job_list[i].pid # p => job_list'[i] = job_list[i]
<1> DEFINE k == find_job_with_pid(p)
<1>1. CASE k = NULL
  <2>1. p \notin Listed
    BY <1>1, FindPid DEF ListInv
  <2> QED
    BY <1>1, <2>1, PidsAssumption DEF delete_job, list_vars, Listed
<1>2. CASE k # NULL
  <2>1. k \in Slots /\ job_list[k].pid = p
    BY <1>2, FindPid DEF ListInv
  <2>2. job_list' = [job_list EXCEPT ![k] = ClearedJob]
    BY <1>2 DEF delete_job
  <2> HIDE DEF k
  <2> QED
    BY <2>1, <2>2, PidsAssumption DEF ListInv, ListTypeOK, PidsUnique
<1> QED
  BY <1>1, <1>2

LEMMA SetStateSlot ==
    ASSUME ListInv, NEW jobp \in Slots, NEW state, set_state_of_job(jobp, state)
    PROVE  \A i \in Slots :
              /\ job_list'[i].pid = job_list[i].pid
              /\ job_list'[i].state = IF i = jobp THEN state ELSE job_list[i].state
BY DEF set_state_of_job, ListInv, ListTypeOK, job_t

\* With room for everybody, a process that is not listed finds a free slot.
LEMMA RoomForChild ==
    ASSUME ListInv, Room, NEW p \in Pids \ Listed
    PROVE  FreeSlots # {}
<1>1. SUFFICES ASSUME FreeSlots = {} PROVE FALSE
  OBVIOUS
<1>2. IsFiniteSet(Slots) /\ Cardinality(Slots) = MaxJobs
  BY FS_Interval, MaxJobsAssumption DEF Slots
<1>3. /\ IsFiniteSet(Pids \ {p})
      /\ Cardinality(Pids \ {p}) = Cardinality(Pids) - 1
  BY FS_RemoveElement DEF Room
<1> DEFINE pidOf == [i \in Slots |-> job_list[i].pid]
<1>4. \A i \in Slots : pidOf[i] \in Pids \ {p}
  BY <1>1, PidsAssumption DEF FreeSlots, Listed, ListInv, ListTypeOK, job_t
<1>5. pidOf \in Injection(Slots, Pids \ {p})
  BY <1>4, PidsAssumption DEF Injection, IsInjective, ListInv, PidsUnique
<1>6. Cardinality(Slots) <= Cardinality(Pids \ {p})
  <2> HIDE DEF pidOf
  <2> QED
    BY <1>2, <1>3, <1>5, FS_Injection
<1>7. Cardinality(Pids) \in Nat
  BY FS_CardinalityType DEF Room
<1> QED
  BY <1>2, <1>3, <1>6, <1>7, MaxJobsAssumption DEF Room

-----------------------------------------------------------------------------
(***************************************************************************)
(* What waitpid told.                                                      *)
(***************************************************************************)

\* The process that SIGCONT reaches.
LEMMA ContinueJobIs ==
    ASSUME ShellTypeOK, ContinueJob
    PROVE  \A q \in Pids :
              /\ proc'[q].st = "free" <=> proc[q].st = "free"
              /\ proc'[q] = proc[q] \/ (q = pid["main"] /\ proc'[q].st # "stopped"
                                                        /\ ~ proc'[q].event)
              /\ q = pid["main"] /\ (proc[q].event => proc[q].st = "stopped") =>
                    proc'[q].st # "stopped" /\ ~ proc'[q].event
<1> SUFFICES ASSUME NEW q \in Pids
             PROVE  /\ proc'[q].st = "free" <=> proc[q].st = "free"
                    /\ proc'[q] = proc[q] \/ (q = pid["main"] /\ proc'[q].st # "stopped"
                                                              /\ ~ proc'[q].event)
                    /\ q = pid["main"] /\ (proc[q].event => proc[q].st = "stopped") =>
                          proc'[q].st # "stopped" /\ ~ proc'[q].event
  OBVIOUS
<1>1. CASE q = pid["main"] /\ Grouped(pid["main"])
  <2>1. /\ proc'[q].st = IF proc[q].st = "stopped" THEN "running" ELSE proc[q].st
        /\ proc'[q].event = FALSE
    BY <1>1, ContinuedIs DEF ContinueJob
  <2> QED
    BY <1>1, <2>1 DEF Grouped
<1>2. CASE q # pid["main"] \/ ~ Grouped(pid["main"])
  <2>1. proc'[q] = proc[q]
    BY <1>2, ContinuedIs DEF ContinueJob
  <2> QED
    BY <1>2, <2>1 DEF Grouped
<1> QED
  BY <1>1, <1>2

\* What a process is when waitpid has returned it.
LEMMA WaitIs ==
    ASSUME ShellTypeOK, Wait
    PROVE  \E p \in Waitable :
              /\ pid' = [pid EXCEPT !["CHLD"] = p]
              /\ pid'["CHLD"] = p /\ pid'["main"] = pid["main"]
              /\ pc'["main"] = pc["main"]
              /\ \A q \in Pids : q # p => proc'[q] = proc[q]
              /\ \/ /\ proc[p].st = "zombie" /\ proc'[p] = NoProcess
                    /\ pc'["CHLD"] = "delete"
                 \/ /\ proc[p].st # "zombie" /\ proc'[p].st = proc[p].st /\ ~ proc'[p].event
                    /\ pc'["CHLD"] = "stop"
<1>1. PICK p \in Waitable :
         /\ pid' = [pid EXCEPT !["CHLD"] = p]
         /\ \/ /\ proc[p].st = "zombie" /\ proc' = [proc EXCEPT ![p] = NoProcess]
               /\ Goto("CHLD", "delete")
            \/ /\ proc[p].st # "zombie" /\ proc' = [proc EXCEPT ![p].event = FALSE]
               /\ Goto("CHLD", "stop")
  BY DEF Wait
<1>2. p \in Pids /\ "CHLD" \in Contexts /\ "main" \in Contexts
  BY DEF Waitable, Contexts, Handlers
<1>3. CASE proc[p].st = "zombie" /\ proc' = [proc EXCEPT ![p] = NoProcess]
           /\ Goto("CHLD", "delete")
  BY <1>1, <1>2, <1>3 DEF Goto, ShellTypeOK
<1>4. CASE proc[p].st # "zombie" /\ proc' = [proc EXCEPT ![p].event = FALSE]
           /\ Goto("CHLD", "stop")
  <2>1. \A q \in Pids : /\ q = p => proc'[q].st = proc[q].st /\ proc'[q].event = FALSE
                        /\ q # p => proc'[q] = proc[q]
    BY <1>2, <1>4, ReportedIs
  <2> QED
    BY <1>1, <1>2, <1>4, <2>1 DEF Goto, ShellTypeOK
<1> QED
  BY <1>1, <1>3, <1>4

\* A new process.
LEMMA ForkIs ==
    ASSUME ShellTypeOK, Fork
    PROVE  \E p \in Pids :
              /\ proc[p].st = "free" /\ pid'["main"] = p /\ pc'["main"] = "add"
              /\ proc'[p].st = "forked" /\ ~ proc'[p].event
              /\ \A q \in Pids : q # p => proc'[q] = proc[q]
<1>1. PICK p \in Pids :
         /\ proc[p].st = "free"
         /\ pid' = [pid EXCEPT !["main"] = p]
         /\ proc' = [proc EXCEPT ![p] = [NoProcess EXCEPT !.st = "forked",
                                                           !.mask = temp["main"]]]
  BY DEF Fork
<1> DEFINE r == [NoProcess EXCEPT !.st = "forked", !.mask = temp["main"]]
<1>2. r.st = "forked" /\ r.event = FALSE
  BY DEF NoProcess
<1>3. proc' = [proc EXCEPT ![p] = r]
  BY <1>1
<1> HIDE DEF r
<1>4. pid'["main"] = p /\ pc'["main"] = "add"
  BY <1>1 DEF Fork, Goto, ShellTypeOK, Contexts
<1> QED
  BY <1>1, <1>2, <1>3, <1>4 DEF ShellTypeOK

LEMMA MainProcs ==
    ASSUME Main PROVE UNCHANGED proc \/ Fork \/ ContinueJob
BY DEF Main, ReadProgram, ReadJobs, ReadBgFg, ReadCommand, Quit, ForkFails,
       AddJob, CheckForeground, ListJobs, LookupJid, LookupPid, SetState, EvalReturn

\* The update that the SIGCHLD handler makes, and where it goes.
LEMMA UpdateGoes ==
    ASSUME ShellTypeOK, DeleteJob \/ StopJob
    PROVE  /\ UNCHANGED <<proc, pid, cmd, built_in_job>> /\ pc'["main"] = pc["main"]
           /\ \/ pc'["CHLD"] = "wait" /\ status' = status
              \/ status' = "crashed" /\ UNCHANGED <<pc, list_vars>>
BY DEF DeleteJob, StopJob, Goto, End, eval_vars, ShellTypeOK, Contexts, Handlers

LEMMA WaitInit == Init => WaitInv
  BY DEF Init, WaitInv, NoProcess, Contexts, Handlers

LEMMA WaitStep == ShellInv /\ WaitInv /\ [Next]_vars => WaitInv'
<1> SUFFICES ASSUME ShellInv, WaitInv, [Next]_vars PROVE WaitInv'
  OBVIOUS
<1> USE DEF ShellInv
<1>1. CASE Quiet
  <2>1. pc["CHLD"] \in {"delete", "stop"} => pid["CHLD"] \in Pids
    BY DEF Jobs, HandlerJobs
  <2> QED
    BY <1>1, <2>1 DEF Quiet, ChildMoves, WaitInv
<1>2. CASE Main
  <2>1. \A p \in Pids : proc'[p].event => proc'[p].st = "stopped"
    BY <1>2, MainProcs, ForkIs, ContinueJobIs DEF WaitInv
  <2> QED
    BY <1>2, <2>1, MainAlone DEF WaitInv, Handlers
<1>3. CASE Wait
  BY <1>3, WaitIs DEF WaitInv, Waitable, NoProcess
<1>4. CASE DeleteJob \/ StopJob
  BY <1>4, UpdateGoes DEF WaitInv
<1> QED
  BY <1>1, <1>2, <1>3, <1>4, StepShape

\* A process that waitpid has reaped is gone until its job is deleted, and one
\* that was reported as stopped is still there.
THEOREM ShellWaits == Spec => []WaitInv
  BY WaitInit, WaitStep, ShellInvariant, PTL DEF Spec

-----------------------------------------------------------------------------
(***************************************************************************)
(* Children and jobs.                                                      *)
(***************************************************************************)

\* What main does to the list, besides adding a job and changing a state.
LEMMA MainLists ==
    ASSUME Main PROVE UNCHANGED list_vars \/ AddJob \/ SetState
BY DEF Main, ReadProgram, ReadJobs, ReadBgFg, ReadCommand, Quit, Fork, ForkFails,
       CheckForeground, ListJobs, LookupJid, LookupPid, ContinueJob, EvalReturn, eval_vars

\* eval leaves add only through add_job, and comes there only through fork.
LEMMA AddLabel ==
    ASSUME ShellTypeOK, Main, pc["main"] = "add" \/ pc'["main"] = "add"
    PROVE  AddJob \/ Fork
BY DEF Main, ReadProgram, ReadJobs, ReadBgFg, ReadCommand, Quit, ForkFails,
       CheckForeground, ListJobs, LookupJid, LookupPid, ContinueJob, SetState, EvalReturn,
       Goto, End, At, ShellTypeOK, Contexts

LEMMA ChildrenInit == Init => ChildrenListed
  BY DEF Init, ChildrenListed, NoProcess

LEMMA ChildrenStep ==
    ASSUME Room PROVE ShellInv /\ WaitInv /\ ChildrenListed /\ [Next]_vars => ChildrenListed'
<1> SUFFICES ASSUME ShellInv, WaitInv, ChildrenListed, [Next]_vars PROVE ChildrenListed'
  OBVIOUS
<1> USE DEF ShellInv
<1>1. CASE Quiet
  <2>1. Listed' = Listed
    BY <1>1, ListSame DEF Quiet
  <2> QED
    BY <1>1, <2>1 DEF Quiet, ChildMoves, ChildrenListed
<1>2. CASE Fork
  <2>1. Listed' = Listed /\ pc["main"] # "add"
    BY <1>2, ListSame DEF Fork, At
  <2> QED
    BY <1>2, <2>1, ForkIs DEF ChildrenListed
<1>3. CASE AddJob
  <2> DEFINE p == pid["main"]
  <2>1. p \in Pids \ Listed /\ add_job(p, cmd)
    BY <1>3 DEF AddJob, At, Jobs, MainJobs
  <2>2. PICK k \in FreeSlots : \A i \in Slots :
           /\ i = k => job_list'[i].pid = p
           /\ i # k => job_list'[i] = job_list[i]
    BY <2>1, RoomForChild, AddJobSlot
  <2>3. k \in Slots /\ job_list[k].pid = NoPid
    BY DEF FreeSlots
  <2>4. Listed \union {p} \subseteq Listed'
    BY <2>1, <2>2, <2>3, PidsAssumption DEF Listed
  <2> QED
    BY <1>3, <2>4 DEF AddJob, ChildrenListed
<1>4. CASE Main /\ ~ Fork /\ ~ AddJob
  <2>1. pc["main"] # "add" /\ pc'["main"] # "add"
    BY <1>4, AddLabel
  <2>2. Listed' = Listed
    <3>1. CASE SetState /\ UNCHANGED list_vars
      BY <3>1, ListSame
    <3>2. CASE SetState /\ ~ UNCHANGED list_vars
      <4>1. /\ built_in_job \in Slots
            /\ set_state_of_job(built_in_job, IF cmd = "bg" THEN "BG" ELSE "FG")
        BY <3>2 DEF SetState, ShellTypeOK
      <4> QED
        BY <4>1, SetStateLists
    <3> QED
      BY <1>4, <3>1, <3>2, MainLists, ListSame
  <2>3. \A p \in Pids : proc'[p].st = "free" <=> proc[p].st = "free"
    BY <1>4, MainProcs, ContinueJobIs
  <2> QED
    BY <2>1, <2>2, <2>3 DEF ChildrenListed
<1>5. CASE Wait
  <2>1. Listed' = Listed
    BY <1>5, ListSame DEF Wait
  <2>2. \A q \in Pids : proc'[q].st # "free" => proc[q].st # "free"
    BY <1>5, WaitIs DEF WaitInv, Waitable, NoProcess
  <2> QED
    BY <1>5, <2>1, <2>2, WaitIs DEF ChildrenListed
<1>6. CASE DeleteJob
  <2> DEFINE p == pid["CHLD"]
  <2>1. p \in Pids /\ delete_job(p) /\ proc[p].st = "free"
    BY <1>6 DEF DeleteJob, At, Jobs, HandlerJobs, WaitInv
  <2>2. \A i \in Slots : job_list[i].pid # p => job_list'[i] = job_list[i]
    BY <2>1, DeleteJobSlot
  <2>3. Listed \ {p} \subseteq Listed'
    BY <2>2 DEF Listed
  <2> QED
    BY <1>6, <2>1, <2>3, UpdateGoes DEF ChildrenListed
<1>7. CASE StopJob
  <2>1. Listed' = Listed
    <3>1. CASE UNCHANGED list_vars
      BY <3>1, ListSame
    <3>2. CASE ~ UNCHANGED list_vars
      <4> DEFINE jobp == find_job_with_pid(pid["CHLD"])
      <4>1. jobp # NULL /\ set_state_of_job(jobp, "ST")
        BY <1>7, <3>2 DEF StopJob
      <4>2. pid["CHLD"] \in Pids
        BY <1>7 DEF StopJob, At, Jobs, HandlerJobs
      <4>3. jobp \in Slots
        BY <4>1, <4>2, FindPid DEF ListInv
      <4> HIDE DEF jobp
      <4> QED
        BY <4>1, <4>3, SetStateLists
    <3> QED
      BY <3>1, <3>2
  <2> QED
    BY <1>7, <2>1, UpdateGoes DEF ChildrenListed
<1> QED
  BY <1>1, <1>2, <1>3, <1>4, <1>5, <1>6, <1>7, StepShape

\* The list is that of the children that were not reaped, except for the one that
\* is about to be added or deleted, if there is room for every process.
THEOREM ShellListsChildren == ASSUME Room PROVE Spec => []ListIsChildren
<1>1. ShellInv /\ WaitInv /\ ChildrenListed => ListIsChildren
  BY DEF ShellInv, Jobs, ListedExist, ChildrenListed, ListIsChildren
<1>2. ShellInv /\ WaitInv /\ ChildrenListed /\ [Next]_vars => ChildrenListed'
  BY ChildrenStep
<1> QED
  BY <1>1, <1>2, ChildrenInit, ShellWaits, ShellInvariant, PTL DEF Spec

-----------------------------------------------------------------------------
(***************************************************************************)
(* Job pointers.                                                           *)
(***************************************************************************)

\* A context of main's that is not at kill or set gets there by a lookup alone.
LEMMA KillLabel ==
    ASSUME ShellTypeOK, Main, pc'["main"] \in {"kill", "set"}
    PROVE  LookupJid \/ LookupPid \/ ContinueJob \/ (SetState /\ End("crashed"))
BY DEF Main, ReadProgram, ReadJobs, ReadBgFg, ReadCommand, Quit, Fork, ForkFails, AddJob,
       CheckForeground, ListJobs, SetState, EvalReturn, Goto, End, At, ShellTypeOK, Contexts

\* The pointer and the pid that eval looks up.
LEMMA LookupIs ==
    ASSUME ShellInv, LookupJid \/ LookupPid
    PROVE  \/ status' = "crashed" /\ ~ JobsExist /\ UNCHANGED <<pc, built_in_job, pid>>
           \/ /\ status' = status
              /\ pc'["main"] = "kill" /\ pid'["main"] \in Pids
              /\ built_in_job' # NULL =>
                    built_in_job' \in Slots /\ job_list[built_in_job'].pid = pid'["main"]
              /\ JobsExist => built_in_job' # NULL
<1> USE DEF ShellInv
<1>1. ASSUME NEW l, Goto("main", l)
      PROVE  pc'["main"] = l /\ status' = status
  BY <1>1 DEF Goto, ShellTypeOK, Contexts
<1>2. CASE LookupPid
  <2>1. PICK p \in Pids :
          /\ p \in Listed \/ "badjob" \in Faults
          /\ built_in_job' = find_job_with_pid(p)
          /\ pid' = [pid EXCEPT !["main"] = p]
    BY <1>2 DEF LookupPid
  <2>2. pid'["main"] = p
    BY <2>1 DEF ShellTypeOK, Contexts
  <2> QED
    BY <1>1, <1>2, <2>1, <2>2, FindPid DEF LookupPid, JobsExist, ListInv
<1>3. CASE LookupJid
  <2>1. PICK jid \in {job_list[i].jid : i \in Slots} \union {0} :
          LET jobp == find_job_with_jid(jid)
          IN  IF jobp = NULL
              THEN "badjob" \in Faults /\ End("crashed") /\ UNCHANGED <<built_in_job, pid>>
              ELSE /\ Goto("main", "kill")
                   /\ built_in_job' = jobp
                   /\ pid' = [pid EXCEPT !["main"] = job_list[jobp].pid]
    BY <1>3 DEF LookupJid
  <2>2. CASE find_job_with_jid(jid) = NULL
    BY <2>1, <2>2 DEF End, JobsExist
  <2>3. CASE find_job_with_jid(jid) # NULL
    <3> DEFINE jobp == find_job_with_jid(jid)
    <3> DEFINE matches == {i \in Slots : jid >= 1 /\ job_list[i].jid = jid}
    <3>1. jobp \in matches
      BY <2>3, FirstOf DEF find_job_with_jid
    <3>2. jobp \in Slots /\ jid >= 1 /\ job_list[jobp].jid = jid
      BY <3>1
    <3>3. job_list[jobp].jid # 0
      BY <3>2
    <3>4. job_list[jobp].pid \in Pids
      BY <3>2, <3>3 DEF ListInv, SlotsCoherent, ListTypeOK, job_t
    <3> HIDE DEF jobp
    <3>5. Goto("main", "kill") /\ built_in_job' = jobp
          /\ pid' = [pid EXCEPT !["main"] = job_list[jobp].pid]
      BY <2>1, <2>3 DEF jobp
    <3>6. pid'["main"] = job_list[jobp].pid /\ jobp # NULL
      BY <2>3, <3>5 DEF ShellTypeOK, Contexts, jobp
    <3> QED
      BY <1>1, <3>2, <3>4, <3>5, <3>6
  <2> QED
    BY <2>2, <2>3
<1> QED
  BY <1>2, <1>3

PointerInv ==
    /\ JobOfPid
    /\ pc["main"] \in {"kill", "set"} => pid["main"] \in Pids

LEMMA PointerInit == Init => PointerInv
  BY DEF Init, PointerInv, JobOfPid, Contexts, Handlers

LEMMA PointerStep == ShellInv /\ PointerInv /\ [Next]_vars => PointerInv'
<1> SUFFICES ASSUME ShellInv, PointerInv, [Next]_vars PROVE PointerInv'
  OBVIOUS
<1> USE DEF ShellInv
<1>1. CASE Quiet
  BY <1>1 DEF Quiet, PointerInv, JobOfPid, list_vars
<1>2. CASE Wait \/ DeleteJob \/ StopJob
  <2>1. pc["main"] \notin {"kill", "set"}
    BY <1>2, WaiterAlone DEF Wait, DeleteJob, StopJob, At
  <2> QED
    BY <1>2, <2>1, WaitIs, UpdateGoes DEF PointerInv, JobOfPid
<1>3. CASE LookupJid \/ LookupPid
  <2>1. UNCHANGED list_vars
    BY <1>3 DEF LookupJid, LookupPid
  <2> QED
    BY <1>3, <2>1, LookupIs DEF PointerInv, JobOfPid, list_vars
<1>4. CASE ContinueJob
  BY <1>4 DEF ContinueJob, At, PointerInv, JobOfPid, list_vars, eval_vars
<1>5. CASE SetState /\ End("crashed")
  <2>1. UNCHANGED list_vars \/ built_in_job # NULL
    BY <1>5 DEF SetState
  <2>2. built_in_job # NULL => pc'["main"] # pc["main"]
    BY <1>5 DEF SetState, Goto, At, ShellTypeOK, Contexts
  <2> QED
    BY <1>5, <2>1, <2>2 DEF SetState, End, PointerInv, JobOfPid, list_vars, eval_vars
<1>6. CASE Main /\ ~ LookupJid /\ ~ LookupPid /\ ~ ContinueJob /\ ~ (SetState /\ End("crashed"))
  BY <1>6, KillLabel DEF PointerInv, JobOfPid
<1> QED
  BY <1>1, <1>2, <1>3, <1>4, <1>5, <1>6, StepShape

\* fg and bg signal the process whose job they change.
THEOREM ShellPointers == Spec => []PointerInv
  BY PointerInit, PointerStep, ShellInvariant, PTL DEF Spec

NullInv == JobFound /\ NoNullPointer

LEMMA NullInit == Init => NullInv
  BY DEF Init, NullInv, JobFound, NoNullPointer, Contexts, Handlers

LEMMA NullStep ==
    ASSUME Room, JobsExist
    PROVE  ShellInv /\ WaitInv /\ ChildrenListed /\ NullInv /\ [Next]_vars => NullInv'
<1> SUFFICES ASSUME ShellInv, WaitInv, ChildrenListed, NullInv, [Next]_vars PROVE NullInv'
  OBVIOUS
<1> USE DEF ShellInv, NullInv, JobFound, NoNullPointer
<1>1. CASE Quiet
  BY <1>1 DEF Quiet
<1>2. CASE Wait
  BY <1>2, WaitIs DEF Wait, Goto, eval_vars
<1>3. CASE DeleteJob
  BY <1>3, UpdateGoes DEF DeleteJob, Goto
<1>4. CASE StopJob
  <2>1. pid["CHLD"] \in Pids /\ proc[pid["CHLD"]].st # "free"
    BY <1>4 DEF StopJob, At, Jobs, HandlerJobs, WaitInv
  <2>2. pc["main"] # "add"
    BY <1>4, WaiterAlone DEF StopJob, At
  <2>3. pid["CHLD"] \in Listed
    BY <2>1, <2>2 DEF ChildrenListed
  <2>4. find_job_with_pid(pid["CHLD"]) # NULL
    BY <2>1, <2>3, FindPid DEF ListInv
  <2> QED
    BY <1>4, <2>4, UpdateGoes DEF StopJob, Goto
<1>5. CASE LookupJid \/ LookupPid
  BY <1>5, LookupIs
<1>6. CASE ContinueJob
  BY <1>6 DEF ContinueJob, At, Goto, eval_vars
<1>7. CASE SetState
  <2>1. built_in_job # NULL
    BY <1>7 DEF SetState, At
  <2> QED
    BY <1>7, <2>1 DEF SetState, Goto, eval_vars, ShellTypeOK, Contexts
<1>8. CASE Main /\ ~ LookupJid /\ ~ LookupPid /\ ~ ContinueJob /\ ~ SetState
  <2>1. pc'["main"] \notin {"kill", "set"}
    BY <1>8, KillLabel
  <2>2. status' # "crashed"
    BY <1>8 DEF Main, ReadProgram, ReadJobs, ReadBgFg, ReadCommand, Quit, Fork, ForkFails,
       AddJob, CheckForeground, ListJobs, EvalReturn, Goto, End
  <2> QED
    BY <2>1, <2>2
<1> QED
  BY <1>1, <1>2, <1>3, <1>4, <1>5, <1>6, <1>7, <1>8, StepShape

\* No null job pointer is followed, if there is room for every process and the
\* user names jobs that exist.
THEOREM ShellFollowsNoNull == ASSUME Room, JobsExist PROVE Spec => []NoNullPointer
<1>1. ShellInv /\ WaitInv /\ ChildrenListed /\ NullInv /\ [Next]_vars => NullInv'
  BY NullStep
<1>2. ShellInv /\ WaitInv /\ ChildrenListed /\ [Next]_vars => ChildrenListed'
  BY ChildrenStep
<1>3. NullInv => NoNullPointer
  BY DEF NullInv
<1> QED
  BY <1>1, <1>2, <1>3, NullInit, ChildrenInit, ShellWaits, ShellInvariant, PTL DEF Spec

-----------------------------------------------------------------------------
(***************************************************************************)
(* Stopped jobs.                                                           *)
(***************************************************************************)

LEMMA SlotPids ==
    ASSUME ListInv, NEW i \in Slots,
           job_list[i].pid # NoPid \/ job_list[i].state \in {"FG", "BG", "ST"}
    PROVE  job_list[i].pid \in Pids
BY DEF ListInv, SlotsCoherent, ListTypeOK, job_t

LEMMA PlainMain ==
    ASSUME ShellTypeOK, Main, ~ Fork, ~ AddJob, ~ ContinueJob, ~ SetState
    PROVE  /\ UNCHANGED <<list_vars, proc>>
           /\ pc["main"] \notin {"add", "set"} /\ pc'["main"] \notin {"add", "set"}
BY DEF Main, ReadProgram, ReadJobs, ReadBgFg, ReadCommand, Quit, ForkFails,
       CheckForeground, ListJobs, LookupJid, LookupPid, EvalReturn, eval_vars,
       Goto, End, At, ShellTypeOK, Contexts

LEMMA StopInit == Init => StopInv
<1>1. ASSUME Init PROVE \A i \in Slots : job_list[i] = ClearedJob
  BY <1>1 DEF Init, init_job_list
<1> QED
  BY <1>1 DEF Init, StopInv, ClearedJob, NoProcess, Contexts, Handlers, Reported

\* Main's steps: the SIGCHLD handler is not active.
LEMMA MainStops ==
    ASSUME ShellInv, WaitInv, PointerInv, StopInv, Main
    PROVE  StopInv'
<1> USE DEF ShellInv, Halted, Reported
<1>1. pc["CHLD"] = "idle" /\ pc'["CHLD"] = "idle"
  BY MainAlone DEF Handlers
<1>2. \A i \in Slots : job_list[i].pid \in Pids \union {NoPid}
  BY DEF ListInv, ListTypeOK, job_t
<1>3. CASE Fork
  <2>1. PICK p \in Pids :
           /\ proc[p].st = "free" /\ pid'["main"] = p /\ pc'["main"] = "add"
           /\ proc'[p].st = "forked"
           /\ \A q \in Pids : q # p => proc'[q] = proc[q]
    BY <1>3, ForkIs
  <2>2. p \notin Listed
    BY <1>1, <2>1 DEF Jobs, ListedExist
  <2>3. \A i \in Slots : job_list[i].pid # NoPid =>
           job_list[i].pid # p /\ proc'[job_list[i].pid] = proc[job_list[i].pid]
    BY <1>2, <2>1, <2>2 DEF Listed
  <2>4. UNCHANGED job_list /\ pc["main"] = "fork"
    BY <1>3 DEF Fork, At, list_vars
  <2>5. \A i \in Slots : job_list[i].state = "ST" => job_list[i].pid # NoPid
    BY DEF ListInv, SlotsCoherent
  <2> QED
    BY <1>1, <2>1, <2>3, <2>4, <2>5 DEF StopInv
<1>4. CASE AddJob
  <2> DEFINE p == pid["main"]
  <2>1. p \in Pids /\ add_job(p, cmd) /\ cmd \in {"FG", "BG"} /\ pc["main"] = "add"
    BY <1>4 DEF AddJob, At, Jobs, MainJobs
  <2>2. \A i \in Slots :
           \/ job_list'[i].pid = p /\ job_list'[i].state \in {"FG", "BG"}
           \/ job_list'[i] = job_list[i]
    BY <2>1, AddJobSlot DEF list_vars
  <2>3. ~ Reported(p)
    BY <2>1 DEF StopInv
  <2>4. UNCHANGED <<proc, pid>> /\ pc'["main"] \in {"restore", "check"}
    BY <1>4 DEF AddJob, Goto, ShellTypeOK, Contexts
  <2> QED
    BY <1>1, <2>1, <2>2, <2>3, <2>4 DEF StopInv
<1>5. CASE ContinueJob
  <2> DEFINE p == pid["main"]
  <2>1. /\ UNCHANGED <<job_list, pid>> /\ pc["main"] = "kill" /\ pc'["main"] = "set"
        /\ p \in Pids
    BY <1>5 DEF ContinueJob, At, Goto, list_vars, PointerInv, ShellTypeOK, Contexts
  <2>2. /\ proc'[p].st # "stopped"
        /\ \A q \in Pids : q # p => proc'[q] = proc[q]
    BY <1>5, <2>1, ContinueJobIs DEF WaitInv
  <2>3. \A i \in Slots : job_list[i].state = "ST" => job_list[i].pid \in Pids
    BY SlotPids
  <2> QED
    BY <1>1, <1>2, <2>1, <2>2, <2>3 DEF StopInv
<1>6. CASE SetState
  <2>1. CASE built_in_job = NULL
    <3>1. UNCHANGED <<job_list, proc, pc, pid>>
      BY <1>6, <2>1 DEF SetState, End, list_vars
    <3> QED
      BY <3>1 DEF StopInv
  <2>2. CASE built_in_job # NULL
    <3> DEFINE k == built_in_job
    <3>1. PICK state \in {"FG", "BG"} : set_state_of_job(k, state)
      BY <1>6, <2>2 DEF SetState
    <3>2. /\ k \in Slots /\ UNCHANGED <<proc, pid>> /\ pc["main"] = "set"
          /\ pc'["main"] \in {"restore", "check"}
      BY <1>6, <2>2 DEF SetState, At, Goto, ShellTypeOK, Contexts
    <3>3. job_list[k].pid = pid["main"] /\ pid["main"] \in Pids /\ ~ Reported(pid["main"])
      BY <2>2, <3>2 DEF PointerInv, JobOfPid, StopInv
    <3>4. \A i \in Slots : /\ job_list'[i].pid = job_list[i].pid
                           /\ job_list'[i].state = IF i = k THEN state ELSE job_list[i].state
      BY <3>1, <3>2, SetStateSlot
    <3>5. \A i \in Slots : job_list[i].pid = pid["main"] => i = k
      BY <3>2, <3>3, PidsAssumption DEF ListInv, PidsUnique
    <3> QED
      BY <1>1, <3>2, <3>3, <3>4, <3>5 DEF StopInv
  <2> QED
    BY <2>1, <2>2
<1>7. CASE ~ Fork /\ ~ AddJob /\ ~ ContinueJob /\ ~ SetState
  <2>1. /\ UNCHANGED <<list_vars, proc>>
        /\ pc["main"] \notin {"add", "set"} /\ pc'["main"] \notin {"add", "set"}
    BY <1>7, PlainMain
  <2> QED
    BY <1>1, <2>1 DEF StopInv, list_vars
<1> QED
  BY <1>3, <1>4, <1>5, <1>6, <1>7

\* The SIGCHLD handler's steps: main waits or is not in eval.
LEMMA HandlerStops ==
    ASSUME ShellInv, WaitInv, StopInv, Wait \/ DeleteJob \/ StopJob
    PROVE  StopInv'
<1> USE DEF ShellInv, Halted, Reported
<1>1. pc["main"] \notin {"add", "set"} /\ pc'["main"] \notin {"add", "set"}
  BY WaiterAlone, WaitIs, UpdateGoes DEF Wait, DeleteJob, StopJob, At
<1>2. \A i \in Slots : job_list[i].pid \in Pids \union {NoPid}
  BY DEF ListInv, ListTypeOK, job_t
<1>3. \A i \in Slots : job_list[i].state = "ST" => job_list[i].pid \in Pids
  BY SlotPids
<1>4. CASE Wait
  <2>1. PICK p \in Waitable :
           /\ pid'["CHLD"] = p
           /\ \A q \in Pids : q # p => proc'[q] = proc[q]
           /\ \/ /\ proc'[p] = NoProcess /\ pc'["CHLD"] = "delete"
              \/ /\ proc[p].st # "zombie" /\ proc'[p].st = proc[p].st
                 /\ pc'["CHLD"] = "stop"
    BY <1>4, WaitIs
  <2>2. UNCHANGED job_list /\ pc["CHLD"] = "wait"
    BY <1>4 DEF Wait, At, list_vars
  <2>3. p \in Pids /\ (proc[p].st # "zombie" => proc[p].st = "stopped")
    BY DEF Waitable, WaitInv
  <2> QED
    BY <1>1, <1>2, <1>3, <2>1, <2>2, <2>3 DEF StopInv, NoProcess
<1>5. CASE DeleteJob
  <2> DEFINE p == pid["CHLD"]
  <2>1. p \in Pids /\ delete_job(p) /\ pc["CHLD"] = "delete"
    BY <1>5 DEF DeleteJob, At, Jobs, HandlerJobs
  <2>2. pc'["CHLD"] = "wait" /\ UNCHANGED proc
    BY <1>5 DEF DeleteJob, Goto, ShellTypeOK, Contexts, Handlers
  <2>3. \A i \in Slots :
           \/ job_list'[i] = ClearedJob
           \/ job_list'[i] = job_list[i] /\ job_list[i].pid # p
    BY <2>1, DeleteJobSlot
  <2> QED
    BY <1>1, <2>1, <2>2, <2>3 DEF StopInv, ClearedJob
<1>6. CASE StopJob
  <2> DEFINE k == find_job_with_pid(pid["CHLD"])
  <2>1. CASE k = NULL
    <3>1. UNCHANGED <<job_list, proc, pc, pid>>
      BY <1>6, <2>1 DEF StopJob, End, list_vars
    <3> QED
      BY <3>1 DEF StopInv
  <2>2. CASE k # NULL
    <3>1. /\ pid["CHLD"] \in Pids /\ pc["CHLD"] = "stop"
          /\ k \in Slots /\ job_list[k].pid = pid["CHLD"]
      BY <1>6, <2>2, FindPid DEF StopJob, At, Jobs, HandlerJobs, ListInv
    <3>2. /\ set_state_of_job(k, "ST") /\ pc'["CHLD"] = "wait" /\ UNCHANGED proc
      BY <1>6, <2>2 DEF StopJob, Goto, ShellTypeOK, Contexts, Handlers
    <3> HIDE DEF k
    <3>3. \A i \in Slots : /\ job_list'[i].pid = job_list[i].pid
                           /\ job_list'[i].state = IF i = k THEN "ST" ELSE job_list[i].state
      BY <3>1, <3>2, SetStateSlot
    <3>4. \A i \in Slots : job_list[i].pid = pid["CHLD"] => i = k
      BY <3>1, PidsAssumption DEF ListInv, PidsUnique
    <3> QED
      BY <1>1, <3>1, <3>2, <3>3, <3>4 DEF StopInv
  <2> QED
    BY <2>1, <2>2
<1> QED
  BY <1>4, <1>5, <1>6

LEMMA StopStep ==
    ASSUME ShellContinues
    PROVE  ShellInv /\ WaitInv /\ PointerInv /\ StopInv /\ [Next]_vars => StopInv'
<1> SUFFICES ASSUME ShellInv, WaitInv, PointerInv, StopInv, [Next]_vars PROVE StopInv'
  OBVIOUS
<1>1. CASE Quiet
  <2>1. \A i \in Slots :
           job_list[i].pid # NoPid \/ job_list[i].state = "ST" => job_list[i].pid \in Pids
    BY SlotPids DEF ShellInv
  <2>2. pc["CHLD"] = "stop" => pid["CHLD"] \in Pids
    BY DEF ShellInv, Jobs, HandlerJobs
  <2>3. ChildHalts /\ UNCHANGED job_list
    BY <1>1 DEF Quiet, list_vars
  <2>4. \A p \in Pids : /\ Halted(p) => Halted(p)'
                        /\ Reported(p)' => Reported(p)
    BY <2>3 DEF ChildHalts
  <2>5. pc'["CHLD"] = "stop" => Halted(pid["CHLD"])' /\ pid'["CHLD"] = pid["CHLD"]
    BY <1>1, <2>2, <2>4 DEF Quiet, StopInv
  <2> QED
    BY <1>1, <2>1, <2>2, <2>3, <2>4, <2>5 DEF Quiet, StopInv, Halted, Reported
<1> QED
  BY <1>1, MainStops, HandlerStops, StepShape

\* The list and the processes agree about stops, but for what was not reported yet
\* or is being updated, if only the shell continues jobs.
THEOREM ShellStops == ASSUME ShellContinues PROVE Spec => []StopInv
<1>1. ShellInv /\ WaitInv /\ PointerInv /\ StopInv /\ [Next]_vars => StopInv'
  BY StopStep
<1> QED
  BY <1>1, StopInit, ShellWaits, ShellPointers, ShellInvariant, PTL DEF Spec

\* When the shell has handled what it was told, jobs lists as stopped exactly the
\* jobs that are, if only the shell continues jobs.
THEOREM ShellTellsStopped == ASSUME ShellContinues PROVE Spec => []ListTellsStopped
<1>1. ASSUME ShellInv, StopInv, NoMissedEvent PROVE ListTellsStopped
  <2> SUFFICES ASSUME At("main", "prompt"), "CHLD" \notin pending,
                      NEW i \in Slots, job_list[i].pid # NoPid
               PROVE  job_list[i].state = "ST" <=> proc[job_list[i].pid].st = "stopped"
    BY DEF ListTellsStopped
  <2>1. pc["CHLD"] = "idle"
    BY <1>1, NoHandlerActive DEF At, ShellInv, Control, Active, Handlers
  <2>2. Waitable = {}
    BY <1>1, <2>1 DEF NoMissedEvent
  <2>3. job_list[i].pid \in Pids
    BY <1>1, SlotPids DEF ShellInv
  <2>4. proc[job_list[i].pid].st # "zombie" /\ ~ proc[job_list[i].pid].event
    BY <2>2, <2>3 DEF Waitable
  <2> QED
    BY <1>1, <2>1, <2>4 DEF At, StopInv, Halted, Reported
<1> QED
  BY <1>1, ShellStops, ShellMissesNoEvent, ShellInvariant, PTL

-----------------------------------------------------------------------------
(***************************************************************************)
(* The foreground job.                                                     *)
(***************************************************************************)

LEMMA WaitingInit == Init => WaitingFor
  BY DEF Init, WaitingFor, Contexts, Handlers

\* From the other labels of main nothing leads to the wait, and list is for jobs.
LEMMA OtherMain ==
    ASSUME ShellTypeOK, Main, ~ AddJob, ~ SetState, ~ CheckForeground, ~ ListJobs
    PROVE  \/ UNCHANGED <<pc, cmd>> /\ pc["main"] \notin {"check", "suspend", "restore", "list"}
           \/ pc'["main"] \notin {"check", "suspend", "restore", "list"}
           \/ pc'["main"] = "list" /\ cmd' = "jobs"
BY DEF Main, ReadProgram, ReadJobs, ReadBgFg, ReadCommand, Quit, Fork, ForkFails,
       LookupJid, LookupPid, ContinueJob, EvalReturn, eval_vars,
       Goto, End, At, ShellTypeOK, Contexts

LEMMA MainWaits ==
    ASSUME Room, ShellInv, PointerInv, WaitingFor, Main
    PROVE  WaitingFor'
<1> USE DEF ShellInv, EndedOrStopped
<1>1. CASE AddJob
  <2> DEFINE p == pid["main"]
  <2>1. p \in Pids \ Listed /\ add_job(p, cmd) /\ cmd \in {"FG", "BG"}
    BY <1>1 DEF AddJob, At, Jobs, MainJobs
  <2>2. PICK k \in FreeSlots : job_list'[k].pid = p /\ job_list'[k].state = cmd
    <3>1. FreeSlots \subseteq Slots
      BY DEF FreeSlots
    <3> QED
      BY <2>1, <3>1, RoomForChild, AddJobSlot
  <2>3. k \in Slots /\ UNCHANGED <<pid, cmd>>
    BY <1>1 DEF FreeSlots, AddJob, eval_vars
  <2>4. pc'["main"] = IF cmd = "BG" THEN "restore" ELSE "check"
    BY <1>1 DEF AddJob, Goto, ShellTypeOK, Contexts
  <2> QED
    BY <2>1, <2>2, <2>3, <2>4 DEF WaitingFor, ForegroundSlots
<1>2. CASE SetState
  <2>1. CASE built_in_job = NULL
    BY <1>2, <2>1 DEF SetState, End, At, WaitingFor
  <2>2. CASE built_in_job # NULL
    <3> DEFINE k == built_in_job
    <3>1. /\ k \in Slots /\ UNCHANGED <<pid, cmd>>
          /\ set_state_of_job(k, IF cmd = "bg" THEN "BG" ELSE "FG")
          /\ pc'["main"] = IF cmd = "bg" THEN "restore" ELSE "check"
      BY <1>2, <2>2 DEF SetState, Goto, eval_vars, ShellTypeOK, Contexts
    <3>2. job_list[k].pid = pid["main"] /\ pid["main"] \in Pids
      BY <1>2, <2>2 DEF SetState, At, PointerInv, JobOfPid
    <3>3. /\ job_list'[k].pid = job_list[k].pid
          /\ job_list'[k].state = IF cmd = "bg" THEN "BG" ELSE "FG"
      BY <3>1, SetStateSlot
    <3> QED
      BY <3>1, <3>2, <3>3 DEF WaitingFor, ForegroundSlots
  <2> QED
    BY <2>1, <2>2
<1>3. CASE CheckForeground
  <2>1. /\ pc["main"] = "check"
        /\ pc'["main"] = IF fg_pid = NoPid THEN "restore" ELSE "suspend"
        /\ UNCHANGED <<job_list, pid, cmd, proc>>
    BY <1>3 DEF CheckForeground, At, Goto, list_vars, eval_vars, ShellTypeOK, Contexts
  <2>2. fg_pid = NoPid <=> ForegroundSlots = {}
    BY FgPidListed
  <2> QED
    BY <2>1, <2>2 DEF WaitingFor, ForegroundSlots
<1>4. CASE ListJobs
  BY <1>4 DEF ListJobs, At, Goto, eval_vars, WaitingFor, ShellTypeOK, Contexts
<1>5. CASE ~ AddJob /\ ~ SetState /\ ~ CheckForeground /\ ~ ListJobs
  BY <1>5, OtherMain DEF WaitingFor
<1> QED
  BY <1>1, <1>2, <1>3, <1>4, <1>5

\* The SIGCHLD handler takes the job out of the foreground only when its process
\* was reaped or has stopped.
LEMMA HandlerWaits ==
    ASSUME ShellInv, WaitInv, StopInv, WaitingFor, Wait \/ DeleteJob \/ StopJob
    PROVE  WaitingFor'
<1> USE DEF ShellInv, EndedOrStopped
<1>1. pc["main"] # "restore"
  BY WaiterAlone DEF Wait, DeleteJob, StopJob, At
<1>2. CASE Wait
  <2>1. PICK p \in Waitable :
           /\ pid'["main"] = pid["main"] /\ pc'["main"] = pc["main"]
           /\ \A q \in Pids : q # p => proc'[q] = proc[q]
           /\ proc'[p] = NoProcess \/ proc'[p].st = proc[p].st
    BY <1>2, WaitIs
  <2>2. UNCHANGED <<job_list, cmd>>
    BY <1>2 DEF Wait, list_vars, eval_vars
  <2>3. \A q \in Pids : EndedOrStopped(q) => EndedOrStopped(q)'
    BY <2>1 DEF NoProcess
  <2> QED
    BY <2>1, <2>2, <2>3 DEF WaitingFor, ForegroundSlots
<1>3. CASE DeleteJob \/ StopJob
  <2> DEFINE p == pid["CHLD"]
  <2>1. UNCHANGED <<proc, pid, cmd>> /\ pc'["main"] = pc["main"]
    BY <1>3, UpdateGoes
  <2>2. p \in Pids /\ EndedOrStopped(p)
    BY <1>3 DEF DeleteJob, StopJob, At, Jobs, HandlerJobs, WaitInv, StopInv, Halted
  <2>3. \A i \in ForegroundSlots : job_list[i].pid # p => job_list'[i] = job_list[i]
    <3>1. CASE DeleteJob
      BY <2>2, <3>1, DeleteJobSlot DEF DeleteJob, ForegroundSlots
    <3>2. CASE StopJob
      <4> DEFINE k == find_job_with_pid(p)
      <4>1. UNCHANGED job_list \/ (k # NULL /\ set_state_of_job(k, "ST"))
        BY <3>2 DEF StopJob, list_vars
      <4>2. k # NULL => k \in Slots /\ job_list[k].pid = p
        BY <2>2, FindPid DEF ListInv
      <4> HIDE DEF k
      <4> QED
        BY <4>1, <4>2 DEF set_state_of_job, ForegroundSlots, ListInv, ListTypeOK
    <3> QED
      BY <1>3, <3>1, <3>2
  <2> QED
    BY <1>1, <2>1, <2>2, <2>3 DEF WaitingFor, ForegroundSlots
<1> QED
  BY <1>2, <1>3

LEMMA WaitingStep ==
    ASSUME Room, ShellContinues
    PROVE  ShellInv /\ WaitInv /\ PointerInv /\ StopInv /\ WaitingFor /\ [Next]_vars
           => WaitingFor'
<1> SUFFICES ASSUME ShellInv, WaitInv, PointerInv, StopInv, WaitingFor, [Next]_vars
             PROVE  WaitingFor'
  OBVIOUS
<1>1. CASE Quiet
  <2>1. UNCHANGED <<job_list, cmd>> /\ ChildMoves /\ ChildHalts
    BY <1>1 DEF Quiet, list_vars
  <2>2. \A q \in Pids : EndedOrStopped(q) => EndedOrStopped(q)'
    BY <2>1 DEF EndedOrStopped, ChildMoves, ChildHalts, Halted
  <2>3. /\ pid'["main"] = pid["main"]
        /\ pc'["main"] = pc["main"] \/ (pc["main"] = "suspend" /\ pc'["main"] = "check")
    BY <1>1 DEF Quiet
  <2> QED
    BY <2>1, <2>2, <2>3 DEF WaitingFor, ForegroundSlots, EndedOrStopped
<1> QED
  BY <1>1, MainWaits, HandlerWaits, StepShape

\* "If the job is running in the foreground, wait for it to terminate and then
\* return": eval stops waiting only when the process has ended or stopped, if
\* there is room for every process and only the shell continues jobs.
THEOREM ShellWaitsForForeground ==
    ASSUME Room, ShellContinues PROVE Spec => []WaitsForForeground
<1>1. WaitingFor => WaitsForForeground
  BY DEF WaitingFor, WaitsForForeground, EndedOrStopped
<1>2. ShellInv /\ WaitInv /\ PointerInv /\ StopInv /\ WaitingFor /\ [Next]_vars => WaitingFor'
  BY WaitingStep
<1> QED
  BY <1>1, <1>2, WaitingInit, ShellStops, ShellPointers, ShellWaits, ShellInvariant, PTL
     DEF Spec

=============================================================================
