--------------------------- MODULE TshMaskProofs ----------------------------
(***************************************************************************)
(* Signal masks at the prompt and in the children, for every number of     *)
(* slots and processes, as long as fork does not fail (when it does, eval  *)
(* returns with the signals blocked): eval, whatever interrupts it, puts   *)
(* back the mask it found, and the children start with it.                 *)
(***************************************************************************)
EXTENDS TshProofs

ForkSucceeds == "fork" \notin Faults

\* Whoever returns to main at the prompt unblocks everything, and temp in eval
\* remembers that nothing was blocked.
MainUnblocked ==
    /\ pc["main"] = "prompt" =>
          /\ running = "main" => mask = {}
          /\ \A h \in Active : caller[h] = "main" => oldmask[h] = {}
    /\ pc["main"] # "prompt" => temp["main"] = {}

ChildrenUnblocked == \A p \in Pids : proc[p].mask = {}

MaskInv == MainUnblocked /\ ChildrenUnblocked

LEMMA MaskInit == Init => MaskInv
  BY DEF Init, MaskInv, MainUnblocked, ChildrenUnblocked, Active, Contexts, Handlers, NoProcess

-----------------------------------------------------------------------------
(***************************************************************************)
(* The shell.                                                              *)
(***************************************************************************)

\* While main runs it decides alone what comes back.
LEMMA MainUnblockedStep ==
    ASSUME ShellTypeOK, Control, MainUnblocked, ForkSucceeds, Main
    PROVE  MainUnblocked'
<1> USE DEF eval_vars, signal_vars
<1>1. running = "main"
  BY DEF Main, ReadProgram, ReadJobs, ReadBgFg, ReadCommand, Quit, Fork, ForkFails,
         AddJob, CheckForeground, ListJobs, LookupJid, LookupPid, ContinueJob,
         SetState, EvalReturn, At
<1>2. Active = {}
  BY <1>1, NoHandlerActive DEF Control
<1>3. "main" \in Contexts /\ \A h \in Handlers : h \in Contexts /\ h # "main"
  BY DEF Contexts, Handlers
<1>4. ASSUME NEW l, Goto("main", l)
      PROVE  pc'["main"] = l /\ Active' = {}
  BY <1>2, <1>3, <1>4 DEF Goto, Active, ShellTypeOK
<1>5. CASE ReadProgram \/ ReadJobs \/ ReadBgFg
  <2>1. PICK c \in Commands, l \in {"fork", "list", "lookup"} : ReadCommand(c, l)
    BY <1>5 DEF ReadProgram, ReadJobs, ReadBgFg, Commands
  <2>2. mask = {} /\ pc'["main"] # "prompt"
    BY <1>1, <1>4, <2>1 DEF ReadCommand, At, MainUnblocked
  <2>3. temp'["main"] = {}
    BY <1>3, <2>1, <2>2 DEF ReadCommand, Block, ShellTypeOK
  <2> QED
    BY <2>2, <2>3 DEF MainUnblocked
<1>6. CASE EvalReturn
  <2>1. mask' = {} /\ pc'["main"] = "prompt" /\ Active' = {}
    BY <1>4, <1>6 DEF EvalReturn, Unblock, At, MainUnblocked
  <2> QED
    BY <2>1 DEF MainUnblocked
<1>7. ASSUME pc["main"] # "prompt", UNCHANGED temp, NEW l, l # "prompt",
             Goto("main", l)
      PROVE  MainUnblocked'
  BY <1>4, <1>7 DEF MainUnblocked
<1>8. ASSUME NEW how, End(how), UNCHANGED <<temp, signal_vars>>
      PROVE  MainUnblocked'
  BY <1>8 DEF End, MainUnblocked, Active
<1>9. CASE Quit
  BY <1>8, <1>9 DEF Quit
<1>10. CASE ForkFails
  BY <1>10 DEF ForkFails, ForkSucceeds
<1>11. CASE Fork \/ AddJob \/ CheckForeground \/ ListJobs \/ LookupPid \/ ContinueJob
  BY <1>7, <1>11 DEF Fork, AddJob, CheckForeground, ListJobs, LookupPid, ContinueJob, At
<1>12. CASE LookupJid
  <2>1. End("crashed") \/ Goto("main", "kill")
    BY <1>12 DEF LookupJid
  <2> QED
    BY <1>7, <1>8, <1>12, <2>1 DEF LookupJid, At
<1>13. CASE SetState
  BY <1>7, <1>8, <1>13 DEF SetState, At
<1> QED
  BY <1>5, <1>6, <1>9, <1>10, <1>11, <1>12, <1>13 DEF Main

\* A handler is entered with what main had, and gives it back.
LEMMA HandlerUnblockedStep ==
    ASSUME ShellTypeOK, Control, MainUnblocked, NEW h \in Handlers, Deliver(h) \/ Handler(h)
    PROVE  MainUnblocked'
<1> USE DEF eval_vars, signal_vars
<1>1. /\ h \in Contexts /\ h # "main" /\ "main" \in Contexts
      /\ \A g \in Handlers : g \in Contexts /\ g # "main"
  BY DEF Contexts, Handlers
<1>2. CASE Deliver(h)
  <2>1. /\ running' = h
        /\ \A g \in Handlers : g # h => pc'[g] = pc[g] /\ caller'[g] = caller[g]
                                        /\ oldmask'[g] = oldmask[g]
        /\ caller'[h] = running
        /\ temp' = temp
    BY <1>1, <1>2 DEF Deliver, ShellTypeOK
  <2>2. CASE running = "main" /\ pc["main"] = "suspend"
    BY <1>1, <1>2, <2>1, <2>2 DEF Deliver, MainUnblocked, ShellTypeOK
  <2>3. CASE ~ (running = "main" /\ pc["main"] = "suspend")
    <3>1. pc'["main"] = pc["main"] /\ oldmask'[h] = mask
      BY <1>1, <1>2, <2>3 DEF Deliver, ShellTypeOK
    <3> QED
      BY <1>1, <2>1, <3>1 DEF MainUnblocked, Active
  <2> QED
    BY <2>2, <2>3
<1>3. CASE HandlerReturn(h)
  <2>1. h \in Active
    BY <1>3 DEF HandlerReturn, At, Active
  <2>2. /\ mask' = oldmask[h] /\ running' = caller[h] /\ temp' = temp
        /\ pc'["main"] = pc["main"] /\ pc'[h] = "idle"
        /\ \A g \in Handlers : g # h => pc'[g] = pc[g] /\ caller'[g] = caller[g]
                                        /\ oldmask'[g] = oldmask[g]
    BY <1>1, <1>3 DEF HandlerReturn, Goto, ShellTypeOK
  <2> QED
    BY <2>1, <2>2 DEF MainUnblocked, Active
<1>4. ASSUME running = h, pc[h] # "idle", UNCHANGED <<running, caller, oldmask>>,
             temp'["main"] = temp["main"],
             pc' = pc \/ \E l : pc' = [pc EXCEPT ![h] = l]
      PROVE  MainUnblocked'
  <2>1. pc'["main"] = pc["main"] /\ Active' \subseteq Active
    BY <1>1, <1>4 DEF Active, ShellTypeOK
  <2> QED
    BY <1>1, <1>4, <2>1 DEF MainUnblocked
<1>5. CASE HandlerBlock(h) \/ HandlerUnblock(h)
  <2>1. temp'["main"] = temp["main"]
    BY <1>1, <1>5 DEF HandlerBlock, HandlerUnblock, Block, Unblock, ShellTypeOK
  <2> QED
    BY <1>4, <1>5, <2>1 DEF HandlerBlock, HandlerUnblock, At, Goto
<1>6. CASE h = "CHLD" /\ (Wait \/ WaitNone \/ DeleteJob \/ StopJob)
  BY <1>4, <1>6 DEF Wait, WaitNone, DeleteJob, StopJob, At, Goto, End
<1>7. CASE h # "CHLD" /\ (FindForeground(h) \/ Forward(h))
  BY <1>4, <1>7 DEF FindForeground, Forward, At, Goto
<1> QED
  BY <1>2, <1>3, <1>5, <1>6, <1>7 DEF Handler

-----------------------------------------------------------------------------
(***************************************************************************)
(* The children.                                                           *)
(***************************************************************************)

\* What each change of a process does to the others and to its own record.
LEMMA ContinuedIs ==
    ASSUME ShellTypeOK, NEW p, proc' = Continued(p), NEW q \in Pids
    PROVE  /\ proc'[q].mask = proc[q].mask
           /\ q = p /\ Grouped(p) =>
                /\ proc'[q].st = IF proc[q].st = "stopped" THEN "running" ELSE proc[q].st
                /\ proc'[q].event = FALSE
           /\ q # p \/ ~ Grouped(p) => proc'[q] = proc[q]
<1>1. CASE Grouped(p)
  <2> DEFINE r == [proc[p] EXCEPT !.st = IF @ = "stopped" THEN "running" ELSE @,
                                  !.event = FALSE,
                                  !.sigs = @ \ {"TSTP"}]
  <2>1. p \in Pids /\ proc[p] \in Process
    BY <1>1 DEF Grouped, ShellTypeOK
  <2>2. /\ r.st = IF proc[p].st = "stopped" THEN "running" ELSE proc[p].st
        /\ r.event = FALSE /\ r.mask = proc[p].mask
    BY <2>1 DEF Process
  <2>3. proc' = [proc EXCEPT ![p] = r]
    BY <1>1, <2>1 DEF Continued, ShellTypeOK
  <2> HIDE DEF r
  <2> QED
    BY <1>1, <2>1, <2>2, <2>3 DEF ShellTypeOK
<1>2. CASE ~ Grouped(p)
  BY <1>2 DEF Continued
<1> QED
  BY <1>1, <1>2

LEMMA KilledIs ==
    ASSUME ShellTypeOK, NEW p, NEW s, proc' = Killed(p, s), NEW q \in Pids
    PROVE  /\ proc'[q].mask = proc[q].mask
           /\ proc'[q].st = proc[q].st
           /\ proc'[q].event = proc[q].event
<1>1. CASE Grouped(p)
  <2> DEFINE r == [proc[p] EXCEPT !.sigs = @ \union {s}]
  <2>1. p \in Pids /\ proc[p] \in Process
    BY <1>1 DEF Grouped, ShellTypeOK
  <2>2. r.st = proc[p].st /\ r.event = proc[p].event /\ r.mask = proc[p].mask
    BY <2>1 DEF Process
  <2>3. proc' = [proc EXCEPT ![p] = r]
    BY <1>1, <2>1 DEF Killed, ShellTypeOK
  <2> HIDE DEF r
  <2> QED
    BY <2>1, <2>2, <2>3 DEF ShellTypeOK
<1>2. CASE ~ Grouped(p)
  BY <1>2 DEF Killed
<1> QED
  BY <1>1, <1>2

LEMMA EndedIs ==
    ASSUME ShellTypeOK, NEW p \in Pids, proc' = Ended(p), NEW q \in Pids
    PROVE  proc'[q] = IF q = p THEN [NoProcess EXCEPT !.st = "zombie"] ELSE proc[q]
BY DEF Ended, ShellTypeOK

LEMMA StoppedIs ==
    ASSUME ShellTypeOK, NEW p \in Pids, proc' = Stopped(p), NEW q \in Pids
    PROVE  /\ proc'[q].mask = proc[q].mask
           /\ q = p => proc'[q].st = "stopped" /\ proc'[q].event = TRUE
           /\ q # p => proc'[q] = proc[q]
<1> DEFINE r == [proc[p] EXCEPT !.st = "stopped", !.event = TRUE, !.sigs = @ \ {"TSTP"}]
<1>1. r.st = "stopped" /\ r.event = TRUE /\ r.mask = proc[p].mask
  BY DEF ShellTypeOK, Process
<1>2. proc' = [proc EXCEPT ![p] = r]
  BY DEF Stopped, ShellTypeOK
<1> HIDE DEF r
<1> QED
  BY <1>1, <1>2 DEF ShellTypeOK

\* The other changes set one field.
LEMMA StateIs ==
    ASSUME ShellTypeOK, NEW p \in Pids, NEW st, proc' = [proc EXCEPT ![p].st = st], NEW q \in Pids
    PROVE  /\ proc'[q].mask = proc[q].mask
           /\ q = p => proc'[q].st = st /\ proc'[q].event = proc[q].event
           /\ q # p => proc'[q] = proc[q]
<1> DEFINE r == [proc[p] EXCEPT !.st = st]
<1>1. r.st = st /\ r.event = proc[p].event /\ r.mask = proc[p].mask
  BY DEF ShellTypeOK, Process
<1>2. proc' = [proc EXCEPT ![p] = r]
  BY DEF ShellTypeOK
<1> HIDE DEF r
<1> QED
  BY <1>1, <1>2 DEF ShellTypeOK

LEMMA ReportedIs ==
    ASSUME ShellTypeOK, NEW p \in Pids, proc' = [proc EXCEPT ![p].event = FALSE], NEW q \in Pids
    PROVE  /\ proc'[q].mask = proc[q].mask
           /\ q = p => proc'[q].st = proc[q].st /\ proc'[q].event = FALSE
           /\ q # p => proc'[q] = proc[q]
<1> DEFINE r == [proc[p] EXCEPT !.event = FALSE]
<1>1. r.st = proc[p].st /\ r.event = FALSE /\ r.mask = proc[p].mask
  BY DEF ShellTypeOK, Process
<1>2. proc' = [proc EXCEPT ![p] = r]
  BY DEF ShellTypeOK
<1> HIDE DEF r
<1> QED
  BY <1>1, <1>2 DEF ShellTypeOK

LEMMA TakenIs ==
    ASSUME ShellTypeOK, NEW p \in Pids, NEW s, proc' = [proc EXCEPT ![p].sigs = @ \ {s}], NEW q \in Pids
    PROVE  /\ proc'[q].mask = proc[q].mask
           /\ q = p => proc'[q].st = proc[q].st /\ proc'[q].event = proc[q].event
           /\ q # p => proc'[q] = proc[q]
<1> DEFINE r == [proc[p] EXCEPT !.sigs = @ \ {s}]
<1>1. r.st = proc[p].st /\ r.event = proc[p].event /\ r.mask = proc[p].mask
  BY DEF ShellTypeOK, Process
<1>2. proc' = [proc EXCEPT ![p] = r]
  BY DEF ShellTypeOK
<1> HIDE DEF r
<1> QED
  BY <1>1, <1>2 DEF ShellTypeOK

LEMMA ChildrenUnblockedStep ==
    ASSUME ShellTypeOK, MaskInv, [Next]_vars
    PROVE  ChildrenUnblocked'
<1> USE DEF MaskInv
<1>1. CASE UNCHANGED proc
  BY <1>1 DEF ChildrenUnblocked
<1>2. CASE Fork
  <2>1. temp["main"] = {}
    BY <1>2 DEF Fork, At, MainUnblocked
  <2> QED
    BY <1>2, <2>1 DEF Fork, NoProcess, ChildrenUnblocked, ShellTypeOK
<1>3. CASE ContinueJob
  BY <1>3, ContinuedIs DEF ContinueJob, ChildrenUnblocked
<1>4. CASE Main
  BY <1>1, <1>2, <1>3, <1>4 DEF Main, ReadProgram, ReadJobs, ReadBgFg, ReadCommand, Quit,
     ForkFails, AddJob, CheckForeground, ListJobs, LookupJid, LookupPid, SetState, EvalReturn
<1>5. CASE Wait
  <2>1. PICK p \in Pids : \/ proc' = [proc EXCEPT ![p] = NoProcess]
                          \/ proc' = [proc EXCEPT ![p].event = FALSE]
    BY <1>5 DEF Wait, Waitable
  <2>2. CASE proc' = [proc EXCEPT ![p] = NoProcess]
    BY <2>2 DEF NoProcess, ChildrenUnblocked, ShellTypeOK
  <2>3. CASE proc' = [proc EXCEPT ![p].event = FALSE]
    BY <2>3, ReportedIs DEF ChildrenUnblocked
  <2> QED
    BY <2>1, <2>2, <2>3
<1>6. ASSUME NEW h \in Handlers, Deliver(h) \/ Handler(h)
      PROVE  ChildrenUnblocked'
  <2>1. CASE Forward(h)
    BY <2>1, KilledIs DEF Forward, ChildrenUnblocked
  <2> QED
    BY <1>1, <1>5, <1>6, <2>1 DEF Deliver, Handler, HandlerBlock, HandlerUnblock, HandlerReturn,
       WaitNone, DeleteJob, StopJob, FindForeground
<1>7. ASSUME NEW p \in Pids, Child(p)
      PROVE  ChildrenUnblocked'
  <2>1. CASE ChildSetup(p) \/ ChildExec(p)
    <3>1. PICK st \in ProcStates : proc' = [proc EXCEPT ![p].st = st]
      BY <2>1 DEF ChildSetup, ChildExec, ProcStates
    <3> QED
      BY <3>1, StateIs DEF ChildrenUnblocked
  <2>2. CASE Terminate(p) \/ Stop(p) \/ ContinueByOthers(p)
    BY <2>2, EndedIs, StoppedIs, ContinuedIs
       DEF Terminate, Stop, ContinueByOthers, NoProcess, ChildrenUnblocked
  <2>3. ASSUME NEW s, TakeSignal(p, s) PROVE ChildrenUnblocked'
    <3>1. \/ proc' = [proc EXCEPT ![p].sigs = @ \ {s}]
          \/ proc' = Ended(p)
          \/ proc' = Stopped(p)
      BY <2>3 DEF TakeSignal
    <3>2. CASE proc' = [proc EXCEPT ![p].sigs = @ \ {s}]
      BY <3>2, TakenIs DEF ChildrenUnblocked
    <3>3. CASE proc' = Ended(p)
      BY <3>3, EndedIs DEF NoProcess, ChildrenUnblocked
    <3>4. CASE proc' = Stopped(p)
      BY <3>4, StoppedIs DEF ChildrenUnblocked
    <3> QED
      BY <3>1, <3>2, <3>3, <3>4
  <2> QED
    BY <1>7, <2>1, <2>2, <2>3 DEF Child
<1>8. CASE DeliverQuit \/ Over \/ \E s \in UserSignals : SendToShell(s)
  BY <1>1, <1>8 DEF DeliverQuit, Over, vars, SendToShell
<1> QED
  BY <1>1, <1>4, <1>6, <1>7, <1>8 DEF Next, Environment, vars

-----------------------------------------------------------------------------

LEMMA MaskStep ==
    ASSUME ForkSucceeds
    PROVE  ShellInv /\ MaskInv /\ [Next]_vars => MaskInv'
<1> SUFFICES ASSUME ShellInv, MaskInv, [Next]_vars PROVE MainUnblocked'
  BY ChildrenUnblockedStep DEF ShellInv, MaskInv
<1> USE DEF ShellInv, MaskInv
<1>1. ASSUME UNCHANGED <<pc, temp, running, caller, oldmask, mask>>
      PROVE  MainUnblocked'
  BY <1>1 DEF MainUnblocked, Active
<1>2. CASE Environment \/ DeliverQuit \/ Over \/ UNCHANGED vars
  BY <1>1, <1>2 DEF Environment, Child, ChildSetup, ChildExec, TakeSignal, Terminate, Stop,
     ContinueByOthers, SendToShell, EnvUnchanged, DeliverQuit, End, Over, vars, signal_vars
<1> QED
  BY <1>2, MainUnblockedStep, HandlerUnblockedStep DEF Next

\* eval and the handlers restore the masks they found, if fork does not fail.
THEOREM ShellMasks == ASSUME ForkSucceeds PROVE Spec => []MaskInv
<1>1. ShellInv /\ MaskInv /\ [Next]_vars => MaskInv'
  BY MaskStep
<1> QED
  BY <1>1, MaskInit, ShellInvariant, PTL DEF Spec

\* Every path through eval, with whatever handlers nested in it, puts the mask
\* back: at the prompt the shell hears every signal.
THEOREM ShellUnblocksPrompt == ASSUME ForkSucceeds PROVE Spec => []PromptUnblocked
<1>1. MaskInv => PromptUnblocked
  BY DEF MaskInv, MainUnblocked, PromptUnblocked, At
<1> QED
  BY <1>1, ShellMasks, PTL

\* No program is started with SIGCHLD, SIGINT or SIGTSTP blocked: the check in
\* the wrapper of execve never warns.
THEOREM ShellUnblocksPrograms == ASSUME ForkSucceeds PROVE Spec => []ExecUnblocked
<1>1. MaskInv => ExecUnblocked
  BY DEF MaskInv, ChildrenUnblocked, ExecUnblocked
<1> QED
  BY <1>1, ShellMasks, PTL

=============================================================================
