----------------------------- MODULE TshProofs ------------------------------
(***************************************************************************)
(* What the shell guarantees for every number of slots and processes,      *)
(* whatever signals arrive and whatever faults occur.                      *)
(***************************************************************************)
EXTENDS Tsh, JobListProofs

-----------------------------------------------------------------------------
(***************************************************************************)
(* Types.                                                                  *)
(***************************************************************************)

LEMMA ShellTypeInit == Init => ShellTypeOK
<1> SUFFICES ASSUME Init PROVE ShellTypeOK
  OBVIOUS
<1> USE DEF Init, Contexts, Handlers, Signals
<1>1. /\ pc \in [Contexts -> AllLabels]
      /\ \A c \in Contexts : pc[c] \in Labels(c)
  BY DEF AllLabels, Labels, MainLabels, HandlerLabels
<1>2. proc \in [Pids -> Process]
  BY DEF Process, NoProcess, ProcStates
<1>3. built_in_job \in Slots \union {NULL} /\ cmd \in Commands
  BY DEF Commands
<1> QED
  BY <1>1, <1>2, <1>3 DEF ShellTypeOK

LEMMA GotoType ==
    ASSUME ShellTypeOK, NEW c \in Contexts, NEW l \in Labels(c), Goto(c, l)
    PROVE  /\ pc' \in [Contexts -> AllLabels]
           /\ \A d \in Contexts : pc'[d] \in Labels(d)
           /\ status' = status
<1>1. pc' = [pc EXCEPT ![c] = l] /\ status' = status
  BY DEF Goto
<1>2. l \in AllLabels
  BY DEF Labels, AllLabels, HandlerLabels
<1> QED
  BY <1>1, <1>2 DEF ShellTypeOK

\* fg_pid returns the pid of a slot in the foreground, if there is one.
LEMMA FgPid ==
    ASSUME ListTypeOK
    PROVE  /\ fg_pid \in Pids \union {NoPid}
           /\ ForegroundSlots = {} => fg_pid = NoPid
           /\ ForegroundSlots # {} =>
                \E i \in ForegroundSlots : fg_pid = job_list[i].pid
<1>1. ForegroundSlots \subseteq Nat
  BY DEF ForegroundSlots, Slots
<1>2. ForegroundSlots # {} => Min(ForegroundSlots) \in ForegroundSlots
  BY <1>1, MinExists
<1>3. \A i \in ForegroundSlots : job_list[i].pid \in Pids \union {NoPid}
  BY DEF ForegroundSlots, ListTypeOK, job_t
<1> QED
  BY <1>2, <1>3 DEF fg_pid

\* The process table after each change has its type.
LEMMA ContinuedType ==
    ASSUME ShellTypeOK, NEW p
    PROVE  Continued(p) \in [Pids -> Process]
<1>1. CASE Grouped(p)
  <2> DEFINE q == [proc[p] EXCEPT !.st = IF @ = "stopped" THEN "running" ELSE @,
                                  !.event = FALSE,
                                  !.sigs = @ \ {"TSTP"}]
  <2>1. p \in Pids /\ proc[p] \in Process
    BY <1>1 DEF Grouped, ShellTypeOK
  <2>2. q \in Process
    BY <2>1 DEF Process, ProcStates
  <2>3. Continued(p) = [proc EXCEPT ![p] = q]
    BY <1>1, <2>1 DEF Continued, ShellTypeOK
  <2> HIDE DEF q
  <2> QED
    BY <2>2, <2>3 DEF ShellTypeOK
<1>2. CASE ~ Grouped(p)
  BY <1>2 DEF Continued, ShellTypeOK
<1> QED
  BY <1>1, <1>2

LEMMA KilledType ==
    ASSUME ShellTypeOK, NEW p, NEW s \in {"INT", "TSTP"}
    PROVE  Killed(p, s) \in [Pids -> Process]
<1>1. CASE Grouped(p)
  <2>1. p \in Pids /\ proc[p] \in Process
    BY <1>1 DEF Grouped, ShellTypeOK
  <2>2. [proc[p] EXCEPT !.sigs = @ \union {s}] \in Process
    BY <2>1 DEF Process
  <2>3. Killed(p, s) = [proc EXCEPT ![p] = [proc[p] EXCEPT !.sigs = @ \union {s}]]
    BY <1>1, <2>1 DEF Killed, ShellTypeOK
  <2> QED
    BY <2>2, <2>3 DEF ShellTypeOK
<1>2. CASE ~ Grouped(p)
  BY <1>2 DEF Killed, ShellTypeOK
<1> QED
  BY <1>1, <1>2

LEMMA EndedType ==
    ASSUME ShellTypeOK, NEW p \in Pids
    PROVE  Ended(p) \in [Pids -> Process]
<1>1. [NoProcess EXCEPT !.st = "zombie"] \in Process
  BY DEF NoProcess, Process, ProcStates
<1> QED
  BY <1>1 DEF Ended, ShellTypeOK

LEMMA StoppedType ==
    ASSUME ShellTypeOK, NEW p \in Pids
    PROVE  Stopped(p) \in [Pids -> Process]
<1> DEFINE q == [proc[p] EXCEPT !.st = "stopped", !.event = TRUE, !.sigs = @ \ {"TSTP"}]
<1>1. q \in Process
  BY DEF Process, ProcStates, ShellTypeOK
<1>2. Stopped(p) = [proc EXCEPT ![p] = q]
  BY DEF Stopped, ShellTypeOK
<1> HIDE DEF q
<1> QED
  BY <1>1, <1>2 DEF ShellTypeOK

\* The steps of the main program.
LEMMA MainType == ShellTypeOK /\ ListTypeOK /\ Main => ShellTypeOK'
<1> SUFFICES ASSUME ShellTypeOK, ListTypeOK, Main PROVE ShellTypeOK'
  OBVIOUS
<1> USE DEF eval_vars, signal_vars
<1>0. /\ "main" \in Contexts
      /\ Labels("main") = {"prompt", "fork", "add", "check", "suspend", "list",
                            "lookup", "kill", "set", "restore"}
      /\ proc_mask("main") \subseteq Signals
  BY DEF Contexts, Labels, MainLabels, proc_mask, Signals, Handlers
<1>1. ASSUME NEW c \in Commands, NEW l \in {"fork", "list", "lookup"}, ReadCommand(c, l)
      PROVE  ShellTypeOK'
  BY <1>0, <1>1, GotoType DEF ReadCommand, Block, ShellTypeOK
<1>2. CASE ReadProgram \/ ReadJobs \/ ReadBgFg
  BY <1>1, <1>2 DEF ReadProgram, ReadJobs, ReadBgFg, Commands
<1>3. CASE Quit
  BY <1>3 DEF Quit, End, ShellTypeOK
<1>4. CASE Fork
  <2>1. PICK p \in Pids :
          /\ pid' = [pid EXCEPT !["main"] = p]
          /\ proc' = [proc EXCEPT ![p] = [NoProcess EXCEPT !.st = "forked",
                                                            !.mask = temp["main"]]]
    BY <1>4 DEF Fork
  <2>2. [NoProcess EXCEPT !.st = "forked", !.mask = temp["main"]] \in Process
    BY <1>0 DEF NoProcess, Process, ProcStates, ShellTypeOK
  <2> QED
    BY <1>0, <1>4, <2>1, <2>2, GotoType DEF Fork, ShellTypeOK
<1>5. CASE ForkFails
  BY <1>0, <1>5, GotoType DEF ForkFails, ShellTypeOK, Commands
<1>6. CASE AddJob
  BY <1>0, <1>6, GotoType DEF AddJob, ShellTypeOK
<1>7. CASE CheckForeground
  BY <1>0, <1>7, GotoType DEF CheckForeground, ShellTypeOK
<1>8. CASE ListJobs
  BY <1>0, <1>8, GotoType DEF ListJobs, ShellTypeOK
<1>9. CASE LookupJid
  <2>1. PICK jid \in {job_list[i].jid : i \in Slots} \union {0} :
          LET jobp == find_job_with_jid(jid)
          IN  IF jobp = NULL
              THEN End("crashed") /\ UNCHANGED <<built_in_job, pid>>
              ELSE /\ Goto("main", "kill")
                   /\ built_in_job' = jobp
                   /\ pid' = [pid EXCEPT !["main"] = job_list[jobp].pid]
    BY <1>9 DEF LookupJid
  <2>2. CASE find_job_with_jid(jid) = NULL
    BY <1>9, <2>1, <2>2 DEF LookupJid, End, ShellTypeOK
  <2>3. CASE find_job_with_jid(jid) # NULL
    <3> DEFINE jobp == find_job_with_jid(jid)
    <3>1. jobp \in Slots
      BY <2>3, FirstOf DEF find_job_with_jid
    <3>2. job_list[jobp].pid \in Pids \union {NoPid}
      BY <3>1 DEF ListTypeOK, job_t
    <3> HIDE DEF jobp
    <3>3. /\ Goto("main", "kill")
          /\ built_in_job' = jobp
          /\ pid' = [pid EXCEPT !["main"] = job_list[jobp].pid]
      BY <2>1, <2>3 DEF jobp
    <3> QED
      BY <1>0, <1>9, <3>1, <3>2, <3>3, GotoType DEF LookupJid, ShellTypeOK
  <2> QED
    BY <2>2, <2>3
<1>10. CASE LookupPid
  <2>1. PICK p \in Pids : /\ built_in_job' = find_job_with_pid(p)
                          /\ pid' = [pid EXCEPT !["main"] = p]
    BY <1>10 DEF LookupPid
  <2>2. find_job_with_pid(p) \in Slots \union {NULL}
    BY FindPid
  <2> QED
    BY <1>0, <1>10, <2>1, <2>2, GotoType DEF LookupPid, ShellTypeOK
<1>11. CASE ContinueJob
  <2>1. Continued(pid["main"]) \in [Pids -> Process]
    BY ContinuedType
  <2>2. ContinueNotice(pid["main"]) \subseteq Signals
    BY DEF ContinueNotice, Signals, Handlers
  <2> QED
    BY <1>0, <1>11, <2>1, <2>2, GotoType DEF ContinueJob, ShellTypeOK
<1>12. CASE SetState
  <2>1. CASE built_in_job = NULL
    BY <1>12, <2>1 DEF SetState, End, ShellTypeOK
  <2>2. CASE built_in_job # NULL
    BY <1>0, <1>12, <2>2, GotoType DEF SetState, ShellTypeOK
  <2> QED
    BY <2>1, <2>2
<1>13. CASE EvalReturn
  BY <1>0, <1>13, GotoType DEF EvalReturn, Unblock, ShellTypeOK, Commands
<1> QED
  BY <1>2, <1>3, <1>4, <1>5, <1>6, <1>7, <1>8, <1>9, <1>10, <1>11, <1>12, <1>13
     DEF Main

\* The delivery of signals and the steps of the handlers.
LEMMA HandlerType ==
    ASSUME ShellTypeOK, ListTypeOK, NEW h \in Handlers, Deliver(h) \/ Handler(h)
    PROVE  ShellTypeOK'
<1> USE DEF eval_vars, signal_vars
<1>0. /\ h \in Contexts /\ h \in Signals /\ h # "main"
      /\ "main" \in Contexts
      /\ proc_mask(h) \subseteq Signals
      /\ UserSignals \subseteq Signals
      /\ "CHLD" \in Contexts
  BY UserSignalsAssumption DEF Contexts, proc_mask, Signals, Handlers
<1>00. /\ {"idle", "entry", "restore", "return"} \subseteq Labels(h)
       /\ IF h = "CHLD" THEN {"wait", "delete", "stop"} \subseteq Labels(h)
                        ELSE {"fg", "kill"} \subseteq Labels(h)
       /\ "check" \in Labels("main")
       /\ Labels(h) \subseteq AllLabels /\ Labels("main") \subseteq AllLabels
  BY <1>0 DEF Labels, HandlerLabels, MainLabels, AllLabels
<1>1. CASE Deliver(h)
  <2>1. h \in pending
    BY <1>1 DEF Deliver
  <2>2. /\ pc' \in [Contexts -> AllLabels]
        /\ \A d \in Contexts : pc'[d] \in Labels(d)
    BY <1>0, <1>00, <1>1 DEF Deliver, ShellTypeOK
  <2>3. oldmask' \in [Contexts -> SUBSET Signals]
    BY <1>0, <1>1 DEF Deliver, ShellTypeOK
  <2> QED
    BY <1>0, <1>1, <2>1, <2>2, <2>3 DEF Deliver, ShellTypeOK
<1>2. CASE HandlerBlock(h)
  BY <1>0, <1>00, <1>2, GotoType DEF HandlerBlock, Block, ShellTypeOK
<1>3. CASE HandlerUnblock(h)
  BY <1>0, <1>00, <1>3, GotoType DEF HandlerUnblock, Unblock, ShellTypeOK
<1>4. CASE HandlerReturn(h)
  BY <1>0, <1>00, <1>4, GotoType DEF HandlerReturn, ShellTypeOK
<1>5. CASE h = "CHLD" /\ Wait
  <2>1. PICK p \in Waitable :
          /\ pid' = [pid EXCEPT !["CHLD"] = p]
          /\ \/ /\ proc' = [proc EXCEPT ![p] = NoProcess]
                /\ Goto("CHLD", "delete")
             \/ /\ proc' = [proc EXCEPT ![p].event = FALSE]
                /\ Goto("CHLD", "stop")
    BY <1>5 DEF Wait
  <2>2. p \in Pids /\ proc[p] \in Process
    BY DEF Waitable, ShellTypeOK
  <2>3. NoProcess \in Process /\ [proc[p] EXCEPT !.event = FALSE] \in Process
    BY <2>2 DEF NoProcess, Process, ProcStates
  <2>4. /\ pc' \in [Contexts -> AllLabels]
        /\ \A d \in Contexts : pc'[d] \in Labels(d)
        /\ status' = status
    BY <1>0, <1>00, <1>5, <2>1, GotoType
  <2>5. proc' \in [Pids -> Process]
    BY <2>1, <2>2, <2>3 DEF ShellTypeOK
  <2> QED
    BY <1>0, <1>5, <2>1, <2>2, <2>4, <2>5 DEF Wait, ShellTypeOK
<1>6. CASE h = "CHLD" /\ WaitNone
  BY <1>0, <1>00, <1>6, GotoType DEF WaitNone, ShellTypeOK
<1>7. CASE h = "CHLD" /\ DeleteJob
  BY <1>0, <1>00, <1>7, GotoType DEF DeleteJob, ShellTypeOK
<1>8. CASE h = "CHLD" /\ StopJob
  <2>1. CASE find_job_with_pid(pid["CHLD"]) = NULL
    BY <1>8, <2>1 DEF StopJob, End, ShellTypeOK
  <2>2. CASE find_job_with_pid(pid["CHLD"]) # NULL
    BY <1>0, <1>00, <1>8, <2>2, GotoType DEF StopJob, ShellTypeOK
  <2> QED
    BY <2>1, <2>2
<1>9. CASE h # "CHLD" /\ FindForeground(h)
  <2>1. fg_pid \in Pids \union {NoPid}
    BY FgPid
  <2> QED
    BY <1>0, <1>00, <1>9, <2>1, GotoType DEF FindForeground, ShellTypeOK
<1>10. CASE h # "CHLD" /\ Forward(h)
  <2>1. Killed(pid[h], h) \in [Pids -> Process]
    BY <1>10, KilledType DEF Handlers
  <2> QED
    BY <1>0, <1>00, <1>10, <2>1, GotoType DEF Forward, ShellTypeOK
<1> QED
  BY <1>1, <1>2, <1>3, <1>4, <1>5, <1>6, <1>7, <1>8, <1>9, <1>10 DEF Handler

\* The steps of the children and of others, and the end of the shell.
LEMMA EnvironmentType ==
    ShellTypeOK /\ (DeliverQuit \/ Environment \/ Over) => ShellTypeOK'
<1> SUFFICES ASSUME ShellTypeOK, DeliverQuit \/ Environment \/ Over PROVE ShellTypeOK'
  OBVIOUS
<1> USE DEF eval_vars, signal_vars
<1>0. "CHLD" \in Signals /\ UserSignals \subseteq Signals
  BY UserSignalsAssumption DEF Signals, Handlers
<1>1. ASSUME EnvUnchanged, proc' \in [Pids -> Process], pending' \in SUBSET Signals
      PROVE  ShellTypeOK'
  BY <1>1 DEF EnvUnchanged, ShellTypeOK
<1>2. ASSUME NEW p \in Pids, ChildSetup(p) PROVE ShellTypeOK'
  <2>1. proc' \in [Pids -> Process]
    BY <1>2 DEF ChildSetup, Process, ProcStates, ShellTypeOK
  <2> QED
    BY <1>1, <1>2, <2>1 DEF ChildSetup, ShellTypeOK
<1>3. ASSUME NEW p \in Pids, ChildExec(p) PROVE ShellTypeOK'
  <2>1. proc' \in [Pids -> Process]
    BY <1>3 DEF ChildExec, Process, ProcStates, ShellTypeOK
  <2> QED
    BY <1>1, <1>3, <2>1 DEF ChildExec, ShellTypeOK
<1>4. ASSUME NEW p \in Pids, NEW s \in {"INT", "TSTP"}, TakeSignal(p, s) PROVE ShellTypeOK'
  <2>1. [proc EXCEPT ![p].sigs = @ \ {s}] \in [Pids -> Process]
    BY DEF Process, ShellTypeOK
  <2>2. proc' \in [Pids -> Process] /\ pending' \in SUBSET Signals
    BY <1>0, <1>4, <2>1, EndedType, StoppedType DEF TakeSignal, ShellTypeOK
  <2> QED
    BY <1>1, <1>4, <2>2 DEF TakeSignal
<1>5. ASSUME NEW p \in Pids, Terminate(p) PROVE ShellTypeOK'
  BY <1>0, <1>1, <1>5, EndedType DEF Terminate, ShellTypeOK
<1>6. ASSUME NEW p \in Pids, Stop(p) PROVE ShellTypeOK'
  BY <1>0, <1>1, <1>6, StoppedType DEF Stop, ShellTypeOK
<1>7. ASSUME NEW p \in Pids, ContinueByOthers(p) PROVE ShellTypeOK'
  BY <1>0, <1>1, <1>7, ContinuedType DEF ContinueByOthers, ContinueNotice, ShellTypeOK
<1>8. ASSUME NEW s \in UserSignals, SendToShell(s) PROVE ShellTypeOK'
  BY <1>0, <1>1, <1>8 DEF SendToShell, ShellTypeOK
<1>9. CASE DeliverQuit
  BY <1>9 DEF DeliverQuit, End, ShellTypeOK
<1>10. CASE Over
  BY <1>10 DEF Over, vars, ShellTypeOK
<1> QED
  BY <1>2, <1>3, <1>4, <1>5, <1>6, <1>7, <1>8, <1>9, <1>10 DEF Environment, Child

-----------------------------------------------------------------------------
(***************************************************************************)
(* Signal masks.  ListAccessGuarded is not inductive: what a context does  *)
(* after it was interrupted depends on the mask that is put back, and that *)
(* on who interrupted whom.  rank is the depth of each context in the      *)
(* chain of interrupted contexts.                                          *)
(***************************************************************************)

Active == {h \in Handlers : pc[h] # "idle"}

MainCritical == {"fork", "add", "check", "list", "lookup", "kill", "set", "restore"}
HandlerCritical == {"wait", "delete", "stop", "fg", "kill", "restore"}

\* Context c has blocked the signals and not yet unblocked them.
Critical(c) == pc[c] \in IF c = "main" THEN MainCritical ELSE HandlerCritical

\* The active handlers form a chain from main to the running context, and each
\* one blocks those below it when it returns.
Nested(rank) ==
    /\ rank \in [Contexts -> Nat]
    /\ rank["main"] = 0
    /\ running \in Active \union {"main"}
    /\ \A h \in Active : /\ caller[h] \in Active \union {"main"}
                         /\ rank[h] = rank[caller[h]] + 1
                         /\ rank[h] <= rank[running]
    /\ \A g, h \in Active : rank[g] = rank[h] => g = h
    /\ \A g, h \in Active : rank[h] < rank[g] => h \in oldmask[g]

Nesting == \E rank : Nested(rank)

Masking ==
    /\ Active \subseteq mask
    /\ Critical(running) => Handlers \subseteq mask
    /\ \A h \in Handlers : Critical(h) => running = h /\ Active \subseteq temp[h]
    /\ \A h \in Active : Critical(caller[h]) => Handlers \subseteq oldmask[h]
    /\ Critical("main") /\ running # "main" => pc["main"] = "check"
    /\ pc["main"] = "suspend" => running = "main" /\ Handlers \subseteq oldmask["main"]

Control == Nesting /\ Masking

\* While main runs, no handler is active.
LEMMA NoHandlerActive ==
    ASSUME ShellTypeOK, Nesting, running = "main"
    PROVE  Active = {}
<1>1. PICK rank : Nested(rank)
  BY DEF Nesting
<1>2. ASSUME NEW h \in Active PROVE FALSE
  <2>1. caller[h] \in Contexts
    BY DEF ShellTypeOK, Active
  <2>2. rank[caller[h]] \in Nat /\ rank[h] = rank[caller[h]] + 1 /\ rank[h] <= 0
    BY <1>1, <2>1 DEF Nested
  <2> QED
    BY <2>2
<1> QED
  BY <1>2

\* No handler interrupts itself, and nobody has interrupted the running one.
LEMMA RunningOnTop ==
    ASSUME ShellTypeOK, NEW rank, Nested(rank), NEW h \in Active
    PROVE  /\ caller[h] # h
           /\ caller[h] # running
           /\ rank[h] \in Nat /\ rank[caller[h]] \in Nat
<1>1. h \in Contexts /\ caller[h] \in Contexts /\ running \in Contexts
  BY DEF Active, Contexts, ShellTypeOK
<1>2. rank[h] \in Nat /\ rank[caller[h]] \in Nat /\ rank[running] \in Nat
  BY <1>1 DEF Nested
<1>3. rank[h] = rank[caller[h]] + 1 /\ rank[h] <= rank[running]
  BY DEF Nested
<1> QED
  BY <1>2, <1>3

LEMMA NestingFrame ==
    ASSUME Nesting, Active' = Active, running' = running, caller' = caller,
           \A h \in Handlers : oldmask'[h] = oldmask[h]
    PROVE  Nesting'
<1>1. PICK rank : Nested(rank)
  BY DEF Nesting
<1>2. Active \subseteq Handlers
  BY DEF Active
<1>3. Nested(rank)'
  BY <1>1, <1>2 DEF Nested
<1> QED
  BY <1>3 DEF Nesting

\* Any step of main that leaves a critical section with the signals blocked.
LEMMA MainControl ==
    ASSUME ShellTypeOK, Control, running = "main", running' = "main",
           \A h \in Handlers : pc'[h] = pc[h],
           pc'["main"] \in MainCritical => Handlers \subseteq mask',
           pc'["main"] = "suspend" => Handlers \subseteq oldmask'["main"]
    PROVE  Control'
<1>1. Active = {} /\ Active' = {}
  BY NoHandlerActive DEF Active, Control
<1>2. \A h \in Handlers : ~ Critical(h)'
  BY <1>1 DEF Active, Critical, HandlerCritical, Handlers
<1>3. Nested([c \in Contexts |-> 0])'
  BY <1>1 DEF Nested, Contexts
<1>4. Nesting'
  BY <1>3 DEF Nesting
<1>5. Masking'
  BY <1>1, <1>2 DEF Masking, Critical
<1> QED
  BY <1>4, <1>5 DEF Control

\* Any step of a handler between two points where the signals are blocked.
LEMMA HandlerControl ==
    ASSUME ShellTypeOK, Control, NEW h \in Handlers, running = h,
           Critical(h), NEW l \in HandlerCritical, pc' = [pc EXCEPT ![h] = l],
           UNCHANGED <<temp, running, caller, oldmask, mask>>
    PROVE  Control'
<1>1. h # "main" /\ "main" \in Contexts /\ h \in Contexts
  BY DEF Handlers, Contexts
<1>2. \A c \in Contexts : c # h => pc'[c] = pc[c]
  BY DEF ShellTypeOK
<1>3. pc'[h] = l
  BY <1>1 DEF ShellTypeOK
<1>4. Active' = Active
  BY <1>1, <1>2, <1>3 DEF Active, Critical, HandlerCritical, Contexts
<1>5. \A c \in Contexts : Critical(c)' <=> Critical(c)
  BY <1>1, <1>2, <1>3 DEF Critical
<1>6. Nesting'
  BY <1>4, NestingFrame DEF Control
<1>7. \A g \in Active : g \in Contexts /\ caller[g] \in Contexts
  BY DEF Active, Contexts, ShellTypeOK
<1>8. Masking'
  BY <1>1, <1>2, <1>4, <1>5, <1>7 DEF Masking, Control, Contexts
<1> QED
  BY <1>6, <1>8 DEF Control

LEMMA MainControls == ShellTypeOK /\ Control /\ Main => Control'
<1> SUFFICES ASSUME ShellTypeOK, Control, Main PROVE Control'
  OBVIOUS
<1> USE DEF eval_vars, signal_vars
<1>0. "main" \in Contexts /\ \A h \in Handlers : h \in Contexts /\ h # "main"
  BY DEF Contexts, Handlers
<1>1. ASSUME NEW l \in MainLabels \ {"suspend"}, Goto("main", l), running = "main",
             running' = "main", l \in MainCritical => Handlers \subseteq mask'
      PROVE  Control'
  <2>1. pc'["main"] = l /\ \A h \in Handlers : pc'[h] = pc[h]
    BY <1>0, <1>1 DEF Goto, ShellTypeOK
  <2> QED
    BY <1>1, <2>1, MainControl
<1>2. ASSUME NEW l \in MainCritical, Goto("main", l), running = "main",
             Critical("main"), UNCHANGED <<running, mask>>
      PROVE  Control'
  BY <1>1, <1>2 DEF Control, Masking, MainCritical, MainLabels
<1>3. ASSUME NEW how, End(how), UNCHANGED <<temp, signal_vars>>
      PROVE  Control'
  BY <1>3 DEF End, Control, Nesting, Nested, Masking, Active, Critical
<1>4. ASSUME NEW c, NEW l \in {"fork", "list", "lookup"}, ReadCommand(c, l)
      PROVE  Control'
  BY <1>1, <1>4 DEF ReadCommand, Block, proc_mask, At, MainLabels
<1>5. CASE ReadProgram \/ ReadJobs \/ ReadBgFg
  BY <1>4, <1>5 DEF ReadProgram, ReadJobs, ReadBgFg
<1>6. CASE Quit
  BY <1>3, <1>6 DEF Quit
<1>7. CASE Fork
  BY <1>2, <1>7 DEF Fork, At, Critical, MainCritical
<1>8. CASE ForkFails
  BY <1>1, <1>8 DEF ForkFails, At, MainLabels, MainCritical
<1>9. CASE AddJob
  BY <1>2, <1>9 DEF AddJob, At, Critical, MainCritical
<1>10. CASE CheckForeground
  <2>1. CASE fg_pid = NoPid
    BY <1>2, <1>10, <2>1 DEF CheckForeground, At, Critical, MainCritical
  <2>2. CASE fg_pid # NoPid
    <3>1. /\ running = "main" /\ running' = "main"
          /\ pc' = [pc EXCEPT !["main"] = "suspend"]
          /\ oldmask' = [oldmask EXCEPT !["main"] = mask]
      BY <1>10, <2>2 DEF CheckForeground, At, Goto
    <3>2. pc'["main"] = "suspend" /\ oldmask'["main"] = mask
      BY <1>0, <3>1 DEF ShellTypeOK
    <3>3. \A h \in Handlers : pc'[h] = pc[h]
      BY <1>0, <3>1 DEF ShellTypeOK
    <3>4. Handlers \subseteq mask
      BY <1>10 DEF CheckForeground, At, Control, Masking, Critical, MainCritical
    <3> QED
      BY <3>1, <3>2, <3>3, <3>4, MainControl DEF MainCritical
  <2> QED
    BY <2>1, <2>2
<1>11. CASE ListJobs
  BY <1>2, <1>11 DEF ListJobs, At, Critical, MainCritical
<1>12. CASE LookupJid
  <2>1. End("crashed") \/ Goto("main", "kill")
    BY <1>12 DEF LookupJid
  <2> QED
    BY <1>2, <1>3, <1>12, <2>1 DEF LookupJid, At, Critical, MainCritical
<1>13. CASE LookupPid
  BY <1>2, <1>13 DEF LookupPid, At, Critical, MainCritical
<1>14. CASE ContinueJob
  BY <1>2, <1>14 DEF ContinueJob, At, Critical, MainCritical
<1>15. CASE SetState
  <2>1. End("crashed") \/ \E l \in {"restore", "check"} : Goto("main", l)
    BY <1>15 DEF SetState
  <2> QED
    BY <1>2, <1>3, <1>15, <2>1 DEF SetState, At, Critical, MainCritical
<1>16. CASE EvalReturn
  BY <1>1, <1>16 DEF EvalReturn, At, MainLabels, MainCritical
<1> QED
  BY <1>5, <1>6, <1>7, <1>8, <1>9, <1>10, <1>11, <1>12, <1>13, <1>14, <1>15, <1>16
     DEF Main

\* The handlers keep the chain and the masks.
LEMMA DeliverControl ==
    ASSUME ShellTypeOK, Control, NEW h \in Handlers, Deliver(h)
    PROVE  Control'
<1> DEFINE suspended == running = "main" /\ pc["main"] = "suspend"
<1>0. /\ h \in Contexts /\ h # "main" /\ "main" \in Contexts
      /\ \A g \in Active : g \in Handlers /\ g \in Contexts /\ g # "main"
      /\ \A g \in Handlers : g \in Contexts /\ g # "main"
      /\ running \in Contexts
  BY DEF Contexts, Handlers, Active, ShellTypeOK
<1>1. h \notin Active /\ running # h /\ ~ Critical(running)
  BY <1>0 DEF Deliver, Control, Masking, Nesting, Nested
<1>2. /\ running' = h
      /\ mask' = mask \union {h}
      /\ temp' = temp
      /\ caller'[h] = running
      /\ \A g \in Handlers : g # h => caller'[g] = caller[g] /\ oldmask'[g] = oldmask[g]
      /\ pc'[h] = "entry"
      /\ \A g \in Handlers : g # h => pc'[g] = pc[g]
      /\ pc'["main"] = IF suspended THEN "check" ELSE pc["main"]
      /\ oldmask'[h] = IF suspended THEN oldmask["main"] ELSE mask
      /\ oldmask'["main"] = IF suspended THEN {} ELSE oldmask["main"]
  BY <1>0 DEF Deliver, ShellTypeOK
<1>3. Active' = Active \union {h}
  BY <1>2 DEF Active
<1>4. suspended => Active = {} /\ Handlers \subseteq oldmask["main"]
  BY NoHandlerActive DEF Control, Masking
<1> HIDE DEF suspended
<1>5. Active \subseteq oldmask'[h]
  BY <1>2, <1>4 DEF Control, Masking
<1>6. Nesting'
  <2>1. PICK rank : Nested(rank)
    BY DEF Control, Nesting
  <2>2. PICK n \in Nat : n = rank[running]
    BY <1>0, <2>1 DEF Nested
  <2> DEFINE up == [rank EXCEPT ![h] = n + 1]
  <2>3. up[h] = n + 1 /\ \A c \in Contexts : c # h => up[c] = rank[c]
    BY <1>0, <2>1 DEF Nested
  <2>4. up \in [Contexts -> Nat]
    BY <1>0, <2>1 DEF Nested
  <2> HIDE DEF up
  <2>5. \A g \in Active : /\ g # h /\ g \in Contexts
                          /\ up[g] = rank[g] /\ rank[g] \in Nat /\ rank[g] <= n
    BY <1>0, <1>1, <2>1, <2>2, <2>3 DEF Nested
  <2>6. running \in Active \union {"main"} /\ up[running] = n
    BY <1>0, <1>1, <2>1, <2>2, <2>3 DEF Nested
  <2>7. ASSUME NEW g \in Active'
        PROVE  /\ caller'[g] \in Active' \union {"main"}
               /\ up[g] = up[caller'[g]] + 1
               /\ up[g] <= up[running']
    <3>1. CASE g = h
      BY <1>2, <1>3, <2>2, <2>3, <2>6, <3>1
    <3>2. CASE g # h
      <4>1. g \in Active /\ caller'[g] = caller[g]
        BY <1>0, <1>2, <1>3, <3>2
      <4>2. caller[g] \in Active \union {"main"} /\ rank[g] = rank[caller[g]] + 1
        BY <2>1, <4>1 DEF Nested
      <4>3. up[caller[g]] = rank[caller[g]]
        BY <1>0, <1>1, <2>3, <4>2
      <4> QED
        BY <1>2, <1>3, <2>3, <2>5, <4>1, <4>2, <4>3
    <3> QED
      BY <3>1, <3>2
  <2>8. \A f, g \in Active' : up[f] = up[g] => f = g
    BY <1>3, <2>1, <2>3, <2>5 DEF Nested
  <2>9. \A f, g \in Active' : up[g] < up[f] => g \in oldmask'[f]
    <3>1. \A g \in Active : up[g] < n + 1 /\ ~ n + 1 < up[g]
      BY <2>5
    <3>2. \A f, g \in Active : rank[g] < rank[f] => g \in oldmask'[f]
      BY <1>0, <1>1, <1>2, <2>1 DEF Nested
    <3> QED
      BY <1>3, <1>5, <2>3, <2>5, <3>1, <3>2
  <2>10. up["main"] = 0
    BY <1>0, <2>1, <2>3 DEF Nested
  <2>11. Nested(up)'
    BY <1>2, <1>3, <2>4, <2>7, <2>8, <2>9, <2>10 DEF Nested
  <2> QED
    BY <2>11 DEF Nesting
<1>7. Masking'
  <2>1. \A g \in Handlers : ~ Critical(g) /\ ~ Critical(g)'
    BY <1>0, <1>1, <1>2 DEF Control, Masking, Critical, HandlerCritical
  <2>2. Critical("main")' <=> Critical("main") \/ suspended
    BY <1>2 DEF Critical, MainCritical, suspended
  <2>3. \A g \in Active' : Critical(caller[g])' => Handlers \subseteq oldmask'[g]
    <3>1. CASE suspended
      BY <1>2, <1>3, <1>4, <3>1
    <3>2. CASE ~ suspended
      <4>1. \A c \in Contexts : Critical(c)' => Critical(c)
        BY <2>1, <2>2, <3>2 DEF Contexts
      <4>2. \A g \in Active : caller[g] \in Contexts /\ caller'[g] = caller[g]
        BY <1>0, <1>1, <1>2 DEF ShellTypeOK
      <4> QED
        BY <1>0, <1>1, <1>2, <1>3, <4>1, <4>2 DEF Control, Masking, Critical
    <3> QED
      BY <3>1, <3>2
  <2>4. Critical("main")' => pc'["main"] = "check"
    BY <1>1, <1>2, <2>2 DEF Control, Masking
  <2>5. pc'["main"] # "suspend"
    BY <1>2 DEF Control, Masking, suspended
  <2> QED
    BY <1>2, <1>3, <2>1, <2>3, <2>4, <2>5 DEF Control, Masking, Critical
<1> QED
  BY <1>6, <1>7 DEF Control

LEMMA BlockControl ==
    ASSUME ShellTypeOK, Control, NEW h \in Handlers, HandlerBlock(h)
    PROVE  Control'
<1>0. /\ h \in Contexts /\ h # "main" /\ "main" \in Contexts
      /\ \A g \in Handlers : g \in Contexts /\ g # "main"
  BY DEF Contexts, Handlers
<1>1. PICK garbage \in SUBSET (UserSignals \ Handlers) : Block(h, proc_mask(h) \union garbage)
  BY DEF HandlerBlock
<1>2. /\ running = h /\ pc[h] = "entry" /\ pc'[h] \in {"wait", "fg"}
      /\ \A c \in Contexts : c # h => pc'[c] = pc[c]
      /\ UNCHANGED <<running, caller, oldmask>>
  BY <1>0 DEF HandlerBlock, At, Goto, ShellTypeOK
<1>3. h \in Active /\ Active' = Active
  BY <1>0, <1>2 DEF Active
<1>4. mask \subseteq mask' /\ Handlers \subseteq mask'
  BY <1>1, <1>3 DEF Block, proc_mask, Control, Masking, Handlers
<1>5. temp'[h] = mask /\ \A g \in Handlers : g # h => temp'[g] = temp[g]
  BY <1>0, <1>1 DEF Block, ShellTypeOK
<1>6. Nesting'
  BY <1>2, <1>3, NestingFrame DEF Control
<1>7. \A c \in Contexts : c # h => (Critical(c)' <=> Critical(c))
  BY <1>2 DEF Critical
<1>8. \A g \in Active : caller[g] \in Contexts /\ caller[g] # h
  <2>1. PICK rank : Nested(rank)
    BY DEF Control, Nesting
  <2>2. \A g \in Active : caller[g] # running
    BY <2>1, RunningOnTop
  <2> QED
    BY <1>2, <2>2 DEF Active, ShellTypeOK
<1>9. Masking'
  BY <1>0, <1>2, <1>3, <1>4, <1>5, <1>7, <1>8 DEF Masking, Control
<1> QED
  BY <1>6, <1>9 DEF Control

LEMMA UnblockControl ==
    ASSUME ShellTypeOK, Control, NEW h \in Handlers, HandlerUnblock(h)
    PROVE  Control'
<1>0. /\ h \in Contexts /\ h # "main" /\ "main" \in Contexts
      /\ \A g \in Handlers : g \in Contexts /\ g # "main"
  BY DEF Contexts, Handlers
<1>1. /\ running = h /\ pc[h] = "restore" /\ pc'[h] = "return"
      /\ \A c \in Contexts : c # h => pc'[c] = pc[c]
      /\ UNCHANGED <<running, caller, oldmask>>
      /\ mask' = temp[h]
      /\ \A g \in Handlers : g # h => temp'[g] = temp[g]
  BY <1>0 DEF HandlerUnblock, Unblock, At, Goto, ShellTypeOK
<1>2. Active' = Active
  BY <1>0, <1>1 DEF Active
<1>3. Critical(h) /\ ~ Critical(h)'
  BY <1>0, <1>1 DEF Critical, HandlerCritical
<1>4. \A c \in Contexts : Critical(c)' => Critical(c)
  BY <1>1, <1>3 DEF Critical
<1>5. Active \subseteq mask'
  BY <1>1, <1>3 DEF Control, Masking
<1>6. Nesting'
  BY <1>1, <1>2, NestingFrame DEF Control
<1>7. \A g \in Active : caller[g] \in Contexts
  BY DEF Active, ShellTypeOK
<1>8. Masking'
  BY <1>0, <1>1, <1>2, <1>3, <1>4, <1>5, <1>7 DEF Masking, Control
<1> QED
  BY <1>6, <1>8 DEF Control

LEMMA ReturnControl ==
    ASSUME ShellTypeOK, Control, NEW h \in Handlers, HandlerReturn(h)
    PROVE  Control'
<1>0. /\ h \in Contexts /\ h # "main" /\ "main" \in Contexts
      /\ \A g \in Handlers : g \in Contexts /\ g # "main"
  BY DEF Contexts, Handlers
<1>1. /\ running = h /\ pc[h] = "return" /\ pc'[h] = "idle"
      /\ \A c \in Contexts : c # h => pc'[c] = pc[c]
      /\ mask' = oldmask[h] /\ running' = caller[h] /\ temp' = temp
      /\ \A c \in Contexts : c # h => oldmask'[c] = oldmask[c]
      /\ \A g \in Handlers : g # h => caller'[g] = caller[g]
  BY <1>0 DEF HandlerReturn, At, Goto, ShellTypeOK
<1>2. h \in Active /\ Active' = Active \ {h}
  BY <1>0, <1>1 DEF Active
<1>3. PICK rank : Nested(rank)
  BY DEF Control, Nesting
<1>4. \A g \in Active : /\ g \in Handlers
                        /\ caller[g] # g /\ caller[g] # h
                        /\ caller[g] \in Active \union {"main"}
                        /\ rank[g] \in Nat /\ rank[caller[g]] \in Nat
                        /\ rank[g] = rank[caller[g]] + 1
                        /\ rank[g] <= rank[h]
  BY <1>1, <1>3, RunningOnTop DEF Nested, Active
<1>5. \A g \in Active' : rank[g] < rank[h] /\ rank[g] <= rank[caller[h]]
  <2>1. \A g \in Active' : g \in Active /\ rank[g] # rank[h]
    BY <1>2, <1>3 DEF Nested
  <2> QED
    BY <1>2, <1>4, <2>1
<1>6. Active' \subseteq mask'
  BY <1>1, <1>2, <1>3, <1>5 DEF Nested
<1>7. Nested(rank)'
  <2>1. running' \in Active' \union {"main"}
    BY <1>1, <1>2, <1>4
  <2>2. \A g \in Active' : /\ caller'[g] \in Active' \union {"main"}
                           /\ rank[g] = rank[caller'[g]] + 1
                           /\ rank[g] <= rank[running']
    BY <1>1, <1>2, <1>4, <1>5
  <2>3. \A f, g \in Active' : rank[g] < rank[f] => g \in oldmask'[f]
    BY <1>0, <1>1, <1>2, <1>3, <1>4 DEF Nested
  <2>4. \A f, g \in Active' : rank[f] = rank[g] => f = g
    BY <1>2, <1>3 DEF Nested
  <2> QED
    BY <1>3, <2>1, <2>2, <2>3, <2>4 DEF Nested
<1>8. Masking'
  <2>1. \A g \in Handlers : ~ Critical(g) /\ ~ Critical(g)'
    BY <1>0, <1>1 DEF Control, Masking, Critical, HandlerCritical
  <2>2. Critical("main")' <=> Critical("main")
    BY <1>0, <1>1 DEF Critical
  <2>3. \A c \in Contexts : Critical(c)' => Critical(c)
    BY <2>1, <2>2 DEF Contexts
  <2>4. \A g \in Active' : /\ caller[g] \in Contexts
                           /\ caller'[g] = caller[g] /\ oldmask'[g] = oldmask[g]
    BY <1>0, <1>1, <1>2, <1>4 DEF ShellTypeOK
  <2>5. caller[h] \in Contexts
    BY DEF ShellTypeOK
  <2>6. pc'["main"] = pc["main"] /\ oldmask'["main"] = oldmask["main"]
    BY <1>0, <1>1
  <2>7. Critical(running)' => Handlers \subseteq mask'
    BY <1>1, <1>2, <2>3, <2>5 DEF Control, Masking, Critical
  <2>8. \A g \in Active' : Critical(caller[g])' => Handlers \subseteq oldmask'[g]
    BY <1>2, <2>3, <2>4 DEF Control, Masking, Critical
  <2>9. Critical("main")' => pc'["main"] = "check"
    BY <1>0, <1>1, <2>2, <2>6 DEF Control, Masking
  <2>10. pc'["main"] # "suspend"
    BY <1>0, <1>1, <2>6 DEF Control, Masking
  <2> QED
    BY <1>6, <2>1, <2>7, <2>8, <2>9, <2>10 DEF Masking, Critical
<1> QED
  BY <1>7, <1>8 DEF Control, Nesting

\* The remaining steps of the handlers lie between two critical labels.
LEMMA HandlerControls ==
    ASSUME ShellTypeOK, Control, NEW h \in Handlers, Deliver(h) \/ Handler(h)
    PROVE  Control'
<1> USE DEF eval_vars, signal_vars
<1>1. ASSUME NEW l \in HandlerCritical, running = h, pc[h] \in HandlerCritical, Goto(h, l),
             UNCHANGED <<temp, running, caller, oldmask, mask>>
      PROVE  Control'
  BY <1>1, HandlerControl DEF Goto, Critical, Handlers
<1>2. CASE h = "CHLD" /\ Wait
  <2>1. \E l \in {"delete", "stop"} : Goto("CHLD", l)
    BY <1>2 DEF Wait
  <2> QED
    BY <1>1, <1>2, <2>1 DEF Wait, At, HandlerCritical
<1>3. CASE h = "CHLD" /\ WaitNone
  BY <1>1, <1>3 DEF WaitNone, At, HandlerCritical
<1>4. CASE h = "CHLD" /\ DeleteJob
  BY <1>1, <1>4 DEF DeleteJob, At, HandlerCritical
<1>5. CASE h = "CHLD" /\ StopJob
  <2>1. End("crashed") \/ Goto("CHLD", "wait")
    BY <1>5 DEF StopJob
  <2>2. CASE End("crashed")
    BY <1>5, <2>2 DEF StopJob, End, Control, Nesting, Nested, Masking, Active, Critical
  <2> QED
    BY <1>1, <1>5, <2>1, <2>2 DEF StopJob, At, HandlerCritical
<1>6. CASE h # "CHLD" /\ FindForeground(h)
  BY <1>1, <1>6 DEF FindForeground, At, HandlerCritical
<1>7. CASE h # "CHLD" /\ Forward(h)
  BY <1>1, <1>7 DEF Forward, At, HandlerCritical
<1> QED
  BY <1>2, <1>3, <1>4, <1>5, <1>6, <1>7,
     DeliverControl, BlockControl, UnblockControl, ReturnControl DEF Handler

\* Nobody else changes what the shell blocks.
LEMMA EnvironmentControl ==
    Control /\ (DeliverQuit \/ Environment \/ Over) => Control'
<1>1. DeliverQuit \/ Environment \/ Over =>
        UNCHANGED <<pc, temp, running, caller, oldmask, mask>>
  BY DEF DeliverQuit, End, signal_vars, Environment, Child, ChildSetup, ChildExec,
         TakeSignal, Terminate, Stop, ContinueByOthers, SendToShell, EnvUnchanged, Over, vars
<1> QED
  BY <1>1 DEF Control, Nesting, Nested, Masking, Active, Critical

LEMMA ControlInit == Init => Control
<1> SUFFICES ASSUME Init PROVE Control
  OBVIOUS
<1>1. Active = {} /\ pc["main"] = "prompt" /\ running = "main"
  BY DEF Init, Active, Contexts, Handlers
<1>2. Nested([c \in Contexts |-> 0])
  BY <1>1 DEF Nested, Contexts
<1>3. \A h \in Handlers : ~ Critical(h)
  BY DEF Init, Critical, HandlerCritical, Contexts, Handlers
<1> QED
  BY <1>1, <1>2, <1>3 DEF Control, Nesting, Masking, Critical, MainCritical

-----------------------------------------------------------------------------
(***************************************************************************)
(* The list and the processes.  Each context remembers a pid or a slot     *)
(* between two steps; the masks keep what it remembers true.               *)
(***************************************************************************)

\* What eval relies on.
MainJobs ==
    /\ pc["main"] \in {"fork", "add"} => cmd \in {"FG", "BG"} /\ nextjid <= JidBound
    /\ pc["main"] = "add" => /\ pid["main"] \in Pids \ Listed
                             /\ proc[pid["main"]].st # "free"
    /\ pc["main"] \in {"lookup", "kill", "set"} => cmd \in {"bg", "fg"}
    /\ pc["main"] \in {"kill", "set"} =>
          built_in_job = NULL \/ job_list[built_in_job].pid # NoPid

\* What the SIGCHLD handler relies on.
HandlerJobs == pc["CHLD"] \in {"delete", "stop"} => pid["CHLD"] \in Pids

\* A listed process exists, or is being deleted.
ListedExist ==
    \A p \in Listed : \/ proc[p].st # "free"
                      \/ pc["CHLD"] = "delete" /\ pid["CHLD"] = p

Jobs == /\ MainJobs
        /\ HandlerJobs
        /\ ListedExist
        /\ ForegroundOnlyWhileWaiting
        /\ SignalsOwnJob

ShellInv == ListInv /\ ShellTypeOK /\ Control /\ Jobs

\* What the updates of the list do to its processes and to the foreground.
LEMMA AddJobLists ==
    ASSUME ListInv, NEW p \in Pids, NEW state \in {"FG", "BG"}, add_job(p, state)
    PROVE  /\ Listed' \subseteq Listed \union {p}
           /\ state = "BG" => ForegroundSlots' \subseteq ForegroundSlots
<1>1. CASE FreeSlots = {}
  BY <1>1 DEF add_job, list_vars, Listed, ForegroundSlots
<1>2. CASE FreeSlots # {}
  <2>1. PICK k \in Slots : job_list' = [job_list EXCEPT ![k] =
                              [pid |-> p, jid |-> nextjid, state |-> state]]
    BY <1>2, MinExists DEF add_job, FreeSlots, Slots
  <2>2. \A i \in Slots :
           /\ job_list'[i].pid = IF i = k THEN p ELSE job_list[i].pid
           /\ job_list'[i].state = IF i = k THEN state ELSE job_list[i].state
    BY <2>1 DEF ListInv, ListTypeOK
  <2> QED
    BY <2>2 DEF Listed, ForegroundSlots
<1> QED
  BY <1>1, <1>2

LEMMA DeleteJobLists ==
    ASSUME ListInv, NEW p \in Pids, delete_job(p)
    PROVE  /\ Listed' \subseteq Listed \ {p}
           /\ ForegroundSlots' \subseteq ForegroundSlots
<1> DEFINE k == find_job_with_pid(p)
<1>1. CASE k = NULL
  <2>1. p \notin Listed
    BY <1>1, FindPid DEF ListInv
  <2> QED
    BY <1>1, <2>1 DEF delete_job, list_vars, Listed, ForegroundSlots
<1>2. CASE k # NULL
  <2>1. k \in Slots /\ job_list[k].pid = p
    BY <1>2, FindPid DEF ListInv
  <2>2. job_list' = [job_list EXCEPT ![k] = ClearedJob]
    BY <1>2 DEF delete_job
  <2> HIDE DEF k
  <2>3. \A i \in Slots :
           /\ job_list'[i].pid = IF i = k THEN NoPid ELSE job_list[i].pid
           /\ job_list'[i].state = IF i = k THEN "UNDEF" ELSE job_list[i].state
    BY <2>1, <2>2 DEF ListInv, ListTypeOK, ClearedJob
  <2>4. \A i \in Slots : i # k => job_list[i].pid # p
    BY <2>1, PidsAssumption DEF ListInv, PidsUnique
  <2> QED
    BY <2>3, <2>4 DEF Listed, ForegroundSlots
<1> QED
  BY <1>1, <1>2

LEMMA SetStateLists ==
    ASSUME ListInv, NEW jobp \in Slots, NEW state, set_state_of_job(jobp, state)
    PROVE  /\ Listed' = Listed
           /\ \A i \in Slots : job_list'[i].pid = job_list[i].pid
           /\ state # "FG" => ForegroundSlots' \subseteq ForegroundSlots
<1>1. job_list' = [job_list EXCEPT ![jobp].state = state]
  BY DEF set_state_of_job
<1>2. \A i \in Slots :
         /\ job_list'[i].pid = job_list[i].pid
         /\ job_list'[i].state = IF i = jobp THEN state ELSE job_list[i].state
  BY <1>1 DEF ListInv, ListTypeOK, job_t
<1> QED
  BY <1>2 DEF Listed, ForegroundSlots

\* Without an update nothing changes.
LEMMA ListSame ==
    ASSUME ListInv, UNCHANGED list_vars
    PROVE  /\ ListInv'
           /\ Listed' = Listed
           /\ ForegroundSlots' = ForegroundSlots
<1>1. ListInv'
  BY StepKeeps
<1> QED
  BY <1>1 DEF list_vars, Listed, ForegroundSlots

\* fg_pid is 0 exactly when no job is in the foreground.
LEMMA FgPidListed ==
    ASSUME ListInv
    PROVE  /\ fg_pid = NoPid <=> ForegroundSlots = {}
           /\ fg_pid # NoPid =>
                /\ fg_pid \in Listed /\ fg_pid \in Pids
                /\ \E i \in ForegroundSlots : job_list[i].pid = fg_pid
<1>1. \A i \in ForegroundSlots : i \in Slots /\ job_list[i].pid # NoPid
  BY DEF ForegroundSlots, ListInv, SlotsCoherent
<1> QED
  BY <1>1, FgPid DEF ListInv, Listed

LEMMA ListedPids == ASSUME ListInv PROVE Listed \subseteq Pids
BY DEF ListInv, ListTypeOK, job_t, Listed

\* No process vanishes from the process table but by waitpid.
Kept == \A p \in Pids : proc[p].st # "free" => proc'[p].st # "free"

LEMMA ContinuedKeeps ==
    ASSUME ShellTypeOK, NEW p, proc' = Continued(p) PROVE Kept
<1>1. CASE Grouped(p)
  <2>1. p \in Pids /\ \A q \in Pids : proc[q] \in Process
    BY <1>1 DEF Grouped, ShellTypeOK
  <2> DEFINE r == [proc[p] EXCEPT !.st = IF @ = "stopped" THEN "running" ELSE @,
                                  !.event = FALSE,
                                  !.sigs = @ \ {"TSTP"}]
  <2>2. r.st = IF proc[p].st = "stopped" THEN "running" ELSE proc[p].st
    BY <2>1 DEF Process
  <2>3. proc' = [proc EXCEPT ![p] = r]
    BY <1>1, <2>1 DEF Continued, ShellTypeOK
  <2> HIDE DEF r
  <2> QED
    BY <2>1, <2>2, <2>3 DEF Kept, ShellTypeOK
<1>2. CASE ~ Grouped(p)
  BY <1>2 DEF Continued, Kept
<1> QED
  BY <1>1, <1>2

LEMMA KilledKeeps ==
    ASSUME ShellTypeOK, NEW p, NEW s, proc' = Killed(p, s) PROVE Kept
<1>1. CASE Grouped(p)
  <2>1. p \in Pids /\ \A q \in Pids : proc[q] \in Process
    BY <1>1 DEF Grouped, ShellTypeOK
  <2> DEFINE r == [proc[p] EXCEPT !.sigs = @ \union {s}]
  <2>2. r.st = proc[p].st
    BY <2>1 DEF Process
  <2>3. proc' = [proc EXCEPT ![p] = r]
    BY <1>1, <2>1 DEF Killed, ShellTypeOK
  <2> HIDE DEF r
  <2> QED
    BY <2>1, <2>2, <2>3 DEF Kept, ShellTypeOK
<1>2. CASE ~ Grouped(p)
  BY <1>2 DEF Killed, Kept
<1> QED
  BY <1>1, <1>2

LEMMA EndedKeeps ==
    ASSUME ShellTypeOK, NEW p \in Pids, proc' = Ended(p) PROVE Kept
BY DEF Ended, NoProcess, Kept, ShellTypeOK

LEMMA StoppedKeeps ==
    ASSUME ShellTypeOK, NEW p \in Pids, proc' = Stopped(p) PROVE Kept
<1> DEFINE r == [proc[p] EXCEPT !.st = "stopped", !.event = TRUE, !.sigs = @ \ {"TSTP"}]
<1>1. r.st = "stopped"
  BY DEF ShellTypeOK, Process
<1>2. proc' = [proc EXCEPT ![p] = r]
  BY DEF Stopped, ShellTypeOK
<1> HIDE DEF r
<1> QED
  BY <1>1, <1>2 DEF Kept, ShellTypeOK

\* The steps of others: the list stays, and no listed process vanishes.
LEMMA EnvironmentJobs ==
    ASSUME ShellInv, DeliverQuit \/ Environment \/ Over
    PROVE  UNCHANGED list_vars /\ Jobs'
<1> USE DEF eval_vars, signal_vars, ShellInv
<1>1. UNCHANGED <<list_vars, pc, pid, cmd, built_in_job>>
  BY DEF DeliverQuit, End, Environment, Child, ChildSetup, ChildExec, TakeSignal,
         Terminate, Stop, ContinueByOthers, SendToShell, EnvUnchanged, Over, vars, list_vars
<1>2. Kept
  <2>1. CASE UNCHANGED proc
    BY <2>1 DEF Kept
  <2>2. ASSUME NEW p \in Pids, ChildSetup(p) \/ ChildExec(p) PROVE Kept
    <3>1. PICK st \in {"grouped", "running", "subshell"} : proc' = [proc EXCEPT ![p].st = st]
      BY <2>2 DEF ChildSetup, ChildExec
    <3> QED
      BY <3>1 DEF Kept, ShellTypeOK, Process
  <2>3. ASSUME NEW p \in Pids, NEW s, proc' = [proc EXCEPT ![p].sigs = @ \ {s}] PROVE Kept
    BY <2>3 DEF Kept, ShellTypeOK, Process
  <2>4. ASSUME NEW p \in Pids, NEW s, TakeSignal(p, s) PROVE Kept
    BY <2>3, <2>4, EndedKeeps, StoppedKeeps DEF TakeSignal
  <2>5. ASSUME NEW p \in Pids, Terminate(p) \/ Stop(p) \/ ContinueByOthers(p) PROVE Kept
    BY <2>5, EndedKeeps, StoppedKeeps, ContinuedKeeps DEF Terminate, Stop, ContinueByOthers
  <2>6. CASE DeliverQuit \/ Over \/ \E s \in UserSignals : SendToShell(s)
    BY <2>1, <2>6 DEF DeliverQuit, Over, vars, SendToShell
  <2> QED
    BY <2>2, <2>4, <2>5, <2>6 DEF Environment, Child
<1>3. Listed' = Listed /\ ForegroundSlots' = ForegroundSlots /\ Listed \subseteq Pids
  BY <1>1, ListSame, ListedPids
<1>4. MainJobs' /\ HandlerJobs' /\ ForegroundOnlyWhileWaiting'
  BY <1>1, <1>2, <1>3 DEF Jobs, MainJobs, HandlerJobs, ForegroundOnlyWhileWaiting, list_vars, Kept
<1>5. ListedExist'
  BY <1>1, <1>2, <1>3 DEF Jobs, ListedExist, Kept
<1>6. SignalsOwnJob'
  <2> SUFFICES ASSUME NEW h \in {"INT", "TSTP"}, pc'[h] = "kill"
               PROVE  /\ proc'[pid'[h]].st # "free"
                      /\ \E i \in ForegroundSlots' : job_list'[i].pid = pid'[h]
    BY DEF SignalsOwnJob
  <2>1. /\ proc[pid[h]].st # "free"
        /\ \E i \in ForegroundSlots : job_list[i].pid = pid[h]
    BY <1>1 DEF Jobs, SignalsOwnJob
  <2>2. pid[h] \in Pids
    BY <2>1, FgPidListed DEF ForegroundSlots, SlotsCoherent, ListInv, ListTypeOK, job_t
  <2> QED
    BY <1>1, <1>2, <1>3, <2>1, <2>2 DEF Kept, list_vars
<1> QED
  BY <1>1, <1>4, <1>5, <1>6 DEF Jobs

\* The steps of main: no handler is active, and the list does not change
\* between the steps of eval.
LEMMA MainJobSteps ==
    ASSUME ShellInv, Main
    PROVE  ListInv' /\ [ListNext]_list_vars /\ Jobs'
<1> USE DEF eval_vars, signal_vars, ShellInv
<1>1. running = "main"
  BY DEF Main, ReadProgram, ReadJobs, ReadBgFg, ReadCommand, Quit, Fork, ForkFails,
         AddJob, CheckForeground, ListJobs, LookupJid, LookupPid, ContinueJob,
         SetState, EvalReturn, At
<1>2. \A h \in Handlers : pc[h] = "idle"
  BY <1>1, NoHandlerActive DEF Active, Control
<1>3. \A p \in Listed : proc[p].st # "free"
  BY <1>2 DEF Jobs, ListedExist, Handlers
<1>4. Listed \subseteq Pids
  BY ListedPids
<1>5. ForegroundSlots # {} => pc["main"] = "check"
  BY <1>1, <1>2 DEF Jobs, ForegroundOnlyWhileWaiting, Main, ReadProgram, ReadJobs, ReadBgFg,
         ReadCommand, Quit, Fork, ForkFails, AddJob, CheckForeground, ListJobs,
         LookupJid, LookupPid, ContinueJob, SetState, EvalReturn, At
<1>6. ASSUME NEW l, pc' = [pc EXCEPT !["main"] = l], MainJobs',
             \A p \in Listed' : proc'[p].st # "free",
             ForegroundSlots' # {} => l \in {"check", "suspend"}
      PROVE  Jobs'
  <2>1. pc'["main"] = l /\ \A h \in Handlers : pc'[h] = "idle"
    BY <1>2, <1>6 DEF ShellTypeOK, Contexts, Handlers
  <2>2. HandlerJobs' /\ SignalsOwnJob'
    BY <2>1 DEF HandlerJobs, SignalsOwnJob, Handlers
  <2> QED
    BY <1>6, <2>1, <2>2 DEF Jobs, ListedExist, ForegroundOnlyWhileWaiting
<1>7. ASSUME NEW l, pc' = [pc EXCEPT !["main"] = l], MainJobs', UNCHANGED list_vars, Kept,
             ForegroundSlots # {} => l \in {"check", "suspend"}
      PROVE  ListInv' /\ [ListNext]_list_vars /\ Jobs'
  BY <1>3, <1>4, <1>6, <1>7, ListSame DEF Kept
<1>8. ASSUME NEW l, Goto("main", l) PROVE pc' = [pc EXCEPT !["main"] = l] /\ pc'["main"] = l
  BY <1>8 DEF Goto, ShellTypeOK, Contexts
<1>9. ASSUME NEW how, End(how), UNCHANGED <<list_vars, pid, cmd, built_in_job, proc>>
      PROVE  ListInv' /\ [ListNext]_list_vars /\ Jobs'
  BY <1>9, ListSame DEF End, Jobs, MainJobs, HandlerJobs, ListedExist,
         ForegroundOnlyWhileWaiting, SignalsOwnJob, list_vars
<1>10. CASE ReadProgram
  <2>1. PICK c \in {"FG", "BG"} : ReadCommand(c, "fork")
    BY <1>10 DEF ReadProgram
  <2>2. MainJobs'
    BY <1>8, <1>10, <2>1 DEF ReadCommand, ReadProgram, MainJobs, list_vars
  <2> QED
    BY <1>5, <1>7, <1>8, <2>1, <2>2 DEF ReadCommand, At, Kept
<1>11. CASE ReadJobs \/ ReadBgFg
  <2>1. PICK c \in {"jobs", "bg", "fg"}, l \in {"list", "lookup"} :
           ReadCommand(c, l) /\ (l = "lookup" => c \in {"bg", "fg"})
    BY <1>11 DEF ReadJobs, ReadBgFg
  <2>2. MainJobs'
    BY <1>8, <2>1 DEF ReadCommand, MainJobs
  <2> QED
    BY <1>5, <1>7, <1>8, <2>1, <2>2 DEF ReadCommand, At, Kept
<1>12. CASE Quit
  BY <1>9, <1>12 DEF Quit
<1>13. CASE Fork
  <2>1. PICK p \in Pids :
          /\ proc[p].st = "free"
          /\ pid' = [pid EXCEPT !["main"] = p]
          /\ proc' = [proc EXCEPT ![p] = [NoProcess EXCEPT !.st = "forked",
                                                            !.mask = temp["main"]]]
    BY <1>13 DEF Fork
  <2> DEFINE r == [NoProcess EXCEPT !.st = "forked", !.mask = temp["main"]]
  <2>2. r.st = "forked"
    BY DEF NoProcess
  <2>3. pid'["main"] = p /\ proc' = [proc EXCEPT ![p] = r]
    BY <2>1 DEF ShellTypeOK, Contexts
  <2> HIDE DEF r
  <2>4. proc'[p].st = "forked" /\ Kept
    BY <2>1, <2>2, <2>3 DEF Kept, ShellTypeOK
  <2>5. p \notin Listed
    BY <1>3, <2>1
  <2>6. MainJobs'
    BY <1>8, <1>13, <2>3, <2>4, <2>5, ListSame
       DEF Fork, At, MainJobs, list_vars, Jobs
  <2> QED
    BY <1>5, <1>7, <1>8, <1>13, <2>4, <2>6 DEF Fork, At
<1>14. CASE ForkFails
  BY <1>5, <1>7, <1>8, <1>14 DEF ForkFails, At, MainJobs, Kept
<1>15. CASE AddJob
  <2> DEFINE p == pid["main"]
  <2>1. /\ p \in Pids /\ p \notin Listed /\ proc[p].st # "free"
        /\ cmd \in {"FG", "BG"} /\ nextjid <= JidBound
        /\ ForegroundSlots = {} /\ add_job(p, cmd)
    BY <1>5, <1>15 DEF AddJob, At, Jobs, MainJobs
  <2> DEFINE l == IF cmd = "BG" THEN "restore" ELSE "check"
  <2>2. pc' = [pc EXCEPT !["main"] = l] /\ pc'["main"] = l
    BY <1>8, <1>15 DEF AddJob
  <2>3. ListNext
    BY <2>1 DEF ListNext, Launch
  <2>4. ListInv'
    BY <2>3, StepKeeps
  <2>5. Listed' \subseteq Listed \union {p} /\ (cmd = "BG" => ForegroundSlots' = {})
    BY <2>1, AddJobLists
  <2>6. \A q \in Listed' : proc'[q].st # "free"
    BY <1>3, <1>15, <2>1, <2>5 DEF AddJob
  <2>7. MainJobs'
    BY <2>2 DEF MainJobs
  <2>8. Jobs'
    BY <1>6, <2>1, <2>2, <2>5, <2>6, <2>7
  <2> QED
    BY <2>3, <2>4, <2>8
<1>16. CASE CheckForeground
  <2>1. PICK l \in {"restore", "suspend"} :
          Goto("main", l) /\ (ForegroundSlots # {} => l = "suspend")
    BY <1>16, FgPidListed DEF CheckForeground
  <2>2. MainJobs'
    BY <1>8, <2>1 DEF MainJobs
  <2> QED
    BY <1>7, <1>8, <1>16, <2>1, <2>2 DEF CheckForeground, Kept
<1>17. CASE ListJobs
  BY <1>5, <1>7, <1>8, <1>17 DEF ListJobs, At, MainJobs, Kept
<1>18. CASE LookupJid
  <2>1. PICK jid \in {job_list[i].jid : i \in Slots} \union {0} :
          LET jobp == find_job_with_jid(jid)
          IN  IF jobp = NULL
              THEN End("crashed") /\ UNCHANGED <<built_in_job, pid>>
              ELSE /\ Goto("main", "kill")
                   /\ built_in_job' = jobp
                   /\ pid' = [pid EXCEPT !["main"] = job_list[jobp].pid]
    BY <1>18 DEF LookupJid
  <2>2. CASE find_job_with_jid(jid) = NULL
    BY <1>9, <1>18, <2>1, <2>2 DEF LookupJid
  <2>3. CASE find_job_with_jid(jid) # NULL
    <3> DEFINE jobp == find_job_with_jid(jid)
    <3> DEFINE matches == {i \in Slots : jid >= 1 /\ job_list[i].jid = jid}
    <3>1. jobp \in matches
      BY <2>3, FirstOf DEF find_job_with_jid
    <3>2. job_list[jobp].pid # NoPid
      <4>1. jobp \in Slots /\ jid >= 1 /\ job_list[jobp].jid = jid
        BY <3>1
      <4>2. job_list[jobp].jid # 0
        BY <4>1
      <4> QED
        BY <4>1, <4>2 DEF ListInv, SlotsCoherent
    <3> HIDE DEF jobp
    <3>3. Goto("main", "kill") /\ built_in_job' = jobp
      BY <2>1, <2>3 DEF jobp
    <3>4. MainJobs'
      BY <1>8, <1>18, <3>2, <3>3 DEF LookupJid, At, Jobs, MainJobs, list_vars
    <3> QED
      BY <1>5, <1>7, <1>8, <1>18, <3>3, <3>4 DEF LookupJid, At, Kept
  <2> QED
    BY <2>2, <2>3
<1>19. CASE LookupPid
  <2>1. PICK p \in Pids : built_in_job' = find_job_with_pid(p)
    BY <1>19 DEF LookupPid
  <2>2. built_in_job' = NULL \/ job_list[built_in_job'].pid # NoPid
    BY <2>1, FindPid, PidsAssumption DEF ListInv
  <2>3. MainJobs'
    BY <1>8, <1>19, <2>2 DEF LookupPid, At, Jobs, MainJobs, list_vars
  <2> QED
    BY <1>5, <1>7, <1>8, <1>19, <2>3 DEF LookupPid, At, Kept
<1>20. CASE ContinueJob
  <2>1. Kept
    BY <1>20, ContinuedKeeps DEF ContinueJob
  <2>2. MainJobs'
    BY <1>8, <1>20 DEF ContinueJob, At, Jobs, MainJobs, list_vars
  <2> QED
    BY <1>5, <1>7, <1>8, <1>20, <2>1, <2>2 DEF ContinueJob, At
<1>21. CASE SetState
  <2>1. CASE built_in_job = NULL
    BY <1>9, <1>21, <2>1 DEF SetState
  <2>2. CASE built_in_job # NULL
    <3>1. PICK state \in {"FG", "BG"} :
            /\ set_state_of_job(built_in_job, state)
            /\ Goto("main", IF state = "BG" THEN "restore" ELSE "check")
      BY <1>21, <2>2 DEF SetState
    <3>2. /\ built_in_job \in Slots /\ job_list[built_in_job].pid # NoPid
          /\ ForegroundSlots = {}
      BY <1>5, <1>21, <2>2 DEF SetState, At, Jobs, MainJobs, ShellTypeOK
    <3>3. ListNext
      BY <3>1, <3>2 DEF ListNext, ChangeState
    <3>4. ListInv'
      BY <3>3, StepKeeps
    <3>5. Listed' = Listed /\ (state = "BG" => ForegroundSlots' = {})
      BY <3>1, <3>2, SetStateLists
    <3>6. MainJobs'
      BY <1>8, <3>1 DEF MainJobs
    <3>7. \A q \in Listed' : proc'[q].st # "free"
      BY <1>3, <1>21, <3>5 DEF SetState
    <3>8. Jobs'
      BY <1>6, <1>8, <3>1, <3>5, <3>6, <3>7
    <3> QED
      BY <3>3, <3>4, <3>8
  <2> QED
    BY <2>1, <2>2
<1>22. CASE EvalReturn
  BY <1>5, <1>7, <1>8, <1>22 DEF EvalReturn, At, MainJobs, Kept
<1> QED
  BY <1>10, <1>11, <1>12, <1>13, <1>14, <1>15, <1>16, <1>17, <1>18, <1>19, <1>20,
     <1>21, <1>22 DEF Main

\* A handler's step that neither reaps, nor lists, nor picks a job.
LEMMA QuietJobs ==
    ASSUME ShellInv, NEW h \in Handlers,
           UNCHANGED <<list_vars, cmd, built_in_job>>, Kept,
           pid'["main"] = pid["main"],
           pc'["main"] = pc["main"] \/ (pc["main"] = "suspend" /\ pc'["main"] = "check"),
           \A g \in Handlers : g # h => pc'[g] = pc[g] /\ pid'[g] = pid[g],
           pc[h] # "delete",
           pc'[h] \notin {"delete", "stop", "kill"}
    PROVE  ListInv' /\ [ListNext]_list_vars /\ Jobs'
<1> USE DEF ShellInv
<1>1. /\ ListInv' /\ Listed' = Listed /\ ForegroundSlots' = ForegroundSlots
      /\ Listed \subseteq Pids
  BY ListSame, ListedPids
<1>2. MainJobs'
  BY <1>1 DEF Jobs, MainJobs, list_vars, Kept
<1>3. HandlerJobs' /\ ForegroundOnlyWhileWaiting'
  BY <1>1 DEF Jobs, HandlerJobs, ForegroundOnlyWhileWaiting, Handlers
<1>4. ListedExist'
  BY <1>1 DEF Jobs, ListedExist, Kept, Handlers
<1>5. SignalsOwnJob'
  <2> SUFFICES ASSUME NEW g \in {"INT", "TSTP"}, pc'[g] = "kill"
               PROVE  /\ proc'[pid'[g]].st # "free"
                      /\ \E i \in ForegroundSlots' : job_list'[i].pid = pid'[g]
    BY DEF SignalsOwnJob
  <2>1. g # h /\ pc[g] = "kill" /\ pid'[g] = pid[g]
    BY DEF Handlers
  <2>2. /\ proc[pid[g]].st # "free"
        /\ \E i \in ForegroundSlots : job_list[i].pid = pid[g]
    BY <2>1 DEF Jobs, SignalsOwnJob
  <2>3. pid[g] \in Pids
    BY <2>2 DEF ForegroundSlots, SlotsCoherent, ListInv, ListTypeOK, job_t
  <2> QED
    BY <1>1, <2>1, <2>2, <2>3 DEF Kept, list_vars
<1> QED
  BY <1>1, <1>2, <1>3, <1>4, <1>5 DEF Jobs

LEMMA HandlerJobSteps ==
    ASSUME ShellInv, NEW h \in Handlers, Deliver(h) \/ Handler(h)
    PROVE  ListInv' /\ [ListNext]_list_vars /\ Jobs'
<1> USE DEF eval_vars, signal_vars, ShellInv
<1>0. /\ h \in Contexts /\ h # "main" /\ "main" \in Contexts /\ "CHLD" \in Contexts
      /\ \A g \in Handlers : g \in Contexts /\ g # "main"
  BY DEF Contexts, Handlers
<1>1. ASSUME NEW l, Goto(h, l)
      PROVE  /\ pc'[h] = l /\ pc'["main"] = pc["main"]
             /\ \A g \in Handlers : g # h => pc'[g] = pc[g]
  BY <1>0, <1>1 DEF Goto, ShellTypeOK
<1>2. ASSUME pid' = pid \/ \E p : pid' = [pid EXCEPT ![h] = p]
      PROVE  pid'["main"] = pid["main"] /\ \A g \in Handlers : g # h => pid'[g] = pid[g]
  BY <1>0, <1>2 DEF ShellTypeOK
<1>3. ASSUME UNCHANGED <<list_vars, cmd, built_in_job>>, Kept,
             pid' = pid \/ \E p : pid' = [pid EXCEPT ![h] = p],
             pc[h] # "delete",
             NEW l, Goto(h, l), l \notin {"delete", "stop", "kill"}
      PROVE  ListInv' /\ [ListNext]_list_vars /\ Jobs'
  <2>1. pc'[h] = l /\ pc'["main"] = pc["main"]
    BY <1>1, <1>3
  <2>2. \A g \in Handlers : g # h => pc'[g] = pc[g] /\ pid'[g] = pid[g]
    BY <1>1, <1>2, <1>3
  <2>3. pid'["main"] = pid["main"]
    BY <1>2, <1>3
  <2> QED
    BY <1>3, <2>1, <2>2, <2>3, QuietJobs
\* While a handler is critical, no other one is, and main is not, or waits.
<1>4. ASSUME Critical(h), running = h
      PROVE  /\ \A g \in Handlers : g # h => pc[g] \notin HandlerCritical
             /\ pc["main"] \notin MainCritical \ {"check"}
  BY <1>0, <1>4 DEF Control, Masking, Critical
<1>5. CASE Deliver(h)
  <2>1. pc[h] = "idle"
    BY <1>5 DEF Deliver, Control, Masking, Active
  <2>2. /\ pc'[h] = "entry"
        /\ \A g \in Handlers : g # h => pc'[g] = pc[g]
        /\ pc'["main"] = pc["main"] \/ (pc["main"] = "suspend" /\ pc'["main"] = "check")
    BY <1>0, <1>5 DEF Deliver, ShellTypeOK
  <2> QED
    BY <1>5, <2>1, <2>2, QuietJobs DEF Deliver, Kept
<1>6. CASE HandlerBlock(h)
  BY <1>3, <1>6 DEF HandlerBlock, At, Kept
<1>7. CASE HandlerUnblock(h)
  BY <1>3, <1>7 DEF HandlerUnblock, At, Kept
<1>8. CASE HandlerReturn(h)
  BY <1>3, <1>8 DEF HandlerReturn, At, Kept
<1>9. CASE h = "CHLD" /\ WaitNone
  BY <1>3, <1>9 DEF WaitNone, At, Kept
<1>10. CASE h # "CHLD" /\ Forward(h)
  BY <1>3, <1>10, KilledKeeps DEF Forward, At
<1>11. CASE h # "CHLD" /\ FindForeground(h)
  <2>1. CASE fg_pid = NoPid
    BY <1>3, <1>11, <2>1 DEF FindForeground, At, Kept
  <2>2. CASE fg_pid # NoPid
    <3>1. /\ pc'[h] = "kill" /\ pc'["main"] = pc["main"]
          /\ \A g \in Handlers : g # h => pc'[g] = pc[g]
      BY <1>1, <1>11, <2>2 DEF FindForeground
    <3>2. /\ pid'[h] = fg_pid /\ pid'["main"] = pid["main"]
          /\ \A g \in Handlers : g # h => pid'[g] = pid[g]
      BY <1>0, <1>11 DEF FindForeground, ShellTypeOK
    <3>3. /\ \A g \in Handlers : g # h => pc[g] \notin HandlerCritical
          /\ pc["main"] \notin MainCritical \ {"check"}
      BY <1>0, <1>4, <1>11 DEF FindForeground, At, Critical, HandlerCritical
    <3>4. fg_pid \in Listed /\ \E i \in ForegroundSlots : job_list[i].pid = fg_pid
      BY <2>2, FgPidListed
    <3>5. /\ UNCHANGED <<job_list, nextjid, proc, cmd, built_in_job>>
          /\ ListInv' /\ Listed' = Listed /\ ForegroundSlots' = ForegroundSlots
      BY <1>11, ListSame DEF FindForeground, list_vars
    <3>6. pc["CHLD"] # "delete" /\ "CHLD" \in Handlers
      BY <1>11, <3>3 DEF HandlerCritical, Handlers
    <3>7. MainJobs' /\ ForegroundOnlyWhileWaiting'
      BY <3>1, <3>2, <3>5 DEF Jobs, MainJobs, ForegroundOnlyWhileWaiting
    <3>8. HandlerJobs' /\ ListedExist'
      BY <1>11, <3>1, <3>2, <3>5, <3>6 DEF Jobs, HandlerJobs, ListedExist
    <3>9. SignalsOwnJob'
      <4>1. \A g \in {"INT", "TSTP"} : g # h => pc'[g] # "kill"
        BY <3>1, <3>3 DEF HandlerCritical, Handlers
      <4>2. proc[fg_pid].st # "free"
        BY <3>4, <3>6 DEF Jobs, ListedExist
      <4> QED
        BY <3>2, <3>4, <3>5, <4>1, <4>2 DEF SignalsOwnJob
    <3> QED
      BY <3>5, <3>7, <3>8, <3>9 DEF Jobs, list_vars
  <2> QED
    BY <2>1, <2>2
\* The steps of the SIGCHLD handler in its loop.
<1>12. ASSUME h = "CHLD", running = h, Critical(h), NEW l, Goto(h, l),
              pid'["main"] = pid["main"],
              ListInv', ForegroundSlots' \subseteq ForegroundSlots,
              HandlerJobs', ListedExist'
       PROVE  Jobs'
  <2>1. /\ pc'["main"] = pc["main"]
        /\ \A g \in {"INT", "TSTP"} : pc'[g] = pc[g]
    BY <1>1, <1>12 DEF Handlers
  <2>2. /\ \A g \in {"INT", "TSTP"} : pc[g] # "kill"
        /\ pc["main"] \notin MainCritical \ {"check"}
    BY <1>4, <1>12 DEF Handlers, HandlerCritical
  <2>3. MainJobs' /\ SignalsOwnJob'
    BY <2>1, <2>2 DEF MainJobs, MainCritical, SignalsOwnJob
  <2>4. ForegroundOnlyWhileWaiting'
    BY <1>12, <2>1 DEF Jobs, ForegroundOnlyWhileWaiting
  <2> QED
    BY <1>12, <2>3, <2>4 DEF Jobs
<1>13. CASE h = "CHLD" /\ Wait
  <2>1. PICK p \in Waitable :
          /\ pid' = [pid EXCEPT !["CHLD"] = p]
          /\ \/ /\ proc' = [proc EXCEPT ![p] = NoProcess]
                /\ Goto("CHLD", "delete")
             \/ /\ proc' = [proc EXCEPT ![p].event = FALSE]
                /\ Goto("CHLD", "stop")
    BY <1>13 DEF Wait
  <2>2. p \in Pids /\ pid'["CHLD"] = p /\ pid'["main"] = pid["main"]
    BY <1>0, <2>1 DEF Waitable, ShellTypeOK
  <2>3. /\ UNCHANGED list_vars /\ ListInv' /\ Listed' = Listed
        /\ ForegroundSlots' = ForegroundSlots /\ Listed \subseteq Pids
    BY <1>13, ListSame, ListedPids DEF Wait
  <2>4. \A q \in Listed : proc[q].st # "free"
    BY <1>13 DEF Wait, At, Jobs, ListedExist
  <2>5. CASE proc' = [proc EXCEPT ![p] = NoProcess] /\ Goto("CHLD", "delete")
    <3>1. pc'["CHLD"] = "delete"
      BY <1>1, <1>13, <2>5
    <3>2. HandlerJobs' /\ ListedExist'
      BY <2>2, <2>3, <2>4, <2>5, <3>1 DEF HandlerJobs, ListedExist, ShellTypeOK
    <3> QED
      BY <1>0, <1>12, <1>13, <2>2, <2>3, <2>5, <3>2 DEF Wait, At, Critical, HandlerCritical
  <2>6. CASE proc' = [proc EXCEPT ![p].event = FALSE] /\ Goto("CHLD", "stop")
    <3>1. pc'["CHLD"] = "stop"
      BY <1>1, <1>13, <2>6
    <3>2. Kept
      BY <2>6 DEF Kept, ShellTypeOK, Process
    <3>3. HandlerJobs' /\ ListedExist'
      BY <2>2, <2>3, <2>4, <3>1, <3>2 DEF HandlerJobs, ListedExist, Kept
    <3> QED
      BY <1>0, <1>12, <1>13, <2>2, <2>3, <2>6, <3>3 DEF Wait, At, Critical, HandlerCritical
  <2> QED
    BY <2>1, <2>5, <2>6
<1>14. CASE h = "CHLD" /\ DeleteJob
  <2> DEFINE p == pid["CHLD"]
  <2>1. p \in Pids /\ delete_job(p)
    BY <1>14 DEF DeleteJob, At, Jobs, HandlerJobs
  <2>2. pc'["CHLD"] = "wait"
    BY <1>1, <1>14 DEF DeleteJob
  <2>3. ListNext
    BY <2>1 DEF ListNext
  <2>4. ListInv'
    BY <2>3, StepKeeps
  <2>5. Listed' \subseteq Listed \ {p} /\ ForegroundSlots' \subseteq ForegroundSlots
    BY <2>1, DeleteJobLists
  <2>6. HandlerJobs' /\ ListedExist'
    BY <1>14, <2>2, <2>5 DEF DeleteJob, HandlerJobs, Jobs, ListedExist
  <2>7. Jobs'
    BY <1>0, <1>12, <1>14, <2>4, <2>5, <2>6 DEF DeleteJob, At, Critical, HandlerCritical
  <2> QED
    BY <2>3, <2>4, <2>7
<1>15. CASE h = "CHLD" /\ StopJob
  <2> DEFINE jobp == find_job_with_pid(pid["CHLD"])
  <2>1. pid["CHLD"] \in Pids
    BY <1>15 DEF StopJob, At, Jobs, HandlerJobs
  <2>2. CASE jobp = NULL
    <3>1. UNCHANGED <<list_vars, pc, pid, cmd, built_in_job, proc>>
      BY <1>15, <2>2 DEF StopJob, End
    <3> QED
      BY <3>1, ListSame DEF Jobs, MainJobs, HandlerJobs, ListedExist,
         ForegroundOnlyWhileWaiting, SignalsOwnJob, list_vars
  <2>3. CASE jobp # NULL
    <3>1. jobp \in Slots /\ job_list[jobp].pid # NoPid
      BY <2>1, <2>3, FindPid, PidsAssumption DEF ListInv
    <3>2. set_state_of_job(jobp, "ST") /\ Goto("CHLD", "wait")
      BY <1>15, <2>3 DEF StopJob
    <3> HIDE DEF jobp
    <3>3. ListNext
      BY <3>1, <3>2 DEF ListNext, ChangeState
    <3>4. ListInv'
      BY <3>3, StepKeeps
    <3>5. Listed' = Listed /\ ForegroundSlots' \subseteq ForegroundSlots
      BY <3>1, <3>2, SetStateLists
    <3>6. pc'["CHLD"] = "wait"
      BY <1>1, <1>15, <3>2
    <3>7. HandlerJobs' /\ ListedExist'
      BY <1>15, <3>5, <3>6 DEF StopJob, At, HandlerJobs, Jobs, ListedExist
    <3>8. Jobs'
      BY <1>0, <1>12, <1>15, <3>2, <3>4, <3>5, <3>7 DEF StopJob, At, Critical, HandlerCritical
    <3> QED
      BY <3>3, <3>4, <3>8
  <2> QED
    BY <2>2, <2>3
<1> QED
  BY <1>5, <1>6, <1>7, <1>8, <1>9, <1>10, <1>11, <1>13, <1>14, <1>15 DEF Handler

LEMMA ShellInit == Init => ShellInv
<1> SUFFICES ASSUME Init PROVE ShellInv
  OBVIOUS
<1>1. ListInv
  BY InitList DEF Init
<1>2. Listed = {} /\ ForegroundSlots = {}
  BY DEF Init, init_job_list, ClearedJob, Listed, ForegroundSlots
<1>3. \A h \in Handlers : pc[h] = "idle"
  BY DEF Init, Contexts, Handlers
<1>4. pc["main"] = "prompt"
  BY DEF Init, Contexts
<1>5. Jobs
  BY <1>2, <1>3, <1>4 DEF Jobs, MainJobs, HandlerJobs, ListedExist,
     ForegroundOnlyWhileWaiting, SignalsOwnJob, Handlers
<1> QED
  BY <1>1, <1>5, ShellTypeInit, ControlInit DEF ShellInv

LEMMA ShellStep ==
    ShellInv /\ [Next]_vars => ShellInv' /\ [ListNext]_list_vars
<1> SUFFICES ASSUME ShellInv, [Next]_vars PROVE ShellInv' /\ [ListNext]_list_vars
  OBVIOUS
<1> USE DEF ShellInv
<1>0. ListTypeOK
  BY DEF ListInv
<1>1. CASE Main
  BY <1>0, <1>1, MainType, MainControls, MainJobSteps
<1>2. ASSUME NEW h \in Handlers, Deliver(h) \/ Handler(h)
      PROVE  ShellInv' /\ [ListNext]_list_vars
  BY <1>0, <1>2, HandlerType, HandlerControls, HandlerJobSteps
<1>3. CASE DeliverQuit \/ Environment \/ Over
  BY <1>3, EnvironmentType, EnvironmentControl, EnvironmentJobs, ListSame
<1>4. CASE UNCHANGED vars
  <2>1. UNCHANGED list_vars /\ ShellTypeOK' /\ Control'
    BY <1>4 DEF vars, list_vars, ShellTypeOK, Control, Nesting, Nested, Masking, Active, Critical
  <2>2. Jobs'
    BY <1>4, <2>1, ListSame DEF vars, list_vars, Jobs, MainJobs, HandlerJobs, ListedExist,
       ForegroundOnlyWhileWaiting, SignalsOwnJob
  <2> QED
    BY <2>1, <2>2, ListSame
<1> QED
  BY <1>1, <1>2, <1>3, <1>4 DEF Next

THEOREM ShellInvariant == Spec => []ShellInv
<1>1. Init => ShellInv
  BY ShellInit
<1>2. ShellInv /\ [Next]_vars => ShellInv'
  BY ShellStep
<1> QED
  BY <1>1, <1>2, PTL DEF Spec

\* Type correctness of the shell and of its job list.
THEOREM ShellTypeCorrect == Spec => []TypeOK
<1>1. ShellInv => TypeOK
  BY DEF ShellInv, ListInv, TypeOK
<1> QED
  BY <1>1, ShellInvariant, PTL

\* Whoever calls a helper of the job list has the three signals blocked, however
\* the handlers interrupt eval and one another: check_blocked never warns.
THEOREM ShellGuardsList == Spec => []ListAccessGuarded
<1>1. ASSUME ShellInv PROVE ListAccessGuarded
  <2>1. CASE running = "main"
    BY <1>1, <2>1 DEF ShellInv, ShellTypeOK, Labels, MainLabels, Contexts, ListAccessGuarded,
       Control, Masking, Critical, MainCritical
  <2>2. CASE running \in Handlers
    <3>1. pc[running] \in HandlerLabels(running) /\ running # "main"
      BY <1>1, <2>2 DEF ShellInv, ShellTypeOK, Labels, Contexts, Handlers
    <3> QED
      BY <1>1, <3>1 DEF ShellInv, HandlerLabels, ListAccessGuarded,
         Control, Masking, Critical, HandlerCritical
  <2> QED
    BY <1>1, <2>1, <2>2 DEF ShellInv, ShellTypeOK, Contexts
<1> QED
  BY <1>1, ShellInvariant, PTL

\* Ctrl-c and ctrl-z are forwarded to the foreground job, and to a process that was
\* not reaped since the handler looked its pid up.
THEOREM ShellSignalsOwnJob == Spec => []SignalsOwnJob
<1>1. ShellInv => SignalsOwnJob
  BY DEF ShellInv, Jobs
<1> QED
  BY <1>1, ShellInvariant, PTL

\* A job is in the foreground only while eval waits for it.
THEOREM ShellForeground == Spec => []ForegroundOnlyWhileWaiting
<1>1. ShellInv => ForegroundOnlyWhileWaiting
  BY DEF ShellInv, Jobs
<1> QED
  BY <1>1, ShellInvariant, PTL

\* The shell honours the contract of its job list, so that everything proved of
\* ListSpec, the refinement of the table of jobs among it, holds in the shell.
THEOREM ShellImplementsList == Spec => ListSpec
<1>1. Init => init_job_list
  BY DEF Init
<1>2. ShellInv /\ [Next]_vars => [ListNext]_list_vars
  BY ShellStep
<1> QED
  BY <1>1, <1>2, ShellInvariant, PTL DEF Spec, ListSpec

-----------------------------------------------------------------------------
(***************************************************************************)
(* SIGCHLD does not queue, and yet no child is forgotten.                  *)
(***************************************************************************)

Listening == "CHLD" \in pending \/ pc["CHLD"] \in {"entry", "wait", "delete", "stop"}

LEMMA NoMissedStep ==
    ShellTypeOK /\ NoMissedEvent /\ [Next]_vars => NoMissedEvent'
<1> SUFFICES ASSUME ShellTypeOK, NoMissedEvent, [Next]_vars, ~ Listening'
             PROVE  Waitable' = {}
  BY DEF NoMissedEvent, Listening
<1> USE DEF eval_vars, signal_vars
<1>0. "main" \in Contexts /\ \A h \in Handlers : h \in Contexts /\ h # "main"
  BY DEF Contexts, Handlers
<1>1. ASSUME Waitable' \subseteq Waitable, Listening => Listening' PROVE Waitable' = {}
  BY <1>1 DEF NoMissedEvent, Listening
<1>2. ASSUME NEW c \in Contexts, NEW l, Goto(c, l), pending \subseteq pending',
             c = "CHLD" => pc["CHLD"] = "return" \/ l \in {"entry", "wait", "delete", "stop"}
      PROVE  Listening => Listening'
  BY <1>0, <1>2 DEF Goto, Listening, ShellTypeOK
<1>3. CASE Main
  <2>1. Listening => Listening'
    BY <1>0, <1>2, <1>3 DEF Main, ReadProgram, ReadJobs, ReadBgFg, ReadCommand, Quit, Fork,
       ForkFails, AddJob, CheckForeground, ListJobs, LookupJid, LookupPid, ContinueJob,
       SetState, EvalReturn, End, Listening
  <2>2. CASE Fork
    <3>1. PICK p \in Pids : proc' = [proc EXCEPT ![p] = [NoProcess EXCEPT
                                       !.st = "forked", !.mask = temp["main"]]]
      BY <2>2 DEF Fork
    <3> DEFINE r == [NoProcess EXCEPT !.st = "forked", !.mask = temp["main"]]
    <3>2. r.st = "forked" /\ r.event = FALSE
      BY DEF NoProcess
    <3>3. proc' = [proc EXCEPT ![p] = r]
      BY <3>1
    <3> HIDE DEF r
    <3>4. Waitable' \subseteq Waitable
      BY <3>2, <3>3 DEF Waitable, ShellTypeOK
    <3> QED
      BY <1>1, <2>1, <3>4
  <2>3. CASE ContinueJob
    <3>1. Waitable' \subseteq Waitable
      <4> DEFINE p == pid["main"]
      <4>1. CASE Grouped(p)
        <5> DEFINE r == [proc[p] EXCEPT !.st = IF @ = "stopped" THEN "running" ELSE @,
                                        !.event = FALSE,
                                        !.sigs = @ \ {"TSTP"}]
        <5>1. p \in Pids /\ proc[p] \in Process
          BY <4>1 DEF Grouped, ShellTypeOK
        <5>2. r.st # "zombie" /\ r.event = FALSE
          BY <4>1, <5>1 DEF Process, Grouped
        <5>3. proc' = [proc EXCEPT ![p] = r]
          BY <2>3, <4>1, <5>1 DEF ContinueJob, Continued, ShellTypeOK
        <5> HIDE DEF r, p
        <5> QED
          BY <5>1, <5>2, <5>3 DEF Waitable, ShellTypeOK
      <4>2. CASE ~ Grouped(p)
        BY <2>3, <4>2 DEF ContinueJob, Continued, Waitable
      <4> QED
        BY <4>1, <4>2
    <3> QED
      BY <1>1, <2>1, <3>1
  <2>4. CASE UNCHANGED proc
    BY <1>1, <2>1, <2>4 DEF Waitable
  <2> QED
    BY <1>3, <2>2, <2>3, <2>4 DEF Main, ReadProgram, ReadJobs, ReadBgFg, ReadCommand, Quit,
       ForkFails, AddJob, CheckForeground, ListJobs, LookupJid, LookupPid, SetState, EvalReturn
<1>4. ASSUME NEW h \in Handlers, Deliver(h) PROVE Waitable' = {}
  <2>1. pending' = pending \ {h} /\ pc'[h] = "entry"
    BY <1>0, <1>4 DEF Deliver, ShellTypeOK
  <2>2. h # "CHLD" => pc'["CHLD"] = pc["CHLD"]
    BY <1>0, <1>4 DEF Deliver, ShellTypeOK, Contexts, Handlers
  <2>3. Waitable' = Waitable
    BY <1>4 DEF Deliver, Waitable
  <2> QED
    BY <1>1, <2>1, <2>2, <2>3 DEF Listening
<1>5. ASSUME NEW h \in Handlers, Handler(h) PROVE Waitable' = {}
  <2>1. CASE h = "CHLD" /\ WaitNone
    BY <2>1 DEF WaitNone, Waitable
  <2>2. CASE h = "CHLD" /\ Wait
    BY <1>0, <2>2 DEF Wait, Goto, Listening, ShellTypeOK
  <2>3. CASE h = "CHLD" /\ (DeleteJob \/ HandlerBlock(h))
    BY <1>0, <2>3 DEF DeleteJob, HandlerBlock, Goto, Listening, ShellTypeOK
  <2>4. CASE h = "CHLD" /\ StopJob
    <3>1. pc'["CHLD"] \in {"stop", "wait"}
      BY <1>0, <2>4 DEF StopJob, End, At, Goto, ShellTypeOK
    <3> QED
      BY <3>1 DEF Listening
  <2>5. CASE h = "CHLD" /\ (HandlerUnblock(h) \/ HandlerReturn(h))
    <3>1. Listening => Listening'
      BY <1>0, <2>5 DEF HandlerUnblock, HandlerReturn, At, Goto, Listening, ShellTypeOK
    <3> QED
      BY <1>1, <2>5, <3>1 DEF HandlerUnblock, HandlerReturn, Waitable
  <2>6. CASE h # "CHLD" /\ ~ Forward(h)
    <3>1. UNCHANGED <<pending, proc>> /\ \E l : Goto(h, l)
      BY <1>5, <2>6 DEF Handler, HandlerBlock, HandlerUnblock, HandlerReturn, FindForeground
    <3>2. Listening => Listening'
      BY <1>0, <1>2, <2>6, <3>1
    <3> QED
      BY <1>1, <3>1, <3>2 DEF Waitable
  <2>7. CASE h # "CHLD" /\ Forward(h)
    <3>1. Listening => Listening'
      BY <1>0, <1>2, <2>7 DEF Forward
    <3>2. Waitable' \subseteq Waitable
      <4> DEFINE p == pid[h]
      <4>1. CASE Grouped(p)
        <5> DEFINE r == [proc[p] EXCEPT !.sigs = @ \union {h}]
        <5>1. p \in Pids /\ proc[p] \in Process
          BY <4>1 DEF Grouped, ShellTypeOK
        <5>2. r.st = proc[p].st /\ r.event = proc[p].event
          BY <5>1 DEF Process
        <5>3. proc' = [proc EXCEPT ![p] = r]
          BY <2>7, <4>1, <5>1 DEF Forward, Killed, ShellTypeOK
        <5> HIDE DEF r, p
        <5> QED
          BY <5>1, <5>2, <5>3 DEF Waitable, ShellTypeOK
      <4>2. CASE ~ Grouped(p)
        BY <2>7, <4>2 DEF Forward, Killed, Waitable
      <4> QED
        BY <4>1, <4>2
    <3> QED
      BY <1>1, <3>1, <3>2
  <2> QED
    BY <1>5, <2>1, <2>2, <2>3, <2>4, <2>5, <2>6, <2>7 DEF Handler
<1>6. CASE DeliverQuit \/ Over \/ UNCHANGED vars
  <2>1. UNCHANGED <<pc, pending, proc>>
    BY <1>6 DEF DeliverQuit, End, Over, vars
  <2> QED
    BY <1>1, <2>1 DEF Waitable, Listening
<1>7. CASE Environment
  <2>1. pc' = pc /\ pending \subseteq pending'
    BY <1>7 DEF Environment, Child, ChildSetup, ChildExec, TakeSignal, Terminate, Stop,
       ContinueByOthers, SendToShell, EnvUnchanged
  <2>2. Listening => Listening'
    BY <2>1 DEF Listening
  <2>3. "CHLD" \notin pending'
    BY DEF Listening
  <2>4. ASSUME NEW p \in Pids, ChildSetup(p) \/ ChildExec(p) PROVE Waitable' = {}
    <3>1. PICK st \in {"grouped", "running", "subshell"} : proc' = [proc EXCEPT ![p].st = st]
      BY <2>4 DEF ChildSetup, ChildExec
    <3>2. Waitable' \subseteq Waitable
      BY <3>1 DEF Waitable, ShellTypeOK, Process
    <3> QED
      BY <1>1, <2>2, <3>2
  <2>5. ASSUME NEW p \in Pids, NEW s, TakeSignal(p, s) PROVE Waitable' = {}
    <3>1. proc' = [proc EXCEPT ![p].sigs = @ \ {s}]
      BY <2>3, <2>5 DEF TakeSignal
    <3>2. Waitable' \subseteq Waitable
      BY <3>1 DEF Waitable, ShellTypeOK, Process
    <3> QED
      BY <1>1, <2>2, <3>2
  <2>6. ASSUME NEW p \in Pids, ContinueByOthers(p) PROVE FALSE
    BY <2>3, <2>6 DEF ContinueByOthers, ContinueNotice
  <2>7. ASSUME NEW s \in UserSignals, SendToShell(s) PROVE Waitable' = {}
    BY <1>1, <2>2, <2>7 DEF SendToShell, Waitable
  <2> QED
    BY <1>7, <2>3, <2>4, <2>5, <2>6, <2>7 DEF Environment, Child, Terminate, Stop
<1> QED
  BY <1>3, <1>4, <1>5, <1>6, <1>7 DEF Next

\* Whatever waitpid could report is still to be reported: the SIGCHLD handler
\* never leaves its loop too early, and no notification is lost for good.
THEOREM ShellMissesNoEvent == Spec => []NoMissedEvent
<1>1. Init => NoMissedEvent
  BY DEF Init, NoMissedEvent, Waitable, NoProcess
<1>2. ShellInv => ShellTypeOK
  BY DEF ShellInv
<1> QED
  BY <1>1, <1>2, NoMissedStep, ShellInvariant, PTL DEF Spec

=============================================================================
