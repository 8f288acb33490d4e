--------------------------- MODULE RuntraceProofs ---------------------------
(***************************************************************************)
(* Proofs about Runtrace, for all traces and any number of processes: the  *)
(* runner, the wrappers and the test programs are an environment that Tsh  *)
(* allows, so that the theorems about Tsh hold of the shell under test;    *)
(* the runner cleans up on every way out; no half of the shell's           *)
(* rendezvous is lost or answered twice; and prompts and command lines     *)
(* keep step, so that a NEXT means what the trace means by it.             *)
(***************************************************************************)
EXTENDS Runtrace, TshProofs, SequenceTheorems, FunctionTheorems

-----------------------------------------------------------------------------
(***************************************************************************)
(* Every step is a step of Tsh or leaves its variables alone.              *)
(***************************************************************************)

LEMMA KillShellStep ==
    ASSUME NEW s \in {"INT", "TSTP"}, KillShell(s)
    PROVE  [Next]_vars
  BY RunSignals DEF KillShell, Next, Environment

LEMMA ProgramStep ==
    ASSUME NEW p \in Pids, Program(p)
    PROVE  [Next]_vars
<1>1. CASE ChildMoves(p)
  BY <1>1 DEF ChildMoves, Next, Environment, Child
<1>2. CASE KillParent(p)
  BY <1>2, KillShellStep DEF KillParent
<1>3. CASE KillSelf(p)
  BY <1>3 DEF KillSelf, Exits, Next, Environment, Child
<1>4. CASE ProgExit(p) \/ PrintAndExit(p) \/ JobTimeout(p)
  BY <1>4 DEF ProgExit, PrintAndExit, JobTimeout, Exits, Next, Environment, Child
<1>5. CASE Spin1Start(p)
  BY <1>5 DEF Spin1Start, Exits, Next, Environment, Child
<1>6. CASE \/ Spin1Send(p) \/ Spin1Recv(p) \/ Spin1Term(p)
           \/ Spin1TermRecv(p) \/ Spin1TermSend(p) \/ PkillAll(p)
  BY <1>6 DEF Spin1Send, Spin1Recv, Spin1Term, Spin1TermRecv, Spin1TermSend, PkillAll
<1> QED
  BY <1>1, <1>2, <1>3, <1>4, <1>5, <1>6 DEF Program

LEMMA ShellMovesStep ==
    ASSUME ShellMoves
    PROVE  [Next]_vars
<1>1. CASE EmitPrompt \/ ShellsyncSignal \/ ShellsyncWait \/ ShellsyncDelay
  BY <1>1 DEF EmitPrompt, ShellsyncSignal, ShellsyncWait, ShellsyncDelay
<1>2. CASE ReadLine
  BY <1>2 DEF ReadLine, Next, Main
<1>3. CASE RunProgram
  BY <1>3 DEF RunProgram, Next, Main
<1>4. CASE ShellSilent
  BY <1>4 DEF ShellSilent, Next, Main, Handler, Handlers
<1>5. CASE ShellSpeaks
  BY <1>5 DEF ShellSpeaks, Next, Main, Handler, Handlers
<1> QED
  BY <1>1, <1>2, <1>3, <1>4, <1>5 DEF ShellMoves

LEMMA ShellStepOfTsh ==
    ASSUME Shell
    PROVE  [Next]_vars
<1>1. CASE ShellDelivers
  BY <1>1 DEF ShellDelivers, Next
<1>2. CASE ShellMoves
  BY <1>2, ShellMovesStep
<1>3. CASE Setsid
  BY <1>3 DEF Setsid
<1> QED
  BY <1>1, <1>2, <1>3 DEF Shell

\* KILL is the only step of the runner that the shell notices.
LEMMA RunnerStep ==
    ASSUME Runner \/ graceful_cleanup_sig_handler
    PROVE  [Next]_vars
<1>1. CASE KILL
  BY <1>1, KillShellStep DEF KILL
<1>2. CASE Blocks \/ Mkdir \/ ForkShell \/ Arm \/ Unmask \/ FirstPrompt
  BY <1>2 DEF Blocks, Mkdir, ForkShell, Arm, Unmask, FirstPrompt, JustGoes
<1>3. CASE WAIT \/ SIGNAL \/ SHELLWAIT \/ SHELLSIGNAL \/ SendLine \/ PID
  BY <1>3 DEF WAIT, SIGNAL, SHELLWAIT, SHELLSIGNAL, SendLine, PID
<1>4. CASE NEXT \/ AnswerSync \/ TakeOutput \/ Timeout
  BY <1>4 DEF NEXT, AnswerSync, TakeOutput, Timeout, JustGoes
<1>5. CASE EndOfTrace \/ ShellReaped \/ flush_output
  BY <1>5 DEF EndOfTrace, ShellReaped, flush_output, JustGoes
<1>6. CASE \/ ListProcesses \/ KillProcesses \/ Finish \/ AtExit
           \/ sigalrm_handler \/ graceful_cleanup_sig_handler
  BY <1>6 DEF ListProcesses, KillProcesses, Finish, AtExit, sigalrm_handler,
              graceful_cleanup_sig_handler, DiesCleanly, JustGoes
<1> QED
  BY <1>1, <1>2, <1>3, <1>4, <1>5, <1>6 DEF Runner

\* The composition implements the shell: whatever the trace, the runner's
\* timeouts and signals, the rendezvous of wrapper.c and the test programs, the
\* shell does what module Tsh says.
THEOREM RunnerRunsTheShell == RunSpec => RunsTheShell
<1>1. RunInit => Init
  BY DEF RunInit
<1>2. [RunNext]_run_vars => [Next]_vars
  <2> SUFFICES ASSUME [RunNext]_run_vars PROVE [Next]_vars
    OBVIOUS
  <2>1. ASSUME NEW p \in Pids, Program(p) PROVE [Next]_vars
    BY <2>1, ProgramStep
  <2>2. CASE Shell
    BY <2>2, ShellStepOfTsh
  <2>3. CASE Runner \/ graceful_cleanup_sig_handler
    BY <2>3, RunnerStep
  <2>4. CASE CleansUnwatched \/ RunOver \/ UNCHANGED run_vars
    BY <2>4 DEF CleansUnwatched, RunOver, run_vars
  <2> QED
    BY <2>1, <2>2, <2>3, <2>4 DEF RunNext
<1> QED
  BY <1>1, <1>2, PTL DEF RunSpec, RunsTheShell, Spec

\* In particular no helper of the job list is called unblocked, no signal goes
\* to a stranger, no change of a child is missed and no job is in front while
\* eval is not waiting, under every trace.
THEOREM TracesKeepShellSafe ==
    RunSpec => [](TypeOK /\ ListAccessGuarded /\ SignalsOwnJob /\ NoMissedEvent
                  /\ ForegroundOnlyWhileWaiting)
<1>1. RunSpec => Spec
  BY RunnerRunsTheShell DEF RunsTheShell
<1> QED
  BY <1>1, ShellTypeCorrect, ShellGuardsList, ShellSignalsOwnJob, ShellMissesNoEvent,
     ShellForeground, PTL

-----------------------------------------------------------------------------
(***************************************************************************)
(* Cleaning up.  cleanup_needed is set with the signals blocked, between   *)
(* the fork of the shell and the wait for its prompt, and cleared by clean *)
(* alone, so that no way out goes past clean.  Whether clean finds the     *)
(* shell is up to the shell: what it prints it prints in a session of its  *)
(* own, so that ps finds it once the runner has seen the first prompt.     *)
(* Until then the shell has nothing to do and no job.  A run that is       *)
(* complete cleans up when the shell has ended: nothing forks any more.    *)
(***************************************************************************)

CleanupInv ==
    /\ at \in {"start", "mkdir", "fork", "arm", "unmask", "prompt", "script", "next",
              "reap", "flush", "status", "clean", "kill", "finish", "atexit",
              "exit_clean", "exit_kill", "over"}
    /\ line \in Nat
    /\ session \in {"none", "forked", "up", "killed"}
    /\ cleanup_needed \in BOOLEAN
    /\ cleanup_needed <=> at \in {"unmask", "prompt", "script", "next", "reap", "flush", "status",
                                  "clean", "kill", "atexit", "exit_clean", "exit_kill"}
    /\ at \in {"start", "mkdir", "fork"} => session = "none"
    /\ at \in {"start", "mkdir", "fork", "arm", "unmask", "prompt"} => line = 0
    /\ at \in {"script", "next", "reap", "flush", "finish", "atexit", "exit_clean", "exit_kill"}
        => line # 0
    /\ session \in {"none", "forked"} => line = 0 /\ output = <<>>
    /\ at \in {"kill", "exit_kill"} /\ line # 0 => listed
    /\ at \in {"clean", "kill"} /\ exit = "none" => line # 0
    /\ at = "finish" \/ (at = "over" /\ line # 0) => session = "killed"
    /\ at \in {"start", "mkdir", "finish", "over"} => folder # "own"
    /\ folder = "foreign" => at \in {"start", "mkdir", "over"} /\ line = 0
    /\ stray => line # 0

\* Before the runner has seen a prompt, it sends the shell neither a command nor
\* a signal.
BeforePrompt ==
    line = 0 =>
        /\ input = <<>> /\ pending = {}
        /\ running = "main" /\ pc["main"] = "prompt"
        /\ \A p \in Pids : proc[p].st = "free"

\* Which exit status goes with which way out, and what has ended by then.
CompleteInv ==
    /\ exit # "none" => at \in {"status", "clean", "kill", "atexit", "exit_clean", "exit_kill",
                                "over"}
    /\ at \in {"status", "atexit", "exit_clean", "exit_kill", "over"} => exit # "none"
    /\ at = "next" => LinesLeft
    /\ at \in {"status", "clean", "kill", "atexit", "exit_clean", "exit_kill"} /\ exit = "0"
        => LinesLeft
    /\ at = "flush" => ~ ShellAlive
    /\ at \in {"clean", "kill"} /\ exit = "none" => ~ ShellAlive
    /\ at = "kill" /\ exit = "none" => \A p \in Pids : Alive(p) => p \in doomed
    /\ at = "finish" \/ Complete =>
          session = "killed" /\ \A p \in Pids : Alive(p) => p \in doomed

LEMMA CleanupInit == RunInit => CleanupInv /\ CompleteInv
<1>1. RunInit => CleanupInv
  <2> SUFFICES ASSUME RunInit PROVE CleanupInv
    OBVIOUS
  <2>1. /\ line = 0 /\ at = "start" /\ session = "none" /\ output = <<>> /\ folder # "own"
        /\ cleanup_needed = FALSE /\ stray = FALSE
    BY DEF RunInit
  <2> QED
    BY <2>1 DEF CleanupInv
<1>2. RunInit => CompleteInv
  BY DEF RunInit, CompleteInv, Complete
<1> QED
  BY <1>1, <1>2

\* When the shell has ended, no process changes any more.
LEMMA DeadShellStays ==
    ASSUME ~ ShellAlive, [Next]_vars
    PROVE  UNCHANGED vars
<1>1. ~ Main
  BY DEF Main, At, ReadProgram, ReadJobs, ReadBgFg, ReadCommand, Quit, Fork, ForkFails, AddJob,
         CheckForeground, ListJobs, LookupJid, LookupPid, ContinueJob, SetState, EvalReturn
<1>2. ASSUME NEW h \in Handlers PROVE ~ Deliver(h) /\ ~ Handler(h)
  BY DEF Deliver, Handler, At, HandlerBlock, HandlerUnblock, HandlerReturn, Wait, WaitNone,
         DeleteJob, StopJob, FindForeground, Forward
<1>3. ~ Environment
  BY DEF Environment, Child, ChildSetup, ChildExec, Terminate, Stop, ContinueByOthers,
         TakeSignal, SendToShell
<1> QED
  BY <1>1, <1>2, <1>3 DEF Next, DeliverQuit, Over

LEMMA RunStepsShell ==
    ASSUME [RunNext]_run_vars
    PROVE  [Next]_vars
  BY ProgramStep, ShellStepOfTsh, RunnerStep DEF RunNext, CleansUnwatched, RunOver, run_vars

\* The processes and the shell leave the runner's variables alone, and the shell
\* its session once it has it.
LEMMA OthersFrame ==
    ASSUME (\E p \in Pids : Program(p)) \/ Shell \/ RunOver \/ UNCHANGED run_vars
    PROVE  /\ UNCHANGED <<trace, calm, runner_vars>>
           /\ session' = session \/ Setsid
  BY DEF Program, Shell, RunOver, run_vars

\* They move only while the session is up.
LEMMA OthersNeedSession ==
    ASSUME (\E p \in Pids : Program(p)) \/ Shell \/ RunOver \/ UNCHANGED run_vars,
           session # "up"
    PROVE  UNCHANGED <<vars, input, output>>
<1>1. ASSUME NEW p \in Pids, Program(p) PROVE FALSE
  BY <1>1 DEF Program, Spin1Start, Spin1Send, Spin1Recv, Spin1Term, Spin1TermRecv,
              Spin1TermSend, ProgExit, PrintAndExit, PkillAll, KillSelf, KillParent,
              JobTimeout, ChildMoves, Runs, SessionUp
<1>2. CASE Shell
  <2>1. ~ ShellDelivers /\ ~ ShellMoves
    BY DEF ShellDelivers, ShellMoves, EmitPrompt, ReadLine, RunProgram, ShellsyncSignal,
           ShellsyncWait, ShellsyncDelay, ShellSilent, ShellSpeaks, SessionUp
  <2> QED
    BY <1>2, <2>1 DEF Shell, Setsid, data_vars
<1> QED
  BY <1>1, <1>2 DEF RunOver, run_vars, data_vars

LEMMA OthersStep ==
    ASSUME CleanupInv, CompleteInv, [Next]_vars,
           (\E p \in Pids : Program(p)) \/ Shell \/ RunOver \/ UNCHANGED run_vars
    PROVE  CleanupInv' /\ CompleteInv'
<1>1. /\ UNCHANGED <<trace, calm, at, line, exit, cleanup_needed, folder, listed, doomed, stray>>
      /\ session' = session \/ (session = "forked" /\ session' = "up")
  BY OthersFrame DEF runner_vars, Setsid
<1>2. session # "up" => output' = output
  BY OthersNeedSession
<1>3. ~ ShellAlive \/ session = "killed" => UNCHANGED <<proc, status>>
  BY DeadShellStays, OthersNeedSession DEF vars
<1>4. CleanupInv'
  BY <1>1, <1>2 DEF CleanupInv
<1>5. CompleteInv'
  BY <1>1, <1>3 DEF CompleteInv, LinesLeft, Complete, ShellAlive, Alive
<1> QED
  BY <1>4, <1>5

\* So does the sh of an interrupted clean-up: it kills only a shell whose prompt
\* the runner has seen.
LEMMA CleansUnwatchedStep ==
    ASSUME CleanupInv, CompleteInv, CleansUnwatched
    PROVE  CleanupInv' /\ CompleteInv'
<1>1. CleanupInv'
  BY DEF CleanupInv, CleansUnwatched, SessionUp, data_vars
<1>2. /\ UNCHANGED <<trace, at, line, exit, doomed, proc, status>>
      /\ session = "killed" => session' = "killed"
  BY DEF CleansUnwatched, SessionUp, vars
<1>3. CompleteInv'
  BY <1>2 DEF CompleteInv, LinesLeft, Complete, ShellAlive, Alive
<1> QED
  BY <1>1, <1>3

\* The runner's way to the main loop.
LEMMA CleanupStart ==
    ASSUME CleanupInv, CompleteInv,
           Blocks \/ Mkdir \/ ForkShell \/ Arm \/ Unmask \/ FirstPrompt
    PROVE  CleanupInv' /\ CompleteInv'
<1>1. CASE Blocks \/ Unmask
  BY <1>1 DEF CleanupInv, CompleteInv, Complete, Blocks, Unmask, JustGoes, RunnerGoto, data_vars
<1>2. CASE Mkdir
  BY <1>2 DEF CleanupInv, CompleteInv, Complete, Mkdir, RunnerGoto, data_vars
<1>3. CASE ForkShell
  BY <1>3 DEF CleanupInv, CompleteInv, Complete, ForkShell, RunnerGoto, data_vars
<1>4. CASE Arm
  BY <1>4 DEF CleanupInv, CompleteInv, Complete, Arm, RunnerGoto, data_vars
<1>5. CASE FirstPrompt
  BY <1>5 DEF CleanupInv, CompleteInv, Complete, FirstPrompt, RunnerGoto
<1> QED
  BY <1>1, <1>2, <1>3, <1>4, <1>5

\* Where the trace is executed the shell's session is up or killed already.
LEMMA CleanupInScript ==
    ASSUME CleanupInv, at \in {"script", "next"},
           UNCHANGED <<cleanup_needed, folder, session, listed, stray>>,
           \/ line' = line + 1 /\ at' = "script"
           \/ line' = line /\ at' \in {"script", "next", "reap", "status", "atexit"}
    PROVE  CleanupInv'
  BY DEF CleanupInv

\* The lines of the trace.
LEMMA CleanupScript ==
    ASSUME CleanupInv, CompleteInv,
           \/ WAIT \/ SIGNAL \/ SHELLWAIT \/ SHELLSIGNAL \/ KILL \/ SendLine \/ PID
           \/ NEXT \/ AnswerSync \/ TakeOutput
    PROVE  CleanupInv' /\ CompleteInv'
<1>1. CASE WAIT \/ SIGNAL \/ SHELLWAIT \/ SHELLSIGNAL \/ KILL
  BY <1>1, CleanupInScript DEF CompleteInv, Complete, WAIT, SIGNAL, SHELLWAIT, SHELLSIGNAL,
              KILL, Reads, LineDone, RunnerGoto
<1>2. CASE SendLine \/ PID
  BY <1>2, CleanupInScript DEF CompleteInv, Complete, SendLine, PID, Reads, LineDone, Fails,
              RunnerGoto
<1>3. CASE NEXT
  BY <1>3, CleanupInScript DEF CompleteInv, Complete, NEXT, Reads, LinesLeft, JustGoes,
              RunnerGoto
<1>4. CASE AnswerSync \/ TakeOutput
  BY <1>4, CleanupInScript DEF CompleteInv, Complete, AnswerSync, TakeOutput, LineDone,
              LinesLeft, RunnerGoto
<1> QED
  BY <1>1, <1>2, <1>3, <1>4

\* The ways out.
LEMMA CleanupEnd ==
    ASSUME CleanupInv, CompleteInv,
           \/ Timeout \/ EndOfTrace \/ ShellReaped \/ flush_output \/ ListProcesses
           \/ KillProcesses \/ Finish \/ AtExit \/ sigalrm_handler
           \/ graceful_cleanup_sig_handler
    PROVE  CleanupInv' /\ CompleteInv'
<1>1. CASE EndOfTrace \/ ShellReaped
  BY <1>1 DEF CleanupInv, CompleteInv, Complete, EndOfTrace, ShellReaped, JustGoes, RunnerGoto,
              ShellAlive, vars, data_vars
<1>2. CASE flush_output
  <2>1. CleanupInv'
    BY <1>2 DEF CleanupInv, CompleteInv, flush_output, RunnerGoto
  <2>2. CompleteInv'
    BY <1>2 DEF CompleteInv, Complete, flush_output, RunnerGoto, LinesLeft, ShellAlive, vars
  <2> QED
    BY <2>1, <2>2
<1>3. CASE ListProcesses
  <2>1. CleanupInv'
    <3>1. /\ UNCHANGED <<line, session, cleanup_needed, output, folder, stray, exit>>
          /\ (at = "clean" /\ at' = "kill") \/ (at = "exit_clean" /\ at' = "exit_kill")
      BY <1>3 DEF ListProcesses, data_vars
    <3>2. line # 0 => listed'
      BY <1>3 DEF CleanupInv, ListProcesses
    <3> QED
      BY <3>1, <3>2 DEF CleanupInv
  <2>2. CompleteInv'
    BY <1>3 DEF CompleteInv, Complete, ListProcesses, LinesLeft, ShellAlive, Alive, vars
  <2> QED
    BY <2>1, <2>2
<1>4. CASE KillProcesses
  <2>1. CleanupInv'
    <3>1. /\ UNCHANGED <<line, output, stray, listed, exit>>
          /\ at \in {"kill", "exit_kill"}
          /\ session' = session \/ session' = "killed"
          /\ listed => session' = "killed"
          /\ folder' = "absent" /\ ~ cleanup_needed' /\ cleanup_needed' \in BOOLEAN
          /\ at' = IF exit = "none" THEN "finish" ELSE "over"
      BY <1>4 DEF KillProcesses, RunnerGoto, data_vars
    <3> QED
      BY <3>1 DEF CleanupInv, CompleteInv
  <2>2. CompleteInv'
    <3>1. exit = "none" => session' = "killed"
      BY <1>4 DEF CompleteInv, CleanupInv, KillProcesses
    <3> QED
      BY <1>4, <3>1 DEF CompleteInv, Complete, KillProcesses, RunnerGoto, LinesLeft, Alive, vars
  <2> QED
    BY <2>1, <2>2
<1>5. CASE Finish
  BY <1>5 DEF CleanupInv, CompleteInv, Complete, Finish, RunnerGoto, Alive, vars, data_vars
<1>6. CASE AtExit
  <2>1. /\ at = "atexit" /\ at' = IF cleanup_needed THEN "exit_clean" ELSE "over"
        /\ UNCHANGED <<trace, line, session, cleanup_needed, output, folder, stray, listed,
                       exit, doomed, proc, status>>
    BY <1>6 DEF AtExit, JustGoes, RunnerGoto, data_vars, vars
  <2>2. CleanupInv' /\ at' = "exit_clean"
    BY <2>1 DEF CleanupInv
  <2>3. CompleteInv'
    BY <2>1, <2>2 DEF CompleteInv, Complete, LinesLeft
  <2> QED
    BY <2>2, <2>3
<1>7. CASE sigalrm_handler \/ graceful_cleanup_sig_handler
  <2>1. /\ ~ Masked /\ at # "over" /\ exit' \in {"1", "signal"}
        /\ at' = IF cleanup_needed THEN "clean" ELSE "over"
        /\ UNCHANGED <<trace, calm, line, cleanup_needed, folder, listed, doomed, session,
                       output, proc, status>>
    BY <1>7 DEF sigalrm_handler, graceful_cleanup_sig_handler, DiesCleanly, data_vars, vars
  <2>2. CleanupInv'
    <3>1. stray' => stray \/ at \in {"exit_clean", "exit_kill"}
      BY <1>7 DEF sigalrm_handler, graceful_cleanup_sig_handler, DiesCleanly
    <3>2. stray' => line' # 0
      BY <2>1, <3>1 DEF CleanupInv
    <3>3. CASE cleanup_needed
      BY <2>1, <3>2, <3>3 DEF CleanupInv, Masked
    <3>4. CASE ~ cleanup_needed
      BY <2>1, <3>2, <3>4 DEF CleanupInv, Masked
    <3> QED
      BY <3>3, <3>4
  <2>3. CompleteInv'
    BY <2>1 DEF CompleteInv, Complete, Masked
  <2> QED
    BY <2>2, <2>3
<1>8. CASE Timeout
  BY <1>8 DEF CleanupInv, CompleteInv, Complete, Timeout, Reads, LinesLeft, RunnerGoto,
              data_vars
<1> QED
  BY <1>1, <1>2, <1>3, <1>4, <1>5, <1>6, <1>7, <1>8

LEMMA CleanupStep ==
    ASSUME CleanupInv, CompleteInv, [RunNext]_run_vars
    PROVE  CleanupInv' /\ CompleteInv'
<1>1. CASE (\E p \in Pids : Program(p)) \/ Shell \/ RunOver \/ UNCHANGED run_vars
  BY <1>1, OthersStep, RunStepsShell
<1>2. CASE CleansUnwatched
  BY <1>2, CleansUnwatchedStep
<1>3. CASE Runner \/ graceful_cleanup_sig_handler
  BY <1>3, CleanupStart, CleanupScript, CleanupEnd DEF Runner
<1> QED
  BY <1>1, <1>2, <1>3 DEF RunNext

LEMMA BeforePromptInit == RunInit => BeforePrompt
  BY DEF RunInit, Init, BeforePrompt, NoProcess, Contexts

\* A shell that has printed its prompt waits for a line: it has no child, and no
\* signal comes.
LEMMA OthersBeforePrompt ==
    ASSUME BeforePrompt, line' = line,
           (\E p \in Pids : Program(p)) \/ Shell \/ RunOver \/ UNCHANGED run_vars
    PROVE  BeforePrompt'
<1> SUFFICES ASSUME line = 0
             PROVE  UNCHANGED <<input, pending, running, pc, proc>>
  BY DEF BeforePrompt
<1>0. /\ input = <<>> /\ pending = {}
      /\ running = "main" /\ pc["main"] = "prompt"
      /\ \A p \in Pids : proc[p].st = "free"
  BY DEF BeforePrompt
<1>1. ASSUME NEW p \in Pids, Program(p) PROVE FALSE
  <2>1. \A name, l : ~ Runs(p, name, l)
    BY <1>0 DEF Runs
  <2>2. \A s \in {"INT", "TSTP"} : ~ TakeSignal(p, s)
    BY <1>0 DEF TakeSignal
  <2>3. ~ ChildSetup(p) /\ ~ ChildExec(p)
    BY <1>0 DEF ChildSetup, ChildExec
  <2> QED
    BY <1>1, <2>1, <2>2, <2>3 DEF Program, Spin1Start, Spin1Send, Spin1Recv, Spin1Term,
       Spin1TermRecv, Spin1TermSend, ProgExit, PrintAndExit, PkillAll, KillSelf, KillParent,
       JobTimeout, ChildMoves
<1>2. CASE Shell
  <2>1. ~ ShellDelivers
    BY <1>0 DEF ShellDelivers, Deliver
  <2>2. \A c, l : At(c, l) => c = "main" /\ l = "prompt"
    BY <1>0 DEF At
  <2>3. ~ ReadLine
    BY <1>0 DEF ReadLine
  <2>4. ~ RunProgram
    BY <2>2 DEF RunProgram, Fork
  <2>5. ~ ShellSilent
    BY <2>2 DEF ShellSilent, CheckForeground, EvalReturn, Wait, WaitNone, LookupPid,
       HandlerBlock, HandlerUnblock, HandlerReturn, FindForeground, Handlers
  <2>6. ~ ShellSpeaks
    BY <2>2 DEF ShellSpeaks, ContinueJob, LookupJid, Forward, AddJob, ListJobs, SetState,
       DeleteJob, StopJob
  <2>7. Setsid \/ EmitPrompt \/ ShellsyncSignal \/ ShellsyncWait \/ ShellsyncDelay
    BY <1>2, <2>1, <2>3, <2>4, <2>5, <2>6 DEF Shell, ShellMoves
  <2> QED
    BY <2>7 DEF Setsid, EmitPrompt, ShellsyncSignal, ShellsyncWait, ShellsyncDelay, vars,
       data_vars
<1> QED
  BY <1>1, <1>2 DEF RunOver, run_vars, vars, data_vars

LEMMA RunnerBeforePrompt ==
    ASSUME CleanupInv, BeforePrompt, Runner \/ graceful_cleanup_sig_handler \/ CleansUnwatched
    PROVE  BeforePrompt'
<1>1. CASE line' # 0
  BY <1>1 DEF BeforePrompt
<1>2. CASE UNCHANGED <<line, input, pending, running, pc, proc>>
  BY <1>2 DEF BeforePrompt
<1>3. CASE LineDone
  <2>1. line' # 0
    BY <1>3 DEF CleanupInv, LineDone
  <2> QED
    BY <1>1, <2>1
<1>4. CASE at = "script" /\ line' = line
  BY <1>1, <1>4 DEF CleanupInv
<1>5. CASE WAIT \/ SIGNAL \/ SHELLWAIT \/ SHELLSIGNAL \/ KILL
  BY <1>3, <1>5 DEF WAIT, SIGNAL, SHELLWAIT, SHELLSIGNAL, KILL
<1>6. CASE SendLine \/ PID
  BY <1>3, <1>4, <1>6 DEF SendLine, PID, Reads, Fails
<1>7. CASE NEXT \/ EndOfTrace
  BY <1>4, <1>7 DEF NEXT, EndOfTrace, Reads, JustGoes
<1>8. CASE FirstPrompt
  BY <1>1, <1>2, <1>8 DEF FirstPrompt, vars
<1>9. CASE TakeOutput
  BY <1>2, <1>3, <1>9 DEF TakeOutput, vars
<1>10. CASE \/ Blocks \/ Mkdir \/ ForkShell \/ Arm \/ Unmask \/ AnswerSync \/ Timeout
            \/ ShellReaped \/ flush_output \/ ListProcesses \/ KillProcesses \/ Finish
            \/ AtExit \/ sigalrm_handler \/ graceful_cleanup_sig_handler \/ CleansUnwatched
  BY <1>2, <1>10 DEF Blocks, Mkdir, ForkShell, Arm, Unmask, AnswerSync, Timeout,
         ShellReaped, flush_output, ListProcesses, KillProcesses, Finish, AtExit,
         sigalrm_handler, graceful_cleanup_sig_handler, DiesCleanly, CleansUnwatched, JustGoes,
         vars, data_vars
<1> QED
  BY <1>5, <1>6, <1>7, <1>8, <1>9, <1>10 DEF Runner

\* Whatever the trace and whenever a timeout fires or a signal comes, no way out
\* of the runner goes past clean, clean finds the shell once the runner has seen
\* its prompt, and before that the shell was sent nothing and has no child
\* (runtrace.c:302-370, 596-635).
THEOREM RunnerCleanup == RunSpec => [](CleanupInv /\ CompleteInv /\ BeforePrompt)
<1>1. CleanupInv /\ BeforePrompt /\ [RunNext]_run_vars => BeforePrompt'
  <2> SUFFICES ASSUME CleanupInv, BeforePrompt, [RunNext]_run_vars PROVE BeforePrompt'
    OBVIOUS
  <2>1. CASE (\E p \in Pids : Program(p)) \/ Shell \/ RunOver \/ UNCHANGED run_vars
    BY <2>1, OthersFrame, OthersBeforePrompt DEF runner_vars
  <2>2. CASE Runner \/ graceful_cleanup_sig_handler \/ CleansUnwatched
    BY <2>2, RunnerBeforePrompt
  <2> QED
    BY <2>1, <2>2 DEF RunNext
<1> QED
  BY <1>1, CleanupInit, CleanupStep, BeforePromptInit, PTL DEF RunSpec

\* On every way out the runner's directory is gone, no job survives a trace that
\* was run to its end, and the shell is killed unless the runner ends before it
\* has seen a prompt: then a shell that survives was sent nothing and has no job.
THEOREM RunnerCleansUp == RunSpec => []CleanedOnExit
<1>1. CleanupInv /\ CompleteInv /\ BeforePrompt => CleanedOnExit
  BY DEF CleanupInv, CompleteInv, BeforePrompt, CleanedOnExit
<1> QED
  BY <1>1, RunnerCleanup, PTL

\* A directory that was there before stays: no clean-up starts with it, and none
\* that was interrupted is left.
THEOREM RunnerKeepsForeignFolder == RunSpec => ForeignFolderKept
<1>1. CleanupInv /\ [RunNext]_run_vars => [folder = "foreign" => folder' = "foreign"]_run_vars
  <2> SUFFICES ASSUME CleanupInv, RunNext, folder = "foreign" PROVE folder' = "foreign"
    BY DEF run_vars
  <2>1. at \in {"start", "mkdir", "over"} /\ ~ stray
    BY DEF CleanupInv
  <2>2. CASE (\E p \in Pids : Program(p)) \/ Shell \/ RunOver
    BY <2>2, OthersFrame DEF runner_vars
  <2>3. CASE CleansUnwatched
    BY <2>1, <2>3 DEF CleansUnwatched
  <2>4. CASE Runner \/ graceful_cleanup_sig_handler
    <3>1. CASE Mkdir \/ Blocks
      BY <3>1 DEF Mkdir, Blocks, JustGoes
    <3>2. CASE sigalrm_handler \/ graceful_cleanup_sig_handler
      BY <3>2 DEF sigalrm_handler, graceful_cleanup_sig_handler, DiesCleanly
    <3>3. CASE ForkShell \/ Arm \/ Unmask \/ FirstPrompt \/ NEXT \/ AnswerSync \/ TakeOutput
      BY <2>1, <3>3 DEF ForkShell, Arm, Unmask, FirstPrompt, NEXT, AnswerSync, TakeOutput,
                        Reads
    <3>4. CASE \/ WAIT \/ SIGNAL \/ SHELLWAIT \/ SHELLSIGNAL \/ KILL \/ SendLine \/ PID
               \/ Timeout
      BY <2>1, <3>4 DEF WAIT, SIGNAL, SHELLWAIT, SHELLSIGNAL, KILL, SendLine, PID, Timeout,
                        Reads
    <3>5. CASE \/ EndOfTrace \/ ShellReaped \/ flush_output \/ ListProcesses
               \/ KillProcesses \/ Finish \/ AtExit
      BY <2>1, <3>5 DEF EndOfTrace, ShellReaped, flush_output, ListProcesses, KillProcesses,
                        Finish, AtExit
    <3> QED
      BY <2>4, <3>1, <3>2, <3>3, <3>4, <3>5 DEF Runner
  <2> QED
    BY <2>2, <2>3, <2>4 DEF RunNext
<1>2. RunSpec => []CleanupInv
  BY RunnerCleanup, PTL
<1> QED
  BY <1>1, <1>2, PTL DEF RunSpec, ForeignFolderKept

-----------------------------------------------------------------------------
(***************************************************************************)
(* Types.  What is not obvious is that the runner stays inside its trace:  *)
(* a prompt ends only a line that there is.                                *)
(***************************************************************************)

LEMMA TracesHaveLines == \A t \in Traces \union RoughTraces : Len(t.lines) \in Nat
  BY TracesWellFormed

RunVarsOK ==
    /\ trace \in Traces \union RoughTraces
    /\ calm \in BOOLEAN
    /\ at \in {"start", "mkdir", "fork", "arm", "unmask", "prompt", "script", "next",
              "reap", "flush", "status", "clean", "kill", "finish", "atexit",
              "exit_clean", "exit_kill", "over"}
    /\ line \in 0..Len(trace.lines) + 1
    /\ at \in {"script", "next"} => line # 0
    /\ exit \in {"none", "0", "1", "signal"}
    /\ cleanup_needed \in BOOLEAN /\ alarm \in BOOLEAN
    /\ folder \in {"absent", "foreign", "own"}
    /\ session \in {"none", "forked", "up", "killed"}
    /\ listed \in BOOLEAN /\ doomed \subseteq Pids /\ stray \in BOOLEAN

CountersOK ==
    /\ to_job \in Nat /\ from_job \in Nat /\ to_shell \in Nat /\ from_shell \in Nat
    /\ prompted \in BOOLEAN
    /\ sync \in {"off", "sent", "delay", "done"}

LEMMA TypesInit == RunInit => RunVarsOK /\ CountersOK
<1> SUFFICES ASSUME RunInit PROVE RunVarsOK /\ CountersOK
  OBVIOUS
<1>1. trace \in Traces \union RoughTraces
  BY DEF RunInit
<1>2. Len(trace.lines) \in Nat
  BY <1>1, TracesHaveLines
<1>3. line \in 0..Len(trace.lines) + 1
  BY <1>2 DEF RunInit
<1>4. RunVarsOK
  <2>1. folder \in {"absent", "foreign", "own"}
    BY DEF RunInit
  <2>2. ~ (at \in {"script", "next"})
    BY DEF RunInit
  <2> QED
    BY <1>1, <1>3, <2>1, <2>2, Zenon DEF RunInit, RunVarsOK
<1>5. CountersOK
  BY DEF RunInit, CountersOK
<1> QED
  BY <1>4, <1>5

\* A program receives only what there is.
LEMMA ProgramCounters ==
    ASSUME CountersOK, NEW p \in Pids, Program(p)
    PROVE  CountersOK'
<1>0. UNCHANGED shell_vars
  BY DEF Program
<1>1. CASE UNCHANGED sync_vars
  BY <1>0, <1>1 DEF CountersOK, sync_vars, shell_vars
<1>2. CASE Spin1Send(p) \/ Spin1TermSend(p)
  BY <1>0, <1>2 DEF CountersOK, shell_vars, Spin1Send, Spin1TermSend
<1>3. CASE Spin1Recv(p) \/ Spin1TermRecv(p)
  BY <1>0, <1>3 DEF CountersOK, shell_vars, Spin1Recv, Spin1TermRecv
<1>4. CASE \/ Spin1Start(p) \/ Spin1Term(p) \/ ProgExit(p) \/ PrintAndExit(p) \/ PkillAll(p)
           \/ KillSelf(p) \/ KillParent(p) \/ JobTimeout(p) \/ ChildMoves(p)
  BY <1>1, <1>4 DEF Spin1Start, Spin1Term, ProgExit, PrintAndExit, PkillAll, KillSelf,
                    KillParent, JobTimeout, ChildMoves
<1> QED
  BY <1>2, <1>3, <1>4 DEF Program

LEMMA ShellCounters ==
    ASSUME CountersOK, Shell
    PROVE  CountersOK'
<1>1. CASE UNCHANGED <<sync_vars, shell_vars>>
  BY <1>1 DEF CountersOK, sync_vars, shell_vars
<1>2. CASE Setsid \/ ShellDelivers \/ RunProgram \/ ShellSilent
  BY <1>1, <1>2 DEF Setsid, ShellDelivers, RunProgram, ShellSilent
<1>3. CASE EmitPrompt \/ ReadLine
  BY <1>3 DEF CountersOK, EmitPrompt, ReadLine, sync_vars
<1>4. CASE ShellsyncSignal \/ ShellsyncWait \/ ShellsyncDelay
  BY <1>4 DEF CountersOK, ShellsyncSignal, ShellsyncWait, ShellsyncDelay, sync_vars
<1>5. CASE ShellSpeaks
  BY <1>5 DEF CountersOK, ShellSpeaks, sync_vars
<1> QED
  BY <1>2, <1>3, <1>4, <1>5 DEF Shell, ShellMoves

LEMMA OthersKeepTypes ==
    ASSUME RunVarsOK, CountersOK,
           (\E p \in Pids : Program(p)) \/ Shell \/ RunOver \/ UNCHANGED run_vars
    PROVE  RunVarsOK' /\ CountersOK'
<1>1. RunVarsOK'
  <2>1. /\ UNCHANGED <<trace, calm, at, line, exit, cleanup_needed, alarm, folder, listed,
                      doomed, stray>>
        /\ session' = session \/ session' = "up"
    BY OthersFrame DEF runner_vars, Setsid
  <2> QED
    BY <2>1 DEF RunVarsOK
<1>2. CountersOK'
  BY ProgramCounters, ShellCounters DEF RunOver, run_vars, CountersOK, sync_vars, shell_vars
<1> QED
  BY <1>1, <1>2

LEMMA CleansUnwatchedTypes ==
    ASSUME RunVarsOK, CountersOK, CleansUnwatched
    PROVE  RunVarsOK' /\ CountersOK'
<1>1. RunVarsOK'
  BY DEF RunVarsOK, CleansUnwatched
<1>2. CountersOK'
  BY DEF CountersOK, CleansUnwatched, sync_vars, shell_vars
<1> QED
  BY <1>1, <1>2

\* A line is done only where there is one.
LEMMA LineDoneTypes ==
    ASSUME RunVarsOK, at \in {"script", "next"}, LinesLeft, LineDone
    PROVE  RunVarsOK'
<1>1. Len(trace.lines) \in Nat
  BY TracesHaveLines DEF RunVarsOK
<1> QED
  BY <1>1 DEF RunVarsOK, LinesLeft, LineDone, RunnerGoto

LEMMA FirstPromptTypes ==
    ASSUME RunVarsOK, FirstPrompt
    PROVE  RunVarsOK'
<1>1. Len(trace.lines) \in Nat
  BY TracesHaveLines DEF RunVarsOK
<1>2. CASE Head(output) = PROMPT
  BY <1>1, <1>2 DEF RunVarsOK, FirstPrompt, RunnerGoto
<1>3. CASE Head(output) # PROMPT
  BY <1>3 DEF RunVarsOK, FirstPrompt, RunnerGoto
<1> QED
  BY <1>2, <1>3

LEMMA RunnerKeepsVars ==
    ASSUME RunVarsOK, CompleteInv, Runner \/ graceful_cleanup_sig_handler
    PROVE  RunVarsOK'
<1>1. CASE at \in {"script", "next"} /\ LinesLeft /\ LineDone
  BY <1>1, LineDoneTypes
<1>2. CASE WAIT \/ SIGNAL \/ SHELLWAIT \/ SHELLSIGNAL \/ KILL
  BY <1>1, <1>2 DEF WAIT, SIGNAL, SHELLWAIT, SHELLSIGNAL, KILL, Reads
<1>3. CASE SendLine \/ PID
  <2>1. at = "script" /\ ((LinesLeft /\ LineDone) \/ Fails)
    BY <1>3 DEF SendLine, PID, Reads
  <2>2. session' = session
    BY <1>3 DEF SendLine, PID, LineDone, Fails
  <2> QED
    BY <1>1, <2>1, <2>2 DEF RunVarsOK, Fails, RunnerGoto
<1>4. CASE TakeOutput
  BY <1>1, <1>4 DEF TakeOutput, CompleteInv, RunVarsOK, RunnerGoto
<1>5. CASE Blocks \/ Mkdir \/ Arm \/ Unmask
  BY <1>5 DEF RunVarsOK, Blocks, Mkdir, Arm, Unmask, JustGoes, RunnerGoto
<1>6. CASE ForkShell
  BY <1>6 DEF RunVarsOK, ForkShell, RunnerGoto
<1>7. CASE FirstPrompt
  BY <1>7, FirstPromptTypes
<1>8. CASE NEXT \/ AnswerSync \/ Timeout
  BY <1>8 DEF RunVarsOK, NEXT, AnswerSync, Timeout, Reads, JustGoes, RunnerGoto
<1>9. CASE EndOfTrace
  BY <1>9 DEF RunVarsOK, EndOfTrace, RunnerGoto
<1>10. CASE ShellReaped \/ flush_output \/ Finish
  BY <1>10 DEF RunVarsOK, ShellReaped, flush_output, Finish, JustGoes, RunnerGoto
<1>11. CASE AtExit
  <2>1. at' \in {"exit_clean", "over"}
    BY <1>11 DEF AtExit, JustGoes, RunnerGoto
  <2> QED
    BY <1>11, <2>1 DEF RunVarsOK, AtExit, JustGoes, RunnerGoto
<1>12. CASE ListProcesses
  <2>1. listed' \in BOOLEAN
    BY <1>12 DEF ListProcesses
  <2> QED
    BY <1>12, <2>1 DEF RunVarsOK, ListProcesses
<1>13. CASE KillProcesses
  BY <1>13 DEF RunVarsOK, KillProcesses, RunnerGoto
<1>14. CASE sigalrm_handler \/ graceful_cleanup_sig_handler
  <2>1. stray' \in BOOLEAN
    BY <1>14 DEF RunVarsOK, sigalrm_handler, graceful_cleanup_sig_handler, DiesCleanly
  <2> QED
    BY <1>14, <2>1 DEF RunVarsOK, sigalrm_handler, graceful_cleanup_sig_handler, DiesCleanly
<1> QED
  BY <1>2, <1>3, <1>4, <1>5, <1>6, <1>7, <1>8, <1>9, <1>10, <1>11, <1>12, <1>13, <1>14
     DEF Runner

LEMMA RunnerKeepsCounters ==
    ASSUME CountersOK, Runner \/ graceful_cleanup_sig_handler
    PROVE  CountersOK'
<1>1. UNCHANGED shell_vars
  BY DEF Runner, Blocks, Mkdir, ForkShell, Arm, Unmask, FirstPrompt, WAIT, SIGNAL, SHELLWAIT,
         SHELLSIGNAL, KILL, SendLine, PID, NEXT, AnswerSync, TakeOutput, Timeout, EndOfTrace,
         ShellReaped, flush_output, ListProcesses, KillProcesses, Finish, AtExit,
         sigalrm_handler, graceful_cleanup_sig_handler, DiesCleanly, JustGoes, LineDone, Fails,
         RunnerGoto
<1>2. CASE UNCHANGED sync_vars
  BY <1>1, <1>2 DEF CountersOK, sync_vars, shell_vars
<1>3. CASE WAIT \/ SIGNAL \/ SHELLWAIT \/ SHELLSIGNAL
  BY <1>1, <1>3 DEF CountersOK, shell_vars, WAIT, SIGNAL, SHELLWAIT, SHELLSIGNAL
<1>4. CASE AnswerSync
  BY <1>1, <1>4 DEF CountersOK, shell_vars, AnswerSync
<1>5. CASE \/ Blocks \/ Mkdir \/ ForkShell \/ Arm \/ Unmask \/ FirstPrompt \/ KILL \/ SendLine
           \/ PID \/ NEXT \/ TakeOutput \/ Timeout \/ EndOfTrace \/ ShellReaped \/ flush_output
           \/ ListProcesses \/ KillProcesses \/ Finish \/ AtExit \/ sigalrm_handler
           \/ graceful_cleanup_sig_handler
  BY <1>2, <1>5 DEF Blocks, Mkdir, ForkShell, Arm, Unmask, FirstPrompt, KILL, SendLine,
         PID, NEXT, TakeOutput, Timeout, EndOfTrace, ShellReaped, flush_output, ListProcesses,
         KillProcesses, Finish, AtExit, sigalrm_handler, graceful_cleanup_sig_handler,
         DiesCleanly, JustGoes
<1> QED
  BY <1>3, <1>4, <1>5 DEF Runner

LEMMA RunnerKeepsTypes == RunSpec => [](RunVarsOK /\ CountersOK)
<1>1. RunVarsOK /\ CountersOK /\ CompleteInv /\ [RunNext]_run_vars
        => RunVarsOK' /\ CountersOK'
  BY OthersKeepTypes, CleansUnwatchedTypes, RunnerKeepsVars, RunnerKeepsCounters DEF RunNext
<1>2. RunSpec => []CompleteInv
  BY RunnerCleanup, PTL
<1> QED
  BY <1>1, <1>2, TypesInit, PTL DEF RunSpec

\* What the sockets, the shell's command line and the programs hold.
ProgramRecord ==
    [name : Programs,
     pc : {"start", "send", "recv", "exit", "term_recv", "term_send", "term_exit", "spin",
           "sleep"},
     term : BOOLEAN, how : {"exit", "signal"}]

DataOK ==
    /\ input \in Seq(Messages) /\ argv \in Messages
    /\ output \in Seq(Texts) /\ printed \in Seq(Texts)
    /\ prog \in [Pids -> ProgramRecord]

LEMMA EOFIsMessage == EOF \in Messages
  BY DEF EOF, Message, Messages, ShellCommands, Programs

LEMMA DataInit == RunInit => DataOK
<1> SUFFICES ASSUME RunInit PROVE DataOK
  OBVIOUS
<1>1. NoProgram \in ProgramRecord
  BY DEF NoProgram, ProgramRecord, Programs
<1>2. prog \in [Pids -> ProgramRecord]
  BY <1>1 DEF RunInit
<1>3. argv \in Messages
  BY EOFIsMessage DEF RunInit
<1>4. <<>> \in Seq(Messages) /\ <<>> \in Seq(Texts)
  OBVIOUS
<1> QED
  BY <1>2, <1>3, <1>4 DEF RunInit, DataOK

LEMMA JidOfType == TypeOK => \A p : JidOf(p) \in Nat
<1> SUFFICES ASSUME TypeOK, NEW p PROVE JidOf(p) \in Nat
  OBVIOUS
<1> DEFINE slots == {i \in Slots : p # NoPid /\ job_list[i].pid = p}
<1>1. First(slots) = NULL \/ First(slots) \in Slots
  <2>1. slots \subseteq Slots
    OBVIOUS
  <2> HIDE DEF slots
  <2> QED
    BY <2>1, FirstOf
<1>2. find_job_with_pid(p) = NULL \/ find_job_with_pid(p) \in Slots
  BY <1>1 DEF find_job_with_pid
<1>3. \A i \in Slots : job_list[i].jid \in Nat
  BY DEF TypeOK, ListTypeOK, job_t
<1> QED
  BY <1>2, <1>3 DEF JidOf

LEMMA JidOfTypeAfter == TypeOK' => (\A p : JidOf(p) \in Nat)'
  BY JidOfType, PTL

LEMMA JobsShownType == TypeOK => JobsShown \in SUBSET (Nat \X job_state)
<1> SUFFICES ASSUME TypeOK, NEW i \in Slots
             PROVE  job_list[i].jid \in Nat /\ job_list[i].state \in job_state
  BY DEF JobsShown
<1> QED
  BY DEF TypeOK, ListTypeOK, job_t

\* What each of them prints.
LEMMA TextsAre ==
    /\ PROMPT \in Texts /\ <<"newline">> \in Texts /\ <<"Took SIGTERM!">> \in Texts
    /\ \A w \in {"launched", "resumed", "terminated", "stopped"}, n \in Nat : <<w, n>> \in Texts
    /\ \A S \in SUBSET (Nat \X job_state) : <<"jobs", S>> \in Texts
    /\ \A name \in Programs : <<"printed by", name>> \in Texts
  BY DEF Texts

LEMMA ShownTyped ==
    ASSUME output \in Seq(Texts), NEW e \in Texts,
           Show(<<e>>) \/ Show(<<>>) \/ output' = Append(output, e) \/ output' = output
    PROVE  output' \in Seq(Texts)
<1>1. <<e>> \in Seq(Texts) /\ <<>> \in Seq(Texts)
  OBVIOUS
<1> HIDE DEF Texts
<1>2. output \o <<e>> \in Seq(Texts) /\ output \o <<>> \in Seq(Texts)
        /\ Append(output, e) \in Seq(Texts)
  BY <1>1
<1> QED
  BY <1>2 DEF Show

LEMMA ProgramData ==
    ASSUME DataOK, NEW p \in Pids, Program(p)
    PROVE  DataOK'
<1>0. UNCHANGED <<input, argv, printed>>
  BY DEF Program, runner_vars, shell_vars
<1>1. output' \in Seq(Texts)
  <2>1. CASE Spin1Term(p)
    BY <2>1, TextsAre, ShownTyped DEF Spin1Term, DataOK
  <2>2. CASE PrintAndExit(p)
    <3>1. prog[p].name \in Programs
      BY DEF DataOK, ProgramRecord
    <3>2. <<"printed by", prog[p].name>> \in Texts
      BY <3>1, TextsAre
    <3> QED
      BY <2>2, <3>2, ShownTyped DEF PrintAndExit, DataOK
  <2>3. CASE output' = output
    BY <2>3 DEF DataOK
  <2> QED
    BY <2>1, <2>2, <2>3 DEF Program, Spin1Start, Spin1Send, Spin1Recv, Spin1TermRecv,
       Spin1TermSend, ProgExit, PkillAll, KillSelf, KillParent, JobTimeout, ChildMoves
<1>2. prog' \in [Pids -> ProgramRecord]
  <2>1. prog \in [Pids -> ProgramRecord]
    BY DEF DataOK
  <2>2. ASSUME NEW how \in {"exit", "signal"}, prog' = [prog EXCEPT ![p].how = how]
        PROVE  prog' \in [Pids -> ProgramRecord]
    BY <2>1, <2>2 DEF ProgramRecord
  <2>3. ASSUME NEW l \in {"start", "send", "recv", "exit", "term_recv", "term_send",
                          "term_exit", "spin", "sleep"},
               ProgGoto(p, l)
        PROVE  prog' \in [Pids -> ProgramRecord]
    BY <2>1, <2>3 DEF ProgramRecord, ProgGoto
  <2>4. CASE PkillAll(p)
    <3>1. ASSUME NEW q \in Pids PROVE prog'[q] \in ProgramRecord
      BY <2>1, <2>4, <3>1 DEF PkillAll, ProgramRecord
    <3> QED
      BY <2>4, <3>1 DEF PkillAll
  <2>5. CASE \/ Spin1Start(p) \/ Spin1Send(p) \/ Spin1Recv(p) \/ Spin1Term(p)
             \/ Spin1TermRecv(p) \/ Spin1TermSend(p)
    BY <2>2, <2>3, <2>5 DEF Spin1Start, Spin1Send, Spin1Recv, Spin1Term, Spin1TermRecv,
       Spin1TermSend, Exits
  <2>6. CASE ProgExit(p) \/ PrintAndExit(p) \/ JobTimeout(p) \/ KillSelf(p) \/ KillParent(p)
    BY <2>2, <2>3, <2>6 DEF ProgExit, PrintAndExit, JobTimeout, KillSelf, KillParent, Exits
  <2>7. CASE ChildMoves(p)
    <3>1. CASE UNCHANGED prog
      BY <2>1, <3>1
    <3>2. ASSUME NEW s \in {"INT", "TSTP"},
                 prog' = [prog EXCEPT ![p].how = IF s = "INT" THEN "signal" ELSE @]
          PROVE  prog' \in [Pids -> ProgramRecord]
      BY <2>1, <3>2 DEF ProgramRecord
    <3> QED
      BY <2>7, <3>1, <3>2 DEF ChildMoves
  <2> QED
    BY <2>4, <2>5, <2>6, <2>7 DEF Program
<1> QED
  BY <1>0, <1>1, <1>2 DEF DataOK

LEMMA ShellData ==
    ASSUME TypeOK, TypeOK', DataOK, Shell
    PROVE  DataOK'
<1>0. UNCHANGED printed
  BY DEF Shell, runner_vars
<1>1. CASE UNCHANGED <<data_vars, argv, prog>>
  BY <1>0, <1>1 DEF DataOK, data_vars
<1>2. CASE \/ Setsid \/ ShellDelivers \/ ShellsyncSignal \/ ShellsyncWait \/ ShellsyncDelay
           \/ ShellSilent
  BY <1>1, <1>2 DEF Setsid, ShellDelivers, ShellsyncSignal, ShellsyncWait, ShellsyncDelay,
     ShellSilent, shell_vars
<1>3. CASE EmitPrompt
  <2>1. output' \in Seq(Texts)
    BY <1>3, TextsAre, ShownTyped DEF EmitPrompt, DataOK
  <2> QED
    BY <1>0, <1>3, <2>1 DEF EmitPrompt, DataOK
<1>4. CASE ReadLine
  <2>1. output' \in Seq(Texts)
    <3>1. Show(<<<<"newline">>>>) \/ Show(<<>>)
      BY <1>4 DEF ReadLine
    <3> QED
      BY <3>1, TextsAre, ShownTyped DEF DataOK
  <2>2. input \in Seq(Messages) /\ input # <<>>
    BY <1>4 DEF ReadLine, DataOK
  <2>3. Head(input) \in Messages /\ Tail(input) \in Seq(Messages)
    BY <2>2
  <2>4. argv' = Head(input) /\ input' = Tail(input) /\ prog' = prog
    BY <1>4 DEF ReadLine
  <2> QED
    BY <1>0, <2>1, <2>3, <2>4 DEF DataOK
<1>5. CASE RunProgram
  <2>1. [NoProgram EXCEPT !.name = argv.prog] \in ProgramRecord
    <3>1. argv.prog \in Programs
      BY DEF DataOK, Messages
    <3> QED
      BY <3>1 DEF NoProgram, ProgramRecord
  <2>2. prog' = [prog EXCEPT ![pid'["main"]] = [NoProgram EXCEPT !.name = argv.prog]]
    BY <1>5 DEF RunProgram
  <2>3. prog' \in [Pids -> ProgramRecord]
    BY <2>1, <2>2 DEF DataOK
  <2> QED
    BY <1>0, <1>5, <2>3 DEF RunProgram, DataOK, data_vars, shell_vars
<1>6. CASE ShellSpeaks
  <2>1. UNCHANGED <<input, argv, prog>>
    BY <1>6 DEF ShellSpeaks
  <2>2. output' \in Seq(Texts)
    <3>1. ASSUME NEW w \in {"launched", "resumed", "terminated", "stopped"}, NEW n \in Nat,
                 Show(<<<<w, n>>>>) \/ Show(<<>>)
          PROVE  output' \in Seq(Texts)
      <4>1. <<w, n>> \in Texts
        BY TextsAre
      <4>2. output \in Seq(Texts)
        BY DEF DataOK
      <4> QED
        BY <3>1, <4>1, <4>2, ShownTyped
    <3>2. CASE UNCHANGED output
      BY <3>2 DEF DataOK
    <3>3. CASE Show(IF cmd = "BG" THEN <<<<"launched", JidOf(pid["main"])'>>>> ELSE <<>>)
      <4>1. JidOf(pid["main"])' \in Nat
        BY JidOfTypeAfter
      <4> QED
        BY <3>1, <3>3, <4>1
    <3>4. CASE Show(<<<<"jobs", JobsShown>>>>)
      <4>1. <<"jobs", JobsShown>> \in Texts
        BY JobsShownType, TextsAre
      <4>2. output \in Seq(Texts)
        BY DEF DataOK
      <4> QED
        BY <3>4, <4>1, <4>2, ShownTyped
    <3>5. CASE Show(IF cmd = "bg" THEN <<<<"resumed", JidOf(pid["main"])>>>> ELSE <<>>)
      BY <3>1, <3>5, JidOfType
    <3>6. CASE Show(IF prog[pid["CHLD"]].how = "signal"
                    THEN <<<<"terminated", JidOf(pid["CHLD"])>>>> ELSE <<>>)
      BY <3>1, <3>6, JidOfType
    <3>7. CASE Show(<<<<"stopped", JidOf(pid["CHLD"])>>>>)
      BY <3>1, <3>7, JidOfType
    <3> QED
      BY <1>6, <3>2, <3>3, <3>4, <3>5, <3>6, <3>7 DEF ShellSpeaks
  <2> QED
    BY <1>0, <2>1, <2>2 DEF DataOK
<1> QED
  BY <1>2, <1>3, <1>4, <1>5, <1>6 DEF Shell, ShellMoves

\* The lines of the trace become messages.
LEMMA LineMessages ==
    ASSUME RunVarsOK, DataOK, NEW op \in {"line", "PID"}, Reads(op), line # 0,
           NEW n \in Nat, NEW p \in Pids \union {NoPid}
    PROVE  /\ trace.lines[line].jid \in Nat
           /\ Message(trace.lines[line].cmd, trace.lines[line].prog, n, p) \in Messages
<1> DEFINE l == trace.lines[line]
<1>1. l \in TraceLines
  <2>1. trace.lines \in Seq(TraceLines)
    BY TracesWellFormed DEF RunVarsOK
  <2>2. Len(trace.lines) \in Nat
    BY <2>1
  <2>3. line \in 1..Len(trace.lines)
    BY <2>2 DEF RunVarsOK, Reads, LinesLeft
  <2> QED
    BY <2>1, <2>3
<1>2. l.op = op
  BY DEF Reads
<1>3. l.jid \in Nat /\ l.prog \in Programs /\ (l.op \in {"line", "PID"} => l.cmd \in ShellCommands)
  BY <1>1 DEF TraceLines
<1>4. l.cmd \in ShellCommands
  BY <1>2, <1>3
<1> QED
  BY <1>3, <1>4 DEF Message, Messages

LEMMA RunnerData ==
    ASSUME RunVarsOK, DataOK, Runner \/ graceful_cleanup_sig_handler \/ CleansUnwatched
    PROVE  DataOK'
<1>0. UNCHANGED <<argv, prog>>
  BY DEF Runner, Blocks, Mkdir, ForkShell, Arm, Unmask, FirstPrompt, WAIT, SIGNAL, SHELLWAIT,
         SHELLSIGNAL, KILL, SendLine, PID, NEXT, AnswerSync, TakeOutput, Timeout, EndOfTrace,
         ShellReaped, flush_output, ListProcesses, KillProcesses, Finish, AtExit,
         sigalrm_handler, graceful_cleanup_sig_handler, DiesCleanly, CleansUnwatched, JustGoes,
         LineDone, Fails, RunnerGoto, shell_vars
<1>1. CASE UNCHANGED <<input, output, printed>>
  BY <1>0, <1>1 DEF DataOK
<1>2. CASE printed' = printed /\ output' = output /\ \E d \in Messages : input' = Append(input, d)
  <2>1. PICK d \in Messages : input' = Append(input, d)
    BY <1>2
  <2>2. input \in Seq(Messages)
    BY DEF DataOK
  <2>3. input' \in Seq(Messages)
    BY <2>1, <2>2
  <2> QED
    BY <1>0, <1>2, <2>3 DEF DataOK
<1>3. CASE /\ output # <<>> /\ output' = Tail(output) /\ input' = input
           /\ printed' = printed \/ printed' = Append(printed, Head(output))
  <2>1. output \in Seq(Texts) /\ printed \in Seq(Texts)
    BY DEF DataOK
  <2>2. Head(output) \in Texts /\ Tail(output) \in Seq(Texts)
    BY <1>3, <2>1
  <2>3. Append(printed, Head(output)) \in Seq(Texts)
    BY <2>1, <2>2
  <2> QED
    BY <1>0, <1>3, <2>1, <2>2, <2>3 DEF DataOK
<1>4. CASE SendLine
  <2>1. at = "script" => line # 0
    BY DEF RunVarsOK
  <2>2. PeerThere =>
          Message(trace.lines[line].cmd, trace.lines[line].prog, trace.lines[line].jid, NoPid)
            \in Messages
    BY <1>4, <2>1, LineMessages DEF SendLine, Reads
  <2> QED
    BY <1>1, <1>2, <1>4, <2>2 DEF SendLine, LineDone, Fails
<1>5. CASE PID
  <2>1. at = "script" => line # 0
    BY DEF RunVarsOK
  <2>2. \A p \in Pids :
          Message(trace.lines[line].cmd, trace.lines[line].prog, 0, p) \in Messages
    BY <1>5, <2>1, LineMessages DEF PID, Reads
  <2>3. output' = output /\ printed' = printed
    BY <1>5 DEF PID, LineDone, Fails
  <2>4. input' = input \/ \E p \in Pids :
          input' = Append(input, Message(trace.lines[line].cmd, trace.lines[line].prog, 0, p))
    BY <1>5 DEF PID
  <2> QED
    BY <1>1, <1>2, <2>2, <2>3, <2>4
<1>6. CASE FirstPrompt \/ TakeOutput \/ flush_output
  BY <1>1, <1>3, <1>6 DEF FirstPrompt, TakeOutput, flush_output, LineDone
<1>7. CASE EndOfTrace
  BY <1>1, <1>2, <1>7, EOFIsMessage DEF EndOfTrace
<1>8. CASE \/ Blocks \/ Mkdir \/ ForkShell \/ Arm \/ Unmask \/ WAIT \/ SIGNAL \/ SHELLWAIT
           \/ SHELLSIGNAL \/ KILL
  BY <1>1, <1>8 DEF Blocks, Mkdir, ForkShell, Arm, Unmask, WAIT, SIGNAL, SHELLWAIT,
     SHELLSIGNAL, KILL, JustGoes, LineDone, data_vars
<1>9. CASE \/ NEXT \/ AnswerSync \/ Timeout \/ ShellReaped \/ ListProcesses \/ KillProcesses
           \/ Finish \/ AtExit \/ sigalrm_handler \/ graceful_cleanup_sig_handler
           \/ CleansUnwatched
  BY <1>1, <1>9 DEF NEXT, AnswerSync, Timeout, ShellReaped, ListProcesses, KillProcesses,
     Finish, AtExit, sigalrm_handler, graceful_cleanup_sig_handler, DiesCleanly,
     CleansUnwatched, JustGoes, data_vars
<1> QED
  BY <1>4, <1>5, <1>6, <1>7, <1>8, <1>9 DEF Runner

\* Whatever the trace, every variable of the runner, the sockets, the wrappers and
\* the programs keeps its type: the runner never leaves its trace, what it sends
\* the shell is a command and what it takes back a prompt or a text, no handshake
\* is taken that was not sent, and what clean kills are processes of the shell
\* (runtrace.c:401-566, wrapper.c:63-80).
THEOREM RunnerTypes == RunSpec => []RunTypeOK
<1>1. RunSpec => []TypeOK
  BY TracesKeepShellSafe, PTL
<1>2. TypeOK /\ TypeOK' /\ RunVarsOK /\ DataOK /\ [RunNext]_run_vars => DataOK'
  <2> SUFFICES ASSUME TypeOK, TypeOK', RunVarsOK, DataOK, [RunNext]_run_vars PROVE DataOK'
    OBVIOUS
  <2>1. ASSUME NEW p \in Pids, Program(p) PROVE DataOK'
    BY <2>1, ProgramData
  <2>2. CASE Shell
    BY <2>2, ShellData
  <2>3. CASE Runner \/ graceful_cleanup_sig_handler \/ CleansUnwatched
    BY <2>3, RunnerData
  <2>4. CASE RunOver \/ UNCHANGED run_vars
    BY <2>4 DEF RunOver, run_vars, runner_vars, data_vars, shell_vars, DataOK
  <2> QED
    BY <2>1, <2>2, <2>3, <2>4 DEF RunNext
<1>3. RunSpec => []DataOK
  BY <1>1, <1>2, DataInit, RunnerKeepsTypes, PTL DEF RunSpec
<1>4. TypeOK /\ RunVarsOK /\ CountersOK /\ DataOK => RunTypeOK
  BY DEF RunTypeOK, RunVarsOK, CountersOK, DataOK, ProgramRecord
<1> QED
  BY <1>1, <1>3, <1>4, RunnerKeepsTypes, PTL

-----------------------------------------------------------------------------
\* The rendezvous of the shell and the runner

\* One line more done is one command more of its kind done (runtrace.c:398-566).
LEMMA DoneCounts ==
    ASSUME NEW t, NEW l \in Nat \ {0}, NEW op
    PROVE  /\ DoneIn(t, l, op) \in Nat
           /\ DoneIn(t, l + 1, op) = DoneIn(t, l, op) + (IF t.lines[l].op = op THEN 1 ELSE 0)
<1> DEFINE S == {i \in 1..l - 1 : t.lines[i].op = op}
           T == {i \in 1..l : t.lines[i].op = op}
<1>1. DoneIn(t, l, op) = Cardinality(S) /\ DoneIn(t, l + 1, op) = Cardinality(T)
  <2>1. (l + 1) - 1 = l
    OBVIOUS
  <2> QED
    BY <2>1 DEF DoneIn
<1>2. IsFiniteSet(S)
  <2>1. IsFiniteSet(1..l - 1)
    BY FS_Interval
  <2> QED
    BY <2>1, FS_Subset
<1>3. l \notin S
  OBVIOUS
<1>4. T = IF t.lines[l].op = op THEN S \cup {l} ELSE S
  OBVIOUS
<1> HIDE DEF S, T
<1>5. Cardinality(S) \in Nat /\ Cardinality(S \cup {l}) = Cardinality(S) + 1
  BY <1>2, <1>3, FS_CardinalityType, FS_AddElement
<1> QED
  BY <1>1, <1>4, <1>5

LEMMA DoneStep ==
    ASSUME RunVarsOK, at \in {"script", "next"}, LineDone, NEW op
    PROVE  Done(op)' = Done(op) + (IF trace.lines[line].op = op THEN 1 ELSE 0)
<1>1. line \in Nat \ {0}
  BY TracesHaveLines DEF RunVarsOK
<1>2. trace' = trace /\ line' = line + 1
  BY DEF LineDone, RunnerGoto
<1> QED
  BY <1>1, <1>2, DoneCounts DEF Done

\* No line is done before the first, and none when the first is read.
LEMMA DoneNone ==
    ASSUME NEW t, NEW l \in {0, 1}, NEW op
    PROVE  DoneIn(t, l, op) = 0
<1>1. {i \in 1..l - 1 : t.lines[i].op = op} = {}
  OBVIOUS
<1> QED
  BY <1>1, FS_EmptySet DEF DoneIn

LEMMA DoneType ==
    ASSUME RunVarsOK, NEW op
    PROVE  Done(op) \in Nat
<1>1. line \in Nat
  BY TracesHaveLines DEF RunVarsOK
<1>2. CASE line = 0
  BY <1>2, DoneNone DEF Done
<1>3. CASE line # 0
  BY <1>1, <1>3, DoneCounts DEF Done
<1> QED
  BY <1>2, <1>3

LEMMA FirstPromptDone ==
    ASSUME CleanupInv, FirstPrompt
    PROVE  \A op : Done(op) = 0 /\ Done(op)' = 0
<1>1. line = 0 /\ line' \in {0, 1}
  BY DEF CleanupInv, FirstPrompt
<1> QED
  BY <1>1, DoneNone DEF Done

\* A synchronization begun is one of the shell's, at the wrapped call it began
\* at: that call is made with every handled signal blocked, so no handler runs
\* between the two halves of the rendezvous (tsh.c:376-399, wrapper.c:62-80).
SyncHeld == sync # "off" => ShellAlive /\ AtSync

\* At a wrapped call the handled signals are blocked.
LEMMA SyncIsCritical ==
    ASSUME ShellTypeOK, AtSync
    PROVE  running \in Contexts /\ Critical(running)
<1>1. running \in Contexts
  BY DEF ShellTypeOK
<1>2. CASE pc[running] = "kill"
  BY <1>1, <1>2 DEF Critical, MainCritical, HandlerCritical
<1>3. CASE running = "CHLD" /\ pc["CHLD"] \in {"delete", "stop"}
  BY <1>1, <1>3 DEF Critical, HandlerCritical
<1>4. CASE At("main", "lookup")
  BY <1>1, <1>4 DEF Critical, MainCritical, At
<1> QED
  BY <1>1, <1>2, <1>3, <1>4 DEF AtSync

\* Nobody but the shell moves its contexts.
LEMMA ProgramLeavesShell ==
    ASSUME NEW p \in Pids, Program(p)
    PROVE  UNCHANGED <<pc, running, status, shell_vars, trace>>
<1>0. UNCHANGED <<shell_vars, trace>>
  BY DEF Program
<1>1. CASE UNCHANGED vars \/ EnvUnchanged
  BY <1>0, <1>1 DEF vars, EnvUnchanged
<1>2. CASE ChildMoves(p)
  BY <1>1, <1>2 DEF ChildMoves, ChildSetup, ChildExec, TakeSignal
<1>3. CASE KillParent(p) \/ KillSelf(p)
  BY <1>1, <1>3 DEF KillParent, KillSelf, KillShell, SendToShell, Exits, Terminate, Stop
<1>4. CASE ProgExit(p) \/ PrintAndExit(p) \/ JobTimeout(p) \/ Spin1Start(p)
  BY <1>1, <1>4 DEF ProgExit, PrintAndExit, JobTimeout, Spin1Start, Exits, Terminate
<1>5. CASE \/ Spin1Send(p) \/ Spin1Recv(p) \/ Spin1Term(p)
           \/ Spin1TermRecv(p) \/ Spin1TermSend(p) \/ PkillAll(p)
  BY <1>1, <1>5 DEF Spin1Send, Spin1Recv, Spin1Term, Spin1TermRecv, Spin1TermSend, PkillAll
<1> QED
  BY <1>2, <1>3, <1>4, <1>5 DEF Program

LEMMA RunnerLeavesShell ==
    ASSUME Runner \/ graceful_cleanup_sig_handler
    PROVE  UNCHANGED <<pc, running, status, job_list, shell_vars, trace>>
<1>1. UNCHANGED <<shell_vars, trace>>
  BY DEF Runner, Blocks, Mkdir, ForkShell, Arm, Unmask, FirstPrompt, WAIT, SIGNAL, SHELLWAIT,
         SHELLSIGNAL, KILL, SendLine, PID, NEXT, AnswerSync, TakeOutput, Timeout, EndOfTrace,
         ShellReaped, flush_output, ListProcesses, KillProcesses, Finish, AtExit,
         sigalrm_handler, graceful_cleanup_sig_handler, DiesCleanly, JustGoes, LineDone, Fails,
         RunnerGoto
<1>2. CASE KILL
  BY <1>1, <1>2 DEF KILL, KillShell, SendToShell, EnvUnchanged, vars, list_vars
<1>3. CASE UNCHANGED vars
  BY <1>1, <1>3 DEF vars
<1>4. CASE \/ Blocks \/ Mkdir \/ ForkShell \/ Arm \/ Unmask \/ FirstPrompt \/ WAIT \/ SIGNAL
           \/ SHELLWAIT \/ SHELLSIGNAL \/ SendLine \/ PID \/ NEXT \/ AnswerSync
  BY <1>3, <1>4 DEF Blocks, Mkdir, ForkShell, Arm, Unmask, FirstPrompt, WAIT, SIGNAL,
         SHELLWAIT, SHELLSIGNAL, SendLine, PID, NEXT, AnswerSync, JustGoes
<1>5. CASE \/ TakeOutput \/ Timeout \/ EndOfTrace \/ ShellReaped \/ flush_output
           \/ ListProcesses \/ KillProcesses \/ Finish \/ AtExit \/ sigalrm_handler
           \/ graceful_cleanup_sig_handler
  BY <1>3, <1>5 DEF TakeOutput, Timeout, EndOfTrace, ShellReaped, flush_output,
         ListProcesses, KillProcesses, Finish, AtExit, sigalrm_handler,
         graceful_cleanup_sig_handler, DiesCleanly, JustGoes
<1> QED
  BY <1>2, <1>4, <1>5 DEF Runner

LEMMA CleansUnwatchedFrame ==
    ASSUME CleansUnwatched
    PROVE  UNCHANGED <<pc, running, status, prompted, sync, argv, trace, calm, at, line, exit,
                       input, output, to_shell, from_shell>>
  BY DEF CleansUnwatched, vars, data_vars, sync_vars, shell_vars

\* A context at none of the wrapped calls.
LEMMA NoSyncElsewhere ==
    ASSUME SyncHeld, NEW c, NEW l, At(c, l),
           l \notin {"kill", "delete", "stop"}, l = "lookup" => argv.jid = 0
    PROVE  sync = "off"
  BY DEF SyncHeld, AtSync, At

\* A synchronization ends before the call it is made in is left.
LEMMA SyncStep ==
    ASSUME ShellTypeOK, Control, SyncHeld, [RunNext]_run_vars
    PROVE  SyncHeld'
<1>0. CASE UNCHANGED <<pc, running, status, shell_vars, trace>>
  BY <1>0 DEF SyncHeld, AtSync, At, ShellAlive, shell_vars
<1>1. ASSUME NEW p \in Pids, Program(p) PROVE SyncHeld'
  BY <1>0, <1>1, ProgramLeavesShell
<1>2. CASE Runner \/ graceful_cleanup_sig_handler
  BY <1>0, <1>2, RunnerLeavesShell
<1>3. CASE CleansUnwatched \/ RunOver \/ UNCHANGED run_vars
  BY <1>0, <1>3 DEF CleansUnwatched, RunOver, run_vars, vars
<1>4. ASSUME Shell, sync' = "off" PROVE SyncHeld'
  BY <1>4 DEF SyncHeld
<1>5. CASE Shell
  <2>1. CASE ShellDelivers
    <3>1. sync # "off" => Handlers \subseteq mask
      BY SyncIsCritical DEF SyncHeld, Control, Masking
    <3>2. sync = "off" /\ sync' = sync
      BY <2>1, <3>1 DEF ShellDelivers, Deliver, shell_vars
    <3> QED
      BY <1>4, <1>5, <3>2
  <2>2. CASE EmitPrompt \/ ShellsyncSignal \/ ShellsyncWait \/ ShellsyncDelay
    <3>1. UNCHANGED <<vars, argv, trace>>
      BY <1>5, <2>2 DEF Shell, EmitPrompt, ShellsyncSignal, ShellsyncWait, ShellsyncDelay
    <3>2. CASE EmitPrompt
      BY <1>4, <1>5, <3>2, NoSyncElsewhere DEF EmitPrompt
    <3>3. CASE ShellsyncSignal \/ ShellsyncWait \/ ShellsyncDelay
      <4>1. ShellAlive /\ AtSync
        BY <3>3 DEF ShellsyncSignal, ShellsyncWait, ShellsyncDelay, SyncHeld
      <4> QED
        BY <3>1, <4>1 DEF SyncHeld, AtSync, At, ShellAlive, vars
    <3> QED
      BY <2>2, <3>2, <3>3
  <2>3. CASE ReadLine
    <3>1. At("main", "prompt")
      BY <2>3 DEF ReadLine, ReadProgram, ReadJobs, ReadBgFg, ReadCommand, Quit
    <3>2. sync = "off" /\ sync' = sync
      BY <2>3, <3>1, NoSyncElsewhere DEF ReadLine
    <3> QED
      BY <1>4, <1>5, <3>2
  <2>4. CASE RunProgram
    <3>1. sync = "off" /\ sync' = sync
      BY <2>4, NoSyncElsewhere DEF RunProgram, Fork, shell_vars
    <3> QED
      BY <1>4, <1>5, <3>1
  <2>5. CASE ShellSilent
    <3>0. sync' = sync
      BY <2>5 DEF ShellSilent, shell_vars
    <3>1. \/ \E c \in Contexts : \E l \in {"check", "restore", "wait", "entry", "return", "fg"} :
                At(c, l)
          \/ At("main", "lookup") /\ argv.jid = 0
      BY <2>5 DEF ShellSilent, CheckForeground, EvalReturn, Wait, WaitNone, LookupPid,
                  HandlerBlock, HandlerUnblock, HandlerReturn, FindForeground, Contexts, Handlers
    <3>2. sync = "off"
      BY <3>1, NoSyncElsewhere
    <3> QED
      BY <1>4, <1>5, <3>0, <3>2
  <2>6. CASE ShellSpeaks
    BY <1>4, <1>5, <2>6 DEF ShellSpeaks
  <2>7. CASE Setsid
    BY <1>0, <1>5, <2>7 DEF Shell, Setsid, vars
  <2> QED
    BY <1>5, <2>1, <2>2, <2>3, <2>4, <2>5, <2>6, <2>7 DEF Shell, ShellMoves
<1> QED
  BY <1>1, <1>2, <1>3, <1>5 DEF RunNext

\* The ledger of the rendezvous: a datagram of the shell's is on its way or was
\* taken by a SHELLWAIT, one of the runner's is on its way or let the shell go
\* on, and the shell has sent one more than it took only while it waits
\* (wrapper.c:62-78, runtrace.c:432-452, 473-482, 736-754).
Balance ==
    from_shell + to_shell + Done("SHELLWAIT")
      = Done("SHELLSIGNAL") + (IF sync = "sent" THEN 1 ELSE 0)

\* The wait for a prompt is that of a NEXT.
NextIsRead == at = "next" => LinesLeft /\ trace.lines[line].op = "NEXT"

LEMMA BalanceInit == RunInit => SyncHeld /\ Balance /\ NextIsRead
<1> SUFFICES ASSUME RunInit PROVE SyncHeld /\ Balance /\ NextIsRead
  OBVIOUS
<1>1. ASSUME NEW op PROVE Done(op) = 0
  <2>1. {i \in 1..line - 1 : trace.lines[i].op = op} = {}
    BY DEF RunInit
  <2> QED
    BY <2>1, FS_EmptySet DEF Done, DoneIn
<1> QED
  BY <1>1 DEF RunInit, SyncHeld, Balance, NextIsRead

LEMMA DoneSame ==
    ASSUME trace' = trace, line' = line
    PROVE  \A op : Done(op)' = Done(op)
  BY DEF Done

LEMMA ProgramLeavesRendezvous ==
    ASSUME NEW p \in Pids, Program(p)
    PROVE  UNCHANGED <<to_shell, from_shell>>
  BY DEF Program, sync_vars, Spin1Start, Spin1Send, Spin1Recv, Spin1Term, Spin1TermRecv,
         Spin1TermSend, ProgExit, PrintAndExit, PkillAll, KillSelf, KillParent, JobTimeout,
         ChildMoves

\* The shell sends and takes; nobody else but the runner touches the channels.
LEMMA OthersBalance ==
    ASSUME RunVarsOK, CountersOK, SyncHeld, Balance,
           \/ (\E p \in Pids : Program(p)) \/ Shell \/ RunOver \/ UNCHANGED run_vars
           \/ CleansUnwatched
    PROVE  Balance'
<1>1. \A op : Done(op)' = Done(op)
  BY OthersFrame, CleansUnwatchedFrame, DoneSame DEF runner_vars
<1>2. Done("SHELLWAIT") \in Nat /\ Done("SHELLSIGNAL") \in Nat
  BY DoneType
<1>3. CASE UNCHANGED <<to_shell, from_shell, sync>>
  BY <1>1, <1>3 DEF Balance
<1>4. ASSUME NEW p \in Pids, Program(p) PROVE Balance'
  <2>1. UNCHANGED sync
    BY <1>4 DEF Program, shell_vars
  <2> QED
    BY <1>3, <1>4, <2>1, ProgramLeavesRendezvous
<1>5. CASE CleansUnwatched \/ RunOver \/ UNCHANGED run_vars
  BY <1>3, <1>5, CleansUnwatchedFrame DEF RunOver, run_vars, sync_vars, shell_vars
<1>6. CASE \/ Setsid \/ ShellDelivers \/ RunProgram \/ ShellSilent \/ EmitPrompt \/ ReadLine
  BY <1>3, <1>6 DEF Setsid, ShellDelivers, RunProgram, ShellSilent, EmitPrompt, ReadLine,
                    sync_vars, shell_vars
<1>7. CASE ShellsyncSignal \/ ShellsyncWait \/ ShellsyncDelay
  BY <1>1, <1>2, <1>7 DEF ShellsyncSignal, ShellsyncWait, ShellsyncDelay, sync_vars, Balance,
                          CountersOK
<1>8. CASE ShellSpeaks
  <2>1. sync # "sent" /\ sync' # "sent" /\ UNCHANGED <<to_shell, from_shell>>
    BY <1>8 DEF ShellSpeaks, SyncHeld, sync_vars
  <2> QED
    BY <1>1, <2>1 DEF Balance
<1> QED
  BY <1>4, <1>5, <1>6, <1>7, <1>8 DEF Shell, ShellMoves

\* The runner takes with a SHELLWAIT and sends with a SHELLSIGNAL; the answer it
\* gives on its own while it waits for output is both at once.
LEMMA RunnerBalance ==
    ASSUME RunVarsOK, CountersOK, CleanupInv, Balance, NextIsRead,
           Runner \/ graceful_cleanup_sig_handler
    PROVE  Balance'
<1>0. sync' = sync /\ trace' = trace
  BY RunnerLeavesShell DEF shell_vars
<1>1. Done("SHELLWAIT") \in Nat /\ Done("SHELLSIGNAL") \in Nat
  BY DoneType
<1>2. CASE UNCHANGED <<line, to_shell, from_shell>>
  BY <1>0, <1>2, DoneSame DEF Balance
<1>3. ASSUME LineDone, at \in {"script", "next"},
             UNCHANGED <<to_shell, from_shell>>,
             trace.lines[line].op \notin {"SHELLWAIT", "SHELLSIGNAL"}
      PROVE  Balance'
  <2>1. Done("SHELLWAIT")' = Done("SHELLWAIT") /\ Done("SHELLSIGNAL")' = Done("SHELLSIGNAL")
    BY <1>1, <1>3, DoneStep
  <2> QED
    BY <1>0, <1>3, <2>1 DEF Balance
<1>4. CASE SHELLWAIT
  <2>1. /\ Done("SHELLWAIT")' = Done("SHELLWAIT") + 1
        /\ Done("SHELLSIGNAL")' = Done("SHELLSIGNAL") + 0
    BY <1>4, DoneStep DEF SHELLWAIT, Reads
  <2> QED
    BY <1>0, <1>1, <1>4, <2>1 DEF SHELLWAIT, Balance, CountersOK
<1>5. CASE SHELLSIGNAL
  <2>1. /\ Done("SHELLWAIT")' = Done("SHELLWAIT") + 0
        /\ Done("SHELLSIGNAL")' = Done("SHELLSIGNAL") + 1
    BY <1>5, DoneStep DEF SHELLSIGNAL, Reads
  <2> QED
    BY <1>0, <1>1, <1>5, <2>1 DEF SHELLSIGNAL, Balance, CountersOK
<1>6. CASE AnswerSync
  <2>1. \A op : Done(op)' = Done(op)
    BY <1>0, <1>6, DoneSame DEF AnswerSync
  <2> QED
    BY <1>0, <1>1, <1>6, <2>1 DEF AnswerSync, Balance, CountersOK
<1>7. CASE WAIT \/ SIGNAL \/ KILL
  BY <1>3, <1>7 DEF WAIT, SIGNAL, KILL, Reads, sync_vars
<1>8. CASE SendLine \/ PID
  BY <1>2, <1>3, <1>8 DEF SendLine, PID, Reads, sync_vars, Fails
<1>9. CASE TakeOutput
  BY <1>2, <1>3, <1>9 DEF TakeOutput, NextIsRead, sync_vars
<1>10. CASE \/ Blocks \/ Mkdir \/ ForkShell \/ Arm \/ Unmask
            \/ NEXT \/ Timeout \/ EndOfTrace \/ ShellReaped \/ flush_output
            \/ ListProcesses \/ KillProcesses \/ Finish \/ AtExit \/ sigalrm_handler
            \/ graceful_cleanup_sig_handler
  BY <1>2, <1>10 DEF Blocks, Mkdir, ForkShell, Arm, Unmask, NEXT, Timeout,
         EndOfTrace, ShellReaped, flush_output, ListProcesses, KillProcesses, Finish, AtExit,
         sigalrm_handler, graceful_cleanup_sig_handler, DiesCleanly, JustGoes, sync_vars
<1>11. CASE FirstPrompt
  BY <1>0, <1>11, FirstPromptDone DEF FirstPrompt, Balance, sync_vars
<1> QED
  BY <1>4, <1>5, <1>6, <1>7, <1>8, <1>9, <1>10, <1>11 DEF Runner

LEMMA NextIsReadStep ==
    ASSUME NextIsRead, [RunNext]_run_vars
    PROVE  NextIsRead'
<1>1. CASE (\E p \in Pids : Program(p)) \/ Shell \/ RunOver \/ UNCHANGED run_vars
  BY <1>1, OthersFrame DEF NextIsRead, LinesLeft, runner_vars
<1>2. CASE Runner \/ graceful_cleanup_sig_handler
  <2>1. CASE at' # "next"
    BY <2>1 DEF NextIsRead
  <2>2. CASE NEXT
    BY <2>2 DEF NEXT, Reads, JustGoes, RunnerGoto, NextIsRead, LinesLeft
  <2>3. CASE AnswerSync \/ TakeOutput
    BY <2>1, <2>3 DEF AnswerSync, TakeOutput, LineDone, RunnerGoto, NextIsRead, LinesLeft
  <2>4. CASE \/ Blocks \/ Mkdir \/ ForkShell \/ Arm \/ Unmask \/ FirstPrompt \/ WAIT \/ SIGNAL
             \/ SHELLWAIT \/ SHELLSIGNAL \/ SendLine \/ PID \/ KILL \/ Timeout
    BY <2>1, <2>4 DEF Blocks, Mkdir, ForkShell, Arm, Unmask, FirstPrompt, WAIT, SIGNAL,
         SHELLWAIT, SHELLSIGNAL, SendLine, PID, KILL, Timeout, JustGoes, LineDone, Fails,
         RunnerGoto
  <2>5. CASE \/ EndOfTrace \/ ShellReaped \/ flush_output \/ ListProcesses \/ KillProcesses
             \/ Finish \/ AtExit \/ sigalrm_handler \/ graceful_cleanup_sig_handler
    BY <2>1, <2>5 DEF EndOfTrace, ShellReaped, flush_output, ListProcesses, KillProcesses,
         Finish, AtExit, sigalrm_handler, graceful_cleanup_sig_handler, DiesCleanly, JustGoes,
         RunnerGoto
  <2> QED
    BY <1>2, <2>2, <2>3, <2>4, <2>5 DEF Runner
<1>3. CASE CleansUnwatched
  BY <1>3, CleansUnwatchedFrame DEF NextIsRead, LinesLeft
<1> QED
  BY <1>1, <1>2, <1>3 DEF RunNext

-----------------------------------------------------------------------------
\* Counting the prompts of the output

IsSeq(s) == \E S : s \in Seq(S)

\* How many prompts there are in s.
Prompts(s) == Cardinality({i \in 1..Len(s) : s[i] = PROMPT})

LEMMA AppendIsSeq ==
    ASSUME NEW s, IsSeq(s), NEW e
    PROVE  /\ IsSeq(Append(s, e))
           /\ s \o <<e>> = Append(s, e)
           /\ s \o <<>> = s
           /\ Len(s) \in Nat
           /\ Len(Append(s, e)) = Len(s) + 1
<1>1. PICK S : s \in Seq(S)
  BY DEF IsSeq
<1>2. s \in Seq(S \cup {e}) /\ e \in S \cup {e}
  BY <1>1
<1>3. Append(s, e) \in Seq(S \cup {e})
  BY <1>2
<1>4. s \o <<e>> = Append(s, e)
  BY <1>2
<1>5. s \o <<>> = s
  BY <1>2
<1> QED
  BY <1>2, <1>3, <1>4, <1>5 DEF IsSeq

LEMMA PromptsFinite ==
    ASSUME NEW s, IsSeq(s)
    PROVE  /\ IsFiniteSet({i \in 1..Len(s) : s[i] = PROMPT})
           /\ Prompts(s) \in Nat
<1>1. Len(s) \in Nat
  BY DEF IsSeq
<1>2. IsFiniteSet(1..Len(s))
  BY <1>1, FS_Interval
<1>3. IsFiniteSet({i \in 1..Len(s) : s[i] = PROMPT})
  BY <1>2, FS_Subset
<1> QED
  BY <1>3, FS_CardinalityType DEF Prompts

LEMMA PromptsAppend ==
    ASSUME NEW s, IsSeq(s), NEW e
    PROVE  Prompts(Append(s, e)) = Prompts(s) + (IF e = PROMPT THEN 1 ELSE 0)
<1> DEFINE n == Len(s)
           A == {i \in 1..n : s[i] = PROMPT}
           B == {i \in 1..n + 1 : Append(s, e)[i] = PROMPT}
<1>1. n \in Nat /\ Len(Append(s, e)) = n + 1
  BY AppendIsSeq
<1>2. Append(s, e)[n + 1] = e /\ \A i \in 1..n : Append(s, e)[i] = s[i]
  <2>1. PICK S : s \in Seq(S)
    BY DEF IsSeq
  <2>2. s \in Seq(S \cup {e}) /\ e \in S \cup {e}
    BY <2>1
  <2> QED
    BY <2>2
<1>3. Prompts(s) = Cardinality(A) /\ Prompts(Append(s, e)) = Cardinality(B)
  BY <1>1 DEF Prompts
<1>4. IsFiniteSet(A) /\ Prompts(s) \in Nat
  BY PromptsFinite
<1>5. n + 1 \notin A
  BY <1>1
<1>6. B = IF e = PROMPT THEN A \cup {n + 1} ELSE A
  BY <1>1, <1>2
<1> HIDE DEF A, B, n
<1>7. Cardinality(A \cup {n + 1}) = Cardinality(A) + 1
  BY <1>4, <1>5, FS_AddElement
<1> QED
  BY <1>3, <1>4, <1>6, <1>7

LEMMA TailIsSeq ==
    ASSUME NEW s, IsSeq(s), s # <<>>
    PROVE  /\ IsSeq(Tail(s))
           /\ Len(s) \in Nat \ {0}
           /\ Len(Tail(s)) = Len(s) - 1
           /\ Head(s) = s[1]
           /\ \A i \in 1..Len(s) - 1 : Tail(s)[i] = s[i + 1]
<1>1. PICK S : s \in Seq(S)
  BY DEF IsSeq
<1>2. Tail(s) \in Seq(S)
  BY <1>1
<1>3. Len(s) \in Nat \ {0}
  BY <1>1
<1> QED
  BY <1>1, <1>2, <1>3 DEF IsSeq

\* Taking what is not a prompt leaves the prompts; taking one leaves one less.
LEMMA PromptsTail ==
    ASSUME NEW s, IsSeq(s), s # <<>>
    PROVE  Prompts(s) = Prompts(Tail(s)) + (IF Head(s) = PROMPT THEN 1 ELSE 0)
<1> DEFINE n == Len(s)
           A == {i \in 1..n : s[i] = PROMPT}
           B == {i \in 1..n - 1 : s[i + 1] = PROMPT}
           f == [i \in B |-> i + 1]
<1>1. n \in Nat \ {0} /\ Len(Tail(s)) = n - 1 /\ Head(s) = s[1]
  BY TailIsSeq
<1>2. \A i \in 1..n - 1 : Tail(s)[i] = s[i + 1]
  BY TailIsSeq
<1>3. Prompts(s) = Cardinality(A)
  BY DEF Prompts
<1>4. Prompts(Tail(s)) = Cardinality(B)
  <2>1. {i \in 1..n - 1 : Tail(s)[i] = PROMPT} = B
    BY <1>2
  <2> QED
    BY <1>1, <2>1 DEF Prompts
<1>5. IsFiniteSet(A) /\ Prompts(s) \in Nat
  BY PromptsFinite
<1>6. f \in Bijection(B, A \ {1})
  <2>1. f \in [B -> A \ {1}]
    BY <1>1
  <2>2. \A i, j \in B : f[i] = f[j] => i = j
    BY <1>1
  <2>3. \A k \in A \ {1} : k - 1 \in B /\ f[k - 1] = k
    BY <1>1
  <2> HIDE DEF A, B, f
  <2> QED
    BY <2>1, <2>2, <2>3, Fun_IsBij
<1> HIDE DEF A, B, f, n
<1>7. IsFiniteSet(A \ {1})
  BY <1>5, FS_RemoveElement
<1>8. Cardinality(B) = Cardinality(A \ {1})
  <2>1. ExistsBijection(B, A \ {1})
    BY <1>6 DEF ExistsBijection
  <2>2. ExistsBijection(A \ {1}, B)
    BY <2>1, Fun_ExistsBijSymmetric
  <2> QED
    BY <1>7, <2>2, FS_Bijection
<1>9. 1 \in A <=> Head(s) = PROMPT
  BY <1>1 DEF A, n
<1>10. Cardinality(A \ {1}) = IF Head(s) = PROMPT THEN Cardinality(A) - 1 ELSE Cardinality(A)
  BY <1>5, <1>9, FS_RemoveElement
<1> QED
  BY <1>3, <1>4, <1>5, <1>8, <1>10

-----------------------------------------------------------------------------
\* The prompts and the command lines

SocketsOK == IsSeq(output) /\ IsSeq(input)

\* The prompt is out only while main waits for a line.
PromptedInv == prompted => pc["main"] = "prompt"

\* Where the runner executes the trace, or is on its way to it.
InScript == at \in {"start", "mkdir", "fork", "arm", "unmask", "prompt", "script", "next"}

\* Every prompt is on its way or was waited for, every command line is on its
\* way or was read, and the shell prints one prompt for each line it reads.
PromptBalance ==
    InScript =>
        Prompts(output) + Len(input) + Done("NEXT") + (IF at \in {"script", "next"} THEN 1 ELSE 0)
          = Done("line") + Done("PID") + (IF prompted THEN 1 ELSE 0)

LEMMA PromptInit == RunInit => SocketsOK /\ PromptedInv /\ PromptBalance
<1> SUFFICES ASSUME RunInit PROVE SocketsOK /\ PromptedInv /\ PromptBalance
  OBVIOUS
<1>1. ASSUME NEW op PROVE Done(op) = 0
  <2>1. {i \in 1..line - 1 : trace.lines[i].op = op} = {}
    BY DEF RunInit
  <2> QED
    BY <2>1, FS_EmptySet DEF Done, DoneIn
<1>2. output = <<>> /\ input = <<>> /\ prompted = FALSE /\ at = "start"
  BY DEF RunInit
<1>3. IsSeq(<<>>) /\ Len(<<>>) = 0 /\ Prompts(<<>>) = 0
  <2>1. <<>> \in Seq({}) /\ Len(<<>>) = 0
    OBVIOUS
  <2>2. {i \in 1..Len(<<>>) : <<>>[i] = PROMPT} = {}
    BY <2>1
  <2> QED
    BY <2>1, <2>2, FS_EmptySet DEF IsSeq, Prompts
<1> QED
  BY <1>1, <1>2, <1>3 DEF SocketsOK, PromptedInv, PromptBalance, InScript

\* What is said that is not a prompt does not count.
LEMMA SpokenBalance ==
    ASSUME RunVarsOK, SocketsOK, PromptBalance,
           output' = output \/ \E e : e # PROMPT /\ output' = Append(output, e),
           UNCHANGED <<input, prompted, at, line, trace>>
    PROVE  SocketsOK' /\ PromptBalance'
<1>1. \A op : Done(op)' = Done(op)
  BY DoneSame
<1>2. IsSeq(output') /\ Prompts(output') = Prompts(output)
  <2>1. CASE output' = output
    BY <2>1 DEF SocketsOK
  <2>2. ASSUME NEW e, e # PROMPT, output' = Append(output, e)
        PROVE  IsSeq(output') /\ Prompts(output') = Prompts(output)
    <3>1. IsSeq(output) /\ Prompts(output) \in Nat
      BY PromptsFinite DEF SocketsOK
    <3>2. Prompts(Append(output, e)) = Prompts(output) + 0
      BY <2>2, <3>1, PromptsAppend
    <3> QED
      BY <2>2, <3>1, <3>2, AppendIsSeq
  <2> QED
    BY <2>1, <2>2
<1> QED
  BY <1>1, <1>2 DEF SocketsOK, PromptBalance, InScript

LEMMA ProgramSpeaks ==
    ASSUME NEW p \in Pids, Program(p)
    PROVE  output' = output \/ \E e : e # PROMPT /\ output' = Append(output, e)
<1>1. CASE Spin1Term(p)
  <2>1. <<"Took SIGTERM!">> # PROMPT
    BY DEF PROMPT
  <2> QED
    BY <1>1, <2>1 DEF Spin1Term
<1>2. CASE PrintAndExit(p)
  <2>1. <<"printed by", prog[p].name>> # PROMPT
    BY DEF PROMPT
  <2> QED
    BY <1>2, <2>1 DEF PrintAndExit
<1>3. CASE \/ Spin1Start(p) \/ Spin1Send(p) \/ Spin1Recv(p) \/ Spin1TermRecv(p)
           \/ Spin1TermSend(p) \/ ProgExit(p) \/ PkillAll(p) \/ KillSelf(p) \/ KillParent(p)
           \/ JobTimeout(p) \/ ChildMoves(p)
  BY <1>3 DEF Spin1Start, Spin1Send, Spin1Recv, Spin1TermRecv, Spin1TermSend, ProgExit,
              PkillAll, KillSelf, KillParent, JobTimeout, ChildMoves
<1> QED
  BY <1>1, <1>2, <1>3 DEF Program

LEMMA ShellSpeaksNoPrompt ==
    ASSUME IsSeq(output), ShellSpeaks
    PROVE  output' = output \/ \E e : e # PROMPT /\ output' = Append(output, e)
<1>1. ASSUME NEW e, e # PROMPT, Show(<<e>>)
      PROVE  \E m : m # PROMPT /\ output' = Append(output, m)
  BY <1>1, AppendIsSeq DEF Show
<1>2. ASSUME Show(<<>>) PROVE output' = output
  BY <1>2, AppendIsSeq DEF Show
<1>3. \A x, y : <<x, y>> # PROMPT
  BY DEF PROMPT
<1>4. CASE UNCHANGED output
  BY <1>4
<1>5. CASE Show(IF cmd = "BG" THEN <<<<"launched", JidOf(pid["main"])'>>>> ELSE <<>>)
  BY <1>1, <1>2, <1>3, <1>5
<1>6. CASE Show(<<<<"jobs", JobsShown>>>>)
  BY <1>1, <1>3, <1>6
<1>7. CASE Show(IF cmd = "bg" THEN <<<<"resumed", JidOf(pid["main"])>>>> ELSE <<>>)
  BY <1>1, <1>2, <1>3, <1>7
<1>8. CASE Show(IF prog[pid["CHLD"]].how = "signal"
                THEN <<<<"terminated", JidOf(pid["CHLD"])>>>> ELSE <<>>)
  BY <1>1, <1>2, <1>3, <1>8
<1>9. CASE Show(<<<<"stopped", JidOf(pid["CHLD"])>>>>)
  BY <1>1, <1>3, <1>9
<1> QED
  BY <1>4, <1>5, <1>6, <1>7, <1>8, <1>9 DEF ShellSpeaks

LEMMA OthersPrompts ==
    ASSUME RunVarsOK, CountersOK, SocketsOK, PromptBalance,
           \/ (\E p \in Pids : Program(p)) \/ Shell \/ RunOver \/ UNCHANGED run_vars
           \/ CleansUnwatched
    PROVE  SocketsOK' /\ PromptBalance'
<1>0. UNCHANGED <<at, line, trace>>
  BY OthersFrame, CleansUnwatchedFrame DEF runner_vars
<1>1. \A op : Done(op)' = Done(op)
  BY <1>0, DoneSame
<1>2. ASSUME NEW p \in Pids, Program(p) PROVE SocketsOK' /\ PromptBalance'
  <2>1. UNCHANGED <<input, prompted>>
    BY <1>2 DEF Program, shell_vars
  <2> QED
    BY <1>0, <1>2, <2>1, ProgramSpeaks, SpokenBalance
<1>3. CASE CleansUnwatched \/ RunOver \/ UNCHANGED run_vars
  BY <1>0, <1>3, CleansUnwatchedFrame, SpokenBalance
     DEF RunOver, run_vars, data_vars, shell_vars
<1>4. CASE \/ Setsid \/ ShellDelivers \/ RunProgram \/ ShellSilent
           \/ ShellsyncSignal \/ ShellsyncWait \/ ShellsyncDelay
  BY <1>0, <1>4, SpokenBalance DEF Setsid, ShellDelivers, RunProgram, ShellSilent,
     ShellsyncSignal, ShellsyncWait, ShellsyncDelay, data_vars, shell_vars
<1>5. CASE ShellSpeaks
  <2>1. UNCHANGED <<input, prompted>>
    BY <1>5 DEF ShellSpeaks
  <2>2. output' = output \/ \E e : e # PROMPT /\ output' = Append(output, e)
    BY <1>5, ShellSpeaksNoPrompt DEF SocketsOK
  <2> QED
    BY <1>0, <2>1, <2>2, SpokenBalance
<1>6. /\ Done("NEXT") \in Nat /\ Done("line") \in Nat /\ Done("PID") \in Nat
      /\ Prompts(output) \in Nat /\ Len(input) \in Nat
  BY DoneType, PromptsFinite, AppendIsSeq DEF SocketsOK
<1>7. CASE EmitPrompt
  <2>1. ~ prompted /\ prompted' = TRUE /\ UNCHANGED input
    BY <1>7 DEF EmitPrompt
  <2>2. output' = Append(output, PROMPT)
    BY <1>7, AppendIsSeq DEF EmitPrompt, Show, SocketsOK
  <2>3. IsSeq(output') /\ Prompts(output') = Prompts(output) + 1
    BY <2>2, AppendIsSeq, PromptsAppend DEF SocketsOK
  <2> QED
    BY <1>0, <1>1, <1>6, <2>1, <2>3 DEF SocketsOK, PromptBalance, InScript
<1>8. CASE ReadLine
  <2>1. prompted /\ prompted' = FALSE /\ input # <<>> /\ input' = Tail(input)
    BY <1>8 DEF ReadLine
  <2>2. IsSeq(input') /\ Len(input') = Len(input) - 1
    BY <2>1, TailIsSeq DEF SocketsOK
  <2>3. IsSeq(output') /\ Prompts(output') = Prompts(output)
    <3>1. output' = output \o <<<<"newline">>>> \/ output' = output \o <<>>
      BY <1>8 DEF ReadLine, Show
    <3>2. output' = Append(output, <<"newline">>) \/ output' = output
      BY <3>1, AppendIsSeq DEF SocketsOK
    <3>3. <<"newline">> # PROMPT
      BY DEF PROMPT
    <3>4. Prompts(Append(output, <<"newline">>)) = Prompts(output) + 0
      BY <3>3, PromptsAppend DEF SocketsOK
    <3>5. IsSeq(output) /\ IsSeq(Append(output, <<"newline">>))
      BY AppendIsSeq DEF SocketsOK
    <3>6. Prompts(Append(output, <<"newline">>)) = Prompts(output)
      BY <1>6, <3>4
    <3> QED
      BY <3>2, <3>5, <3>6
  <2> QED
    BY <1>0, <1>1, <1>6, <2>1, <2>2, <2>3 DEF SocketsOK, PromptBalance, InScript
<1> QED
  BY <1>2, <1>3, <1>4, <1>5, <1>7, <1>8 DEF Shell, ShellMoves

\* The lines of the trace.
LEMMA LineKeepsPrompts ==
    ASSUME RunVarsOK, SocketsOK, PromptBalance, at = "script", LineDone,
           UNCHANGED <<prompted, output, input>>,
           trace.lines[line].op \notin {"NEXT", "line", "PID"}
    PROVE  SocketsOK' /\ PromptBalance'
<1>1. \A op \in {"NEXT", "line", "PID"} : Done(op) \in Nat /\ Done(op)' = Done(op) + 0
  BY DoneType, DoneStep
<1>2. /\ Done("NEXT")' = Done("NEXT") /\ Done("line")' = Done("line")
      /\ Done("PID")' = Done("PID")
  BY <1>1
<1>3. at' = "script"
  BY DEF LineDone, RunnerGoto
<1> QED
  BY <1>2, <1>3 DEF SocketsOK, PromptBalance, InScript

LEMMA SentKeepsPrompts ==
    ASSUME RunVarsOK, SocketsOK, PromptBalance, at = "script", LineDone, NEW d,
           UNCHANGED <<prompted, output>>, input' = Append(input, d),
           trace.lines[line].op \in {"line", "PID"}
    PROVE  SocketsOK' /\ PromptBalance'
<1>1. /\ Done("NEXT") \in Nat /\ Done("line") \in Nat /\ Done("PID") \in Nat
      /\ Prompts(output) \in Nat /\ Len(input) \in Nat
  BY DoneType, PromptsFinite, AppendIsSeq DEF SocketsOK
<1>2. /\ Done("NEXT")' = Done("NEXT")
      /\ Done("line")' + Done("PID")' = Done("line") + Done("PID") + 1
  <2>1. CASE trace.lines[line].op = "line"
    <3>1. Done("NEXT")' = Done("NEXT") + 0 /\ Done("line")' = Done("line") + 1
          /\ Done("PID")' = Done("PID") + 0
      BY <2>1, DoneStep
    <3> QED
      BY <1>1, <3>1
  <2>2. CASE trace.lines[line].op = "PID"
    <3>1. Done("NEXT")' = Done("NEXT") + 0 /\ Done("line")' = Done("line") + 0
          /\ Done("PID")' = Done("PID") + 1
      BY <2>2, DoneStep
    <3> QED
      BY <1>1, <3>1
  <2> QED
    BY <2>1, <2>2
<1>3. at' = "script"
  BY DEF LineDone, RunnerGoto
<1>4. IsSeq(input') /\ Len(input') = Len(input) + 1
  BY AppendIsSeq DEF SocketsOK
<1> QED
  BY <1>1, <1>2, <1>3, <1>4 DEF SocketsOK, PromptBalance, InScript

\* The runner takes a datagram.
LEMMA TakenPrompts ==
    ASSUME SocketsOK, output # <<>>, output' = Tail(output)
    PROVE  /\ IsSeq(output')
           /\ Prompts(output') \in Nat
           /\ Head(output) = PROMPT => Prompts(output) = Prompts(output') + 1
           /\ Head(output) # PROMPT => Prompts(output) = Prompts(output')
<1>1. IsSeq(output')
  BY TailIsSeq DEF SocketsOK
<1>2. Prompts(output') \in Nat
  BY <1>1, PromptsFinite
<1>3. Prompts(output) = Prompts(output') + (IF Head(output) = PROMPT THEN 1 ELSE 0)
  BY PromptsTail DEF SocketsOK
<1> QED
  BY <1>1, <1>2, <1>3

LEMMA RunnerPrompts ==
    ASSUME RunVarsOK, CleanupInv, SocketsOK, PromptBalance, NextIsRead,
           Runner \/ graceful_cleanup_sig_handler
    PROVE  SocketsOK' /\ PromptBalance'
<1>0. prompted' = prompted /\ trace' = trace
  BY RunnerLeavesShell DEF shell_vars
<1>1. /\ Done("NEXT") \in Nat /\ Done("line") \in Nat /\ Done("PID") \in Nat
      /\ Prompts(output) \in Nat /\ Len(input) \in Nat
  BY DoneType, PromptsFinite, AppendIsSeq DEF SocketsOK
<1>2. CASE UNCHANGED data_vars /\ ~ InScript'
  BY <1>2 DEF SocketsOK, PromptBalance, data_vars
<1>12. CASE UNCHANGED <<data_vars, line>> /\ InScript
            /\ (at' \in {"script", "next"} <=> at \in {"script", "next"})
  <2>1. \A op : Done(op)' = Done(op)
    BY <1>0, <1>12, DoneSame
  <2> QED
    BY <1>0, <1>12, <2>1 DEF SocketsOK, PromptBalance, data_vars
<1>3. CASE FirstPrompt
  <2>1. \A op : Done(op)' = Done(op)
    BY <1>3, FirstPromptDone
  <2>2. /\ input' = input /\ at = "prompt" /\ output # <<>> /\ output' = Tail(output)
        /\ IF Head(output) = PROMPT THEN at' = "script" ELSE at' = "status"
    BY <1>3 DEF FirstPrompt, RunnerGoto
  <2>3. CASE at' = "status"
    BY <2>2, <2>3, TakenPrompts DEF SocketsOK, PromptBalance, InScript
  <2>4. CASE Head(output) = PROMPT
    BY <1>0, <1>1, <2>1, <2>2, <2>4, TakenPrompts DEF SocketsOK, PromptBalance, InScript
  <2> QED
    BY <2>2, <2>3, <2>4
<1>4. CASE TakeOutput
  <2>1. /\ input' = input /\ at = "next" /\ output # <<>> /\ output' = Tail(output)
    BY <1>4 DEF TakeOutput
  <2>2. CASE Head(output) = PROMPT
    <3>1. LineDone /\ at' = "script"
      BY <1>4, <2>2 DEF TakeOutput, LineDone, RunnerGoto
    <3>2. /\ Done("NEXT")' = Done("NEXT") + 1 /\ Done("line")' = Done("line") + 0
          /\ Done("PID")' = Done("PID") + 0
      BY <2>1, <3>1, DoneStep DEF NextIsRead
    <3> QED
      BY <1>0, <1>1, <2>1, <2>2, <3>1, <3>2, TakenPrompts DEF SocketsOK, PromptBalance, InScript
  <2>3. CASE Head(output) # PROMPT
    <3>1. at' = "next" /\ line' = line
      BY <1>4, <2>3 DEF TakeOutput, RunnerGoto
    <3>2. \A op : Done(op)' = Done(op)
      BY <1>0, <3>1, DoneSame
    <3> QED
      BY <1>0, <1>1, <2>1, <2>3, <3>1, <3>2, TakenPrompts DEF SocketsOK, PromptBalance, InScript
  <2> QED
    BY <2>2, <2>3
<1>5. CASE flush_output
  <2>1. ~ InScript'
    BY <1>5 DEF flush_output, RunnerGoto, InScript
  <2>2. input' = input /\ (output' = output \/ (output # <<>> /\ output' = Tail(output)))
    BY <1>5 DEF flush_output
  <2>3. IsSeq(output')
    BY <2>2, TakenPrompts DEF SocketsOK
  <2> QED
    BY <2>1, <2>2, <2>3 DEF SocketsOK, PromptBalance
<1>6. CASE EndOfTrace
  <2>1. ~ InScript'
    BY <1>6 DEF EndOfTrace, RunnerGoto, InScript
  <2>2. output' = output /\ (input' = input \/ input' = Append(input, EOF))
    BY <1>6 DEF EndOfTrace
  <2> QED
    BY <2>1, <2>2, AppendIsSeq DEF SocketsOK, PromptBalance
<1>7. CASE WAIT \/ SIGNAL \/ SHELLWAIT \/ SHELLSIGNAL \/ KILL
  <2>1. /\ at = "script" /\ LineDone /\ UNCHANGED <<output, input>>
        /\ trace.lines[line].op \notin {"NEXT", "line", "PID"}
    BY <1>7 DEF WAIT, SIGNAL, SHELLWAIT, SHELLSIGNAL, KILL, Reads, data_vars
  <2> QED
    BY <1>0, <2>1, LineKeepsPrompts
<1>8. CASE SendLine \/ PID
  <2>1. CASE Fails /\ UNCHANGED <<input, output>>
    BY <1>2, <2>1 DEF Fails, RunnerGoto, InScript, data_vars
  <2>2. CASE LineDone /\ output' = output /\ \E d : input' = Append(input, d)
    <3>1. at = "script" /\ trace.lines[line].op \in {"line", "PID"}
      BY <1>8 DEF SendLine, PID, Reads
    <3> QED
      BY <1>0, <2>2, <3>1, SentKeepsPrompts
  <2> QED
    BY <1>8, <2>1, <2>2 DEF SendLine, PID
<1>9. CASE NEXT \/ AnswerSync
  BY <1>12, <1>9 DEF NEXT, AnswerSync, Reads, JustGoes, RunnerGoto, InScript
<1>10. CASE Blocks \/ Mkdir \/ ForkShell \/ Arm \/ Unmask
  BY <1>12, <1>10 DEF Blocks, Mkdir, ForkShell, Arm, Unmask, JustGoes, RunnerGoto, InScript
<1>11. CASE \/ Timeout \/ ShellReaped \/ ListProcesses \/ KillProcesses \/ Finish \/ AtExit
            \/ sigalrm_handler \/ graceful_cleanup_sig_handler
  BY <1>2, <1>11 DEF Timeout, ShellReaped, ListProcesses, KillProcesses, Finish, AtExit,
         sigalrm_handler, graceful_cleanup_sig_handler, DiesCleanly, JustGoes, RunnerGoto,
         InScript
<1> QED
  BY <1>3, <1>4, <1>5, <1>6, <1>7, <1>8, <1>9, <1>10, <1>11 DEF Runner

LEMMA PromptedStep ==
    ASSUME ShellTypeOK, PromptedInv, [RunNext]_run_vars
    PROVE  PromptedInv'
<1>0. CASE UNCHANGED <<pc, prompted>>
  BY <1>0 DEF PromptedInv
<1>1. ASSUME NEW p \in Pids, Program(p) PROVE PromptedInv'
  BY <1>0, <1>1, ProgramLeavesShell DEF shell_vars
<1>2. CASE Runner \/ graceful_cleanup_sig_handler
  BY <1>0, <1>2, RunnerLeavesShell DEF shell_vars
<1>3. CASE CleansUnwatched \/ Setsid \/ RunOver \/ UNCHANGED run_vars
  BY <1>0, <1>3 DEF CleansUnwatched, Setsid, RunOver, run_vars, vars, shell_vars
<1>4. CASE ShellDelivers
  BY <1>4 DEF ShellDelivers, Deliver, shell_vars, ShellTypeOK, PromptedInv, Handlers, Contexts
<1>5. CASE EmitPrompt
  BY <1>5 DEF EmitPrompt, At, PromptedInv, vars
<1>6. CASE ReadLine
  BY <1>6 DEF ReadLine, PromptedInv
<1>7. CASE ShellsyncSignal \/ ShellsyncWait \/ ShellsyncDelay
  BY <1>0, <1>7 DEF ShellsyncSignal, ShellsyncWait, ShellsyncDelay, vars
<1>8. CASE ~ prompted /\ prompted' = prompted
  BY <1>8 DEF PromptedInv
<1>9. ASSUME NEW l, l # "prompt", At("main", l) PROVE ~ prompted
  BY <1>9 DEF At, PromptedInv
<1>10. ASSUME NEW h \in Handlers, NEW l, Goto(h, l), prompted' = prompted PROVE PromptedInv'
  BY <1>10 DEF Goto, ShellTypeOK, PromptedInv, Handlers, Contexts
<1>11. CASE RunProgram
  BY <1>8, <1>9, <1>11 DEF RunProgram, Fork, shell_vars
<1>12. CASE ShellSilent
  <2>0. prompted' = prompted
    BY <1>12 DEF ShellSilent, shell_vars
  <2>1. CASE CheckForeground \/ EvalReturn \/ LookupPid
    BY <1>8, <1>9, <2>0, <2>1 DEF CheckForeground, EvalReturn, LookupPid
  <2>2. CASE Wait \/ WaitNone
    BY <1>10, <2>0, <2>2 DEF Wait, WaitNone, Handlers
  <2>3. ASSUME NEW h \in Handlers,
               HandlerBlock(h) \/ HandlerUnblock(h) \/ HandlerReturn(h) \/ FindForeground(h)
        PROVE  PromptedInv'
    BY <1>10, <2>0, <2>3 DEF HandlerBlock, HandlerUnblock, HandlerReturn, FindForeground
  <2> QED
    BY <1>12, <2>1, <2>2, <2>3 DEF ShellSilent
<1>13. CASE ShellSpeaks
  <2>0. prompted' = prompted
    BY <1>13 DEF ShellSpeaks
  <2>1. CASE ContinueJob \/ LookupJid \/ AddJob \/ ListJobs \/ SetState
    BY <1>8, <1>9, <2>0, <2>1 DEF ContinueJob, LookupJid, AddJob, ListJobs, SetState
  <2>2. ASSUME NEW h \in Handlers, Forward(h) PROVE PromptedInv'
    BY <1>10, <2>0, <2>2 DEF Forward
  <2>3. CASE DeleteJob
    BY <1>10, <2>0, <2>3 DEF DeleteJob, Handlers
  <2>4. CASE StopJob
    <3>1. pc' = pc \/ Goto("CHLD", "wait")
      BY <2>4 DEF StopJob, End
    <3> QED
      BY <1>0, <1>10, <2>0, <3>1 DEF Handlers
  <2> QED
    BY <1>13, <2>1, <2>2, <2>3, <2>4 DEF ShellSpeaks, Handlers
<1> QED
  BY <1>1, <1>2, <1>3, <1>4, <1>5, <1>6, <1>7, <1>11, <1>12, <1>13
     DEF RunNext, Shell, ShellMoves

-----------------------------------------------------------------------------
\* What the theorems say

\* Whatever the trace, the two halves of the shell's rendezvous balance at every
\* instant, one is pending only while the shell is held at the wrapped call it
\* made, and the runner waits for a prompt only at a NEXT (wrapper.c:62-78,
\* runtrace.c:432-482, 736-754).
THEOREM RunnerLedger == RunSpec => [](SyncHeld /\ Balance /\ NextIsRead)
<1>1. RunSpec => Spec
  BY RunnerRunsTheShell DEF RunsTheShell
<1>2. ShellInv => ShellTypeOK /\ Control
  BY DEF ShellInv
<1>3. ShellTypeOK /\ Control /\ RunVarsOK /\ CountersOK /\ CleanupInv
      /\ SyncHeld /\ Balance /\ NextIsRead /\ [RunNext]_run_vars
        => SyncHeld' /\ Balance' /\ NextIsRead'
  BY SyncStep, OthersBalance, RunnerBalance, NextIsReadStep DEF RunNext
<1> QED
  BY <1>1, <1>2, <1>3, BalanceInit, ShellInvariant, RunnerKeepsTypes, RunnerCleanup, PTL
     DEF RunSpec

\* What the end of a run stands for.
StatusInv ==
    /\ at \in {"reap", "flush"} \/ (at \in {"clean", "kill"} /\ exit = "none") => ~ LinesLeft
    /\ at = "finish" => ~ LinesLeft /\ ~ ShellAlive
    /\ at \in {"status", "clean", "kill", "atexit", "exit_clean", "exit_kill"} /\ exit = "0" =>
          Rough /\ line # 0 /\ LinesLeft /\ trace.lines[line].op = "NEXT"
    /\ ZeroStatus

LEMMA StatusStep ==
    ASSUME CleanupInv, CompleteInv, NextIsRead, StatusInv, [RunNext]_run_vars
    PROVE  StatusInv'
<1> USE DEF StatusInv, ZeroStatus
<1>1. CASE (\E p \in Pids : Program(p)) \/ Shell \/ RunOver \/ UNCHANGED run_vars
  <2>1. UNCHANGED <<trace, calm, at, line, exit>>
    BY <1>1, OthersFrame DEF runner_vars
  <2>2. ~ ShellAlive => ~ ShellAlive'
    <3>1. ~ ShellAlive => UNCHANGED vars
      BY RunStepsShell, DeadShellStays
    <3> QED
      BY <3>1 DEF vars, ShellAlive
  <2> QED
    BY <2>1, <2>2 DEF LinesLeft, Rough
<1>2. CASE Runner \/ graceful_cleanup_sig_handler
  <2>0. trace' = trace /\ ShellAlive' = ShellAlive
    BY <1>2, RunnerLeavesShell DEF ShellAlive
  <2>1. CASE at' \in {"mkdir", "fork", "arm", "unmask", "prompt", "script", "next"}
    BY <2>1
  <2>2. CASE Blocks \/ Mkdir \/ ForkShell \/ Arm \/ Unmask \/ FirstPrompt
    BY <2>1, <2>2 DEF Blocks, Mkdir, ForkShell, Arm, Unmask, FirstPrompt, JustGoes, RunnerGoto
  <2>3. CASE \/ WAIT \/ SIGNAL \/ SHELLWAIT \/ SHELLSIGNAL \/ KILL \/ SendLine \/ PID
             \/ NEXT \/ AnswerSync \/ TakeOutput
    BY <2>1, <2>3 DEF WAIT, SIGNAL, SHELLWAIT, SHELLSIGNAL, KILL, SendLine, PID, NEXT,
         AnswerSync, TakeOutput, JustGoes, LineDone, Fails, RunnerGoto
  <2>4. CASE Timeout
    BY <2>4 DEF Timeout, RunnerGoto, NextIsRead, Rough, LinesLeft, CleanupInv
  <2>5. CASE EndOfTrace \/ ShellReaped
    BY <2>5 DEF EndOfTrace, ShellReaped, JustGoes, RunnerGoto, LinesLeft
  <2>6. CASE flush_output
    BY <2>6 DEF flush_output, RunnerGoto, LinesLeft, Rough, CompleteInv
  <2>7. CASE ListProcesses
    BY <2>7 DEF ListProcesses, LinesLeft, Rough
  <2>8. CASE KillProcesses
    BY <2>0, <2>8 DEF KillProcesses, RunnerGoto, LinesLeft, Rough, CompleteInv
  <2>9. CASE Finish \/ AtExit
    BY <2>0, <2>9 DEF Finish, AtExit, JustGoes, RunnerGoto, LinesLeft, Rough, CompleteInv
  <2>10. CASE sigalrm_handler \/ graceful_cleanup_sig_handler
    BY <2>10 DEF sigalrm_handler, graceful_cleanup_sig_handler, DiesCleanly, RunnerGoto
  <2> QED
    BY <1>2, <2>2, <2>3, <2>4, <2>5, <2>6, <2>7, <2>8, <2>9, <2>10 DEF Runner
<1>3. CASE CleansUnwatched
  BY <1>3, CleansUnwatchedFrame DEF LinesLeft, Rough, ShellAlive
<1> QED
  BY <1>1, <1>2, <1>3 DEF RunNext

\* Whatever the trace, a runner that ends with status 0 has either reached the
\* end of it with its shell reaped, or timed out at a NEXT: the driver cannot
\* tell the two apart (runtrace.c:454-461, 567-592).
THEOREM RunnerStatus == RunSpec => []ZeroStatus
<1>1. RunInit => StatusInv
  BY DEF RunInit, StatusInv, ZeroStatus
<1>2. RunSpec => []StatusInv
  BY <1>1, StatusStep, RunnerCleanup, RunnerLedger, PTL DEF RunSpec
<1>3. StatusInv => ZeroStatus
  BY DEF StatusInv
<1> QED
  BY <1>2, <1>3, PTL

\* Whatever the trace, when a run is complete what the shell sent or was sent and
\* did not take is what the trace forgot to wait for or to signal: nothing is
\* lost and nothing is made up (runtrace.c:432-482, 736-754, wrapper.c:62-78).
THEOREM RunnerBalances == RunSpec => []RendezvousBalance
<1>1. SyncHeld /\ Balance /\ ZeroStatus /\ RunVarsOK /\ CountersOK => RendezvousBalance
  <2> SUFFICES ASSUME SyncHeld, Balance, ZeroStatus, RunVarsOK, CountersOK, Complete
               PROVE  from_shell + to_shell + Done("SHELLWAIT") = Done("SHELLSIGNAL")
    BY DEF RendezvousBalance
  <2>1. sync = "off"
    BY DEF SyncHeld, ZeroStatus, Complete
  <2>2. Done("SHELLSIGNAL") \in Nat
    BY DoneType
  <2> QED
    BY <2>1, <2>2 DEF Balance
<1> QED
  BY <1>1, RunnerLedger, RunnerStatus, RunnerKeepsTypes, PTL

\* A trace whose SHELLWAITs are as many as its SHELLSIGNALs leaves neither channel
\* of the shell's rendezvous with a datagram in it (runtrace.c:432-482, 736-754).
THEOREM RendezvousPairs ==
    RunSpec => [](Complete /\ Done("SHELLWAIT") = Done("SHELLSIGNAL")
                  => from_shell = 0 /\ to_shell = 0)
<1>1. RendezvousBalance /\ RunVarsOK /\ CountersOK
        => (Complete /\ Done("SHELLWAIT") = Done("SHELLSIGNAL")
            => from_shell = 0 /\ to_shell = 0)
  BY DoneType DEF RendezvousBalance, CountersOK
<1> QED
  BY <1>1, RunnerBalances, RunnerKeepsTypes, PTL

\* Whatever the trace, while it is executed every prompt is on its way or was
\* waited for and every command line is on its way or was read: the shell prints
\* one prompt for each line it reads and the runner sends no line of its own
\* (tsh.c:106-132, runtrace.c:453-462, 535-566).
THEOREM RunnerPromptLedger == RunSpec => [](SocketsOK /\ PromptedInv /\ PromptBalance)
<1>1. RunVarsOK /\ CountersOK /\ CleanupInv /\ SocketsOK /\ PromptBalance /\ NextIsRead
      /\ [RunNext]_run_vars
        => SocketsOK' /\ PromptBalance'
  BY OthersPrompts, RunnerPrompts DEF RunNext
<1>2. RunSpec => Spec
  BY RunnerRunsTheShell DEF RunsTheShell
<1>3. ShellInv => ShellTypeOK
  BY DEF ShellInv
<1> QED
  BY <1>1, <1>2, <1>3, PromptInit, PromptedStep, ShellInvariant, RunnerLedger,
     RunnerKeepsTypes, RunnerCleanup, PTL DEF RunSpec

\* Whatever the trace, when the runner has done a NEXT for every command line it
\* sent, the shell has read them all, is back at its prompt and has no job in the
\* foreground: the next line finds it idle (runtrace.c:453-462, 755-769, tsh.c:106-132).
THEOREM RunnerKeepsStep == RunSpec => []NextMeansPrompt
<1>1. RunVarsOK /\ CountersOK /\ SocketsOK /\ PromptedInv /\ PromptBalance
      /\ ForegroundOnlyWhileWaiting
        => NextMeansPrompt
  <2> SUFFICES ASSUME RunVarsOK, CountersOK, SocketsOK, PromptedInv, PromptBalance,
                      ForegroundOnlyWhileWaiting,
                      at = "script", Done("NEXT") = Done("line") + Done("PID")
               PROVE  prompted /\ input = <<>> /\ pc["main"] = "prompt" /\ ForegroundSlots = {}
    BY DEF NextMeansPrompt
  <2>1. /\ Done("NEXT") \in Nat /\ Prompts(output) \in Nat /\ Len(input) \in Nat
    BY DoneType, PromptsFinite, AppendIsSeq DEF SocketsOK
  <2>2. Prompts(output) + Len(input) + 1 = IF prompted THEN 1 ELSE 0
    BY <2>1 DEF PromptBalance, InScript
  <2>3. prompted /\ Len(input) = 0
    BY <2>1, <2>2
  <2>4. input = <<>>
    <3>1. PICK S : input \in Seq(S)
      BY DEF SocketsOK, IsSeq
    <3> QED
      BY <2>3, <3>1
  <2> QED
    BY <2>3, <2>4 DEF PromptedInv, ForegroundOnlyWhileWaiting
<1> QED
  BY <1>1, RunnerPromptLedger, TracesKeepShellSafe, RunnerKeepsTypes, PTL
=============================================================================
