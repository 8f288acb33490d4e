------------------------------ MODULE Runtrace ------------------------------
(***************************************************************************)
(* The shell under test.  runtrace.c runs the shell of module Tsh in a     *)
(* session of its own, sends it the commands of a trace file over a        *)
(* datagram socket, keeps step with the shell and with its jobs over two   *)
(* other sockets, and prints what they print.  wrapper.c makes the shell   *)
(* stop at a chosen call until the runner lets it go on, and the jobs are  *)
(* the test programs of the repository.                                    *)
(*                                                                         *)
(* Time appears in one way: a behaviour is calm when the delays of the     *)
(* code are long enough: no timeout fires, a program that sleeps or a      *)
(* wrapper that spins is overtaken by everything else that can move, and   *)
(* a process takes the signals that it does not block before it does       *)
(* anything else.  When it is not calm, delays mean nothing, any timeout   *)
(* may fire, and the runner may be interrupted.                            *)
(***************************************************************************)
EXTENDS Tsh, Sequences

CONSTANTS
    Traces,     \* the traces that run calmly: those of the repository
    RoughTraces \* the traces that do not: any

\* The runner and the programs send SIGINT and SIGTSTP to the shell.
ASSUME RunSignals == {"INT", "TSTP"} \subseteq UserSignals

\* A trace: what the shell synchronises on, the lines after that, and what the
\* shell and its jobs print in answer.  Comments and blank lines are left out.
Syncs == {"none", "kill", "waitpid", "get_pid_of_job"}

Directives == {"NEXT", "WAIT", "SIGNAL", "SHELLWAIT", "SHELLSIGNAL", "SIGINT",
               "SIGTSTP", "PID"}

\* What eval executes, and the programs it runs.
ShellCommands == {"FG", "BG", "fg", "bg", "jobs", "quit", "eof"}

Programs == {"", "myspin1", "mytstps", "mytstpp", "myints", "myintp", "mysleepnprint",
             "echo", "sleep", "pkill"}

\* Only a command line and PID carry a command.
TraceLines ==
    {l \in [op : Directives \union {"line"}, cmd : ShellCommands \union {""}, prog : Programs,
            jid : Nat] :
        l.op \in {"line", "PID"} => l.cmd \in ShellCommands}

ASSUME TracesWellFormed ==
    \A t \in Traces \union RoughTraces : t.shellsync \in Syncs /\ t.lines \in Seq(TraceLines)

\* The command that a datagram carries to the shell, the program to run, or the
\* job that fg and bg name.
Message(c, program, jid, p) == [cmd |-> c, prog |-> program, jid |-> jid, pid |-> p]

Messages == [cmd : ShellCommands, prog : Programs, jid : Nat, pid : Pids \union {NoPid}]

\* A zero-length datagram is the end of the shell's input.
EOF == Message("eof", "", 0, NoPid)

\* What the shell and its jobs send back: the prompt, which is one datagram, and
\* what is printed.
PROMPT == <<"tsh> ">>

Texts ==
    {PROMPT, <<"newline">>, <<"Took SIGTERM!">>}
    \union ({"launched", "resumed", "terminated", "stopped"} \X Nat)
    \union ({"jobs"} \X SUBSET (Nat \X job_state))
    \union ({"printed by"} \X Programs)

VARIABLES
    trace,      \* the trace file
    calm,       \* whether every delay is long enough
    at,         \* where the runner is
    line,       \* the line of the trace it has read, 0 until the first prompt
    exit,       \* its exit status
    cleanup_needed,
    alarm,      \* whether alarm(DRIVER_TIMEOUT) was called
    folder,     \* the directory runtrace.tmp: "absent", "foreign" or "own"
    printed,    \* what the runner has printed for the shell and the jobs
    listed,     \* whether ps has found the shell's session,
    doomed,     \* and with it these jobs, which are about to be killed
    stray,      \* whether the sh of a clean-up goes on that nobody waits for
    session,    \* the shell: "none", "forked" but still in the runner's session,
                \* "up" in its own, or "killed"
    input,      \* datafd: the datagrams on their way to the shell,
    output,     \* and from the shell and its jobs to the runner
    to_job,     \* syncfd: how many datagrams are on their way to the jobs,
    from_job,   \* and to the runner
    to_shell,   \* shellsyncfd: how many datagrams are on their way to the shell,
    from_shell, \* and to the runner
    sync,       \* the rendezvous of the wrapped call: off, sent, delay, done
    prompted,   \* whether the shell has printed its prompt
    argv,       \* the command line that eval works on
    prog        \* the program each process runs, where it is, whether SIGTERM
                \* is pending for it, and how it has ended

runner_vars == <<at, line, exit, cleanup_needed, alarm, folder, printed,
                 listed, doomed, stray>>
data_vars   == <<input, output>>
sync_vars   == <<to_job, from_job, to_shell, from_shell>>
shell_vars  == <<sync, prompted, argv>>
run_vars    == <<vars, trace, calm, runner_vars, session, data_vars, sync_vars,
                 shell_vars, prog>>

NoProgram == [name |-> "", pc |-> "start", term |-> FALSE, how |-> "exit"]

RunInit ==
    /\ Init
    /\ calm \in BOOLEAN
    /\ trace \in IF calm THEN Traces ELSE RoughTraces
    /\ at = "start"
    /\ line = 0
    /\ exit = "none"
    /\ cleanup_needed = FALSE
    /\ alarm = FALSE
    /\ folder \in (IF calm THEN {"absent"} ELSE {"absent", "foreign"})
    /\ printed = <<>>
    /\ listed = FALSE /\ doomed = {}
    /\ stray = FALSE
    /\ session = "none"
    /\ input = <<>>
    /\ output = <<>>
    /\ to_job = 0 /\ from_job = 0 /\ to_shell = 0 /\ from_shell = 0
    /\ sync = "off"
    /\ prompted = FALSE
    /\ argv = EOF
    /\ prog = [p \in Pids |-> NoProgram]

SessionUp == session = "up"

\* A timeout, a user's signal to the runner, a program's own alarm.
Rough == ~ calm

-----------------------------------------------------------------------------
(***************************************************************************)
(* The programs that the traces run.  Each moves only while it is neither  *)
(* stopped nor ended; what outlives the shell stands still.                *)
(***************************************************************************)

Runs(p, name, pc_) ==
    /\ SessionUp
    /\ ShellAlive
    /\ proc[p].st = "running"
    /\ calm => proc[p].sigs \subseteq proc[p].mask
    /\ prog[p].name \in name
    /\ prog[p].pc = pc_

ProgGoto(p, l) == prog' = [prog EXCEPT ![p].pc = l]

\* Mutant: a child ends and its parent is not told.
Exits_silent(p, how) ==
    /\ ShellAlive
    /\ proc' = Ended(p)
    /\ UNCHANGED pending
    /\ EnvUnchanged
    /\ prog' = [prog EXCEPT ![p].how = how]

Exits(p, how) ==
    /\ Terminate(p)
    /\ prog' = [prog EXCEPT ![p].how = how]

\* Program p can only wait for a datagram, for a signal or for the time.
Waiting(p) ==
    \/ prog[p].pc \in {"spin", "sleep"}
    \/ prog[p].pc \in {"recv", "term_recv"} /\ to_job = 0

Settled(p) ==
    \/ proc[p].st \in {"free", "zombie", "stopped"}
    \/ /\ proc[p].st = "running"
       /\ proc[p].sigs = {} /\ ~ (prog[p].term /\ prog[p].pc = "recv")
       /\ Waiting(p)

\* The wrapper's 20 ms have passed.
DelayOver == calm => \A p \in Pids : Settled(p)

\* The seconds that program p sleeps have passed.
SleepOver(p) ==
    calm => /\ At("main", "suspend") /\ pending = {} /\ proc[p].sigs = {}
            /\ \A q \in Pids \ {p} : Settled(q)

\* kill(getppid(), s)
KillShell(s) ==
    IF ShellAlive /\ s \notin pending THEN SendToShell(s) ELSE UNCHANGED vars

\* myspin1 installs its handler of SIGTERM, tells the runner that it is there,
\* and exits when the runner answers.  Only pkill sends SIGTERM.
Spin1Start(p) ==
    /\ Runs(p, {"myspin1"}, "start")
    /\ IF prog[p].term
       THEN Exits(p, "signal")
       ELSE ProgGoto(p, "send") /\ UNCHANGED vars
    /\ UNCHANGED <<output, sync_vars>>

Spin1Send(p) ==
    /\ Runs(p, {"myspin1"}, "send")
    /\ from_job' = from_job + 1
    /\ ProgGoto(p, "recv")
    /\ UNCHANGED <<vars, output, to_job, to_shell, from_shell>>

\* Mutant: the job answers the answer.
Spin1Recv_answers(p) ==
    /\ Runs(p, {"myspin1"}, "recv")
    /\ to_job > 0
    /\ to_job' = to_job - 1
    /\ from_job' = from_job + 1
    /\ ProgGoto(p, "exit")
    /\ UNCHANGED <<vars, output, to_shell, from_shell>>

Spin1Recv(p) ==
    /\ Runs(p, {"myspin1"}, "recv")
    /\ to_job > 0
    /\ to_job' = to_job - 1
    /\ ProgGoto(p, "exit")
    /\ UNCHANGED <<vars, output, from_job, to_shell, from_shell>>

\* sigterm_handler of myspin1 receives first, then sends, then exits.
Spin1Term(p) ==
    /\ \E l \in {"send", "recv", "exit"} : Runs(p, {"myspin1"}, l)
    /\ prog[p].term
    /\ output' = Append(output, <<"Took SIGTERM!">>)
    /\ ProgGoto(p, "term_recv")
    /\ UNCHANGED <<vars, sync_vars>>

Spin1TermRecv(p) ==
    /\ Runs(p, {"myspin1"}, "term_recv")
    /\ to_job > 0
    /\ to_job' = to_job - 1
    /\ ProgGoto(p, "term_send")
    /\ UNCHANGED <<vars, output, from_job, to_shell, from_shell>>

Spin1TermSend(p) ==
    /\ Runs(p, {"myspin1"}, "term_send")
    /\ from_job' = from_job + 1
    /\ ProgGoto(p, "term_exit")
    /\ UNCHANGED <<vars, output, to_job, to_shell, from_shell>>

\* exit(0), with the SIGTERM that came too late for the handler.
ProgExit(p) ==
    /\ \/ Runs(p, {"myspin1"}, "exit") /\ ~ prog[p].term
       \/ Runs(p, {"myspin1"}, "term_exit")
       \/ Runs(p, {"mytstps", "pkill"}, "exit")
       \/ Runs(p, {"sleep"}, "start") /\ SleepOver(p)
    /\ Exits(p, "exit")
    /\ UNCHANGED <<output, sync_vars>>

\* echo prints its argument; mysleepnprint prints after its sleep.
PrintAndExit(p) ==
    /\ \/ Runs(p, {"echo"}, "start")
       \/ Runs(p, {"mysleepnprint"}, "sleep") /\ SleepOver(p)
    /\ output' = Append(output, <<"printed by", prog[p].name>>)
    /\ Exits(p, "exit")
    /\ UNCHANGED sync_vars

\* pkill -s 0 myspin1
PkillAll(p) ==
    /\ Runs(p, {"pkill"}, "start")
    /\ prog' = [q \in Pids |->
                  IF q = p THEN [prog[q] EXCEPT !.pc = "exit"]
                  ELSE [prog[q] EXCEPT !.term =
                          @ \/ (Alive(q) /\ prog[q].name = "myspin1")]]
    /\ UNCHANGED <<vars, output, sync_vars>>

\* myints and mytstps send themselves the signal.
KillSelf(p) ==
    /\ \/ Runs(p, {"myints"}, "start") /\ Exits(p, "signal")
       \/ Runs(p, {"mytstps"}, "start") /\ Stop(p) /\ ProgGoto(p, "exit")
    /\ UNCHANGED <<output, sync_vars>>

\* myintp, mytstpp and mysleepnprint send the signal to the shell, which is to
\* send it back.
KillParent(p) ==
    /\ \/ Runs(p, {"myintp"}, "start") /\ KillShell("INT") /\ ProgGoto(p, "spin")
       \/ Runs(p, {"mytstpp"}, "start") /\ KillShell("TSTP") /\ ProgGoto(p, "spin")
       \/ Runs(p, {"mysleepnprint"}, "start") /\ KillShell("TSTP") /\ ProgGoto(p, "sleep")
    /\ UNCHANGED <<output, sync_vars>>

\* alarm(JOB_TIMEOUT) ends the programs that wait.
JobTimeout(p) ==
    /\ Rough
    /\ \/ Runs(p, {"myintp", "mytstpp"}, "spin")
       \/ \E l \in {"recv", "term_recv"} : Runs(p, {"myspin1"}, l)
    /\ Exits(p, "exit")
    /\ UNCHANGED <<output, sync_vars>>

\* A child that starts, and the signals of the shell that reach it.
ChildMoves(p) ==
    /\ SessionUp
    /\ \/ (ChildSetup(p) \/ ChildExec(p)) /\ UNCHANGED prog
       \/ \E s \in {"INT", "TSTP"} :
             /\ TakeSignal(p, s)
             /\ prog' = [prog EXCEPT ![p].how = IF s = "INT" THEN "signal" ELSE @]
    /\ UNCHANGED <<output, sync_vars>>

Program(p) ==
    /\ \/ Spin1Start(p) \/ Spin1Send(p) \/ Spin1Recv(p)
       \/ Spin1Term(p) \/ Spin1TermRecv(p) \/ Spin1TermSend(p)
       \/ ProgExit(p) \/ PrintAndExit(p) \/ PkillAll(p)
       \/ KillSelf(p) \/ KillParent(p) \/ JobTimeout(p) \/ ChildMoves(p)
    /\ UNCHANGED <<trace, calm, runner_vars, session, input, shell_vars>>

-----------------------------------------------------------------------------
(***************************************************************************)
(* The shell: the steps of Tsh, with what they read, print and wait for.   *)
(***************************************************************************)

Show(messages) == output' = output \o messages

\* find_jid_by_pid
JidOf(p) ==
    LET jobp == find_job_with_pid(p) IN IF jobp = NULL THEN 0 ELSE job_list[jobp].jid

\* list_jobs prints every job with its state.
JobsShown == {<<job_list[i].jid, job_list[i].state>> : i \in {j \in Slots : job_list[j].pid # NoPid}}

EmitPrompt ==
    /\ SessionUp
    /\ At("main", "prompt")
    /\ ~ prompted
    /\ prompted' = TRUE
    /\ Show(<<PROMPT>>)
    /\ UNCHANGED <<vars, input, sync_vars, sync, argv, prog>>

\* fgets, and the command it reads: the end of the input prints a newline.
ReadLine ==
    /\ SessionUp
    /\ prompted
    /\ input # <<>>
    /\ LET d == Head(input)
       IN  /\ \/ d.cmd \in {"FG", "BG"} /\ ReadProgram
              \/ d.cmd = "jobs" /\ ReadJobs
              \/ d.cmd \in {"bg", "fg"} /\ ReadBgFg
              \/ d.cmd \in {"quit", "eof"} /\ Quit
           /\ d.cmd \in {"FG", "BG", "bg", "fg"} => cmd' = d.cmd
           /\ argv' = d
           /\ Show(IF d.cmd = "eof" THEN <<<<"newline">>>> ELSE <<>>)
    /\ input' = Tail(input)
    /\ prompted' = FALSE
    /\ UNCHANGED <<sync_vars, sync, prog>>

RunProgram ==
    /\ SessionUp
    /\ Fork
    /\ prog' = [prog EXCEPT ![pid'["main"]] = [NoProgram EXCEPT !.name = argv.prog]]
    /\ UNCHANGED <<data_vars, sync_vars, shell_vars>>

\* The wrapped call that the trace asks the shell to stop at.  waitpid returns
\* with a child before it stops.
AtSync ==
    \/ trace.shellsync = "kill" /\ pc[running] = "kill"
    \/ trace.shellsync = "waitpid" /\ running = "CHLD" /\ pc["CHLD"] \in {"delete", "stop"}
    \/ trace.shellsync = "get_pid_of_job" /\ At("main", "lookup") /\ argv.jid # 0

\* shellsync_signal
ShellsyncSignal ==
    /\ SessionUp /\ ShellAlive
    /\ AtSync /\ sync = "off"
    /\ from_shell' = from_shell + 1
    /\ sync' = "sent"
    /\ UNCHANGED <<vars, data_vars, to_job, from_job, to_shell, prompted, argv, prog>>

\* Mutant: the wrapper goes on when the datagram is there, and leaves it there.
ShellsyncWait_peeks ==
    /\ SessionUp /\ ShellAlive
    /\ sync = "sent"
    /\ to_shell > 0
    /\ sync' = "delay"
    /\ UNCHANGED <<vars, data_vars, sync_vars, prompted, argv, prog>>

\* shellsync_wait: recv,
ShellsyncWait ==
    /\ SessionUp /\ ShellAlive
    /\ sync = "sent"
    /\ to_shell > 0
    /\ to_shell' = to_shell - 1
    /\ sync' = "delay"
    /\ UNCHANGED <<vars, data_vars, to_job, from_job, from_shell, prompted, argv, prog>>

\* Mutant: the wrapper of kill calls kill, that is itself, and not __real_kill.
ShellsyncDelay_again ==
    /\ SessionUp /\ ShellAlive
    /\ sync = "delay"
    /\ DelayOver
    /\ sync' = "off"
    /\ UNCHANGED <<vars, data_vars, sync_vars, prompted, argv, prog>>

\* and UDELAY(20000).
ShellsyncDelay ==
    /\ SessionUp /\ ShellAlive
    /\ sync = "delay"
    /\ DelayOver
    /\ sync' = "done"
    /\ UNCHANGED <<vars, data_vars, sync_vars, prompted, argv, prog>>

\* The steps that print nothing and call nothing that is wrapped.
ShellSilent ==
    /\ SessionUp
    /\ \/ CheckForeground \/ EvalReturn \/ Wait \/ WaitNone
       \/ LookupPid /\ argv.jid = 0 /\ pid'["main"] = argv.pid
       \/ \E h \in Handlers :
             \/ HandlerBlock(h) \/ HandlerUnblock(h) \/ HandlerReturn(h)
             \/ h # "CHLD" /\ FindForeground(h)
    /\ UNCHANGED <<data_vars, sync_vars, shell_vars, prog>>

ShellDelivers ==
    /\ SessionUp
    /\ \E h \in Handlers : Deliver(h)
    /\ UNCHANGED <<data_vars, sync_vars, shell_vars, prog>>

\* The steps that print, or that a rendezvous may precede.
ShellSpeaks ==
    /\ SessionUp
    /\ AtSync => sync = "done"
    /\ \/ /\ \/ ContinueJob
             \/ LookupJid /\ built_in_job' = find_job_with_jid(argv.jid) /\ argv.jid # 0
             \/ \E h \in {"INT", "TSTP"} : Forward(h)
          /\ UNCHANGED output
       \/ /\ AddJob
          /\ Show(IF cmd = "BG" THEN <<<<"launched", JidOf(pid["main"])'>>>> ELSE <<>>)
       \/ /\ ListJobs
          /\ Show(<<<<"jobs", JobsShown>>>>)
       \/ /\ SetState
          /\ Show(IF cmd = "bg" THEN <<<<"resumed", JidOf(pid["main"])>>>> ELSE <<>>)
       \/ /\ DeleteJob
          /\ Show(IF prog[pid["CHLD"]].how = "signal"
                  THEN <<<<"terminated", JidOf(pid["CHLD"])>>>> ELSE <<>>)
       \/ /\ StopJob
          /\ Show(<<<<"stopped", JidOf(pid["CHLD"])>>>>)
    /\ sync' = "off"
    /\ UNCHANGED <<input, sync_vars, prompted, argv, prog>>

ShellMoves ==
    \/ EmitPrompt \/ ReadLine \/ RunProgram
    \/ ShellsyncSignal \/ ShellsyncWait \/ ShellsyncDelay
    \/ ShellSilent \/ ShellSpeaks

\* The child of fork leaves the runner's session for one of its own.
Setsid ==
    /\ session = "forked"
    /\ session' = "up"
    /\ UNCHANGED <<vars, data_vars, sync_vars, shell_vars, prog>>

Shell ==
    /\ \/ Setsid
       \/ /\ \/ ShellDelivers
             \/ (calm => pending \subseteq mask) /\ ShellMoves
          /\ UNCHANGED session
    /\ UNCHANGED <<trace, calm, runner_vars>>

-----------------------------------------------------------------------------
(***************************************************************************)
(* The runner.                                                             *)
(***************************************************************************)

\* Mutant: the signals are unblocked before cleanup_needed is set.
Masked_short == at \in {"mkdir", "fork", "unmask", "status", "clean", "kill"}

\* Where every signal is blocked, by main or by a handler that cleans up.
Masked == at \in {"mkdir", "fork", "arm", "unmask", "status", "clean", "kill"}

\* main goes on, and leaves alone what only some of its steps change.
RunnerGoto(l) ==
    /\ at' = l
    /\ UNCHANGED <<trace, calm, listed, doomed, stray, shell_vars, prog>>

JustGoes(l) ==
    /\ RunnerGoto(l)
    /\ UNCHANGED <<vars, line, exit, cleanup_needed, alarm, folder, printed, session,
                   data_vars, sync_vars>>

Blocks ==
    /\ at = "start"
    /\ JustGoes("mkdir")

\* Mutant: mkdir may fail because the directory exists.
Mkdir_any ==
    /\ at = "mkdir"
    /\ folder' = "own"
    /\ RunnerGoto("fork")
    /\ UNCHANGED <<vars, line, exit, cleanup_needed, alarm, printed, session, data_vars, sync_vars>>

\* A directory that exists already is not the runner's to destroy.
Mkdir ==
    /\ at = "mkdir"
    /\ IF folder = "foreign"
       THEN /\ RunnerGoto("over")
            /\ exit' = "1"
            /\ UNCHANGED folder
       ELSE /\ RunnerGoto("fork")
            /\ folder' = "own"
            /\ UNCHANGED exit
    /\ UNCHANGED <<vars, line, cleanup_needed, alarm, printed, session, data_vars, sync_vars>>

\* The child is not in a session of its own yet.  Nobody looks at the result of
\* fork.
ForkShell ==
    /\ at = "fork"
    /\ session' \in {"forked"} \union (IF Rough THEN {"none"} ELSE {})
    /\ RunnerGoto("arm")
    /\ UNCHANGED <<vars, line, exit, cleanup_needed, alarm, folder, printed, data_vars, sync_vars>>

Arm ==
    /\ at = "arm"
    /\ cleanup_needed' = TRUE
    /\ RunnerGoto("unmask")
    /\ UNCHANGED <<vars, line, exit, alarm, folder, printed, session, data_vars, sync_vars>>

Unmask ==
    /\ at = "unmask"
    /\ JustGoes("prompt")

\* The initial prompt.
FirstPrompt ==
    /\ at = "prompt"
    /\ output # <<>>
    /\ output' = Tail(output)
    /\ IF Head(output) = PROMPT
       THEN RunnerGoto("script") /\ line' = 1 /\ UNCHANGED exit
       ELSE RunnerGoto("status") /\ exit' = "1" /\ UNCHANGED line
    /\ UNCHANGED <<vars, cleanup_needed, alarm, folder, printed, session, input, sync_vars>>

\* The line of the trace that is executed has the operation op.
LinesLeft == line <= Len(trace.lines)

Reads(op) == at = "script" /\ LinesLeft /\ trace.lines[line].op = op

LineDone ==
    /\ line' = line + 1
    /\ RunnerGoto("script")
    /\ UNCHANGED <<exit, cleanup_needed, alarm, folder, printed, session>>

\* exit(1) where atexit_clean is still to run.
Fails ==
    /\ exit' = "1"
    /\ RunnerGoto("atexit")
    /\ UNCHANGED <<line, cleanup_needed, alarm, folder, printed, session>>

\* Some process holds the other end of the sockets.
PeerThere == SessionUp /\ (ShellAlive \/ \E p \in Pids : Alive(p))

\* Mutant: WAIT does not look whether the job has sent something.
WAIT_blind ==
    /\ Reads("WAIT")
    /\ from_job' = from_job - 1
    /\ LineDone
    /\ UNCHANGED <<vars, data_vars, to_job, to_shell, from_shell>>

WAIT ==
    /\ Reads("WAIT")
    /\ from_job > 0
    /\ from_job' = from_job - 1
    /\ LineDone
    /\ UNCHANGED <<vars, data_vars, to_job, to_shell, from_shell>>

\* The runner itself keeps the other end of these two sockets open, so that
\* send succeeds.
SIGNAL ==
    /\ Reads("SIGNAL")
    /\ to_job' = to_job + 1
    /\ LineDone
    /\ UNCHANGED <<vars, data_vars, from_job, to_shell, from_shell>>

SHELLWAIT ==
    /\ Reads("SHELLWAIT")
    /\ from_shell > 0
    /\ from_shell' = from_shell - 1
    /\ LineDone
    /\ UNCHANGED <<vars, data_vars, from_job, to_job, to_shell>>

SHELLSIGNAL ==
    /\ Reads("SHELLSIGNAL")
    /\ to_shell' = to_shell + 1
    /\ LineDone
    /\ UNCHANGED <<vars, data_vars, from_job, to_job, from_shell>>

\* kill(child_pid, SIGINT) and kill(child_pid, SIGTSTP)
KILL ==
    /\ \/ Reads("SIGINT") /\ KillShell("INT")
       \/ Reads("SIGTSTP") /\ KillShell("TSTP")
    /\ LineDone
    /\ UNCHANGED <<data_vars, sync_vars>>

\* A command line for the shell.
SendLine ==
    /\ Reads("line")
    /\ IF PeerThere
       THEN /\ LET l == trace.lines[line]
               IN  input' = Append(input, Message(l.cmd, l.prog, l.jid, NoPid))
            /\ LineDone
       ELSE Fails /\ UNCHANGED input
    /\ UNCHANGED <<vars, output, sync_vars>>

\* PID: pgrep looks in the session for the program, then its pid is sent.
PID ==
    /\ Reads("PID")
    /\ LET l == trace.lines[line]
           found == {p \in Pids : /\ SessionUp
                                  /\ proc[p].st \in {"running", "stopped"}
                                  /\ prog[p].name = l.prog}
       IN  IF found # {}
           THEN \E p \in found :
                    input' = Append(input, Message(l.cmd, l.prog, 0, p)) /\ LineDone
           ELSE Fails /\ UNCHANGED input
    /\ UNCHANGED <<vars, output, sync_vars>>

\* next_prompt
NEXT ==
    /\ Reads("NEXT")
    /\ JustGoes("next")

\* next_prompt lets a shell that stops at its rendezvous go on.
AnswerSync ==
    /\ at = "next"
    /\ trace.shellsync # "none"
    /\ from_shell > 0
    /\ from_shell' = from_shell - 1
    /\ to_shell' = to_shell + 1
    /\ RunnerGoto("next")
    /\ UNCHANGED <<vars, line, exit, cleanup_needed, alarm, folder, printed, session,
                   data_vars, to_job, from_job>>

\* Mutant: next_prompt returns with the first output.
TakeOutput_any ==
    /\ at = "next"
    /\ output # <<>>
    /\ output' = Tail(output)
    /\ LineDone
    /\ UNCHANGED <<vars, input, sync_vars>>

\* next_prompt prints what is not the prompt.
TakeOutput ==
    /\ at = "next"
    /\ output # <<>>
    /\ output' = Tail(output)
    /\ IF Head(output) = PROMPT
       THEN LineDone
       ELSE /\ printed' = Append(printed, Head(output))
            /\ RunnerGoto("next")
            /\ UNCHANGED <<line, exit, cleanup_needed, alarm, folder, session>>
    /\ UNCHANGED <<vars, input, sync_vars>>

\* Mutant: next_prompt waits without a limit.
Timeout_not_next ==
    /\ Rough
    /\ \/ at = "prompt" /\ output = <<>>
       \/ Reads("WAIT") /\ from_job = 0
       \/ Reads("SHELLWAIT") /\ from_shell = 0
    /\ exit' = "1"
    /\ RunnerGoto("status")
    /\ UNCHANGED <<vars, line, cleanup_needed, alarm, folder, printed, session, data_vars, sync_vars>>

\* Mutant: a missing datagram ends the runner as a missing prompt does.
Timeout_zero ==
    /\ Rough
    /\ \/ at = "prompt" /\ output = <<>>
       \/ Reads("WAIT") /\ from_job = 0
       \/ Reads("SHELLWAIT") /\ from_shell = 0
       \/ at = "next" /\ output = <<>>
    /\ exit' = "0"
    /\ RunnerGoto("status")
    /\ UNCHANGED <<vars, line, cleanup_needed, alarm, folder, printed, session, data_vars, sync_vars>>

\* A select gives up.  When it is that of next_prompt the status is 0.
Timeout ==
    /\ Rough
    /\ \/ at = "prompt" /\ output = <<>> /\ exit' = "1"
       \/ Reads("WAIT") /\ from_job = 0 /\ exit' = "1"
       \/ Reads("SHELLWAIT") /\ from_shell = 0 /\ exit' = "1"
       \/ at = "next" /\ output = <<>> /\ exit' = "0"
    /\ RunnerGoto("status")
    /\ UNCHANGED <<vars, line, cleanup_needed, alarm, folder, printed, session, data_vars, sync_vars>>

\* After the last line: the end of the input, alarm, and waitpid.
EndOfTrace ==
    /\ at = "script"
    /\ ~ LinesLeft
    /\ input' = IF PeerThere THEN Append(input, EOF) ELSE input
    /\ alarm' = TRUE
    /\ RunnerGoto("reap")
    /\ UNCHANGED <<vars, line, exit, cleanup_needed, folder, printed, session, output, sync_vars>>

\* Mutant: the output is flushed while the shell runs.
ShellReaped_early ==
    /\ at = "reap"
    /\ JustGoes("flush")

ShellReaped ==
    /\ at = "reap"
    /\ ~ ShellAlive
    /\ JustGoes("flush")

\* flush_output, after waitpid or from print_child_status; a prompt that
\* nobody waited for is not told from other output.
flush_output ==
    /\ at \in {"flush", "status"}
    /\ IF output # <<>>
       THEN /\ printed' = Append(printed, Head(output))
            /\ output' = Tail(output)
            /\ RunnerGoto(at)
       ELSE RunnerGoto("clean") /\ UNCHANGED <<printed, output>>
    /\ UNCHANGED <<vars, line, exit, cleanup_needed, alarm, folder, session, input, sync_vars>>

\* clean runs a sh and waits for it.  Its /bin/ps lists the processes of the
\* shell's session: none as long as the shell has not made it.
ListProcesses ==
    /\ \/ at = "clean" /\ at' = "kill"
       \/ at = "exit_clean" /\ at' = "exit_kill"
    /\ listed' = (session # "forked" /\ session # "none")
    /\ doomed' = {p \in Pids : Alive(p)}
    /\ UNCHANGED <<vars, trace, calm, line, exit, cleanup_needed, alarm, folder, printed,
                   stray, session, data_vars, sync_vars, shell_vars, prog>>

\* What was listed is killed, with the shell, and the directory is removed.  A
\* process that the shell has forked in the meantime is not among them.  Only a
\* run that is complete goes on, and unblocks the signals.
KillProcesses ==
    /\ at \in {"kill", "exit_kill"}
    /\ session' = IF listed THEN "killed" ELSE session
    /\ folder' = "absent"
    /\ cleanup_needed' = FALSE
    /\ RunnerGoto(IF exit = "none" THEN "finish" ELSE "over")
    /\ UNCHANGED <<vars, line, exit, alarm, printed, data_vars, sync_vars>>

\* The sh of a clean-up that a handler has interrupted does its work as well, at
\* any time.  Only exit is interrupted while it cleans up, when the trace has
\* begun and the shell has its session.
CleansUnwatched ==
    /\ stray
    /\ stray' = FALSE
    /\ session' = IF SessionUp THEN "killed" ELSE session
    /\ folder' = "absent"
    /\ UNCHANGED <<vars, trace, calm, at, line, exit, cleanup_needed, alarm, printed,
                   listed, doomed, data_vars, sync_vars, shell_vars, prog>>

Finish ==
    /\ at = "finish"
    /\ exit' = "0"
    /\ RunnerGoto("over")
    /\ UNCHANGED <<vars, line, cleanup_needed, alarm, folder, printed, session, data_vars, sync_vars>>

\* atexit_clean does not block the signals: a handler may run before, during and
\* after its clean-up, and does it once more as long as cleanup_needed is set.
AtExit ==
    /\ at = "atexit"
    /\ JustGoes(IF cleanup_needed THEN "exit_clean" ELSE "over")

\* sigalrm_handler, and graceful_cleanup_sig_handler for SIGINT, SIGQUIT,
\* SIGTERM and SIGHUP, block every signal, clean up if it is needed, and end the
\* runner.  A signal that comes while they are blocked waits.
DiesCleanly(how) ==
    /\ Rough
    /\ ~ Masked /\ at # "over"
    /\ exit' = how
    /\ stray' \in {stray, stray \/ at \in {"exit_clean", "exit_kill"}}
    /\ at' = IF cleanup_needed THEN "clean" ELSE "over"
    /\ UNCHANGED <<vars, trace, calm, line, cleanup_needed, alarm, folder, printed, listed,
                   doomed, session, data_vars, sync_vars, shell_vars, prog>>

sigalrm_handler == alarm /\ DiesCleanly("1")

graceful_cleanup_sig_handler == DiesCleanly("signal")

Runner ==
    \/ Blocks \/ Mkdir \/ ForkShell \/ Arm \/ Unmask \/ FirstPrompt
    \/ WAIT \/ SIGNAL \/ SHELLWAIT \/ SHELLSIGNAL \/ KILL \/ SendLine \/ PID
    \/ NEXT \/ AnswerSync \/ TakeOutput \/ Timeout
    \/ EndOfTrace \/ ShellReaped \/ flush_output
    \/ ListProcesses \/ KillProcesses \/ Finish \/ AtExit
    \/ sigalrm_handler

RunOver == at = "over" /\ UNCHANGED run_vars

RunNext ==
    \/ \E p \in Pids : Program(p)
    \/ Shell
    \/ Runner \/ graceful_cleanup_sig_handler
    \/ CleansUnwatched
    \/ RunOver

RunSpec == RunInit /\ [][RunNext]_run_vars

\* The three kinds of processes run, and the runner's timeouts fire; nobody
\* has to send the runner a signal.
RunFairness ==
    /\ WF_run_vars(Shell)
    /\ WF_run_vars(Runner)
    /\ \A p \in Pids : WF_run_vars(Program(p))

RunFairSpec == RunSpec /\ RunFairness

-----------------------------------------------------------------------------
(***************************************************************************)
(* Properties.                                                             *)
(***************************************************************************)

\* The whole trace was run: next_prompt that gives up ends with status 0, too.
Complete == at = "over" /\ exit = "0" /\ ~ LinesLeft

\* Every variable of the runner, of the sockets, of the wrappers and of the
\* programs has its type: the runner stays inside its trace, what is on its way
\* to the shell is a command and what is on its way back a prompt or a text, and
\* no handshake is taken that was not sent (runtrace.c:401-566, wrapper.c:62-80).
RunTypeOK ==
    /\ TypeOK
    /\ trace \in Traces \union RoughTraces
    /\ calm \in BOOLEAN
    /\ at \in {"start", "mkdir", "fork", "arm", "unmask", "prompt", "script", "next",
              "reap", "flush", "status", "clean", "kill", "finish", "atexit",
              "exit_clean", "exit_kill", "over"}
    /\ line \in 0..Len(trace.lines) + 1
    /\ exit \in {"none", "0", "1", "signal"}
    /\ cleanup_needed \in BOOLEAN /\ alarm \in BOOLEAN /\ prompted \in BOOLEAN
    /\ folder \in {"absent", "foreign", "own"}
    /\ session \in {"none", "forked", "up", "killed"}
    /\ listed \in BOOLEAN /\ doomed \subseteq Pids /\ stray \in BOOLEAN
    /\ input \in Seq(Messages) /\ argv \in Messages
    /\ output \in Seq(Texts) /\ printed \in Seq(Texts)
    /\ to_job \in Nat /\ from_job \in Nat /\ to_shell \in Nat /\ from_shell \in Nat
    /\ sync \in {"off", "sent", "delay", "done"}
    /\ prog \in [Pids -> [name : Programs,
                         pc : {"start", "send", "recv", "exit", "term_recv", "term_send",
                               "term_exit", "spin", "sleep"},
                         term : BOOLEAN, how : {"exit", "signal"}]]

\* Whatever the runner, the shell, its handlers and its jobs do in between, a
\* trace of the repository that runs to its end in time has printed what its
\* comments announce, in that order (trace08 to trace29).
OutputMatches == calm /\ Complete => printed = trace.shows

\* Each sync of a job or of the shell is taken by the line of the trace, or by
\* the wait for a prompt, that it is meant for: none is left when the trace is
\* over.
HandshakesPair == calm /\ Complete => from_job = 0 /\ from_shell = 0 /\ to_shell = 0

\* How many lines with the operation op the runner has done.
DoneIn(t, l, op) == Cardinality({i \in 1..l - 1 : t.lines[i].op = op})

Done(op) == DoneIn(trace, line, op)

\* No rendezvous is lost or answered twice, whatever the trace, the signals and
\* the timeouts: what is left on shellsyncfd when a trace was run to its end is
\* exactly what the trace itself does not pair, also when next_prompt has
\* answered for it (wrapper.c:62-80, runtrace.c:736).
RendezvousBalance ==
    Complete => from_shell + to_shell + Done("SHELLWAIT") = Done("SHELLSIGNAL")

\* The runner and the shell keep step, whatever the trace: when there was a NEXT
\* for every command line, the prompt that the last one saw is not that of an
\* earlier command.  The shell has read all it was sent and waits for more, with
\* no job in the foreground.
NextMeansPrompt ==
    at = "script" /\ Done("NEXT") = Done("line") + Done("PID") =>
        prompted /\ input = <<>> /\ pc["main"] = "prompt" /\ ForegroundSlots = {}

\* Status 0, which the driver takes for a run, has two meanings and no third one:
\* the trace was done and the shell has ended, or, when delays were too short, a
\* NEXT saw no prompt (runtrace.c:461).
ZeroStatus ==
    at = "over" /\ exit = "0" =>
        \/ ~ LinesLeft /\ ~ ShellAlive
        \/ Rough /\ line # 0 /\ LinesLeft /\ trace.lines[line].op = "NEXT"

\* On every way out (the end, an error, a timeout, a signal in the middle of
\* any of these) the runner's own directory is removed, and a shell whose first
\* prompt the runner has seen is killed with the jobs that clean has found.  When
\* the trace was run to its end no job survives (runtrace.c:577 "Kill any of our
\* stray shells and jobs"); else the shell may fork one more between ps and kill.
\* A runner that ends before the first prompt may leave its shell: ps, asked for
\* the session of a child that has yet to call setsid, lists nothing.  That shell
\* has been sent nothing, and has no job.
CleanedOnExit ==
    at = "over" =>
        /\ folder # "own"
        /\ session \in {"forked", "up"} =>
              /\ line = 0 /\ input = <<>>
              /\ \A p \in Pids : proc[p].st = "free"
        /\ Complete => \A p \in Pids : Alive(p) => p \in doomed

\* A directory runtrace.tmp that the runner did not make is left alone.
ForeignFolderKept == [][folder = "foreign" => folder' = "foreign"]_run_vars

\* Seen from the shell, the runner and the programs are one of the environments
\* that module Tsh allows: what holds of Tsh holds of the shell under test.
RunsTheShell == Spec

\* Neither the two-way handshakes nor the rendezvous deadlock: when the delays
\* are long enough, every trace of the repository comes to its end.
TracesComplete == calm ~> Complete

\* The runner ends whatever the shell and its jobs do.
EveryTraceEnds == <>(at = "over")

=============================================================================
