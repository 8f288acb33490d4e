# A verification project for tsh, the tiny shell

`src/` holds a job-control shell (`tsh.c`, `tsh_helper.c`), the wrappers that
provoke races in it (`wrapper.c`), a runner of trace files (`runtrace.c`), a
driver that scores the shell (`sdriver.c`), a signal-safe printf
(`sio_printf.c`), a library of system call wrappers (`csapp.c`) and small
programs to run as jobs. This directory holds TLA+ models of them, TLC
configurations that check the models, and TLAPS proofs about them.

    tlc -workers 2 -config Tsh.cfg MCTsh.tla      # one run
    tlapm TshProofs.tla                           # one proof module

`PROJECT.json` lists the runs, the theorems, the source lines behind each
definition, the hazards of the code, and for every checked property a mutant of
the model that breaks it.

## Inventory

| Component | State | Operations | Interacts with | Correct when |
|---|---|---|---|---|
| Job list (`tsh_helper.c`) | `job_list[MAXJOBS]`, `nextjid` | `init_job_list`, `add_job`, `delete_job`, `set_state_of_job`, searches, `list_jobs` | called by `eval` and by the handlers, without a lock: the signal mask is the lock | slots are coherent, processes and job IDs unique, at most one job in front, states change along the diagram of `tsh_helper.h` |
| Read/eval loop (`tsh.c`: `main`, `eval`) | program counter, `pid`, `temp`, `built_in_job` | launch FG/BG, `jobs`, `bg`, `fg`, `quit`, end of input | forks children, signals groups, sleeps in `sigsuspend` until the handlers change the list | it waits for the foreground job and for nothing else, and restores the mask on every path |
| Signal handlers (`tsh.c`) | one frame per handler, the kernel's mask and pending signals | `sigchld_handler`, `sigint_handler`, `sigtstp_handler`, `sigquit_handler` | interrupt `eval` and one another between any two steps; reap children, forward signals | no event is lost, no signal goes to a stranger, the list is never touched unblocked |
| Children and kernel (external) | state, group, signals and mask of each process | fork, setpgid, execve, exit, stop, continue, signal delivery | SIGCHLD to the shell, `waitpid`, `kill(-pid)` | assumed |
| Parser (`parseline`) | position, parsing state, `argv`, `infile`, `outfile` | one turn of its loop per token | fills the token that `eval` executes | the tokens it accepts are what the line is made of |
| Redirection (`eval` 166-179) | descriptors 0 and 1 of the shell, its open files, the buffer of `stdin` | `open`, `dup2` | precedes everything in `eval`; the children inherit the files | it should affect one command, and affects all later ones |
| Wrappers (`wrapper.c`) | `shellsync` flags and socket | delays; rendezvous in `kill`, `waitpid`, `get_pid_of_job`; mask check in `execve` | `runtrace.c` through a socket | the rendezvous neither deadlocks nor changes the shell |
| Trace runner (`runtrace.c`) | three socket pairs, `cleanup_needed`, the alarm, the folder `runtrace.tmp` | command lines and the directives `NEXT`, `WAIT`, `SIGNAL`, `SHELLWAIT`, `SHELLSIGNAL`, `SIGINT`, `SIGTSTP`, `PID` | the shell under test and its jobs | every trace ends (each wait is a `select` with a timeout, the last one has an alarm), and on every way out the folder is removed and the session killed, as far as `ps` finds it |
| Driver (`sdriver.c`) | options, the two loop counters, `correct`, the score, six temporary files | run each trace on both shells, filter, compare, score | runs `runtrace`, `perl`, `sort`, `diff` and `rm` through `system` | the score counts the traces that agree |
| `sio_printf.c` | format position, text to write | a format interpreter, one write per stretch | used by the shell, its handlers, the wrappers and the runner | prints what printf prints |
| `csapp.c` | none | wrappers of system calls | `Signal` decides what the handlers block; `rio_writen` repeats short writes | vendored; only these two matter here |
| Test programs | program counter of each | spin, stop, die, echo, the handshake of `myspin1` | are the jobs; send signals to the shell and datagrams to the runner | any end or stop at any time |

The hard part is in the first three lines: one thread that four signals may
interrupt between any two instructions, handlers that interrupt handlers, a
kernel that coalesces SIGCHLD, and children that end, stop and continue on their
own. Next comes the runner, three kinds of processes that wait for one another
over sockets under timeouts. `PROJECT.json` lists the hazards at their source
lines with the properties that watch them.

## Modules

    JobTable            abstract: a table from process IDs to FG, BG, ST
       ^ implements (ImplementsTable)
    JobList             the array of slots, nextjid and the helpers
       ^ extends, and calls the helpers; implements (ListSpec)
    Tsh                 eval, the handlers, signal masks, children
       ^ extends, and takes its steps; implements (RunsTheShell)
    Runtrace            the runner, the wrappers, the programs, the sockets

    Parseline           parseline, a token per step
       ^ extends
    Redirect            where the lines of the shell come from

    SioPrintf           sio_vfprintf and rio_writen
    Sdriver             the driver

    MCJobList, MCTsh    symmetry for TLC
    MCRuntrace, MCRedirect, MCSioPrintf, MCSdriver
                        the traces, lines, formats and options for TLC
    JobListProofs, TshProofs, TshMaskProofs, TshTrackProofs, RuntraceProofs,
    RedirectProofs, SioPrintfProofs, SdriverProofs

The operators whose names end in a lower-case word after an underscore and whose
comment begins with "Mutant" are faulty versions of the definition that follows
them; nothing uses them but the mutants of `PROJECT.json`.

### The shell

**JobTable** says what the rest of the shell may rely on: a process starts to be
tracked (only with no job in front and with room left), is forgotten, or changes
its state along an edge of the diagram at the head of `tsh_helper.h`. The code
has one edge more than the comment, BG to ST: a background job that stops.

**JobList** translates each helper of `tsh_helper.c` under its own name; a
pointer is the index of a slot and `NULL` is 0. `ListSpec` is the contract of
the callers: `Launch` (an unlisted process, no job in front), `delete_job` at any
time, and `ChangeState` (to FG or BG only with no job in front). `JidBound` is the
bound of the model on `nextjid`. The text of the command line is left out.

**Tsh** has three program counters too many for a sequential program: `pc[c]` for
main and for each handler, because a handler interrupts `main`, or another
handler, wherever its signal is unblocked. `running` is the context on top,
`caller[h]` the one that `h` interrupted, `oldmask[h]` the mask the kernel puts
back when `h` returns, `temp[c]` the mask each context saved itself.

| Code | Action |
|---|---|
| reading a line, `sigprocmask(SIG_BLOCK)` in `eval` | `ReadProgram`, `ReadJobs`, `ReadBgFg` |
| `quit`, end of input | `Quit` |
| `fork` in the parent; its failure | `Fork`; `ForkFails` |
| `add_job` | `AddJob` |
| `while (fg_pid() != 0) sigsuspend(...)` | `CheckForeground`; the label `suspend` is the sleep |
| `list_jobs` | `ListJobs` |
| the job named by `bg`, `fg`; `kill(-pid, SIGCONT)`; `set_state_of_job` | `LookupJid`, `LookupPid`; `ContinueJob`; `SetState` |
| `sigprocmask(SIG_SETMASK, &temp)` and return | `EvalReturn` |
| the kernel enters a handler; SIGQUIT | `Deliver(h)`; `DeliverQuit` |
| the prologue, epilogue and return of a handler | `HandlerBlock`, `HandlerUnblock`, `HandlerReturn` |
| the loop of `sigchld_handler` | `Wait`, `WaitNone`, `DeleteJob`, `StopJob` |
| `fg_pid` and `kill` in the other two handlers | `FindForeground`, `Forward` |
| the child before `execve`, and `execve` | `ChildSetup`, `ChildExec` |
| programs and users | `TakeSignal`, `Terminate`, `Stop`, `ContinueByOthers`, `SendToShell` |

Each action is one step between two points where a signal can make a difference.
Inside a helper of the list no step is cut, which `ListAccessGuarded` justifies:
no handler runs while a helper does. `proc_mask` in the handlers is never
initialised in the code; `HandlerBlock` takes any extra signals for it.

Children follow POSIX as the code uses it: a child is `forked` with the mask of
its parent, joins its own group (`grouped`), runs, stops, ends as a zombie and is
`free` once reaped, when its process ID may be used again. SIGCHLD is sent on
end, stop and continue (`Signal` does not set SA_NOCLDSTOP) and is a single
pending bit. `kill(-p, s)` reaches nobody before the group exists. A child whose
`execve` failed goes on as a second shell (`subshell`).

`Faults` switches on what the environment can do wrong: `fork` and `execve` fail,
users name jobs that do not exist (`badjob`), others send SIGCONT (`cont`).

### The runner, the wrappers and the programs

**Runtrace** is a composition of three kinds of processes: `Runner`, `Shell` and one
`Program(p)` per job. A step of the shell is a step of `Tsh` with what it reads,
prints or waits for: `ShellSilent` neither prints nor calls anything wrapped,
`ShellSpeaks` does. The programs and the runner are, for `Tsh`, users and children;
that is the property `RunsTheShell`, and with it whatever is true of `Tsh` is true
of the shell under test. A trace is a record of its `SHELLSYNC`, its lines and what
its comments say will be printed.

| Code | Action |
|---|---|
| `main` up to the first prompt (blocking, `mkdir`, `fork`, `cleanup_needed = 1`, unblocking) | `Blocks`, `Mkdir`, `ForkShell`, `Arm`, `Unmask`, `FirstPrompt` |
| the child up to `setsid`, and from there to `execve` | `session` is `"forked"`; `Setsid` makes it `"up"` |
| a command line; each directive | `SendLine`; `WAIT`, `SIGNAL`, `SHELLWAIT`, `SHELLSIGNAL`, `KILL` (`SIGINT`, `SIGTSTP`), `PID`, `NEXT` |
| `next_prompt` | `AnswerSync` (it answers a shell sync itself), `TakeOutput`, `Timeout` |
| the end: EOF to the shell, `alarm`, `waitpid`, `flush_output` | `EndOfTrace`, `ShellReaped`, `flush_output` |
| `clean`, in its two commands `ps` and `kill` (with `rm`) | `ListProcesses`, `KillProcesses`, at the labels `clean`, `kill` with every signal blocked (`Masked`), at `exit_clean`, `exit_kill` with none |
| the `sh` of a `clean` that a handler has interrupted | `CleansUnwatched` |
| `exit`, `atexit_clean` (which blocks nothing), the handlers | `Finish`, `AtExit`, `sigalrm_handler`, `graceful_cleanup_sig_handler` |
| prompt, `fgets`, fork in the shell | `EmitPrompt`, `ReadLine`, `RunProgram` |
| the wrappers of `kill`, `waitpid`, `get_pid_of_job` | `AtSync` (where they stop), `ShellsyncSignal`, `ShellsyncWait`, `ShellsyncDelay` (the 20 ms) |
| `myspin1` and its SIGTERM handler | `Spin1Start`, `Spin1Send`, `Spin1Recv`, `Spin1Term`, `Spin1TermRecv`, `Spin1TermSend` |
| the other programs | `KillSelf`, `KillParent`, `PrintAndExit`, `PkillAll`, `ProgExit`, `JobTimeout`; `ChildMoves` before execve and under signals |

The child of `fork` starts in the session of the runner and leaves it with `setsid`,
which may be after the runner has set `cleanup_needed` and unblocked its signals; until
then `ps -s` lists nothing. `listed` says whether `ps` found the session, `doomed` which
jobs it found. `line` is 0 until the first prompt. A handler that runs while `exit`
cleans up abandons the `sh` it was waiting for (`stray`) and cleans up once more, all
signals blocked.

A socket pair is a sequence where the content matters (`input`, `output`) and a
count where it does not. Local datagram sockets neither lose nor reorder.

Time appears in one variable. A *calm* behaviour is one in which the delays of
the code are long enough: no timeout fires, a program that sleeps and the wrapper
that spins 20 ms are overtaken by everything else that can move, and a process
takes its unblocked signals before anything else. The traces of the repository are
written for such runs, and what they promise (`OutputMatches`, `TracesComplete`,
`HandshakesPair`) is claimed for calm behaviours only. Without the 20 ms, for
instance, trace27 could leave a datagram of `SIGNAL` behind for the next job. In a
*rough* behaviour delays mean nothing: every timeout and program alarm may fire at
any moment, the runner may be interrupted, its `fork` may fail and its folder may
exist already. Safety of the clean-up and termination are claimed for both.

### The command line

**Parseline** cuts a line into tokens as `parseline` does, a turn of its loop per
step; a token is an interval of the line, since the code cuts by writing NULs into
it. `AccountsFor` says independently, of the line as a whole, what a right result
is. The model keeps what is odd in the code: of two operators in a row the last
counts (`< > f`); only the first character of the last token is looked at for
`&`, so that `&foo` and `'&'` also ask for the background and are dropped; a
line of `&` alone has no argument left; what follows the last argument that
fits in `argv`, a `&` or a redirection, is ignored.

**Redirect** puts the parser into the read/eval loop seen from its files.

| Code | Action |
|---|---|
| `fgets` in `main`, with the read-ahead of stdio | `FillBuffer`, `ReadLine`; `EndOfFile` |
| `parseline` | `Parse` (`Redirection`, `UnmatchedQuote`, `Argument`, `FileName`, `EndOfText`) |
| `open` and `dup2` for `<`, for `>` | `RedirectInput`, `RedirectOutput` |
| the rest of `eval` | `EvalRejected`, `EvalQuit`, `EvalBuiltin`, `EvalFork`, `ForegroundEnded` |
| programs that read their input or end | `ChildReads`, `ChildEnds` |

The redirection is of the shell itself, comes before anything else (also on an
error, an empty line or a built-in) and is never undone; the opened descriptor is
never closed; an output file that does not exist is created with mode 0 and one
that does is not truncated. `TypedInputLost` states what becomes of the typed
input. `trace23.txt` and `trace24.txt` go on after a command with `< mycat.c`, as if only
`mycat` were redirected; this shell then reads its next line from `mycat.c`, which
`mycat` has read to its end, and exits.

### The driver and the printf

**Sdriver** has an action per option, per command of a run with each of its
failures, and per way out. An output is a text and a layout, of which the filter
keeps the text. History variables (`agreed`, `printed`, `tainted`) record what the
shells really printed, so that the score can be compared with it. The model keeps
that the status of a filter is that of `sort`, that a run which could not be started
leaves the output of the iteration before to be compared, that `-A` resets only
the `-i` before it, that a killed runner leaves its folder behind, and the ways out
that leave temporary files.

**SioPrintf** has an action per kind of directive and one write per stretch, which
may be cut short, interrupted or refused while other processes write to the same
output. Words have `LongBits` bits, ints the lower `IntBits`: the smallest number wraps
when it is negated, as in the code. `%ld` falls through into the case of `%zd`
(`sio_printf.c:183`), which looks at the text two places further on and possibly
past the end (`wild`); the header says that `l` is supported, nobody in the
repository uses it. `OutputIsFormatted` leaves out the formats it touches; `StaysInFormat`
says in which formats the loop may leave the string. `Sio_vfprintf` reports a failed
write on the same output and exits (`WriteFails`).

## Runs

| Run | Instance | Shows |
|---|---|---|
| `job_list` | 3 slots, 4 processes, `nextjid` up to 5 | slots stay coherent, `nextjid` compact, and the list implements `JobTable`, also when it is full and after `nextjid` has wrapped |
| `job_list_jids` (violation) | 4 slots, 5 processes | two jobs get the same job ID |
| `tsh` | 2 slots, 2 processes, ctrl-c, ctrl-z, `execve` may fail | the twelve properties below |
| `tsh_faults` | 1 slot, 2 processes, ctrl-c, SIGQUIT, every fault | the shell keeps the contract of the list whatever goes wrong |
| `tsh_live` | 1 slot, 1 process, ctrl-c, ctrl-z, `FairSpec` | liveness |
| `tsh_full` (violation) | 1 slot, 2 processes | with a full list eval does not wait |
| `tsh_startup` (violation) | as `tsh` | an early ctrl-c is lost |
| `tsh_fork_fails` (violation) | `fork` may fail | programs start with their signals blocked |
| `runtrace` | 2 processes, 16 traces calmly, 8 rough ones | every trace ends, the calm ones complete and print what they announce, rendezvous and prompts keep their balance in all, the folder is always removed and a shell whose first prompt was seen does not outlive the runner, the shell is the shell of `Tsh` |
| `redirect` | every line of 5 pieces out of 7 and sessions of 2 or 3 longer lines; 3 places in `argv`, 6 descriptors | accepted lines are cut into their tokens; a redirected shell never gets its input back and ends all the same |
| `sio_printf` | every format of 3 characters and some longer ones; 4-bit ints, 5-bit longs | what is printed is what the format says, and as much as the result says |
| `sdriver` | 2 traces, 1 to 3 iterations, every two options, every fault | the score is earned, temporary files are removed |

Two slots and two processes are the smallest instance in which a job in front
and one behind, or a job being reaped and one being launched, coexist, and in
which a reused process ID could be taken for another; both processes may change
in one SIGCHLD. Three handlers, each blocked while it runs, give every nesting
there is. `tsh` has as many slots as processes; the full list is the business
of `tsh_faults` and `tsh_full`. `job_list` has more processes than slots, and
`nextjid` exceeds `MaxJobs`. The liveness run has one process: its properties
speak of one job, and no symmetry is used in it. Deadlock is checked in all runs
of `Tsh` (a shell that has ended stutters in `Over`); the list alone may
stop, when no launch is allowed, so its runs do not check it.

**`runtrace`.** The sixteen traces (00, 03, 04, 06, 07, 08, 10, 13, 15, 16, 18, 25 to
29) are those that need at most two jobs at a time and only the modelled
programs; together they use every directive and the rendezvous at each of the three
wrapped calls. The rough ones are made so that each way to fail occurs: a command
after the shell has gone, a `PID` of no program, a `SHELLWAIT` and a `WAIT` that
nobody answers, jobs that outlive the trace. They are short because in them every
timeout and signal may come at any moment. Two slots for two processes: the full
list is the business of `tsh_full`.

**`redirect`.** Five pieces are enough for two operators or quotes with a token
between them, and three places in `argv` let it overflow on a line of that length
(the code has 128 and 1024 descriptors: the bounds are small so that they are
reached). One file of commands is given, one that redirects to itself, one that
can be written, and one that does not exist.

**`sio_printf`.** Narrow types give every value of each type, its ends included, and
a long that is wider than an int; two digits or more occur in both bases.
One write of another process may come between any two of the shell's.

**`sdriver`.** Two traces are needed to confuse the score of one with that of the next,
two texts for outputs that differ, two layouts for outputs that differ only
before the filter.

The properties of `tsh`:

- `ListAccessGuarded`: the checks of `check_blocked` never warn.
- `SignalsOwnJob`: ctrl-c never goes to a process that was reaped since `fg_pid`.
- `NoMissedEvent`: although SIGCHLD coalesces, what `waitpid` could report will be.
- `ListIsChildren`: the list holds exactly the unreaped children.
- `ListTellsStopped`: at the prompt the ST jobs are the stopped processes.
- `ForegroundOnlyWhileWaiting`, `WaitsForForeground`: eval waits exactly for the
  foreground job.
- `PromptUnblocked`, `ExecUnblocked`: the masks come back, in the shell and in
  its children.
- `NoNullPointer`: no null job pointer is followed.
- `ListSpec`: the interrupted shell keeps the contract of the list, so `JobTable`
  is implemented by the whole.
- `TypeOK`.

`ListTellsStopped` and `WaitsForForeground` hold only while nobody but the shell
sends SIGCONT: `waitpid` is called without WCONTINUED, so the shell does not
notice. `NoNullPointer` needs users who name existing jobs, and a list
with room.

The properties of the other runs:

- `job_list`: `SlotsCoherent`, `JidsCompact` and the refinement `ImplementsTable`.
- `tsh_live`: `EveryChildReaped`, `ForegroundWaitEnds`, `InterruptReachesJob`.
- `OutputMatches`: a calm trace prints what it announces, in that order, whatever
  the shell, its handlers and the jobs do in between.
- `HandshakesPair`: no datagram of a handshake is left, so none was taken for another.
- `RendezvousBalance`: in every run that completes, calm or rough, what is left of the
  shell's rendezvous is what the trace itself does not pair. `next_prompt` answers some
  of them on its own; it must do both halves or none.
- `NextMeansPrompt`: when the trace had a `NEXT` for each line so far, the shell has
  read them all, waits at its prompt and has no foreground job. The runner tells a prompt
  only by its text and might take that of an earlier line for it.
- `ZeroStatus`: status 0 means that the trace was done and the shell has ended, or that
  a `NEXT` of a rough run saw no prompt; the driver cannot tell them apart.
- `CleanedOnExit`: on every way out, a second clean-up in the middle of the first
  included, the runner's own folder is removed, and so is a shell whose first prompt
  the runner has seen. A shell that survives an end before that (a signal or the timeout
  came before its `setsid`) was sent nothing and has no job. `clean` lists the processes
  before it kills them: on a rough exit the shell may fork one more in between, so that
  only a complete run is claimed to leave no job.
- `ForeignFolderKept`: a folder of somebody else is left alone.
- `RunTypeOK`: of every variable, the command line in `eval`, the messages and the
  texts on the sockets included.
- `RunsTheShell`, `TracesComplete`, `EveryTraceEnds`.
- `TokensTile`, `TypedInputLost`, `EverySessionEnds`, `OutputIsFormatted`.
- `StaysInFormat`: the loop may step over the end of the string only in a format in
  which a `%l` with its conversion stands fewer than three characters before the end;
  in every other, also where `%ld` falls through and skips text, it does not. When it ends
  at the NUL the result counts what was printed.
- `ScoreIsEarned`: but for a filter that fails or a run that cannot be started, which
  the driver does not notice. `TemporariesRemoved`, `NoScoreWithFolder`.

### Fairness

`FairSpec` assumes that children get to run (weak fairness of `ChildSetup`,
`ChildExec`, `TakeSignal`), that a context which is resumed again and again takes
its next step, and that a signal which is pending and unblocked again and again
is delivered. The last two are strong fairness because users may send signals at
any time: each new handler disables the interrupted context, and weak fairness
would promise nothing to it. The kernel does deliver a pending unblocked signal
before the interrupted code goes on, and handlers are short: ctrl-c
does not arrive faster than a handler runs for ever. Nobody has to type a
command, send a signal, or end a program: a foreground job that runs for ever
keeps eval waiting.

`RunFairSpec` assumes that the three kinds of processes run: weak fairness of `Shell`,
`Runner` (its timeouts are among its steps) and of each `Program(p)`. Weak fairness is
enough, since nothing here can be disabled again and again: the traces send
finitely many signals. Nobody has to interrupt the runner. The
`FairSpec` of `Redirect` assumes that the shell runs and that programs in the
foreground end, as those of the traces do.

## Findings

1. **Duplicate job IDs** (`tsh_helper.c:275`): `add_job` wraps `nextjid` to 1 when
   it exceeds `MAXJOBS`, whether or not job 1 is still there.
2. **No wait with a full list** (`tsh.c:216`): the result of `add_job` is ignored;
   the foreground program is not tracked and eval returns at once. When such a
   process stops, the SIGCHLD handler follows a null pointer (`tsh.c:396`).
3. **Ctrl-c lost at startup** (`tsh.c:237`, `429`): only the child calls `setpgid`,
   so a signal forwarded before it reaches nobody.
4. **Signals blocked after a failed fork** (`tsh.c:201`): no branch handles
   `pid < 0`, and every later program inherits the blocked mask.

Not counted, since no run has been made of them: redirections are never undone
(see *The command line*; `TypedInputLost` is proved of the code as it is), a timeout
of `NEXT` ends the runner with status 0 (`runtrace.c:461`), `%ld` (`sio_printf.c:183`),
and a shell that outlives the runner: a signal, or the timeout of the first prompt, that
is taken before the child has called `setsid` (`runtrace.c:320`) makes `clean` ask `ps` for a
session that is not there (`runtrace.c:357`), although `clean` is to "clean up any stray jobs
or shells" (`runtrace.c:596`). `CleanedOnExit` says what is left of the promise.

## Proofs

The proofs hold for every value of the constants that satisfies the named
assumptions: for the shell `MaxJobsAssumption` (there is a slot), `PidsAssumption` (pid
0 is no process), `JidBoundAssumption` (a natural number) and the ranges of
`UserSignals` and `Faults`, so for any number of slots and processes, infinitely many
included, and with every fault enabled; for the runner any traces, `RunSignals`
(SIGINT and SIGTSTP may be sent) and `TracesWellFormed` (a trace has a list of lines, each
with a directive or a command that `eval` knows);
for the command line `RoomForArguments`, `RoomForStreams`, `NamedOnce` and
`LinesOfPieces` (a line is a list of pieces), any lines and any files; for the printf
`Widths` (an int has bits and is no wider than a long) and `Texts` (formats and strings
are sequences, and there is a string), any formats, arguments and writes; for the
driver `Counts`, `OptionsGiven` and `AbsentIsNoOutput`, any options, any outputs and
every fault.

**JobListProofs.** `ListInv` joins the type invariant, `SlotsCoherent`,
`PidsUnique`, `AtMostOneForeground` and `JidsCompact`, because no part is
inductive alone: `find_job_with_pid` finds the right slot only if processes are
unique, and `delete_job` keeps `nextjid` positive only if the remaining IDs are
natural numbers. `maxjid` and the searches are minima and maxima of sets;
`MinExists`, `SlotsBounded` and `MaxExists` derive them from the well-foundedness
of the natural numbers. One lemma per helper (`AddJobKeeps`, `DeleteJobKeeps`,
`SetStateKeeps`) gives the theorem `ListInvariant`. For the refinement, a lemma
per helper shows that the table read off the slots takes the matching step of
`JobTable` or none (`AddJobTracks`, `DeleteJobForgets`, `SetStateChanges`); `RoomLeft`
counts the slots.

**TshProofs.** `ListAccessGuarded` is not inductive: whether a context has its
signals blocked when it is resumed depends on the mask that the handler above it
puts back. `Control` says how: the active handlers form a chain from main to the
running context (`Nesting`: there is a rank that grows along `caller`), each
handler on return blocks those below it, and a critical context that was
interrupted gets the three signals blocked again (`Masking`). The only place
where main is interrupted between blocking and unblocking is the wait for the
foreground job. `Jobs` adds what each context relies on while it holds a pid or a
slot: the process that eval adds is not listed yet, a job that `fg` or `bg` looked
up is still there, a listed process exists unless it is being deleted, and a pid
about to be signalled is that of the foreground job. `ShellInv` joins both with
`ListInv` and the types; `ShellStep` proves it inductive together with the fact
that every step of the shell is a step of `ListSpec` or leaves the list alone.
Hence `ShellTypeCorrect`, `ShellGuardsList`, `ShellSignalsOwnJob`, `ShellForeground`
and `ShellImplementsList`. `ShellMissesNoEvent` needs only the types: every step
that creates something to report also makes SIGCHLD pending, and the handler
leaves its loop only when nothing is left.

**TshMaskProofs** assumes that fork does not fail. `MainUnblocked` says that the
context that returns to main at the prompt puts back the empty mask, and that `temp`
remembers it while `eval` runs; `ChildrenUnblocked` follows, since a child starts with
what `temp` held. Hence `ShellUnblocksPrompt` and `ShellUnblocksPrograms`.

**TshTrackProofs** relates the list to the processes. `StepShape` sorts the steps: one of
eval's, one of the three of the SIGCHLD handler that matter, or one that is `Quiet`.
Each theorem names the faults it excludes:

| Theorem | Assumes | Rests on |
|---|---|---|
| `ShellListsChildren` | `Room` (a slot for every process) | `ChildrenListed`; `RoomForChild` counts the slots, so that `add_job` finds one; `WaitInv`: what `waitpid` reported stays true until the list is updated |
| `ShellFollowsNoNull` | `Room`, `JobsExist` (no `badjob`) | `JobFound`, and the job of a stopped child is listed |
| `ShellTellsStopped` | `ShellContinues` (no `cont`) | `StopInv`: a job is listed as stopped only if its process is, or was until just now, and a stop that was reported is in the list or about to be; with `ShellMissesNoEvent` nothing is left to report at an idle prompt |
| `ShellWaitsForForeground` | `Room`, `ShellContinues` | `WaitingFor`: the process eval waits for is that of the foreground slot, or has ended or stopped |

That `Room` and a fork that succeeds are needed is what `TshFull` and `TshForkFails`
show. `ShellTellsStopped` holds even in a list that overflows. `PointerInv` (`fg` and `bg` signal the process whose job they
change) and `WaitInv` need none.

**RuntraceProofs.** `RunnerRunsTheShell` is a step simulation: each action of the
runner, of a program and of the shell is a step of `Tsh` or leaves its variables
alone (`ProgramStep`, `ShellMovesStep`, `RunnerStep`). The theorems about `Tsh`
therefore hold under every trace (`TracesKeepShellSafe`). `CleanedOnExit` and
`ForeignFolderKept` rest on three invariants (`RunnerCleanup`). `CleanupInv`: from `mkdir`
on the folder is the runner's own, and wherever a signal or an exit can get in while it
or the shell is there, `cleanup_needed` says so; in the gap before it is set every signal
is blocked. At the labels of `exit` it stays set until the `rm` is done, so that a handler
that gets in there does the clean-up again. `BeforePrompt`: as long as `line` is 0 nothing was
sent to the shell and it has no child, and a shell that is only forked is in that state;
after the first prompt its session therefore exists, and `ps` finds it. `CompleteInv`
says which status goes with which way out, and that a complete run lists the processes
after the shell has ended, when nothing can be forked any more.

`RunnerTypes` is inductive together with the types of the shell. The sockets are typed
by what is put on them: a command line or a `PID` of a trace is a message because of
`TracesWellFormed`, and what the shell shows is a text because job IDs are natural numbers
(`JidOfType`, `JobsShownType`; `ShownTyped` joins them for each step that prints).

The traces are a parameter, so what the runner and the shell owe each other is said by
two ledgers over the lines that are done (`Done(op)` counts them). `Balance`: the
datagrams on the two channels of the rendezvous and the `SHELLWAIT`s done are the
`SHELLSIGNAL`s done, and one more while a synchronization was sent and not answered. It
needs `SyncHeld`: a shell in the middle of a synchronization is still at the wrapped call
it began it at. That rests on `Control` of `TshProofs`, since the wrapped calls are made
with the handled signals blocked, and no handler gets in between. `PromptBalance`: as long
as the trace is executed, prompts on their way and `NEXT`s done are the lines the shell
has read, and one more while the prompt is out. It needs `PromptedInv` (the prompt is out
only while main waits for a line) and `NextIsRead` (the runner waits for a prompt only at a
`NEXT`); `PromptsAppend` and `PromptsTail` count the prompts of the output. Both are
inductive over every step of the runner, of the shell and of the programs, in any order
(`RunnerLedger`, `RunnerPromptLedger`), and give `RunnerBalances` and `RunnerKeepsStep`.
`RendezvousPairs` is the half of `HandshakesPair` about the shell, for every trace that has
as many `SHELLWAIT`s as `SHELLSIGNAL`s and also without the assumption that the run is
calm. `StatusInv` follows the two ways to status 0 through the clean-up (`RunnerStatus`).

**RedirectProofs.** `IInv` has two halves. `ParserOK`: while `parseline` runs there is
room for one more argument, which is why the NULL always fits. `FilesOK`:
descriptors 0 and 1 are open files, and a child never holds a file younger than
the shell's. The latter is what makes the loss of the typed input permanent
(`TypedInputIsLost`): a redirection only ever opens a younger file.

`TheTokensTile` is about lines of any length. `AccountsFor`, which it has to reach,
speaks of the whole line, so the invariant (`ParseInv`) needs the same said of the part
before `buf`: `CutSoFar` says that the tokens taken so far lie apart from each other
(`Fits`) and cover all of it but blanks, quotes and operators (`Covers`), that each has
the role the last operator before it gives it (`Roles`), and that the parsing state
tells which operator no token has followed yet (`Expects`, `Pending`). One lemma per branch of the loop shows that a token more
keeps it. What ends a token is a CHOOSE over an interval; that it exists and is
the first of its kind comes from the well-foundedness of the natural numbers.

**SioPrintfProofs.** `PrintsWhatIsFormatted` compares functions that are defined by
recursion on both sides. The library's theorems on recursion and induction cannot
be used (they take operators as parameters), so the first section proves, from
the least element of a set of natural numbers alone, that a recursive definition in
which the value at x depends only on places of a smaller rank has a solution
(`RecursionExists`), that it has one at most (`RecursionUnique`), and induction for
sets (`RankInduction`, `UpToInduction`); a definition is a parameter there as a function
from functions to functions. `ConversionsAgree` is the arithmetic: the digits
`write_digits` gets by dividing again and again are, from the last to the first,
the quotients by the powers of the base (`DigitsHold`, `UnsignedNumerals`), also
for the smallest number of a signed type. The invariant `PrintInv` is that what has
been printed, what is left of this turn and the text of the rest of the format make
up the text of the whole format, *whatever arguments are still to come*: without
the last clause it is not inductive, since a turn of the loop fetches an argument that
the text so far did not have. `Turned` is the step of every directive, `TextOfStretch`
that of a literal, `ShellWrites` and `JobsWrite` those of the output. Of the formats that
fall through, `CountInv` keeps what is left without the text (`PrintStaysInFormat`).

**SdriverProofs.** `IInv` joins the types with `LoopsOK` (where the loops are),
`FilesOK` (what each temporary file holds at each point of an iteration) and `ScoreOK`
(the traces before `i` are done, of trace `i` the iterations before `j`, all
in agreement; the score is `num_iters` times the traces that passed). The last is
what is inductive; `ScoreIsEarned` is its value after the loops. `EndsOK` does the same
for the ways out (`DriverRemovesTemporaries`, `DriverNoScoreWithFolder`).

The SMT backend of tlapm 1.4.5 takes the intersection of two enumerated sets, such as
`{x} \cap {1}`, for empty, which is unsound. No obligation here contains one: where
`\cap` occurs, one side is a constant, a variable or a field.

Only model-checked:

- `OutputMatches`: it says what each particular trace prints when the delays of the code
  are long enough, and holds because of the order of the directives in these traces, not
  for every trace;
- `HandshakesPair`: its half about the shell follows from `RendezvousPairs`, its half about
  the jobs depends on the traces, since a job may be killed in the middle of its handshake;
- the liveness properties, which are beyond the prover.

## Not modelled, and the plan

Of the planned work nothing is left: every safety property that a passing run checks is
also proved, but for the two about particular traces. A next step would be a ledger of the
handshake of the jobs, for traces that do not kill a job between its two halves.

Left out:

- **Shell**: options, environment variables, `errno`; process groups with more than
  one member (`mysplit`, `mysplitp`) and terminals (the keyboard's signals to the
  shell's own group, SIGTTIN and SIGTTOU, which the shell ignores). What a second
  shell reads after a failed `execve` is not modelled: the child only lives on.
- **Command line**: a line of 1023 characters or more, which `fgets` cuts in two; an
  unterminated last line, which the shell drops as end of file; `bg` and `fg` without
  an argument; what is written to a file.
- **Runner**: verbose output, comments, a `SHELLSYNC` in the middle of a trace,
  `SHELLWAIT` in a trace without one; a failed fork or `execv` inside `clean`; the limit on
  queued datagrams. Signals go to the runner alone: a ctrl-c of its terminal, which reaches
  the `sh` of `clean` and a shell before its `setsid` as well, is not modelled. Jobs that outlive the shell stand still until `clean` kills them.
- **Wrappers**: their random delays, which are the interleavings of the model.
- **Driver**: `-s` and `-x`, the wording of the report.
- **Printf**: a write that returns 0; the single write of `sio_puts` and its like.
- **Test programs**: `mycat`, `myenv`; `myspin2` is `myspin1` without a SIGTERM handler.
- **`csapp.c`** apart from `Signal` and `rio_writen`: a vendored library.
