----------------------------- MODULE MCRuntrace -----------------------------
(***************************************************************************)
(* Traces for Runtrace.  Those that run calmly are sixteen of the          *)
(* repository, which two processes and the programs of module Runtrace     *)
(* can run, without the /bin/echo lines that announce a command (some are  *)
(* left in trace04 and trace28).  In the rough ones lines fail, or wait    *)
(* for nothing.                                                            *)
(***************************************************************************)
EXTENDS Runtrace

Directive(op) == [op |-> op, cmd |-> "", prog |-> "", jid |-> 0]
Command(c, program, jid) == [op |-> "line", cmd |-> c, prog |-> program, jid |-> jid]
PidOf(program, c) == [op |-> "PID", cmd |-> c, prog |-> program, jid |-> 0]

Fg(program) == Command("FG", program, 0)
Bg(program) == Command("BG", program, 0)
quit        == Command("quit", "", 0)
jobs        == Command("jobs", "", 0)
next        == Directive("NEXT")
wait        == Directive("WAIT")
signal      == Directive("SIGNAL")
shellwait   == Directive("SHELLWAIT")
shellsignal == Directive("SHELLSIGNAL")

Trace(shellsync, lines, shows) == [shellsync |-> shellsync, lines |-> lines, shows |-> shows]

Listing(shown)  == <<"jobs", shown>>
Launched(jid)   == <<"launched", jid>>
Halted(jid)     == <<"stopped", jid>>
Slain(jid)      == <<"terminated", jid>>
Resumed(jid)    == <<"resumed", jid>>

\* A job is launched and the prompt awaited; the job says that it is there.
RunFg(program)   == <<Fg(program), next>>
RunSpin1         == <<Bg("myspin1"), next, wait>>
List             == <<jobs, next>>

MCTraces ==
    {Trace("none", <<>>, <<<<"newline">>>>),                             \* trace00
     Trace("none", <<Fg("myspin1"), wait, signal, quit>>, <<PROMPT>>),    \* trace03
     Trace("none", RunFg("echo") \o <<quit>>, <<<<"printed by", "echo">>>>),   \* trace04
     Trace("none",                                                        \* trace06
           <<Bg("myspin1"), next, Fg("myspin1"), wait, wait, signal, signal, next, quit>>,
           <<Launched(1)>>),
     Trace("none",                                                        \* trace07
           <<Bg("myspin1"), next, Bg("myspin1"), next, wait, wait>> \o List \o <<quit>>,
           <<Launched(1), Launched(2), Listing({<<1, "BG">>, <<2, "BG">>})>>),
     Trace("none", RunFg("myintp") \o <<quit>>, <<Slain(1)>>),            \* trace08
     Trace("none",                                                        \* trace10
           RunSpin1 \o RunFg("pkill") \o <<signal, signal, wait, quit>>,
           <<Launched(1), <<"Took SIGTERM!">>>>),
     Trace("none",                                                        \* trace13
           RunSpin1 \o RunFg("myintp") \o List \o <<signal, quit>>,
           <<Launched(1), Slain(2), Listing({<<1, "BG">>})>>),
     Trace("none",                                                        \* trace15
           RunFg("mytstpp") \o <<Command("bg", "", 1), next>> \o List \o <<quit>>,
           <<Halted(1), Resumed(1), Listing({<<1, "BG">>})>>),
     Trace("none",                                                        \* trace16
           RunSpin1 \o RunFg("mytstpp") \o List \o <<PidOf("mytstpp", "bg"), next>>
               \o List \o <<signal, quit>>,
           <<Launched(1), Halted(2), Listing({<<1, "BG">>, <<2, "ST">>}),
             Resumed(2), Listing({<<1, "BG">>, <<2, "BG">>})>>),
     Trace("none",                                                        \* trace18
           RunSpin1 \o RunFg("mytstps") \o List \o <<PidOf("mytstps", "fg"), next>>
               \o <<signal, quit>>,
           <<Launched(1), Halted(2), Listing({<<1, "BG">>, <<2, "ST">>})>>),
     Trace("none",                                                        \* trace25
           RunFg("mysleepnprint") \o List \o <<Command("fg", "", 1), next, quit>>,
           <<Halted(1), Listing({<<1, "ST">>}), <<"printed by", "mysleepnprint">>>>),
     Trace("none",                                                        \* trace26
           <<Bg("myints"), next>> \o RunFg("sleep") \o <<quit>>,
           <<Launched(1), Slain(1)>>),
     Trace("kill",                                                        \* trace27
           <<Fg("myspin1"), wait, Directive("SIGTSTP"), shellwait, signal, shellsignal, next,
             Fg("myspin1"), wait, Directive("SIGINT"), shellwait, signal, shellsignal, next,
             quit>>,
           <<>>),
     Trace("waitpid",                                                     \* trace28
           RunFg("echo") \o
           <<Fg("myspin1"), wait, signal, shellwait, Directive("SIGTSTP"), shellsignal, next,
             Fg("myspin1"), wait, signal, shellwait, Directive("SIGINT"), shellsignal, next,
             quit>>,
           <<<<"printed by", "echo">>>>),
     Trace("get_pid_of_job",                                              \* trace29
           RunSpin1 \o List \o <<Command("fg", "", 1), shellwait, signal, shellsignal, next,
                                 quit>>,
           <<Launched(1), Listing({<<1, "BG">>})>>)}

MCRoughTraces ==
    {Trace("none", <<quit, next, Fg("echo")>>, <<>>),        \* no shell to talk to
     Trace("none", RunSpin1 \o <<quit, Fg("echo"), next>>, <<>>),
     Trace("none", <<Bg("myints"), Bg("echo"), next>>, <<>>), \* jobs that outlive the trace
     Trace("none", <<PidOf("myspin1", "fg"), next>>, <<>>),  \* no such program
     Trace("kill", <<Fg("echo"), shellwait>>, <<>>),         \* no rendezvous
     Trace("kill", <<Fg("myintp"), wait>>, <<>>),            \* one that nobody answers
     Trace("none",                                           \* the end of trace16
           RunFg("mytstpp") \o <<PidOf("mytstpp", "bg"), next>> \o List, <<>>),
     Trace("kill",                                           \* the first half of trace27
           <<Fg("myspin1"), wait, Directive("SIGTSTP"), shellwait, signal, shellsignal, next>>,
           <<>>)}

=============================================================================
