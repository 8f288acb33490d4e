------------------------------ MODULE Redirect ------------------------------
(***************************************************************************)
(* The read/eval loop of tsh.c seen from its files: where its lines come   *)
(* from, what eval opens for a redirection, and what a child inherits.     *)
(*                                                                         *)
(* eval redirects the shell's own descriptors 0 and 1, before it looks at  *)
(* what the parser returned, and never puts them back.  An open file has   *)
(* one position, shared by every process that holds it: the shell, which   *)
(* reads ahead into the buffer of stdin, and the children.                 *)
(*                                                                         *)
(* The job list, the signals and a failed fork or execve are in Tsh.  What *)
(* a child writes and the contents of a file it has written are left out.  *)
(***************************************************************************)
EXTENDS Parseline, FiniteSets

CONSTANTS
  Sessions,   \* what may be typed: sequences of lines
  Contents,   \* for each file that can be opened to read, its lines
  Writable,   \* the files that can also be opened to write
  Missing,    \* the names of no file, in a directory the shell can write
  OPEN_MAX    \* how many descriptors a process may have

ASSUME RoomForStreams == OPEN_MAX \in Nat /\ OPEN_MAX >= 3

ASSUME LinesOfPieces ==
  /\ \A s \in Sessions : s \in Seq(Seq(STRING))
  /\ \A name \in DOMAIN Contents : Contents[name] \in Seq(Seq(STRING))

ASSUME NamedOnce == DOMAIN Contents \cap Missing = {}

VARIABLES
  typed,      \* the lines of the input the shell was started with
  opened,     \* the open files, oldest first, each with its position
  stdin,      \* the open file of descriptor 0
  stdout,     \* the open file of descriptor 1
  buffer,     \* the lines fgets has read ahead
  created,    \* the files made by a redirection
  children    \* the processes running, with the files they inherited

fileVars == <<typed, opened, stdin, stdout, buffer, created, children>>
vars == <<pc, parseVars, fileVars>>

TypedInput == [file |-> "typed", pos |-> 1]
Screen == [file |-> "screen", pos |-> 1]

Lines(o) ==
  IF opened[o].file = "typed" THEN typed
  ELSE IF opened[o].file \in DOMAIN Contents THEN Contents[opened[o].file]
  ELSE <<>>

AtEnd(o) == opened[o].pos > Len(Lines(o))

Init ==
  /\ pc = "read"
  /\ line = <<>> /\ buf = 1 /\ parsing_state = "ST_NORMAL"
  /\ argv = <<>> /\ infile = NULL /\ outfile = NULL
  /\ parse_result = "PARSELINE_EMPTY"
  /\ typed \in Sessions
  /\ opened = <<TypedInput, Screen>>
  /\ stdin = 1 /\ stdout = 2
  /\ buffer = <<>>
  /\ created = {}
  /\ children = {}

(* fgets fills its buffer when that is empty: a read takes the lines that
   are there, one at a time from a terminal, more from a pipe or a file. *)
FillBuffer ==
  /\ pc = "read" /\ buffer = <<>> /\ ~AtEnd(stdin)
  /\ \E last \in opened[stdin].pos .. Len(Lines(stdin)) :
       /\ buffer' = SubSeq(Lines(stdin), opened[stdin].pos, last)
       /\ opened' = [opened EXCEPT ![stdin].pos = last + 1]
  /\ UNCHANGED <<pc, parseVars, typed, stdin, stdout, created, children>>

ReadLine ==
  /\ pc = "read" /\ buffer # <<>>
  /\ StartParse(Head(buffer))
  /\ buffer' = Tail(buffer)
  /\ pc' = "parse"
  /\ UNCHANGED <<typed, opened, stdin, stdout, created, children>>

(* The shell returns from main at the end of whatever file is its input. *)
EndOfFile ==
  /\ pc = "read" /\ buffer = <<>> /\ AtEnd(stdin)
  /\ pc' = "exited"
  /\ UNCHANGED <<parseVars, fileVars>>

Parse == ParseStep /\ UNCHANGED fileVars

(* Descriptors 0, 1 and 2 are always open, and each file opened so far keeps
   the one open returned: eval never closes it. *)
Descriptors == 3 + Len(opened) - 2

CanRead(name) ==
  Descriptors < OPEN_MAX /\ name \in DOMAIN Contents

CanWrite(name) ==
  Descriptors < OPEN_MAX /\ (name \in Writable \/ name \in Missing \ created)

(* When open fails dup2 is given -1 and does nothing. *)
RedirectInput ==
  /\ pc = "infile"
  /\ IF infile # NULL /\ CanRead(Text(infile))
     THEN /\ opened' = Append(opened, [file |-> Text(infile), pos |-> 1])
          /\ stdin' = Len(opened) + 1
     ELSE UNCHANGED <<opened, stdin>>
  /\ pc' = "outfile"
  /\ UNCHANGED <<parseVars, typed, stdout, buffer, created, children>>

(* A file that did not exist is created with no permission at all, so that
   it cannot be opened a second time. *)
RedirectOutput ==
  /\ pc = "outfile"
  /\ IF outfile # NULL /\ CanWrite(Text(outfile))
     THEN /\ opened' = Append(opened, [file |-> Text(outfile), pos |-> 1])
          /\ stdout' = Len(opened) + 1
          /\ created' = created \cup ({Text(outfile)} \cap Missing)
     ELSE UNCHANGED <<opened, stdout, created>>
  /\ pc' = "eval"
  /\ UNCHANGED <<parseVars, typed, stdin, buffer, children>>

(* The first argument is compared with the built-in commands before the & is
   taken off; a line that is only & has no argument left. *)
command == IF argv = <<>> THEN <<"&">> ELSE Text(argv[1])

Rejected == parse_result \in {"PARSELINE_ERROR", "PARSELINE_EMPTY"}

EvalRejected ==
  /\ pc = "eval" /\ Rejected
  /\ pc' = "read"
  /\ UNCHANGED <<parseVars, fileVars>>

EvalQuit ==
  /\ pc = "eval" /\ ~Rejected /\ command = <<"quit">>
  /\ pc' = "exited"
  /\ UNCHANGED <<parseVars, fileVars>>

EvalBuiltin ==
  /\ pc = "eval" /\ ~Rejected /\ command \in {<<"jobs">>, <<"bg">>, <<"fg">>}
  /\ pc' = "read"
  /\ UNCHANGED <<parseVars, fileVars>>

(* The child holds the shell's files.  Two background children with the same
   files are one member of the set: they can do the same things. *)
EvalFork ==
  /\ pc = "eval" /\ ~Rejected
  /\ command \notin {<<"quit">>, <<"jobs">>, <<"bg">>, <<"fg">>}
  /\ children' = children \cup
       {[in |-> stdin, out |-> stdout, fg |-> parse_result = "PARSELINE_FG"]}
  /\ pc' = IF parse_result = "PARSELINE_FG" THEN "wait" ELSE "read"
  /\ UNCHANGED <<parseVars, typed, opened, stdin, stdout, buffer, created>>

(* Mutant: the shell's own input is put back after the command. *)
ForegroundEnded_restores ==
  /\ pc = "wait"
  /\ \A c \in children : ~c.fg
  /\ pc' = "read"
  /\ stdin' = 1
  /\ UNCHANGED <<parseVars, typed, opened, stdout, buffer, created, children>>

(* Mutant: the shell waits for every job, not for the foreground job. *)
ForegroundEnded_all ==
  /\ pc = "wait"
  /\ children = {}
  /\ pc' = "read"
  /\ UNCHANGED <<parseVars, fileVars>>

ForegroundEnded ==
  /\ pc = "wait"
  /\ \A c \in children : ~c.fg
  /\ pc' = "read"
  /\ UNCHANGED <<parseVars, fileVars>>

(* A child reads from the position it shares with the shell, or ends. *)
ChildReads(c) ==
  /\ ~AtEnd(c.in)
  /\ \E last \in opened[c.in].pos .. Len(Lines(c.in)) :
       opened' = [opened EXCEPT ![c.in].pos = last + 1]
  /\ UNCHANGED <<pc, parseVars, typed, stdin, stdout, buffer, created, children>>

ChildEnds(c) ==
  /\ children' = children \ {c}
  /\ UNCHANGED <<pc, parseVars, typed, opened, stdin, stdout, buffer, created>>

ShellStep ==
  \/ FillBuffer \/ ReadLine \/ EndOfFile
  \/ Parse
  \/ RedirectInput \/ RedirectOutput
  \/ EvalRejected \/ EvalQuit \/ EvalBuiltin \/ EvalFork
  \/ ForegroundEnded

ChildStep == \E c \in children : ChildReads(c) \/ ChildEnds(c)

(* The shell has exited and its children have ended. *)
Ended == pc = "exited" /\ children = {} /\ UNCHANGED vars

Next == ShellStep \/ ChildStep \/ Ended

Spec == Init /\ [][Next]_vars

(* The shell is a process that is scheduled, and every program it starts ends
   in the end, as those of the traces do. *)
Fairness ==
  /\ WF_vars(ShellStep)
  /\ WF_vars(\E c \in children : c.fg /\ ChildEnds(c))

FairSpec == Spec /\ Fairness

-----------------------------------------------------------------------------
(* The tokens lie in the line and leave room for the NULL that ends argv;
   descriptors 0 and 1 are open files of the table, which never holds more
   than a process may have open.
   parseline (tsh_helper.c:66), eval (tsh.c:166). *)
TypeOK ==
  /\ pc \in {"read", "parse", "infile", "outfile", "eval", "wait", "exited"}
  /\ parsing_state \in {"ST_NORMAL", "ST_INFILE", "ST_OUTFILE"}
  /\ parse_result \in {"PARSELINE_FG", "PARSELINE_BG",
                       "PARSELINE_EMPTY", "PARSELINE_ERROR"}
  /\ Len(argv) <= MAXARGS - 1
  /\ stdin \in DOMAIN opened /\ stdout \in DOMAIN opened
  /\ Descriptors <= OPEN_MAX
  /\ created \subseteq Missing
  /\ \A c \in children : c.in <= stdin /\ c.out <= stdout

(* A line that parseline accepts has been cut into exactly the tokens it is
   made of: they cover the line, do not overlap, keep their order and play
   the part the operators give them; a background line has one more token,
   after all the arguments, that begins with &, and a foreground line does
   not end with such a token (tsh_helper.c:104-186). *)
TokensTile ==
  pc = "infile" =>
    /\ parse_result = "PARSELINE_FG" =>
         AccountsFor(argv) /\ ~StartsWith(argv[Len(argv)], "&")
    /\ parse_result = "PARSELINE_BG" =>
         \E from, to \in 1 .. endbuf :
           LET last == [from |-> from, to |-> to]
           IN  StartsWith(last, "&") /\ AccountsFor(Append(argv, last))

(* No process holds the input the shell was started with. *)
TypedInputDropped == stdin # 1 /\ \A c \in children : c.in # 1

(* Once a redirection has taken the shell's input away, what was typed and
   not read yet is lost to the shell and to every child it starts, for good:
   the redirection meant for one command is never undone (tsh.c:173-182). *)
TypedInputLost ==
  [][TypedInputDropped => TypedInputDropped' /\ opened'[1] = opened[1]]_vars

(* The shell always comes to an end, at an end of file or a quit, although a
   file of commands may redirect the shell's input to itself: each turn keeps
   one more descriptor, and when there is none left the redirection fails and
   the file is read to its end (tsh.c:101-118, 173-182). *)
EverySessionEnds == <>(pc = "exited")
=============================================================================
