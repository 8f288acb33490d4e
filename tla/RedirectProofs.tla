--------------------------- MODULE RedirectProofs ---------------------------
(***************************************************************************)
(* Proofs about the command line and its redirections, for lines of any    *)
(* length, any files and any number of descriptors: argv never overflows,  *)
(* the tokens parseline finds are the line cut at its blanks, descriptors  *)
(* 0 and 1 are open files, and an input that a redirection has taken away  *)
(* is lost for good.                                                       *)
(***************************************************************************)
EXTENDS Redirect, SequenceTheorems, WellFoundedInduction, TLAPS

(* What the tokens and the files are does not matter, only how many. *)
IsSequence(s) == \E S : s \in Seq(S)

LEMMA AppendSequence ==
  ASSUME NEW s, IsSequence(s), NEW e
  PROVE  /\ IsSequence(Append(s, e))
         /\ Len(s) \in Nat
         /\ Len(Append(s, e)) = Len(s) + 1
         /\ \A k \in 1 .. Len(s) : Append(s, e)[k] = s[k]
<1>1. PICK S : s \in Seq(S)
  BY DEF IsSequence
<1>2. s \in Seq(S \cup {e}) /\ e \in S \cup {e}
  BY <1>1
<1>3. Append(s, e) \in Seq(S \cup {e})
  BY <1>2
<1> QED
  BY <1>1, <1>2, <1>3 DEF IsSequence

LEMMA FrontSequence ==
  ASSUME NEW s, IsSequence(s), s # <<>>
  PROVE  /\ IsSequence(SubSeq(s, 1, Len(s) - 1))
         /\ Len(SubSeq(s, 1, Len(s) - 1)) = Len(s) - 1
<1>1. PICK S : s \in Seq(S)
  BY DEF IsSequence
<1>2. Len(s) \in Nat \ {0}
  BY <1>1
<1>3. /\ SubSeq(s, 1, Len(s) - 1) \in Seq(S)
      /\ Len(SubSeq(s, 1, Len(s) - 1)) = Len(s) - 1
  <2>1. \A n \in 1 .. Len(s) - 1 : s[n] \in S
    BY <1>1, <1>2
  <2>2. /\ SubSeq(s, 1, Len(s) - 1) \in Seq(S)
        /\ Len(SubSeq(s, 1, Len(s) - 1)) =
             IF 1 <= Len(s) - 1 THEN (Len(s) - 1) - 1 + 1 ELSE 0
    BY <1>2, <2>1, SubSeqProperties
  <2>3. ASSUME NEW n \in Nat \ {0}
        PROVE  (IF 1 <= n - 1 THEN (n - 1) - 1 + 1 ELSE 0) = n - 1
    BY SMT
  <2> QED
    BY <1>2, <2>2, <2>3, Zenon
<1> QED
  BY <1>3, Zenon DEF IsSequence

LEMMA ExceptSequence ==
  ASSUME NEW s, IsSequence(s), NEW k \in 1 .. Len(s), NEW e
  PROVE  /\ IsSequence([s EXCEPT ![k] = e])
         /\ Len([s EXCEPT ![k] = e]) = Len(s)
         /\ \A n \in 1 .. Len(s) : n # k => [s EXCEPT ![k] = e][n] = s[n]
<1>1. PICK S : s \in Seq(S)
  BY DEF IsSequence
<1>2. s \in Seq(S \cup {e}) /\ e \in S \cup {e}
  BY <1>1
<1>3. /\ [s EXCEPT ![k] = e] \in Seq(S \cup {e})
      /\ Len([s EXCEPT ![k] = e]) = Len(s)
      /\ \A n \in 1 .. Len(s) :
           [s EXCEPT ![k] = e][n] = IF n = k THEN e ELSE s[n]
  BY <1>2, ExceptSeq
<1> QED
  BY <1>3, Zenon DEF IsSequence

-----------------------------------------------------------------------------

(* While parseline runs there is room for one more argument, so that the one
   it appends can be the & or can be counted in. *)
ParserOK ==
  /\ pc \in {"read", "parse", "infile", "outfile", "eval", "wait", "exited"}
  /\ parsing_state \in {"ST_NORMAL", "ST_INFILE", "ST_OUTFILE"}
  /\ parse_result \in {"PARSELINE_FG", "PARSELINE_BG",
                       "PARSELINE_EMPTY", "PARSELINE_ERROR"}
  /\ IsSequence(argv)
  /\ Len(argv) <= MAXARGS - 1
  /\ pc = "parse" => Len(argv) < MAXARGS - 1

FilesOK ==
  /\ IsSequence(opened) /\ Len(opened) >= 2
  /\ stdin \in 1 .. Len(opened) /\ stdout \in 1 .. Len(opened)
  /\ Descriptors <= OPEN_MAX
  /\ created \subseteq Missing
  /\ \A c \in children : c.in \in 1 .. stdin /\ c.out \in 1 .. stdout

IInv == ParserOK /\ FilesOK

LEMMA InitIInv == Init => IInv
<1> SUFFICES ASSUME Init PROVE IInv
  OBVIOUS
<1>1. IsSequence(argv) /\ Len(argv) = 0 /\ Len(argv) < MAXARGS - 1
  <2>1. <<>> \in Seq({})
    OBVIOUS
  <2> QED
    BY <2>1, RoomForArguments DEF Init, IsSequence
<1>2. IsSequence(opened) /\ Len(opened) = 2
  <2>1. opened \in Seq({TypedInput, Screen}) /\ Len(opened) = 2
    BY DEF Init
  <2> QED
    BY <2>1 DEF IsSequence
<1>3. ParserOK
  BY <1>1, RoomForArguments DEF Init, ParserOK
<1>4. FilesOK
  BY <1>2, RoomForStreams DEF Init, FilesOK, Descriptors
<1> QED
  BY <1>3, <1>4 DEF IInv

(* The end of parseline, with the arguments it has then. *)
LEMMA FinishKeepsParser ==
  ASSUME ParserOK, pc = "parse", NEW args, IsSequence(args), NEW state,
         Len(args) <= MAXARGS - 1, FinishWith(args, state),
         parsing_state' = parsing_state
  PROVE  ParserOK'
<1>1. pc' = "infile"
  BY DEF FinishWith, Return
<1>2. parse_result' \in {"PARSELINE_FG", "PARSELINE_BG",
                         "PARSELINE_EMPTY", "PARSELINE_ERROR"}
  BY DEF FinishWith, Return
<1>3. IsSequence(argv') /\ Len(argv') <= MAXARGS - 1
  <2>1. CASE argv' = args
    BY <2>1
  <2>2. CASE args # <<>> /\ argv' = SubSeq(args, 1, Len(args) - 1)
    <3>1. Len(args) \in Nat
      BY AppendSequence
    <3> QED
      BY <2>2, <3>1, FrontSequence, RoomForArguments
  <2> QED
    BY <2>1, <2>2 DEF FinishWith
<1> QED
  BY <1>1, <1>2, <1>3 DEF ParserOK, IsSequence

LEMMA ParseKeepsParser == ParserOK /\ ParseStep => ParserOK'
<1> SUFFICES ASSUME ParserOK, ParseStep PROVE ParserOK'
  OBVIOUS
<1>0. pc = "parse" /\ IsSequence(argv) /\ Len(argv) \in Nat
      /\ Len(argv) < MAXARGS - 1
  BY AppendSequence DEF ParserOK, ParseStep, Redirection, UnmatchedQuote, Argument,
    FileName, EndOfText
<1>1. CASE Redirection
  BY <1>1 DEF Redirection, Return, ParserOK, IsSequence
<1>2. CASE UnmatchedQuote
  BY <1>2 DEF UnmatchedQuote, Return, ParserOK, IsSequence
<1>3. CASE Argument
  <2> DEFINE args == Append(argv, token)
  <2>1. IsSequence(args) /\ Len(args) = Len(argv) + 1 /\ parsing_state' = parsing_state
    BY <1>0, <1>3, AppendSequence DEF Argument
  <2>2. CASE ArgvFull(args)
    <3>1. FinishWith(args, "ST_NORMAL")
      BY <1>3, <2>2, Zenon DEF Argument
    <3>2. Len(args) <= MAXARGS - 1
      BY <1>0, <2>1, RoomForArguments
    <3> HIDE DEF args
    <3> QED
      BY <1>0, <2>1, <3>1, <3>2, FinishKeepsParser
  <2>3. CASE ~ArgvFull(args)
    <3>1. argv' = args /\ pc' = pc /\ parse_result' = parse_result
      BY <1>3, <2>3, Zenon DEF Argument
    <3>2. Len(args) < MAXARGS - 1
      BY <1>0, <2>1, <2>3, RoomForArguments DEF ArgvFull
    <3> HIDE DEF args
    <3> QED
      BY <1>0, <2>1, <3>1, <3>2, RoomForArguments DEF ParserOK, IsSequence
  <2> QED
    BY <2>2, <2>3
<1>4. CASE FileName
  BY <1>4 DEF FileName, ParserOK, IsSequence
<1>5. CASE EndOfText
  <2>1. FinishWith(argv, parsing_state) /\ parsing_state' = parsing_state
    BY <1>5 DEF EndOfText
  <2> QED
    BY <1>0, <2>1, RoomForArguments, FinishKeepsParser
<1> QED
  BY <1>1, <1>2, <1>3, <1>4, <1>5 DEF ParseStep

LEMMA ParserStep == ParserOK /\ [Next]_vars => ParserOK'
<1> SUFFICES ASSUME ParserOK, [Next]_vars PROVE ParserOK'
  OBVIOUS
<1>1. CASE Parse
  BY <1>1, ParseKeepsParser DEF Parse
<1>2. CASE ReadLine
  <2>1. /\ pc' = "parse" /\ argv' = <<>> /\ parsing_state' = "ST_NORMAL"
        /\ parse_result' = parse_result
    BY <1>2 DEF ReadLine, StartParse
  <2>2. IsSequence(argv') /\ Len(argv') = 0
    <3>1. <<>> \in Seq({})
      OBVIOUS
    <3> QED
      BY <2>1, <3>1 DEF IsSequence
  <2> QED
    BY <2>1, <2>2, RoomForArguments DEF ParserOK, IsSequence
<1>3. ASSUME UNCHANGED parseVars,
             \/ pc' = pc
             \/ pc' \in {"read", "infile", "outfile", "eval", "wait", "exited"}
      PROVE  ParserOK'
  BY <1>3 DEF parseVars, ParserOK, IsSequence
<1>4. CASE EndOfFile \/ RedirectInput \/ RedirectOutput \/ EvalRejected \/ EvalQuit
             \/ EvalBuiltin \/ EvalFork \/ ForegroundEnded
  BY <1>3, <1>4 DEF EndOfFile, RedirectInput, RedirectOutput, EvalRejected, EvalQuit,
    EvalBuiltin, EvalFork, ForegroundEnded
<1>5. CASE FillBuffer \/ ChildStep \/ UNCHANGED vars
  BY <1>3, <1>5 DEF FillBuffer, ChildStep, ChildReads, ChildEnds, vars
<1> QED
  BY <1>1, <1>2, <1>4, <1>5 DEF Next, ShellStep, Ended

(* An open file read from keeps its place in the table. *)
LEMMA ReadKeepsFiles ==
  ASSUME FilesOK, NEW o \in 1 .. Len(opened), NEW e, opened' = [opened EXCEPT ![o] = e],
         UNCHANGED <<stdin, stdout, created, children>>
  PROVE  FilesOK'
<1>1. IsSequence(opened') /\ Len(opened') = Len(opened)
  BY ExceptSequence DEF FilesOK
<1> QED
  BY <1>1 DEF FilesOK, IsSequence, Descriptors

LEMMA FilesStep == FilesOK /\ [Next]_vars => FilesOK'
<1> SUFFICES ASSUME FilesOK, [Next]_vars PROVE FilesOK'
  OBVIOUS
<1>0. IsSequence(opened) /\ Len(opened) \in Nat
  BY AppendSequence DEF FilesOK
<1>1. CASE FillBuffer
  <2>1. PICK last : opened' = [opened EXCEPT ![stdin].pos = last + 1]
    BY <1>1 DEF FillBuffer
  <2>2. UNCHANGED <<stdin, stdout, created, children>>
    BY <1>1 DEF FillBuffer
  <2> QED
    BY <2>1, <2>2, ReadKeepsFiles DEF FilesOK
<1>2. CASE RedirectInput
  <2>1. CASE UNCHANGED <<opened, stdin>>
    BY <1>2, <2>1 DEF RedirectInput, FilesOK, Descriptors, IsSequence
  <2>2. CASE ~UNCHANGED <<opened, stdin>>
    <3>1. /\ Descriptors < OPEN_MAX
          /\ opened' = Append(opened, [file |-> Text(infile), pos |-> 1])
          /\ stdin' = Len(opened) + 1
      BY <1>2, <2>2 DEF RedirectInput, CanRead
    <3>2. IsSequence(opened') /\ Len(opened') = Len(opened) + 1
      BY <1>0, <3>1, AppendSequence
    <3>3. UNCHANGED <<stdout, created, children>>
      BY <1>2 DEF RedirectInput
    <3> QED
      BY <1>0, <3>1, <3>2, <3>3, RoomForStreams DEF FilesOK, Descriptors
  <2> QED
    BY <2>1, <2>2
<1>3. CASE RedirectOutput
  <2>1. CASE UNCHANGED <<opened, stdout, created>>
    BY <1>3, <2>1 DEF RedirectOutput, FilesOK, Descriptors, IsSequence
  <2>2. CASE ~UNCHANGED <<opened, stdout, created>>
    <3>1. /\ Descriptors < OPEN_MAX
          /\ opened' = Append(opened, [file |-> Text(outfile), pos |-> 1])
          /\ stdout' = Len(opened) + 1
          /\ created' = created \cup ({Text(outfile)} \cap Missing)
      BY <1>3, <2>2 DEF RedirectOutput, CanWrite
    <3>2. IsSequence(opened') /\ Len(opened') = Len(opened) + 1
      BY <1>0, <3>1, AppendSequence
    <3>3. UNCHANGED <<stdin, children>>
      BY <1>3 DEF RedirectOutput
    <3> QED
      BY <1>0, <3>1, <3>2, <3>3, RoomForStreams DEF FilesOK, Descriptors
  <2> QED
    BY <2>1, <2>2
<1>4. CASE EvalFork
  <2>1. /\ UNCHANGED <<opened, stdin, stdout, created>>
        /\ \A c \in children' :
             c \in children \/ (c.in = stdin /\ c.out = stdout)
    BY <1>4 DEF EvalFork
  <2> QED
    BY <1>0, <2>1 DEF FilesOK, Descriptors, IsSequence
<1>5. ASSUME NEW c \in children, ChildReads(c) PROVE FilesOK'
  <2>1. PICK last : opened' = [opened EXCEPT ![c.in].pos = last + 1]
    BY <1>5 DEF ChildReads
  <2>2. UNCHANGED <<stdin, stdout, created, children>>
    BY <1>5 DEF ChildReads
  <2>3. c.in \in 1 .. Len(opened)
    BY <1>0 DEF FilesOK
  <2> QED
    BY <2>1, <2>2, <2>3, ReadKeepsFiles
<1>6. ASSUME NEW c \in children, ChildEnds(c) PROVE FilesOK'
  BY <1>6 DEF ChildEnds, FilesOK, Descriptors, IsSequence
<1>7. ASSUME UNCHANGED <<opened, stdin, stdout, created, children>> PROVE FilesOK'
  BY <1>7 DEF FilesOK, Descriptors, IsSequence
<1>8. CASE ReadLine \/ EndOfFile \/ Parse \/ EvalRejected \/ EvalQuit \/ EvalBuiltin
             \/ ForegroundEnded \/ UNCHANGED vars
  BY <1>7, <1>8 DEF ReadLine, EndOfFile, Parse, EvalRejected, EvalQuit, EvalBuiltin,
    ForegroundEnded, vars, fileVars
<1> QED
  BY <1>1, <1>2, <1>3, <1>4, <1>5, <1>6, <1>8 DEF Next, ShellStep, ChildStep, Ended

LEMMA Invariance == Spec => []IInv
<1>1. IInv /\ [Next]_vars => IInv'
  BY ParserStep, FilesStep DEF IInv
<1> QED
  BY InitIInv, <1>1, PTL DEF Spec

(* argv never holds more than its array has room for, its closing NULL
   included, however long the line; descriptors 0 and 1 are always open files
   of the table, and the table never outgrows what a process may open
   (tsh_helper.c:66-190, tsh.c:166-182). *)
THEOREM RedirectTypes == Spec => []TypeOK
<1>1. IInv => TypeOK
  <2> SUFFICES ASSUME IInv PROVE TypeOK
    OBVIOUS
  <2>1. DOMAIN opened = 1 .. Len(opened)
    <3>1. PICK S : opened \in Seq(S)
      BY DEF IInv, FilesOK, IsSequence
    <3> QED
      BY <3>1
  <2> QED
    BY <2>1 DEF IInv, ParserOK, FilesOK, TypeOK
<1> QED
  BY <1>1, Invariance, PTL

(* Whatever is typed and whatever the files, once no process holds the input
   the shell was started with, no step gives it back or reads from it
   (tsh.c:173-182). *)
THEOREM TypedInputIsLost == Spec => TypedInputLost
<1>1. ASSUME IInv, [Next]_vars, TypedInputDropped
      PROVE  TypedInputDropped' /\ opened'[1] = opened[1]
  <2>0. /\ IsSequence(opened) /\ Len(opened) \in Nat /\ Len(opened) >= 2
        /\ stdin # 1 /\ \A c \in children : c.in # 1 /\ c.in \in 1 .. Len(opened)
        /\ stdin \in 1 .. Len(opened)
    BY <1>1, AppendSequence DEF IInv, FilesOK, TypedInputDropped
  <2>1. CASE FillBuffer
    <3>1. PICK last : opened' = [opened EXCEPT ![stdin].pos = last + 1]
      BY <2>1 DEF FillBuffer
    <3>2. UNCHANGED <<stdin, children>>
      BY <2>1 DEF FillBuffer
    <3> QED
      BY <2>0, <3>1, <3>2, ExceptSequence DEF TypedInputDropped
  <2>2. CASE RedirectInput
    <3>1. \/ UNCHANGED <<opened, stdin>>
          \/ /\ opened' = Append(opened, [file |-> Text(infile), pos |-> 1])
             /\ stdin' = Len(opened) + 1
      BY <2>2 DEF RedirectInput
    <3>2. children' = children
      BY <2>2 DEF RedirectInput
    <3> QED
      BY <2>0, <3>1, <3>2, AppendSequence DEF TypedInputDropped
  <2>3. CASE RedirectOutput
    <3>1. \/ opened' = opened
          \/ opened' = Append(opened, [file |-> Text(outfile), pos |-> 1])
      BY <2>3 DEF RedirectOutput
    <3>2. UNCHANGED <<stdin, children>>
      BY <2>3 DEF RedirectOutput
    <3> QED
      BY <2>0, <3>1, <3>2, AppendSequence DEF TypedInputDropped
  <2>4. CASE EvalFork
    <3>1. /\ UNCHANGED <<opened, stdin>>
          /\ \A c \in children' : c \in children \/ c.in = stdin
      BY <2>4 DEF EvalFork
    <3> QED
      BY <2>0, <3>1 DEF TypedInputDropped
  <2>5. ASSUME NEW c \in children, ChildReads(c)
        PROVE  TypedInputDropped' /\ opened'[1] = opened[1]
    <3>1. PICK last : opened' = [opened EXCEPT ![c.in].pos = last + 1]
      BY <2>5 DEF ChildReads
    <3>2. UNCHANGED <<stdin, children>>
      BY <2>5 DEF ChildReads
    <3>3. c.in # 1 /\ c.in \in 1 .. Len(opened)
      BY <2>0
    <3> QED
      BY <2>0, <3>1, <3>2, <3>3, ExceptSequence DEF TypedInputDropped
  <2>6. ASSUME NEW c \in children, ChildEnds(c)
        PROVE  TypedInputDropped' /\ opened'[1] = opened[1]
    BY <2>0, <2>6 DEF ChildEnds, TypedInputDropped
  <2>7. ASSUME UNCHANGED <<opened, stdin, children>>
        PROVE  TypedInputDropped' /\ opened'[1] = opened[1]
    BY <2>0, <2>7 DEF TypedInputDropped
  <2>8. CASE ReadLine \/ EndOfFile \/ Parse \/ EvalRejected \/ EvalQuit \/ EvalBuiltin
               \/ ForegroundEnded \/ UNCHANGED vars
    BY <2>7, <2>8 DEF ReadLine, EndOfFile, Parse, EvalRejected, EvalQuit, EvalBuiltin,
      ForegroundEnded, vars, fileVars
  <2> QED
    BY <1>1, <2>1, <2>2, <2>3, <2>4, <2>5, <2>6, <2>8
    DEF Next, ShellStep, ChildStep, Ended
<1>2. IInv /\ [Next]_vars =>
        [TypedInputDropped => TypedInputDropped' /\ opened'[1] = opened[1]]_vars
  BY <1>1
<1> QED
  BY <1>2, Invariance, PTL DEF Spec, TypedInputLost
-----------------------------------------------------------------------------
(***************************************************************************)
(* parseline cuts a line of any length into exactly its tokens.  While it  *)
(* runs, what lies before buf has been cut, and parsing_state tells which  *)
(* operators no token has followed yet.                                    *)
(***************************************************************************)

(* A nonempty set of natural numbers has a least element. *)
LEMMA LeastExists ==
  ASSUME NEW S, S \subseteq Nat, S # {}
  PROVE  \E x \in S : \A y \in S : x <= y
<1> DEFINE Less == {ss \in Nat \X Nat : ss[1] < ss[2]}
<1>1. OpToRel(<, Nat) = Less
  BY DEF OpToRel
<1>2. IsWellFoundedOn(Less, Nat)
  BY <1>1, NatLessThanWellFounded
<1> HIDE DEF Less
<1>3. PICK x \in S : \A y \in S : ~ (<<y, x>> \in Less)
  BY <1>2, WFMin, Zenon
<1>4. ASSUME NEW y \in S PROVE x <= y
  <2>1. ~ (<<y, x>> \in Less) /\ x \in Nat /\ y \in Nat
    BY <1>3
  <2> QED
    BY <2>1 DEF Less
<1> QED
  BY <1>4

(* strspn and strcspn always find a place. *)
LEMMA FirstOfFinds ==
  ASSUME Len(line) \in Nat, NEW S, NEW p \in Nat, p <= endbuf
  PROVE  /\ FirstOf(S, p) \in p .. endbuf
         /\ FirstOf(S, p) = endbuf \/ line[FirstOf(S, p)] \in S
         /\ \A r \in p .. FirstOf(S, p) - 1 : line[r] \notin S
<1> DEFINE D == {q \in p .. endbuf : q = endbuf \/ line[q] \in S}
<1>0. endbuf \in Nat
  BY DEF endbuf
<1>1. D \subseteq Nat /\ D # {}
  <2>1. endbuf \in D
    BY <1>0
  <2> QED
    BY <1>0, <2>1
<1>2. PICK m \in D : \A y \in D : m <= y
  <2> HIDE DEF D
  <2> QED
    BY <1>1, LeastExists
<1>3. ASSUME NEW r \in p .. m - 1 PROVE line[r] \notin S
  <2>1. r \in p .. endbuf /\ ~ (m <= r)
    BY <1>0, <1>2
  <2> QED
    BY <1>2, <2>1
<1>4. /\ m \in p .. endbuf
      /\ m = endbuf \/ line[m] \in S
      /\ \A r \in p .. m - 1 : line[r] \notin S
  BY <1>2, <1>3
<1> QED
  BY <1>4, Zenon DEF FirstOf

(* White space is skipped up to the next piece of text. *)
LEMMA HereSkips ==
  ASSUME line \in Seq(STRING), buf \in Nat, 1 <= buf, buf <= endbuf
  PROVE  /\ here \in buf .. endbuf
         /\ here = endbuf \/ line[here] \notin delims
         /\ \A r \in buf .. here - 1 : line[r] \in delims
<1>1. Len(line) \in Nat /\ endbuf = Len(line) + 1 /\ DOMAIN line = 1 .. Len(line)
  BY DEF endbuf
<1>2. /\ here \in buf .. endbuf
      /\ here = endbuf \/ line[here] \in Pieces \ delims
      /\ \A r \in buf .. here - 1 : line[r] \notin Pieces \ delims
  BY <1>1, FirstOfFinds DEF here
<1>3. ASSUME NEW r \in buf .. here - 1 PROVE line[r] \in delims
  <2>1. r \in DOMAIN line
    BY <1>1, <1>2
  <2>2. line[r] \in Pieces
    BY <2>1 DEF Pieces
  <2> QED
    BY <1>2, <2>2
<1> QED
  BY <1>2, <1>3

(* The tokens in the arguments args and in the files i and o. *)
Taken(args, i, o) == {args[k] : k \in DOMAIN args} \cup ({i, o} \ {NULL})

Token == [from : Nat, to : Nat]

(* The tokens lie apart from each other, before place b. *)
Fits(T, b) ==
  /\ \A t \in T : /\ t \in Token /\ Candidate(t)
                  /\ 1 <= t.from /\ t.from <= t.to /\ t.to <= Len(line) + 1 /\ t.to < b
  /\ \A t, u \in T : t = u \/ t.to < u.from \/ u.to < t.from

(* What lies before place b is in a token, around one, or no part of any. *)
Covers(T, b) ==
  \A p \in 1 .. Len(line) : p < b =>
    \/ line[p] \in delims \cup Operators
    \/ \E t \in T :
         \/ p \in t.from .. t.to - 1
         \/ line[p] \in Quotes /\ p \in {t.from - 1, t.to}

(* The operators that no token has followed yet. *)
Pending(T, b) ==
  {p \in 1 .. Len(line) : p < b /\ line[p] \in Operators /\ \A u \in T : u.to <= p}

LastIs(P, operator) == \E p \in P : line[p] = operator /\ \A q \in P : q <= p

Roles(args, i, o) ==
  LET T == Taken(args, i, o)
  IN  /\ \A k, m \in DOMAIN args : k < m => args[k].to < args[m].from
      /\ \A k \in DOMAIN args : OperatorsBefore(args[k], T) = {}
      /\ i # NULL => LastIs(OperatorsBefore(i, T), "<")
      /\ o # NULL => LastIs(OperatorsBefore(o, T), ">")

Expects(state, T, b, i, o) ==
  /\ state = "ST_NORMAL" => Pending(T, b) = {}
  /\ state = "ST_INFILE" => i = NULL /\ LastIs(Pending(T, b), "<")
  /\ state = "ST_OUTFILE" => o = NULL /\ LastIs(Pending(T, b), ">")

CutSoFar(args, i, o, b, state) ==
  LET T == Taken(args, i, o)
  IN  /\ Fits(T, b) /\ Covers(T, b) /\ Roles(args, i, o)
      /\ Expects(state, T, b, i, o)

(* A token that parseline cuts can be one, whatever comes before it. *)
LEMMA TokenIsCandidate ==
  ASSUME line \in Seq(STRING), buf \in Nat, 1 <= buf, MoreText,
         line[here] \notin Operators, ~(Quoted /\ token.to = endbuf)
  PROVE  /\ token \in Token /\ here <= token.from
         /\ token.from <= token.to /\ token.to <= endbuf
         /\ Candidate(token)
         /\ token.from = here \/ (token.from = here + 1 /\ line[here] \in Quotes)
         /\ \/ token.to = endbuf
            \/ line[token.to] \in delims
            \/ line[token.to] \in Quotes /\ token.from = here + 1
<1>0. Len(line) \in Nat /\ endbuf = Len(line) + 1
  BY DEF endbuf
<1>1. here \in Nat /\ 1 <= here /\ here < endbuf /\ line[here] \notin delims
  BY <1>0, HereSkips DEF MoreText
<1>2. CASE Quoted
  <2> DEFINE q == FirstOf({line[here]}, here + 1)
  <2>1. /\ q \in here + 1 .. endbuf
        /\ q = endbuf \/ line[q] = line[here]
        /\ \A r \in here + 1 .. q - 1 : line[r] # line[here]
    BY <1>0, <1>1, FirstOfFinds
  <2> HIDE DEF q
  <2>2. token = [from |-> here + 1, to |-> q]
    BY <1>2 DEF token, q
  <2>3. token.from = here + 1 /\ token.to = q /\ q # endbuf
    BY <1>2, <2>2
  <2>4. Candidate(token)
    BY <1>0, <1>1, <1>2, <2>1, <2>3 DEF Candidate, Quoted
  <2> QED
    BY <1>0, <1>1, <1>2, <2>1, <2>2, <2>3, <2>4 DEF Token, Quoted
<1>3. CASE ~Quoted
  <2> DEFINE q == FirstOf(delims, here)
  <2>1. /\ q \in here .. endbuf
        /\ q = endbuf \/ line[q] \in delims
        /\ \A r \in here .. q - 1 : line[r] \notin delims
    BY <1>0, <1>1, FirstOfFinds
  <2> HIDE DEF q
  <2>2. token = [from |-> here, to |-> q]
    BY <1>3 DEF token, q
  <2>3. token.from = here /\ token.to = q
    BY <2>2
  <2>4. here < q
    BY <1>0, <1>1, <2>1
  <2>5. Candidate(token)
    BY <1>1, <1>3, <2>1, <2>3, <2>4 DEF Candidate, Quoted
  <2> QED
    BY <1>0, <1>1, <2>1, <2>2, <2>3, <2>4, <2>5 DEF Token
<1> QED
  BY <1>2, <1>3

(* A new token n, which starts at place h or behind the quote there, takes
   the pending operators and leaves everything else as it was. *)
NewToken(n, h, b) ==
  /\ h \in Nat /\ b \in Nat /\ 1 <= b /\ b <= h /\ h <= Len(line)
  /\ \A r \in b .. h - 1 : line[r] \in delims
  /\ line[h] \notin Operators
  /\ n \in Token /\ h <= n.from /\ n.from <= n.to /\ n.to <= Len(line) + 1
  /\ Candidate(n)
  /\ n.from = h \/ (n.from = h + 1 /\ line[h] \in Quotes)
  /\ \/ n.to = Len(line) + 1
     \/ line[n.to] \in delims
     \/ line[n.to] \in Quotes /\ n.from = h + 1

LEMMA OperatorsStandApart ==
  ASSUME NEW x \in Operators
  PROVE  x \notin delims /\ x \notin Quotes
BY DEF Operators, delims, Quotes

LEMMA ParserMakesNewToken ==
  ASSUME line \in Seq(STRING), buf \in Nat, 1 <= buf, MoreText,
         line[here] \notin Operators, ~(Quoted /\ token.to = endbuf)
  PROVE  NewToken(token, here, buf)
<1>0. Len(line) \in Nat /\ endbuf = Len(line) + 1
  BY DEF endbuf
<1>1. /\ here \in buf .. endbuf /\ here < endbuf
      /\ \A r \in buf .. here - 1 : line[r] \in delims
  BY <1>0, HereSkips DEF MoreText
<1>2. here \in Nat /\ buf <= here /\ here <= Len(line)
  BY <1>0, <1>1
<1> QED
  BY <1>0, <1>1, <1>2, TokenIsCandidate DEF NewToken

LEMMA NewTokenFits ==
  ASSUME NEW T, NEW b, NEW h, NEW n, Len(line) \in Nat,
         Fits(T, b), NewToken(n, h, b)
  PROVE  Fits(T \cup {n}, n.to + 1)
<1>1. n.from \in Nat /\ n.to \in Nat
  BY DEF NewToken, Token
<1>2. ASSUME NEW t \in T
      PROVE  /\ t \in Token /\ t.from \in Nat /\ t.to \in Nat
             /\ 1 <= t.from /\ t.from <= t.to /\ t.to <= Len(line) + 1 /\ t.to < b
             /\ Candidate(t)
  BY DEF Fits, Token
<1>3. ASSUME NEW t \in T PROVE t.to < n.from /\ t.to < n.to + 1
  BY <1>1, <1>2 DEF NewToken
<1>4. ASSUME NEW t \in T \cup {n}
      PROVE  /\ t \in Token /\ Candidate(t)
             /\ 1 <= t.from /\ t.from <= t.to /\ t.to <= Len(line) + 1 /\ t.to < n.to + 1
  <2>1. CASE t \in T
    BY <1>2, <1>3, <2>1
  <2>2. CASE t = n
    BY <1>1, <2>2 DEF NewToken
  <2> QED
    BY <2>1, <2>2
<1>5. ASSUME NEW t \in T \cup {n}, NEW u \in T \cup {n}
      PROVE  t = u \/ t.to < u.from \/ u.to < t.from
  <2>1. CASE t \in T /\ u \in T
    BY <2>1 DEF Fits
  <2>2. CASE t = n \/ u = n
    BY <1>3, <2>2
  <2> QED
    BY <2>1, <2>2
<1> QED
  BY <1>4, <1>5 DEF Fits

LEMMA NewTokenCovers ==
  ASSUME NEW T, NEW b, NEW h, NEW n, Len(line) \in Nat,
         Covers(T, b), NewToken(n, h, b)
  PROVE  Covers(T \cup {n}, n.to + 1)
<1>1. n.from \in Nat /\ n.to \in Nat
  BY DEF NewToken, Token
<1>2. SUFFICES ASSUME NEW p \in 1 .. Len(line), p < n.to + 1,
                      line[p] \notin delims \cup Operators
               PROVE  \E t \in T \cup {n} :
                        \/ p \in t.from .. t.to - 1
                        \/ line[p] \in Quotes /\ p \in {t.from - 1, t.to}
  BY DEF Covers
<1>3. CASE p < b
  BY <1>2, <1>3 DEF Covers
<1>4. CASE ~ (p < b)
  <2>1. ~ (p < h)
    BY <1>2, <1>4 DEF NewToken
  <2>2. \/ p \in n.from .. n.to - 1
        \/ line[p] \in Quotes /\ p \in {n.from - 1, n.to}
    BY <1>1, <1>2, <2>1 DEF NewToken
  <2> QED
    BY <2>2
<1> QED
  BY <1>3, <1>4

LEMMA NewTokenOperators ==
  ASSUME NEW T, NEW b, NEW h, NEW n, Len(line) \in Nat,
         Fits(T, b), NewToken(n, h, b)
  PROVE  /\ \A t \in T : OperatorsBefore(t, T \cup {n}) = OperatorsBefore(t, T)
         /\ OperatorsBefore(n, T \cup {n}) = Pending(T, b)
         /\ Pending(T \cup {n}, n.to + 1) = {}
<1>1. n.from \in Nat /\ n.to \in Nat
  BY DEF NewToken, Token
<1>2. ASSUME NEW t \in T
      PROVE  t.from \in Nat /\ t.to \in Nat /\ t.from <= t.to /\ t.to < b /\ t.to < n.from
  <2>1. t.from \in Nat /\ t.to \in Nat /\ t.from <= t.to /\ t.to < b
    BY DEF Fits, Token
  <2> QED
    BY <1>1, <2>1 DEF NewToken
<1>3. ASSUME NEW t \in T
      PROVE  OperatorsBefore(t, T \cup {n}) = OperatorsBefore(t, T)
  <2>1. n.from >= t.from
    BY <1>1, <1>2
  <2> QED
    BY <2>1 DEF OperatorsBefore
<1>4. OperatorsBefore(n, T \cup {n}) = Pending(T, b)
  <2>1. ASSUME NEW p \in OperatorsBefore(n, T \cup {n}) PROVE p \in Pending(T, b)
    <3>1. p \in 1 .. n.from - 1 /\ line[p] \in Operators
      BY DEF OperatorsBefore
    <3>2. \A u \in T : u.to <= p
      <4>1. \A u \in T : u.to <= p \/ u.from >= n.from
        BY DEF OperatorsBefore
      <4> QED
        BY <1>1, <1>2, <4>1
    <3>3. p < b
      BY <1>1, <3>1, OperatorsStandApart DEF NewToken
    <3>4. p \in 1 .. Len(line)
      BY <1>1, <3>1, <3>3 DEF NewToken
    <3> QED
      BY <3>1, <3>2, <3>3, <3>4 DEF Pending
  <2>2. ASSUME NEW p \in Pending(T, b) PROVE p \in OperatorsBefore(n, T \cup {n})
    <3>1. /\ p \in 1 .. Len(line) /\ p < b /\ line[p] \in Operators
          /\ \A u \in T : u.to <= p
      BY DEF Pending
    <3>2. p \in 1 .. n.from - 1
      BY <1>1, <3>1 DEF NewToken
    <3>3. n.from >= n.from
      BY <1>1
    <3> QED
      BY <3>1, <3>2, <3>3 DEF OperatorsBefore
  <2> QED
    BY <2>1, <2>2
<1>5. ASSUME NEW p \in Pending(T \cup {n}, n.to + 1) PROVE FALSE
  <2>1. /\ p \in 1 .. Len(line) /\ p < n.to + 1 /\ n.to <= p
        /\ line[p] \in Operators
    BY DEF Pending
  <2>2. p = n.to
    BY <1>1, <2>1
  <2> QED
    BY <1>1, <2>1, <2>2, OperatorsStandApart DEF NewToken
<1> QED
  BY <1>3, <1>4, <1>5

(* What becomes of the tokens T when n is added to them. *)
Adds(T, n, b) ==
  LET U == T \cup {n}
  IN  /\ Fits(U, n.to + 1) /\ Covers(U, n.to + 1) /\ Pending(U, n.to + 1) = {}
      /\ \A t \in T : OperatorsBefore(t, U) = OperatorsBefore(t, T)
      /\ OperatorsBefore(n, U) = Pending(T, b)

LEMMA NewTokenAdds ==
  ASSUME NEW T, NEW b, NEW h, NEW n, Len(line) \in Nat,
         Fits(T, b), Covers(T, b), NewToken(n, h, b)
  PROVE  Adds(T, n, b)
<1>1. Fits(T \cup {n}, n.to + 1)
  BY NewTokenFits, Zenon
<1>2. Covers(T \cup {n}, n.to + 1)
  BY NewTokenCovers, Zenon
<1>3. /\ \A t \in T : OperatorsBefore(t, T \cup {n}) = OperatorsBefore(t, T)
      /\ OperatorsBefore(n, T \cup {n}) = Pending(T, b)
      /\ Pending(T \cup {n}, n.to + 1) = {}
  BY NewTokenOperators, Zenon
<1> QED
  BY <1>1, <1>2, <1>3, Zenon DEF Adds

LEMMA TakenArgument ==
  ASSUME NEW args \in Seq(Token), NEW n \in Token, NEW i, NEW o
  PROVE  Taken(Append(args, n), i, o) = Taken(args, i, o) \cup {n}
<1>1. /\ DOMAIN args = 1 .. Len(args) /\ Len(args) \in Nat
      /\ DOMAIN Append(args, n) = 1 .. Len(args) + 1
      /\ Append(args, n)[Len(args) + 1] = n
      /\ \A k \in 1 .. Len(args) : Append(args, n)[k] = args[k]
  OBVIOUS
<1>2. {Append(args, n)[k] : k \in DOMAIN Append(args, n)} = {args[k] : k \in DOMAIN args} \cup {n}
  <2>1. ASSUME NEW k \in 1 .. Len(args) + 1
        PROVE  Append(args, n)[k] \in {args[m] : m \in 1 .. Len(args)} \cup {n}
    BY <1>1
  <2>2. ASSUME NEW k \in 1 .. Len(args)
        PROVE  args[k] \in {Append(args, n)[m] : m \in 1 .. Len(args) + 1}
    <3>1. k \in 1 .. Len(args) + 1
      BY <1>1
    <3> QED
      BY <1>1, <3>1
  <2>3. n \in {Append(args, n)[m] : m \in 1 .. Len(args) + 1}
    <3>1. Len(args) + 1 \in 1 .. Len(args) + 1
      BY <1>1
    <3> QED
      BY <1>1, <3>1
  <2> QED
    BY <1>1, <2>1, <2>2, <2>3
<1> QED
  BY <1>2 DEF Taken

(* The three things that parseline does with what it finds. *)
LEMMA CutArgument ==
  ASSUME NEW args \in Seq(Token), NEW i, NEW o, NEW b, NEW h, NEW n, Len(line) \in Nat,
         CutSoFar(args, i, o, b, "ST_NORMAL"), NewToken(n, h, b)
  PROVE  CutSoFar(Append(args, n), i, o, n.to + 1, "ST_NORMAL")
<1> DEFINE T == Taken(args, i, o)
           U == Taken(Append(args, n), i, o)
<1>1. /\ DOMAIN args = 1 .. Len(args) /\ Len(args) \in Nat
      /\ DOMAIN Append(args, n) = 1 .. Len(args) + 1
      /\ Append(args, n)[Len(args) + 1] = n
      /\ \A k \in 1 .. Len(args) : Append(args, n)[k] = args[k]
  OBVIOUS
<1>2. /\ Fits(T, b) /\ Covers(T, b) /\ Roles(args, i, o) /\ Pending(T, b) = {}
  BY DEF CutSoFar, Expects
<1>3. n \in Token /\ U = T \cup {n}
  BY TakenArgument DEF NewToken
<1>4. \A k \in 1 .. Len(args) : args[k] \in T
  BY <1>1 DEF Taken
<1>5. (i # NULL => i \in T) /\ (o # NULL => o \in T)
  BY DEF Taken
<1> HIDE DEF T, U
<1>6. /\ Fits(U, n.to + 1) /\ Covers(U, n.to + 1) /\ Pending(U, n.to + 1) = {}
      /\ \A t \in T : OperatorsBefore(t, U) = OperatorsBefore(t, T)
      /\ OperatorsBefore(n, U) = {}
  <2>1. Adds(T, n, b)
    BY <1>2, NewTokenAdds, Zenon
  <2> QED
    BY <1>2, <1>3, <2>1 DEF Adds
<1>7. ASSUME NEW k \in 1 .. Len(args) + 1, NEW m \in 1 .. Len(args) + 1, k < m
      PROVE  Append(args, n)[k].to < Append(args, n)[m].from
  <2>1. k \in 1 .. Len(args)
    BY <1>1, <1>7
  <2>2. CASE m \in 1 .. Len(args)
    BY <1>1, <1>2, <1>7, <2>1, <2>2 DEF Roles
  <2>3. CASE m = Len(args) + 1
    <3>1. args[k].to \in Nat /\ args[k].to < b
      BY <1>2, <1>4, <2>1 DEF Fits, Token
    <3>2. b <= n.from /\ b \in Nat /\ n.from \in Nat
      BY DEF NewToken, Token
    <3> QED
      BY <1>1, <2>1, <2>3, <3>1, <3>2
  <2> QED
    BY <1>1, <2>2, <2>3
<1>8. ASSUME NEW k \in 1 .. Len(args) + 1
      PROVE  OperatorsBefore(Append(args, n)[k], U) = {}
  <2>1. CASE k \in 1 .. Len(args)
    <3>1. OperatorsBefore(args[k], T) = {}
      BY <1>1, <1>2, <2>1 DEF Roles, T
    <3> QED
      BY <1>1, <1>4, <1>6, <2>1, <3>1
  <2>2. CASE k = Len(args) + 1
    BY <1>1, <1>6, <2>2
  <2> QED
    BY <1>1, <2>1, <2>2
<1>9. /\ i # NULL => LastIs(OperatorsBefore(i, U), "<")
      /\ o # NULL => LastIs(OperatorsBefore(o, U), ">")
  BY <1>2, <1>5, <1>6 DEF Roles, T
<1>10. Roles(Append(args, n), i, o)
  BY <1>1, <1>7, <1>8, <1>9 DEF Roles, U
<1>11. Expects("ST_NORMAL", U, n.to + 1, i, o)
  BY <1>6 DEF Expects
<1> QED
  BY <1>6, <1>10, <1>11 DEF CutSoFar, U

LEMMA CutInfile ==
  ASSUME NEW args \in Seq(Token), NEW i, NEW o, NEW b, NEW h, NEW n, Len(line) \in Nat,
         CutSoFar(args, i, o, b, "ST_INFILE"), NewToken(n, h, b)
  PROVE  CutSoFar(args, n, o, n.to + 1, "ST_NORMAL")
<1> DEFINE T == Taken(args, i, o)
           U == Taken(args, n, o)
<1>1. /\ Fits(T, b) /\ Covers(T, b) /\ Roles(args, i, o)
      /\ i = NULL /\ LastIs(Pending(T, b), "<")
  BY DEF CutSoFar, Expects
<1>2. n # NULL
  BY DEF NewToken, NULL, Token
<1>3. U = T \cup {n}
  BY <1>1, <1>2 DEF Taken
<1>4. \A k \in DOMAIN args : args[k] \in T
  BY DEF Taken
<1>5. o # NULL => o \in T
  BY DEF Taken
<1> HIDE DEF T, U
<1>6. /\ Fits(U, n.to + 1) /\ Covers(U, n.to + 1) /\ Pending(U, n.to + 1) = {}
      /\ \A t \in T : OperatorsBefore(t, U) = OperatorsBefore(t, T)
      /\ OperatorsBefore(n, U) = Pending(T, b)
  <2>1. Adds(T, n, b)
    BY <1>1, NewTokenAdds, Zenon
  <2> QED
    BY <1>1, <1>3, <2>1 DEF Adds
<1>7. \A k, m \in DOMAIN args : k < m => args[k].to < args[m].from
  BY <1>1 DEF Roles
<1>8. \A k \in DOMAIN args : OperatorsBefore(args[k], U) = {}
  <2>1. \A k \in DOMAIN args : OperatorsBefore(args[k], T) = {}
    BY <1>1 DEF Roles, T
  <2> QED
    BY <1>4, <1>6, <2>1
<1>9. /\ LastIs(OperatorsBefore(n, U), "<")
      /\ o # NULL => LastIs(OperatorsBefore(o, U), ">")
  BY <1>1, <1>5, <1>6 DEF Roles, T
<1>10. Roles(args, n, o)
  BY <1>7, <1>8, <1>9 DEF Roles, U
<1>11. Expects("ST_NORMAL", U, n.to + 1, n, o)
  BY <1>6 DEF Expects
<1> QED
  BY <1>6, <1>10, <1>11 DEF CutSoFar, U

LEMMA CutOutfile ==
  ASSUME NEW args \in Seq(Token), NEW i, NEW o, NEW b, NEW h, NEW n, Len(line) \in Nat,
         CutSoFar(args, i, o, b, "ST_OUTFILE"), NewToken(n, h, b)
  PROVE  CutSoFar(args, i, n, n.to + 1, "ST_NORMAL")
<1> DEFINE T == Taken(args, i, o)
           U == Taken(args, i, n)
<1>1. /\ Fits(T, b) /\ Covers(T, b) /\ Roles(args, i, o)
      /\ o = NULL /\ LastIs(Pending(T, b), ">")
  BY DEF CutSoFar, Expects
<1>2. n # NULL
  BY DEF NewToken, NULL, Token
<1>3. U = T \cup {n}
  BY <1>1, <1>2 DEF Taken
<1>4. \A k \in DOMAIN args : args[k] \in T
  BY DEF Taken
<1>5. i # NULL => i \in T
  BY DEF Taken
<1> HIDE DEF T, U
<1>6. /\ Fits(U, n.to + 1) /\ Covers(U, n.to + 1) /\ Pending(U, n.to + 1) = {}
      /\ \A t \in T : OperatorsBefore(t, U) = OperatorsBefore(t, T)
      /\ OperatorsBefore(n, U) = Pending(T, b)
  <2>1. Adds(T, n, b)
    BY <1>1, NewTokenAdds, Zenon
  <2> QED
    BY <1>1, <1>3, <2>1 DEF Adds
<1>7. \A k, m \in DOMAIN args : k < m => args[k].to < args[m].from
  BY <1>1 DEF Roles
<1>8. \A k \in DOMAIN args : OperatorsBefore(args[k], U) = {}
  <2>1. \A k \in DOMAIN args : OperatorsBefore(args[k], T) = {}
    BY <1>1 DEF Roles, T
  <2> QED
    BY <1>4, <1>6, <2>1
<1>9. /\ LastIs(OperatorsBefore(n, U), ">")
      /\ i # NULL => LastIs(OperatorsBefore(i, U), "<")
  BY <1>1, <1>5, <1>6 DEF Roles, T
<1>10. Roles(args, i, n)
  BY <1>7, <1>8, <1>9 DEF Roles, U
<1>11. Expects("ST_NORMAL", U, n.to + 1, i, n)
  BY <1>6 DEF Expects
<1> QED
  BY <1>6, <1>10, <1>11 DEF CutSoFar, U

(* The text skipped from b ends at h, at an operator; and the state parseline
   goes to for a redirection it has not seen yet. *)
OperatorAt(h, b) ==
  /\ b \in Nat \ {0} /\ h \in Nat /\ b <= h /\ h <= Len(line)
  /\ \A r \in b .. h - 1 : line[r] \in delims
  /\ line[h] \in Operators

Opens(new, h, i, o) ==
  \/ new = "ST_INFILE" /\ line[h] = "<" /\ i = NULL
  \/ new = "ST_OUTFILE" /\ line[h] = ">" /\ o = NULL

LEMMA CutOperator ==
  ASSUME NEW args, NEW i, NEW o, NEW b, NEW h, NEW state, NEW new,
         Len(line) \in Nat,
         CutSoFar(args, i, o, b, state), OperatorAt(h, b), Opens(new, h, i, o)
  PROVE  CutSoFar(args, i, o, h + 1, new)
<1>0. /\ b \in Nat \ {0} /\ h \in Nat /\ b <= h /\ h <= Len(line)
      /\ \A r \in b .. h - 1 : line[r] \in delims
      /\ line[h] \in Operators
      /\ \/ new = "ST_INFILE" /\ line[h] = "<" /\ i = NULL
         \/ new = "ST_OUTFILE" /\ line[h] = ">" /\ o = NULL
  BY DEF OperatorAt, Opens
<1> DEFINE T == Taken(args, i, o)
<1>1. Fits(T, b) /\ Covers(T, b) /\ Roles(args, i, o)
  BY DEF CutSoFar
<1> HIDE DEF T
<1>2. Fits(T, h + 1)
  <2>1. ASSUME NEW t \in T PROVE t.to \in Nat /\ t.to < h + 1
    BY <1>0, <1>1 DEF Fits, Token
  <2> QED
    BY <1>0, <1>1, <2>1 DEF Fits
<1>3. Covers(T, h + 1)
  <2> SUFFICES ASSUME NEW p \in 1 .. Len(line), p < h + 1,
                      line[p] \notin delims \cup Operators
               PROVE  \E t \in T :
                        \/ p \in t.from .. t.to - 1
                        \/ line[p] \in Quotes /\ p \in {t.from - 1, t.to}
    BY DEF Covers
  <2>1. p < b
    <3>1. ~ (p \in b .. h - 1) /\ p # h
      BY <1>0
    <3> QED
      BY <1>0, <3>1
  <2> QED
    BY <1>0, <1>1, <2>1 DEF Covers
<1>4. LastIs(Pending(T, h + 1), line[h])
  <2>1. \A u \in T : u.to <= h
    BY <1>0, <1>1 DEF Fits, Token
  <2>3. h \in Pending(T, h + 1)
    BY <1>0, <2>1 DEF Pending
  <2>4. \A q \in Pending(T, h + 1) : q <= h
    BY <1>0 DEF Pending
  <2> QED
    BY <2>3, <2>4 DEF LastIs
<1>5. Expects(new, T, h + 1, i, o)
  BY <1>0, <1>4 DEF Expects
<1> QED
  BY <1>1, <1>2, <1>3, <1>5 DEF CutSoFar, T

(* When nothing but white space is left, or argv is full, the line is
   accounted for. *)
LEMMA CutAccounts ==
  ASSUME line \in Seq(STRING), NEW args \in Seq(Token), NEW b \in Nat,
         CutSoFar(args, infile, outfile, b, "ST_NORMAL"),
         ArgvFull(args) => args[Len(args)].to <= b,
         ~ArgvFull(args) =>
            \A p \in 1 .. Len(line) : p < b \/ line[p] \in delims
  PROVE  AccountsFor(args)
<1> DEFINE A == {args[k] : k \in DOMAIN args}
           T == A \cup ({infile, outfile} \ {NULL})
           seen == IF ArgvFull(args) THEN args[Len(args)].to ELSE endbuf
<1>0. /\ Len(line) \in Nat /\ endbuf = Len(line) + 1
      /\ Len(args) \in Nat /\ DOMAIN args = 1 .. Len(args)
  BY DEF endbuf
<1>1. /\ Fits(T, b) /\ Covers(T, b) /\ Roles(args, infile, outfile)
      /\ T = Taken(args, infile, outfile)
  BY DEF CutSoFar, Taken
<1> HIDE DEF T
<1>2. \A t \in T : Candidate(t)
  BY <1>1 DEF Fits
<1>3. \A t, u \in T : t = u \/ t.to < u.from \/ u.to < t.from
  BY <1>1 DEF Fits
<1>4. \A k, m \in DOMAIN args : k < m => args[k].to < args[m].from
  BY <1>1 DEF Roles
<1>5. \A t \in A : OperatorsBefore(t, T) = {}
  BY <1>1 DEF Roles
<1>6. ASSUME NEW t \in T, NEW piece, LastIs(OperatorsBefore(t, T), piece)
      PROVE  OperatorsBefore(t, T) # {} /\ LastOperator(t, T) = piece
  <2> DEFINE P == OperatorsBefore(t, T)
  <2>1. PICK p \in P : line[p] = piece /\ \A q \in P : q <= p
    BY <1>6 DEF LastIs
  <2>2. P \subseteq Nat
    <3>1. t.from \in Nat
      BY <1>1 DEF Fits, Token
    <3> QED
      BY <3>1 DEF OperatorsBefore
  <2> DEFINE last == CHOOSE x \in P : \A q \in P : q <= x
  <2> HIDE DEF P
  <2>3. last \in P /\ \A q \in P : q <= last
    BY <2>1
  <2> HIDE DEF last
  <2>4. last = p
    <3>1. last <= p /\ p <= last /\ last \in Nat /\ p \in Nat
      BY <2>1, <2>2, <2>3
    <3> QED
      BY <3>1
  <2>5. LastOperator(t, T) = line[last]
    BY DEF LastOperator, last, P
  <2> QED
    BY <2>1, <2>4, <2>5 DEF P
<1>7. infile # NULL => OperatorsBefore(infile, T) # {} /\ LastOperator(infile, T) = "<"
  <2>1. infile # NULL => infile \in T /\ LastIs(OperatorsBefore(infile, T), "<")
    BY <1>1 DEF Roles, T
  <2> QED
    BY <1>6, <2>1
<1>8. outfile # NULL => OperatorsBefore(outfile, T) # {} /\ LastOperator(outfile, T) = ">"
  <2>1. outfile # NULL => outfile \in T /\ LastIs(OperatorsBefore(outfile, T), ">")
    BY <1>1 DEF Roles, T
  <2> QED
    BY <1>6, <2>1
<1>9. \A p \in 1 .. seen - 1 :
        \/ line[p] \in delims \cup Operators
        \/ \E t \in T :
             \/ p \in t.from .. t.to - 1
             \/ line[p] \in Quotes /\ p \in {t.from - 1, t.to}
  <2>1. CASE ArgvFull(args)
    <3>1. Len(args) \in DOMAIN args
      BY <1>0, <2>1, RoomForArguments DEF ArgvFull
    <3>2. /\ seen = args[Len(args)].to /\ seen \in Nat /\ seen <= b
          /\ seen <= Len(line) + 1
      <4>1. args[Len(args)] \in T
        BY <3>1 DEF T
      <4> QED
        BY <1>1, <2>1, <4>1 DEF Fits, Token
    <3>3. \A p \in 1 .. seen - 1 : p \in 1 .. Len(line) /\ p < b
      BY <1>0, <3>2
    <3> QED
      BY <1>1, <3>3 DEF Covers
  <2>2. CASE ~ArgvFull(args)
    <3>1. seen - 1 = Len(line)
      BY <1>0, <2>2
    <3> QED
      BY <1>1, <2>2, <3>1 DEF Covers
  <2> QED
    BY <2>1, <2>2
<1> QED
  BY <1>2, <1>3, <1>4, <1>5, <1>7, <1>8, <1>9 DEF AccountsFor, T

LEMMA LastOfArguments ==
  ASSUME NEW args \in Seq(Token), args # <<>>
  PROVE  /\ SubSeq(args, 1, Len(args) - 1) \in Seq(Token)
         /\ Append(SubSeq(args, 1, Len(args) - 1), args[Len(args)]) = args
         /\ Len(args) \in DOMAIN args
<1>1. /\ Len(args) \in Nat \ {0} /\ DOMAIN args = 1 .. Len(args)
      /\ \A k \in 1 .. Len(args) : args[k] \in Token
  OBVIOUS
<1> DEFINE front == SubSeq(args, 1, Len(args) - 1)
<1>2. /\ front \in Seq(Token) /\ Len(front) = Len(args) - 1
      /\ \A k \in 1 .. Len(args) - 1 : front[k] = args[k]
  <2>1. \A k \in 1 .. Len(args) - 1 : args[k] \in Token
    BY <1>1
  <2>2. Len(args) - 1 \in Int
    BY <1>1
  <2>3. /\ front \in Seq(Token)
        /\ Len(front) = IF 1 <= Len(args) - 1 THEN Len(args) - 1 - 1 + 1 ELSE 0
        /\ \A k \in 1 .. Len(args) - 1 - 1 + 1 : front[k] = args[1 + k - 1]
    BY <2>1, <2>2, SubSeqProperties
  <2> HIDE DEF front
  <2>4. ASSUME NEW n \in Nat \ {0}
        PROVE  /\ (IF 1 <= n - 1 THEN n - 1 - 1 + 1 ELSE 0) = n - 1
               /\ n - 1 - 1 + 1 = n - 1
               /\ \A k \in 1 .. n - 1 : 1 + k - 1 = k
    BY SMT
  <2>5. Len(front) = Len(args) - 1
    BY <1>1, <2>3, <2>4, Zenon
  <2>6. \A k \in 1 .. Len(args) - 1 : front[k] = args[1 + k - 1]
    BY <1>1, <2>3, <2>4, Zenon
  <2>7. \A k \in 1 .. Len(args) - 1 : front[k] = args[k]
    BY <1>1, <2>4, <2>6, Zenon
  <2> QED
    BY <2>3, <2>5, <2>7, Zenon
<1> HIDE DEF front
<1>3. args[Len(args)] \in Token
  BY <1>1
<1>4. Append(front, args[Len(args)]) = args
  <2> DEFINE a == Append(front, args[Len(args)])
  <2>1. /\ a \in Seq(Token) /\ Len(a) = Len(front) + 1
        /\ a[Len(front) + 1] = args[Len(args)]
        /\ \A k \in 1 .. Len(front) : a[k] = front[k]
    BY <1>2, <1>3
  <2> HIDE DEF a
  <2>2. a = args
    <3>1. Len(a) = Len(args)
      BY <1>1, <1>2, <2>1
    <3>2. ASSUME NEW k \in 1 .. Len(args) PROVE a[k] = args[k]
      <4>1. k = Len(args) \/ k \in 1 .. Len(args) - 1
        <5>1. ASSUME NEW n \in Nat \ {0}, NEW m \in 1 .. n PROVE m = n \/ m \in 1 .. n - 1
          BY SMT
        <5> QED
          BY <1>1, <5>1, Zenon
      <4>2. Len(front) + 1 = Len(args)
        BY <1>1, <1>2
      <4> QED
        BY <1>2, <2>1, <4>1, <4>2
    <3> QED
      BY <2>1, <3>1, <3>2, SeqEqual
  <2> QED
    BY <2>2 DEF a
<1> QED
  BY <1>1, <1>2, <1>4 DEF front

-----------------------------------------------------------------------------
(* The inductive invariant: all that has been read is made of pieces, and    *)
(* parseline has cut what lies before buf into tokens.                       *)

ParseInv ==
  /\ line \in Seq(STRING)
  /\ argv \in Seq(Token) /\ infile \in Token /\ outfile \in Token
  /\ pc = "parse" => /\ buf \in Nat \ {0}
                     /\ CutSoFar(argv, infile, outfile, buf, parsing_state)
  /\ TokensTile

InputOK ==
  /\ typed \in Sessions
  /\ buffer \in Seq(Seq(STRING))
  /\ \A k \in 1 .. Len(opened) : "pos" \in DOMAIN opened[k] /\ opened[k].pos \in Nat \ {0}

(* What was cut stays cut while the line stays. *)
LEMMA CutFrame ==
  ASSUME line' = line, CutSoFar(argv', infile', outfile', buf', parsing_state')
  PROVE  CutSoFar(argv, infile, outfile, buf, parsing_state)'
BY DEF CutSoFar, Taken, Fits, Covers, Roles, Expects, Pending, LastIs, Candidate,
       OperatorsBefore, endbuf

LEMMA AccountFrame ==
  ASSUME UNCHANGED <<line, infile, outfile>>, NEW CONSTANT args, AccountsFor(args)
  PROVE  AccountsFor(args)'
BY DEF AccountsFor, Candidate, OperatorsBefore, LastOperator, endbuf

(* What parseline returns, said of the line it was given. *)
LEMMA TilesReturned ==
  ASSUME UNCHANGED <<line, infile, outfile>>,
         parse_result' = "PARSELINE_FG" =>
           AccountsFor(argv') /\ ~StartsWith(argv'[Len(argv')], "&"),
         parse_result' = "PARSELINE_BG" =>
           \E from, to \in 1 .. endbuf :
             LET last == [from |-> from, to |-> to]
             IN  StartsWith(last, "&") /\ AccountsFor(Append(argv', last))
  PROVE  TokensTile'
<1>1. CASE parse_result' = "PARSELINE_FG"
  <2>1. AccountsFor(argv)'
    <3>1. PICK args : args = argv'
      OBVIOUS
    <3>2. AccountsFor(args)'
      BY <1>1, <3>1, AccountFrame
    <3> QED
      BY <3>1, <3>2
  <2>2. ~StartsWith(argv[Len(argv)], "&")'
    BY <1>1 DEF StartsWith
  <2> QED
    BY <1>1, <2>1, <2>2 DEF TokensTile
<1>2. CASE parse_result' = "PARSELINE_BG"
  <2>1. PICK from \in 1 .. endbuf, to \in 1 .. endbuf :
           /\ StartsWith([from |-> from, to |-> to], "&")
           /\ AccountsFor(Append(argv', [from |-> from, to |-> to]))
    BY <1>2
  <2>3. AccountsFor(Append(argv, [from |-> from, to |-> to]))'
    <3>1. PICK args : args = Append(argv', [from |-> from, to |-> to])
      OBVIOUS
    <3>2. AccountsFor(args)'
      BY <2>1, <3>1, AccountFrame
    <3> QED
      BY <3>1, <3>2
  <2>4. StartsWith([from |-> from, to |-> to], "&")'
    BY <2>1 DEF StartsWith
  <2>5. endbuf' = endbuf
    BY DEF endbuf
  <2>6. (\E f, t \in 1 .. endbuf :
           StartsWith([from |-> f, to |-> t], "&")
           /\ AccountsFor(Append(argv, [from |-> f, to |-> t])))'
    BY <2>3, <2>4, <2>5, Zenon
  <2> QED
    BY <1>2, <2>6, Zenon DEF TokensTile
<1> QED
  BY <1>1, <1>2 DEF TokensTile

(* The end of parseline, with the arguments that account for the line. *)
LEMMA FinishTiles ==
  ASSUME UNCHANGED <<line, infile, outfile>>, Len(line) \in Nat,
         NEW args \in Seq(Token), NEW state, FinishWith(args, state),
         args # <<>> => /\ args[Len(args)].from \in 1 .. Len(line) + 1
                        /\ args[Len(args)].to \in 1 .. Len(line) + 1,
         state = "ST_NORMAL" => AccountsFor(args)
  PROVE  TokensTile' /\ argv' \in Seq(Token) /\ pc' = "infile"
<1>1. CASE state # "ST_NORMAL" \/ args = <<>>
  <2>1. argv' = args /\ pc' = "infile"
        /\ parse_result' \in {"PARSELINE_ERROR", "PARSELINE_EMPTY"}
    BY <1>1 DEF FinishWith, Return
  <2> QED
    BY <2>1 DEF TokensTile
<1>2. CASE state = "ST_NORMAL" /\ args # <<>> /\ StartsWith(args[Len(args)], "&")
  <2>1. /\ argv' = SubSeq(args, 1, Len(args) - 1) /\ pc' = "infile"
        /\ parse_result' = "PARSELINE_BG"
    BY <1>2 DEF FinishWith, Return
  <2>2. argv' \in Seq(Token) /\ Append(argv', args[Len(args)]) = args
    BY <1>2, <2>1, LastOfArguments
  <2>3. PICK from \in 1 .. endbuf, to \in 1 .. endbuf :
          args[Len(args)] = [from |-> from, to |-> to]
    <3>1. args[Len(args)] \in Token
      BY <1>2, LastOfArguments
    <3>2. args[Len(args)] = [from |-> args[Len(args)].from, to |-> args[Len(args)].to]
      BY <3>1 DEF Token
    <3> QED
      BY <1>2, <3>2, Zenon DEF endbuf
  <2>4. /\ StartsWith([from |-> from, to |-> to], "&")
        /\ AccountsFor(Append(argv', [from |-> from, to |-> to]))
    BY <1>2, <2>2, <2>3
  <2> QED
    BY <2>1, <2>2, <2>4, TilesReturned
<1>3. CASE state = "ST_NORMAL" /\ args # <<>> /\ ~StartsWith(args[Len(args)], "&")
  <2>1. argv' = args /\ pc' = "infile" /\ parse_result' = "PARSELINE_FG"
    BY <1>3 DEF FinishWith, Return
  <2> QED
    BY <1>3, <2>1, TilesReturned
<1> QED
  BY <1>1, <1>2, <1>3

LEMMA CutLast ==
  ASSUME NEW args \in Seq(Token), NEW i, NEW o, NEW b, NEW state, Len(line) \in Nat,
         CutSoFar(args, i, o, b, state), args # <<>>
  PROVE  /\ args[Len(args)].from \in 1 .. Len(line) + 1
         /\ args[Len(args)].to \in 1 .. Len(line) + 1
         /\ args[Len(args)].to < b
<1>1. Len(args) \in DOMAIN args
  BY LastOfArguments
<1>2. args[Len(args)] \in Taken(args, i, o)
  BY <1>1 DEF Taken
<1>3. Fits(Taken(args, i, o), b)
  BY DEF CutSoFar
<1>4. ASSUME NEW t \in Token, 1 <= t.from, t.from <= t.to, t.to <= Len(line) + 1
      PROVE  t.from \in 1 .. Len(line) + 1 /\ t.to \in 1 .. Len(line) + 1
  BY <1>4 DEF Token
<1> QED
  BY <1>2, <1>3, <1>4 DEF Fits

LEMMA ParseKeepsCut ==
  ASSUME ParserOK, ParseInv, ParseStep
  PROVE  ParseInv'
<1>0. /\ pc = "parse" /\ line' = line
      /\ line \in Seq(STRING) /\ Len(line) \in Nat /\ endbuf = Len(line) + 1
      /\ argv \in Seq(Token) /\ infile \in Token /\ outfile \in Token
      /\ buf \in Nat \ {0} /\ CutSoFar(argv, infile, outfile, buf, parsing_state)
      /\ Len(argv) < MAXARGS - 1
      /\ parsing_state \in {"ST_NORMAL", "ST_INFILE", "ST_OUTFILE"}
  BY DEF ParseInv, ParserOK, ParseStep, Redirection, UnmatchedQuote, Argument, FileName,
         EndOfText, endbuf
<1>1. ASSUME MoreText
      PROVE  /\ here \in Nat \ {0} /\ buf <= here /\ here <= Len(line)
             /\ \A r \in buf .. here - 1 : line[r] \in delims
  <2>1. buf \in Nat /\ 1 <= buf /\ buf <= endbuf
    BY <1>0, <1>1 DEF MoreText
  <2>2. here \in buf .. endbuf /\ \A r \in buf .. here - 1 : line[r] \in delims
    BY <1>0, <2>1, HereSkips
  <2>3. here < endbuf
    BY <1>1 DEF MoreText
  <2> QED
    BY <1>0, <2>2, <2>3
<1>2. ASSUME MoreText, line[here] \notin Operators, ~(Quoted /\ token.to = endbuf)
      PROVE  NewToken(token, here, buf) /\ token \in Token
  <2>1. NewToken(token, here, buf)
    BY <1>0, <1>2, ParserMakesNewToken
  <2> QED
    BY <2>1 DEF NewToken
<1>3. CASE Redirection
  <2>1. MoreText /\ line[here] \in Operators /\ UNCHANGED <<line, argv, infile, outfile>>
    BY <1>3 DEF Redirection
  <2>2. CASE Named(line[here])
    <3>1. pc' = "infile" /\ parse_result' = "PARSELINE_ERROR"
      BY <1>3, <2>2 DEF Redirection, Return
    <3> QED
      BY <1>0, <2>1, <3>1 DEF ParseInv, TokensTile
  <2>3. CASE ~Named(line[here])
    <3>1. /\ parsing_state' = IF line[here] = "<" THEN "ST_INFILE" ELSE "ST_OUTFILE"
          /\ buf' = here + 1 /\ pc' = pc
      BY <1>3, <2>3 DEF Redirection
    <3>2. \/ parsing_state' = "ST_INFILE" /\ line[here] = "<" /\ infile = NULL
          \/ parsing_state' = "ST_OUTFILE" /\ line[here] = ">" /\ outfile = NULL
      BY <2>1, <2>3, <3>1 DEF Named, Operators
    <3>3. CutSoFar(argv, infile, outfile, here + 1, parsing_state')
      <4>1. OperatorAt(here, buf)
        BY <1>0, <1>1, <2>1 DEF OperatorAt
      <4>2. Opens(parsing_state', here, infile, outfile)
        BY <3>2 DEF Opens
      <4> QED
        BY <1>0, <4>1, <4>2, CutOperator, Zenon
    <3>4. CutSoFar(argv, infile, outfile, buf, parsing_state)'
      BY <2>1, <3>1, <3>3, CutFrame
    <3>5. buf' \in Nat \ {0}
      BY <1>1, <2>1, <3>1
    <3> QED
      BY <1>0, <2>1, <3>1, <3>4, <3>5 DEF ParseInv, TokensTile
  <2> QED
    BY <2>2, <2>3
<1>4. CASE UnmatchedQuote
  <2>1. /\ pc' = "infile" /\ parse_result' = "PARSELINE_ERROR"
        /\ UNCHANGED <<line, argv, infile, outfile>>
    BY <1>4 DEF UnmatchedQuote, Return
  <2> QED
    BY <1>0, <2>1 DEF ParseInv, TokensTile
<1>5. CASE Argument
  <2> DEFINE args == Append(argv, token)
  <2>1. /\ NewToken(token, here, buf) /\ token \in Token
        /\ parsing_state = "ST_NORMAL" /\ UNCHANGED <<line, parsing_state, infile, outfile>>
    BY <1>2, <1>5 DEF Argument
  <2>2. /\ args \in Seq(Token) /\ args # <<>> /\ Len(args) = Len(argv) + 1
        /\ args[Len(args)] = token
    BY <1>0, <2>1
  <2>3. CutSoFar(args, infile, outfile, token.to + 1, "ST_NORMAL")
    BY <1>0, <2>1, CutArgument
  <2>4. token.to \in Nat
    BY <2>1 DEF Token
  <2>5. CASE ArgvFull(args)
    <3>1. FinishWith(args, "ST_NORMAL")
      BY <1>5, <2>5, Zenon DEF Argument
    <3> HIDE DEF args
    <3>2. AccountsFor(args)
      <4>1. args[Len(args)].to <= token.to + 1
        BY <2>2, <2>4
      <4> QED
        BY <1>0, <2>2, <2>3, <2>4, <2>5, <4>1, CutAccounts
    <3>3. /\ args[Len(args)].from \in 1 .. Len(line) + 1
          /\ args[Len(args)].to \in 1 .. Len(line) + 1
      BY <1>0, <2>2, <2>3, CutLast
    <3>4. TokensTile' /\ argv' \in Seq(Token) /\ pc' = "infile"
      BY <1>0, <2>1, <2>2, <3>1, <3>2, <3>3, FinishTiles
    <3> QED
      BY <1>0, <2>1, <3>4 DEF ParseInv
  <2>6. CASE ~ArgvFull(args)
    <3>1. argv' = args /\ buf' = token.to + 1 /\ pc' = pc
      BY <1>5, <2>6, Zenon DEF Argument
    <3> HIDE DEF args
    <3>2. CutSoFar(argv, infile, outfile, buf, parsing_state)'
      BY <2>1, <2>3, <3>1, CutFrame
    <3> QED
      BY <1>0, <2>1, <2>2, <2>4, <3>1, <3>2 DEF ParseInv, TokensTile
  <2> QED
    BY <2>5, <2>6
<1>6. CASE FileName
  <2>1. /\ NewToken(token, here, buf) /\ token \in Token
        /\ UNCHANGED <<pc, line, argv>>
        /\ parsing_state' = "ST_NORMAL" /\ buf' = token.to + 1
    BY <1>2, <1>6 DEF FileName
  <2>2. token.to \in Nat
    BY <2>1 DEF Token
  <2>3. CutSoFar(argv', infile', outfile', buf', parsing_state')
        /\ infile' \in Token /\ outfile' \in Token
    <3>1. CASE parsing_state = "ST_INFILE"
      <4>1. infile' = token /\ outfile' = outfile
        BY <1>6, <3>1 DEF FileName
      <4>2. CutSoFar(argv, token, outfile, token.to + 1, "ST_NORMAL")
        BY <1>0, <2>1, <3>1, CutInfile
      <4> QED
        BY <1>0, <2>1, <4>1, <4>2
    <3>2. CASE parsing_state = "ST_OUTFILE"
      <4>1. outfile' = token /\ infile' = infile
        BY <1>6, <3>2 DEF FileName
      <4>2. CutSoFar(argv, infile, token, token.to + 1, "ST_NORMAL")
        BY <1>0, <2>1, <3>2, CutOutfile
      <4> QED
        BY <1>0, <2>1, <4>1, <4>2
    <3> QED
      BY <1>0, <1>6, <3>1, <3>2 DEF FileName
  <2>4. CutSoFar(argv, infile, outfile, buf, parsing_state)'
    BY <2>1, <2>3, CutFrame
  <2> QED
    BY <1>0, <2>1, <2>2, <2>3, <2>4 DEF ParseInv, TokensTile
<1>7. CASE EndOfText
  <2>1. /\ ~MoreText /\ FinishWith(argv, parsing_state)
        /\ UNCHANGED <<line, infile, outfile>>
    BY <1>7 DEF EndOfText
  <2>2. ~ArgvFull(argv)
    BY <1>0, RoomForArguments DEF ArgvFull
  <2>3. \A p \in 1 .. Len(line) : p < buf \/ line[p] \in delims
    <3>1. CASE ~(buf < endbuf)
      BY <1>0, <3>1
    <3>2. CASE buf < endbuf
      <4>1. /\ here \in buf .. endbuf
            /\ \A r \in buf .. here - 1 : line[r] \in delims
        BY <1>0, <3>2, HereSkips
      <4>2. here = endbuf
        BY <1>0, <2>1, <3>2, <4>1 DEF MoreText
      <4> QED
        BY <1>0, <4>1, <4>2
    <3> QED
      BY <3>1, <3>2
  <2>4. parsing_state = "ST_NORMAL" => AccountsFor(argv)
    BY <1>0, <2>2, <2>3, CutAccounts
  <2>5. argv # <<>> => /\ argv[Len(argv)].from \in 1 .. Len(line) + 1
                       /\ argv[Len(argv)].to \in 1 .. Len(line) + 1
    BY <1>0, CutLast
  <2>6. TokensTile' /\ argv' \in Seq(Token) /\ pc' = "infile"
    BY <1>0, <2>1, <2>4, <2>5, FinishTiles
  <2> QED
    BY <1>0, <2>1, <2>6 DEF ParseInv
<1> QED
  BY <1>3, <1>4, <1>5, <1>6, <1>7 DEF ParseStep

(* Only parseline returns, and what it returned stays until the next line. *)
LEMMA TilesFrame ==
  ASSUME TokensTile, UNCHANGED parseVars, pc' = pc \/ pc' # "infile"
  PROVE  TokensTile'
<1>1. CASE pc' # "infile"
  BY <1>1 DEF TokensTile
<1>2. CASE pc' = pc /\ pc = "infile"
  <2>1. /\ UNCHANGED <<line, infile, outfile>> /\ argv' = argv
        /\ parse_result' = parse_result
    BY DEF parseVars
  <2>2. parse_result' = "PARSELINE_FG" =>
          AccountsFor(argv') /\ ~StartsWith(argv'[Len(argv')], "&")
    BY <1>2, <2>1 DEF TokensTile
  <2>3. parse_result' = "PARSELINE_BG" =>
          \E from, to \in 1 .. endbuf :
            LET last == [from |-> from, to |-> to]
            IN  StartsWith(last, "&") /\ AccountsFor(Append(argv', last))
    <3>1. parse_result = "PARSELINE_BG" =>
            \E from, to \in 1 .. endbuf :
              LET last == [from |-> from, to |-> to]
              IN  StartsWith(last, "&") /\ AccountsFor(Append(argv, last))
      BY <1>2 DEF TokensTile
    <3> QED
      BY <2>1, <3>1
  <2> QED
    BY <2>1, <2>2, <2>3, TilesReturned
<1> QED
  BY <1>1, <1>2

(* The rest of the shell leaves what parseline has cut alone. *)
LEMMA OthersKeepCut ==
  ASSUME ParseInv, UNCHANGED parseVars, pc' = pc \/ pc' \notin {"parse", "infile"}
  PROVE  ParseInv'
<1>1. TokensTile'
  BY TilesFrame DEF ParseInv
<1>2. /\ line' = line /\ argv' = argv /\ infile' = infile /\ outfile' = outfile
      /\ buf' = buf /\ parsing_state' = parsing_state
  BY DEF parseVars
<1>3. ASSUME pc' = "parse" PROVE CutSoFar(argv, infile, outfile, buf, parsing_state)'
  <2>1. CutSoFar(argv, infile, outfile, buf, parsing_state)
    BY <1>3 DEF ParseInv
  <2>2. CutSoFar(argv', infile', outfile', buf', parsing_state')
    BY <1>2, <2>1
  <2> QED
    BY <1>2, <2>2, CutFrame
<1>4. pc' = "parse" => buf' \in Nat \ {0}
  BY <1>2 DEF ParseInv
<1> QED
  BY <1>1, <1>2, <1>3, <1>4 DEF ParseInv

(* Before the first turn nothing has been cut. *)
LEMMA StartsUncut ==
  ASSUME line' \in Seq(STRING), argv' = <<>>, infile' = NULL, outfile' = NULL, buf' = 1,
         parsing_state' = "ST_NORMAL", pc' # "infile"
  PROVE  ParseInv'
<1>1. argv' \in Seq(Token) /\ infile' \in Token /\ outfile' \in Token /\ buf' \in Nat \ {0}
  BY DEF Token, NULL
<1>2. CutSoFar(argv, infile, outfile, buf, parsing_state)'
  <2>1. Len(line') \in Nat /\ DOMAIN argv' = {} /\ Taken(argv', infile', outfile') = {}
    BY DEF Taken
  <2> QED
    BY <2>1 DEF CutSoFar, Taken, Fits, Covers, Roles, Expects, Pending
<1> QED
  BY <1>1, <1>2 DEF ParseInv, TokensTile

-----------------------------------------------------------------------------
(* Where the lines come from.                                              *)

LEMMA InitInput == Init => InputOK /\ ParseInv
<1> SUFFICES ASSUME Init PROVE InputOK /\ ParseInv
  OBVIOUS
<1>1. InputOK
  <2>1. /\ typed \in Sessions /\ buffer = <<>> /\ Len(opened) = 2
        /\ opened[1] = TypedInput /\ opened[2] = Screen
    BY DEF Init
  <2>2. buffer \in Seq(Seq(STRING))
    BY <2>1
  <2>3. \A k \in 1 .. 2 : k = 1 \/ k = 2
    BY SMT
  <2> QED
    BY <2>1, <2>2, <2>3 DEF InputOK, TypedInput, Screen
<1>2. ParseInv
  BY DEF Init, ParseInv, TokensTile, Token, NULL
<1> QED
  BY <1>1, <1>2

(* Every file is made of lines. *)
LEMMA LinesAreLines ==
  ASSUME InputOK, NEW o
  PROVE  Lines(o) \in Seq(Seq(STRING))
<1>1. CASE opened[o].file = "typed"
  BY <1>1, LinesOfPieces DEF Lines, InputOK
<1>2. CASE opened[o].file # "typed" /\ opened[o].file \in DOMAIN Contents
  BY <1>2, LinesOfPieces DEF Lines
<1>3. CASE opened[o].file # "typed" /\ opened[o].file \notin DOMAIN Contents
  BY <1>3 DEF Lines
<1> QED
  BY <1>1, <1>2, <1>3

(* A file that is read from moves on to a later line. *)
LEMMA ReadKeepsPositions ==
  ASSUME FilesOK, InputOK, NEW o \in 1 .. Len(opened), NEW p \in Nat \ {0},
         opened' = [opened EXCEPT ![o].pos = p]
  PROVE  \A k \in 1 .. Len(opened') :
           "pos" \in DOMAIN opened'[k] /\ opened'[k].pos \in Nat \ {0}
<1> DEFINE e == [opened[o] EXCEPT !.pos = p]
<1>1. opened' = [opened EXCEPT ![o] = e]
  OBVIOUS
<1>2. e.pos = p /\ "pos" \in DOMAIN e
  BY DEF InputOK
<1> HIDE DEF e
<1>3. Len(opened') = Len(opened) /\ opened'[o] = e
      /\ \A k \in 1 .. Len(opened) : k # o => opened'[k] = opened[k]
  <2>1. PICK S : opened \in Seq(S)
    BY DEF FilesOK, IsSequence
  <2>2. opened \in Seq(S \cup {e}) /\ e \in S \cup {e}
    BY <2>1
  <2>3. /\ Len([opened EXCEPT ![o] = e]) = Len(opened)
        /\ \A k \in 1 .. Len(opened) :
             [opened EXCEPT ![o] = e][k] = IF k = o THEN e ELSE opened[k]
    BY <2>2, ExceptSeq
  <2> QED
    BY <1>1, <2>3
<1> QED
  BY <1>2, <1>3 DEF InputOK

(* A file that is opened starts at its first line. *)
LEMMA OpenKeepsPositions ==
  ASSUME FilesOK, InputOK, NEW name, opened' = Append(opened, [file |-> name, pos |-> 1])
  PROVE  \A k \in 1 .. Len(opened') :
           "pos" \in DOMAIN opened'[k] /\ opened'[k].pos \in Nat \ {0}
<1> DEFINE e == [file |-> name, pos |-> 1]
<1>1. e.pos = 1 /\ "pos" \in DOMAIN e
  OBVIOUS
<1>2. opened' = Append(opened, e)
  OBVIOUS
<1> HIDE DEF e
<1>3. Len(opened) \in Nat /\ Len(opened') = Len(opened) + 1
      /\ opened'[Len(opened) + 1] = e
      /\ \A k \in 1 .. Len(opened) : opened'[k] = opened[k]
  <2>1. PICK S : opened \in Seq(S)
    BY DEF FilesOK, IsSequence
  <2>2. opened \in Seq(S \cup {e}) /\ e \in S \cup {e}
    BY <2>1
  <2> QED
    BY <1>2, <2>2
<1>4. \A k \in 1 .. Len(opened) + 1 : k = Len(opened) + 1 \/ k \in 1 .. Len(opened)
  BY <1>3
<1> QED
  BY <1>1, <1>3, <1>4 DEF InputOK

LEMMA FillKeepsInput ==
  ASSUME FilesOK, InputOK, FillBuffer
  PROVE  InputOK'
<1>1. PICK last \in opened[stdin].pos .. Len(Lines(stdin)) :
        /\ buffer' = SubSeq(Lines(stdin), opened[stdin].pos, last)
        /\ opened' = [opened EXCEPT ![stdin].pos = last + 1]
  BY DEF FillBuffer
<1>2. stdin \in 1 .. Len(opened) /\ opened[stdin].pos \in Nat \ {0}
  BY DEF FilesOK, InputOK
<1>3. Lines(stdin) \in Seq(Seq(STRING)) /\ Len(Lines(stdin)) \in Nat
  BY LinesAreLines
<1>4. buffer' \in Seq(Seq(STRING))
  <2> DEFINE s == Lines(stdin)
  <2> DEFINE p == opened[stdin].pos
  <2>1. s \in Seq(Seq(STRING)) /\ p \in Nat \ {0} /\ last \in p .. Len(s)
    BY <1>1, <1>2, <1>3
  <2>2. buffer' = SubSeq(s, p, last)
    BY <1>1
  <2> HIDE DEF s, p
  <2>3. \A n \in p .. last : s[n] \in Seq(STRING)
    BY <2>1
  <2>4. p \in Int /\ last \in Int
    BY <2>1
  <2> QED
    BY <2>2, <2>3, <2>4, SubSeqProperties
<1>5. last + 1 \in Nat \ {0}
  BY <1>1, <1>2, <1>3
<1>6. \A k \in 1 .. Len(opened') :
        "pos" \in DOMAIN opened'[k] /\ opened'[k].pos \in Nat \ {0}
  BY <1>1, <1>2, <1>5, ReadKeepsPositions
<1> QED
  BY <1>4, <1>6 DEF InputOK, FillBuffer

LEMMA InputStep ==
  ASSUME FilesOK, InputOK, [Next]_vars
  PROVE  InputOK'
<1>1. CASE FillBuffer
  BY <1>1, FillKeepsInput
<1>2. ASSUME UNCHANGED <<typed, buffer>>,
             \A k \in 1 .. Len(opened') :
               "pos" \in DOMAIN opened'[k] /\ opened'[k].pos \in Nat \ {0}
      PROVE  InputOK'
  BY <1>2 DEF InputOK
<1>3. ASSUME UNCHANGED <<typed, buffer, opened>> PROVE InputOK'
  BY <1>3 DEF InputOK
<1>4. CASE ReadLine
  <2>1. UNCHANGED <<typed, opened>> /\ buffer' = Tail(buffer) /\ buffer # <<>>
    BY <1>4 DEF ReadLine
  <2>2. buffer' \in Seq(Seq(STRING))
    BY <2>1 DEF InputOK
  <2> QED
    BY <2>1, <2>2 DEF InputOK
<1>5. CASE RedirectInput
  <2>1. UNCHANGED <<typed, buffer>>
    BY <1>5 DEF RedirectInput
  <2>2. \/ opened' = opened
        \/ opened' = Append(opened, [file |-> Text(infile), pos |-> 1])
    BY <1>5 DEF RedirectInput
  <2> QED
    BY <1>2, <1>3, <2>1, <2>2, OpenKeepsPositions
<1>6. CASE RedirectOutput
  <2>1. UNCHANGED <<typed, buffer>>
    BY <1>6 DEF RedirectOutput
  <2>2. \/ opened' = opened
        \/ opened' = Append(opened, [file |-> Text(outfile), pos |-> 1])
    BY <1>6 DEF RedirectOutput
  <2> QED
    BY <1>2, <1>3, <2>1, <2>2, OpenKeepsPositions
<1>7. ASSUME NEW c \in children, ChildReads(c) PROVE InputOK'
  <2>1. PICK last \in opened[c.in].pos .. Len(Lines(c.in)) :
          opened' = [opened EXCEPT ![c.in].pos = last + 1]
    BY <1>7 DEF ChildReads
  <2>2. c.in \in 1 .. Len(opened)
    <3>1. Len(opened) \in Nat
      BY AppendSequence DEF FilesOK
    <3> QED
      BY <3>1 DEF FilesOK
  <2>3. opened[c.in].pos \in Nat \ {0} /\ Len(Lines(c.in)) \in Nat
    BY <2>2, LinesAreLines DEF InputOK
  <2>4. last + 1 \in Nat \ {0}
    BY <2>1, <2>3
  <2>5. UNCHANGED <<typed, buffer>>
    BY <1>7 DEF ChildReads
  <2> QED
    BY <1>2, <2>1, <2>2, <2>4, <2>5, ReadKeepsPositions
<1>8. ASSUME NEW c \in children, ChildEnds(c) PROVE InputOK'
  BY <1>3, <1>8 DEF ChildEnds
<1>9. CASE EndOfFile \/ Parse \/ EvalRejected \/ EvalQuit \/ EvalBuiltin \/ EvalFork
             \/ ForegroundEnded \/ UNCHANGED vars
  BY <1>3, <1>9 DEF EndOfFile, Parse, EvalRejected, EvalQuit, EvalBuiltin, EvalFork,
    ForegroundEnded, vars, fileVars
<1> QED
  BY <1>1, <1>4, <1>5, <1>6, <1>7, <1>8, <1>9 DEF Next, ShellStep, ChildStep, Ended

LEMMA ParseInvStep ==
  ASSUME ParserOK, InputOK, ParseInv, [Next]_vars
  PROVE  ParseInv'
<1>1. CASE Parse
  BY <1>1, ParseKeepsCut DEF Parse
<1>2. CASE ReadLine
  <2>1. Head(buffer) \in Seq(STRING)
    BY <1>2 DEF InputOK, ReadLine
  <2> QED
    BY <1>2, <2>1, StartsUncut DEF ReadLine, StartParse
<1>3. CASE EndOfFile \/ RedirectInput \/ RedirectOutput \/ EvalRejected \/ EvalQuit
             \/ EvalBuiltin \/ EvalFork \/ ForegroundEnded
  <2>1. UNCHANGED parseVars /\ pc' \notin {"parse", "infile"}
    BY <1>3 DEF EndOfFile, RedirectInput, RedirectOutput, EvalRejected, EvalQuit,
      EvalBuiltin, EvalFork, ForegroundEnded
  <2> QED
    BY <2>1, OthersKeepCut
<1>4. CASE FillBuffer \/ ChildStep \/ UNCHANGED vars
  <2>1. UNCHANGED parseVars /\ pc' = pc
    BY <1>4 DEF FillBuffer, ChildStep, ChildReads, ChildEnds, vars
  <2> QED
    BY <2>1, OthersKeepCut
<1> QED
  BY <1>1, <1>2, <1>3, <1>4 DEF Next, ShellStep, Ended

(* Whatever the line, when parseline accepts it the tokens it has cut account
   for the whole of it: none is lost, cut twice or taken for another part, and
   nothing but white space, operators and quotes lies outside them, up to the
   place where argv was full (tsh_helper.c:104-186). *)
THEOREM TheTokensTile == Spec => []TokensTile
<1>1. Init => IInv /\ InputOK /\ ParseInv
  BY InitIInv, InitInput
<1>2. IInv /\ InputOK /\ ParseInv /\ [Next]_vars => (IInv /\ InputOK /\ ParseInv)'
  BY ParserStep, FilesStep, InputStep, ParseInvStep DEF IInv
<1>3. ParseInv => TokensTile
  BY DEF ParseInv
<1> QED
  BY <1>1, <1>2, <1>3, PTL DEF Spec
=============================================================================
