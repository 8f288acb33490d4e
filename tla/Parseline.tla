----------------------------- MODULE Parseline -----------------------------
(***************************************************************************)
(* parseline of tsh_helper.c: the command line is cut, from left to right, *)
(* into arguments, an input file and an output file, one turn of the       *)
(* parser's loop per step.                                                 *)
(*                                                                         *)
(* A line is a sequence of pieces: "sp" is a white-space character, "<",   *)
(* ">", "&" and the quotes stand for themselves and every other string is  *)
(* a run of ordinary characters.  A pointer into the text is the index of  *)
(* a piece, and a token, which the code ends by writing a NUL into the     *)
(* text, is the interval of the pieces it is made of.                      *)
(***************************************************************************)
EXTENDS Naturals, Sequences

CONSTANT MAXARGS        \* size of argv, its closing NULL included

ASSUME RoomForArguments == MAXARGS \in Nat /\ MAXARGS >= 2

VARIABLES
  pc,             \* what the shell is doing; "parse" while parseline runs
  line,           \* the command line
  buf,            \* where the parser is in it
  parsing_state,  \* what the next token is
  argv,           \* the argument tokens so far; their number is argc
  infile,         \* the token that names the input file, or NULL
  outfile,        \* the token that names the output file, or NULL
  parse_result    \* what parseline returned last

parseVars == <<line, buf, parsing_state, argv, infile, outfile, parse_result>>

NULL == [from |-> 0, to |-> 0]

delims == {"sp"}
Quotes == {"'", "\""}
Operators == {"<", ">"}

endbuf == Len(line) + 1

(* strspn and strcspn: the first place, from p on, that holds a piece of S,
   and the end of the line if there is none. *)
FirstOf(S, p) ==
  CHOOSE q \in p .. endbuf :
    /\ q = endbuf \/ line[q] \in S
    /\ \A r \in p .. q - 1 : line[r] \notin S

Pieces == {line[i] : i \in DOMAIN line}

(* The token's text, which for argv, infile and outfile is a C string. *)
Text(t) == SubSeq(line, t.from, t.to - 1)

StartsWith(t, piece) == t.from < t.to /\ line[t.from] = piece

(* parseline is called on the line the shell has just read. *)
StartParse(newLine) ==
  /\ line' = newLine
  /\ buf' = 1
  /\ parsing_state' = "ST_NORMAL"
  /\ argv' = <<>>
  /\ infile' = NULL
  /\ outfile' = NULL
  /\ UNCHANGED parse_result

Return(result) ==
  /\ parse_result' = result
  /\ pc' = "infile"

(* The head of the loop: white space is skipped. *)
here == FirstOf(Pieces \ delims, buf)

MoreText == buf < endbuf /\ here < endbuf

(* Mutant: a second name takes the place of the first. *)
Named_never(operator) == FALSE

(* Whether the file an operator asks for has its name already. *)
Named(operator) == (IF operator = "<" THEN infile ELSE outfile) # NULL

(* An operator changes what the next token is, unless that file is named
   already; two operators in a row are accepted and the last one counts. *)
Redirection ==
  /\ pc = "parse"
  /\ MoreText
  /\ line[here] \in Operators
  /\ IF Named(line[here])
     THEN /\ Return("PARSELINE_ERROR")
          /\ UNCHANGED <<buf, parsing_state>>
     ELSE /\ parsing_state' = IF line[here] = "<" THEN "ST_INFILE"
                                                  ELSE "ST_OUTFILE"
          /\ buf' = here + 1
          /\ UNCHANGED <<pc, parse_result>>
  /\ UNCHANGED <<line, argv, infile, outfile>>

(* The token that starts here: up to the quote that closes it, or up to the
   next white space. *)
Quoted == line[here] \in Quotes

token ==
  IF Quoted THEN [from |-> here + 1, to |-> FirstOf({line[here]}, here + 1)]
            ELSE [from |-> here, to |-> FirstOf(delims, here)]

UnmatchedQuote ==
  /\ pc = "parse"
  /\ MoreText
  /\ Quoted /\ token.to = endbuf
  /\ Return("PARSELINE_ERROR")
  /\ UNCHANGED <<line, buf, parsing_state, argv, infile, outfile>>

(* Mutant: no place is kept for the NULL. *)
ArgvFull_late(args) == Len(args) >= MAXARGS

(* What follows the last argument that fits is not looked at. *)
ArgvFull(args) == Len(args) >= MAXARGS - 1

(* The end of parseline.  Only the first character of the last argument is
   compared with &, whatever follows it and quoted or not. *)
FinishWith(args, state) ==
  IF state # "ST_NORMAL"
  THEN Return("PARSELINE_ERROR") /\ argv' = args
  ELSE IF args = <<>>
  THEN Return("PARSELINE_EMPTY") /\ argv' = args
  ELSE IF StartsWith(args[Len(args)], "&")
  THEN Return("PARSELINE_BG") /\ argv' = SubSeq(args, 1, Len(args) - 1)
  ELSE Return("PARSELINE_FG") /\ argv' = args

Argument ==
  /\ pc = "parse"
  /\ MoreText
  /\ line[here] \notin Operators
  /\ ~(Quoted /\ token.to = endbuf)
  /\ parsing_state = "ST_NORMAL"
  /\ LET args == Append(argv, token)
     IN  IF ArgvFull(args)
         THEN /\ FinishWith(args, "ST_NORMAL")
              /\ UNCHANGED buf
         ELSE /\ argv' = args
              /\ buf' = token.to + 1
              /\ UNCHANGED <<pc, parse_result>>
  /\ UNCHANGED <<line, parsing_state, infile, outfile>>

FileName ==
  /\ pc = "parse"
  /\ MoreText
  /\ line[here] \notin Operators
  /\ ~(Quoted /\ token.to = endbuf)
  /\ parsing_state # "ST_NORMAL"
  /\ IF parsing_state = "ST_INFILE"
     THEN infile' = token /\ UNCHANGED outfile
     ELSE outfile' = token /\ UNCHANGED infile
  /\ parsing_state' = "ST_NORMAL"
  /\ buf' = token.to + 1
  /\ UNCHANGED <<pc, line, argv, parse_result>>

EndOfText ==
  /\ pc = "parse"
  /\ ~MoreText
  /\ FinishWith(argv, parsing_state)
  /\ UNCHANGED <<line, buf, parsing_state, infile, outfile>>

ParseStep ==
  Redirection \/ UnmatchedQuote \/ Argument \/ FileName \/ EndOfText

-----------------------------------------------------------------------------
(* What a parse of the line is, said of the line as a whole.               *)

(* The intervals of the line that can be tokens: quoted text between two
   equal quotes, or a word that begins with no operator or quote. *)
Candidate(t) ==
  \/ /\ t.from > 1 /\ t.to <= Len(line)
     /\ line[t.from - 1] \in Quotes /\ line[t.to] = line[t.from - 1]
     /\ \A p \in t.from .. t.to - 1 : line[p] # line[t.to]
  \/ /\ t.from < t.to
     /\ line[t.from] \notin delims \cup Operators \cup Quotes
     /\ \A p \in t.from .. t.to - 1 : line[p] \notin delims
     /\ t.to = endbuf \/ line[t.to] \in delims

(* The operators between token t of the tokens T and the token before it. *)
OperatorsBefore(t, T) ==
  {p \in 1 .. t.from - 1 :
     line[p] \in Operators /\ \A u \in T : u.to <= p \/ u.from >= t.from}

LastOperator(t, T) ==
  line[CHOOSE p \in OperatorsBefore(t, T) :
         \A q \in OperatorsBefore(t, T) : q <= p]

(* The arguments args, with the two files, account for the whole line: every
   token can be one, they do not overlap, the arguments are in order, the
   last operator before a token says what it is, and nothing but white space,
   operators and the quotes around a token is left outside, up to the point
   where argv was full. *)
AccountsFor(args) ==
  LET A == {args[i] : i \in DOMAIN args}
      T == A \cup ({infile, outfile} \ {NULL})
      seen == IF ArgvFull(args) THEN args[Len(args)].to ELSE endbuf
  IN  /\ \A t \in T : Candidate(t)
      /\ \A t, u \in T : t = u \/ t.to < u.from \/ u.to < t.from
      /\ \A i, j \in DOMAIN args : i < j => args[i].to < args[j].from
      /\ \A t \in A : OperatorsBefore(t, T) = {}
      /\ infile # NULL => /\ OperatorsBefore(infile, T) # {}
                          /\ LastOperator(infile, T) = "<"
      /\ outfile # NULL => /\ OperatorsBefore(outfile, T) # {}
                           /\ LastOperator(outfile, T) = ">"
      /\ \A p \in 1 .. seen - 1 :
           \/ line[p] \in delims \cup Operators
           \/ \E t \in T :
                \/ p \in t.from .. t.to - 1
                \/ line[p] \in Quotes /\ p \in {t.from - 1, t.to}
=============================================================================
