----------------------------- MODULE SioPrintf ------------------------------
(***************************************************************************)
(* sio_vfprintf of sio_printf.c: the async-signal-safe printf with which   *)
(* the shell, its handlers, the wrappers and the trace runner print.  It   *)
(* has no buffer: every literal stretch and every converted argument is a  *)
(* rio_writen of its own, so that other processes that share the output    *)
(* write between the parts of one message.                                 *)
(*                                                                         *)
(* A format and a text are sequences of characters.  An argument is the    *)
(* word va_arg finds, LongBits wide, of which an int is the low IntBits.   *)
(***************************************************************************)
EXTENDS Integers, Sequences, SequencesExt

CONSTANTS
  Formats,      \* the format strings sio_printf is called with
  IntBits,      \* width of int and unsigned
  LongBits,     \* width of long, size_t and intmax_t
  Strings,      \* the strings a %s argument may point to
  JobWrites     \* bound: how often another process writes to the output

ASSUME Widths == /\ IntBits \in Nat \ {0} /\ LongBits \in Nat
                 /\ IntBits <= LongBits

ASSUME Texts == /\ \A format \in Formats : format \in Seq(STRING)
                /\ Strings \in Seq(Seq(STRING)) /\ Strings # <<>>

VARIABLES
  pc,           \* "format", "write", "returned", "exited" or "wild"
  fmt,          \* the format string
  pos,          \* the character the loop is at
  taken,        \* the arguments fetched so far
  str,          \* what is left to write of this turn's text
  num_written,  \* the characters of the turns so far
  ret,          \* what sio_vfprintf returned
  checked,      \* whether it was called as Sio_vfprintf
  stream,       \* the output, each character with the process it came from
  jobWrites     \* how often another process has written

vars == <<pc, fmt, pos, taken, str, num_written, ret, checked, stream, jobWrites>>

Words == 0 .. 2^LongBits - 1

Signed(v, bits) == IF v >= 2^(bits - 1) THEN v - 2^bits ELSE v

(* The value of word w fetched with size "" or "l" or "z". *)
Fetch(w, size, signed) ==
  LET bits == IF size = "" THEN IntBits ELSE LongBits
      low == w % 2^bits
  IN  IF signed THEN Signed(low, bits) ELSE low

digit == <<"0", "1", "2", "3", "4", "5", "6", "7",
           "8", "9", "a", "b", "c", "d", "e", "f">>

(* The digits of v in base b, the last one first. *)
write_digits(v, b) ==
  LET digits[u \in Words] ==
        IF u < b THEN <<digit[u + 1]>>
        ELSE <<digit[(u % b) + 1]>> \o digits[u \div b]
  IN  digits[v]

(* -v wraps round for the smallest value, which has no opposite; converted
   to an unsigned number it is the magnitude all the same. *)
intmax_to_string(v, b) ==
  IF v < 0 THEN Reverse(Append(write_digits((-v) % 2^LongBits, b), "-"))
           ELSE Reverse(write_digits(v, b))

uintmax_to_string(v, b) == Reverse(write_digits(v, b))

IntConversions == {"d", "i", "u", "x"}

ConvertInt(conversion, size, w) ==
  CASE conversion \in {"d", "i"} -> intmax_to_string(Fetch(w, size, TRUE), 10)
    [] conversion = "u" -> uintmax_to_string(Fetch(w, size, FALSE), 10)
    [] conversion = "x" -> uintmax_to_string(Fetch(w, size, FALSE), 16)

(* A character, of which sixteen are enough, is printed as it is, and a string
   as far as its NUL. *)
ConvertOther(conversion, w) ==
  IF conversion = "c" THEN <<digit[(w % 16) + 1]>>
  ELSE Strings[(w % Len(Strings)) + 1]

Char(p) == IF p <= Len(fmt) THEN fmt[p] ELSE "NUL"

Init ==
  /\ pc = "format"
  /\ fmt \in Formats
  /\ pos = 1
  /\ taken = <<>>
  /\ str = <<>>
  /\ num_written = 0
  /\ ret = 0
  /\ checked \in BOOLEAN
  /\ stream = <<>>
  /\ jobWrites = 0

(* The turn's text goes to rio_writen, unless it is empty. *)
Output(text) ==
  /\ str' = text
  /\ pc' = IF text = <<>> THEN "format" ELSE "write"
  /\ num_written' = num_written + Len(text)
  /\ UNCHANGED <<fmt, ret, checked, stream, jobWrites>>

(* %c and %s. *)
OtherDirective ==
  /\ pc = "format" /\ Char(pos) = "%" /\ Char(pos + 1) \in {"c", "s"}
  /\ \E w \in Words :
       /\ taken' = Append(taken, w)
       /\ Output(ConvertOther(Char(pos + 1), w))
  /\ pos' = pos + 2

Percent ==
  /\ pc = "format" /\ Char(pos) = "%" /\ Char(pos + 1) = "%"
  /\ Output(<<"%">>)
  /\ pos' = pos + 2
  /\ UNCHANGED taken

(* %d, %i, %u and %x; then the same with size z. *)
IntDirective ==
  /\ pc = "format" /\ Char(pos) = "%" /\ Char(pos + 1) \in IntConversions
  /\ \E w \in Words :
       /\ taken' = Append(taken, w)
       /\ Output(ConvertInt(Char(pos + 1), "", w))
  /\ pos' = pos + 2

SizeDirective ==
  /\ pc = "format" /\ Char(pos) = "%" /\ Char(pos + 1) = "z"
  /\ Char(pos + 2) \in IntConversions
  /\ \E w \in Words :
       /\ taken' = Append(taken, w)
       /\ Output(ConvertInt(Char(pos + 2), "z", w))
  /\ pos' = pos + 3

(* Mutant: the case of z takes the letter that the case of l has seen for that
   of a second directive. *)
LongDirective_twice ==
  /\ pc = "format" /\ Char(pos) = "%" /\ Char(pos + 1) = "l"
  /\ Char(pos + 2) \in IntConversions
  /\ \E w, v \in Words :
       /\ taken' = taken \o <<w, v>>
       /\ Output(ConvertInt(Char(pos + 2), "z", v))
  /\ pos' = pos + 6

(* %ld and its like: the case of l has no break and runs into the case of z,
   which looks two characters past the conversion it has just seen.  If it
   finds the letter of a conversion there it fetches one more argument,
   prints that instead and skips the text in between. *)
LongDirective ==
  /\ pc = "format" /\ Char(pos) = "%" /\ Char(pos + 1) = "l"
  /\ Char(pos + 2) \in IntConversions
  /\ IF Char(pos + 5) \in IntConversions
     THEN \E w, v \in Words :
            /\ taken' = taken \o <<w, v>>
            /\ Output(ConvertInt(Char(pos + 5), "z", v))
            /\ pos' = pos + 6
     ELSE \E w \in Words :
            /\ taken' = Append(taken, w)
            /\ Output(ConvertInt(Char(pos + 2), "l", w))
            /\ pos' = pos + 3

(* Near the end of the format it looks past the NUL: if a letter of a
   conversion happens to be there, the loop goes on outside the string, where
   the model leaves it. *)
LongDirectiveAtEnd ==
  /\ pc = "format" /\ Char(pos) = "%" /\ Char(pos + 1) = "l"
  /\ Char(pos + 2) \in IntConversions
  /\ pos + 5 > Len(fmt) + 1
  /\ pos' = pos + 6
  /\ pc' = "wild"
  /\ UNCHANGED <<fmt, taken, str, num_written, ret, checked, stream, jobWrites>>

(* Whether the switch recognises what stands at pos. *)
Handled(p) ==
  /\ Char(p) = "%"
  /\ \/ Char(p + 1) \in {"c", "s", "%"} \cup IntConversions
     \/ Char(p + 1) \in {"l", "z"} /\ Char(p + 2) \in IntConversions

(* Anything else is copied as far as the next %, a % it does not understand
   included. *)
Literal ==
  /\ pc = "format" /\ pos <= Len(fmt) /\ ~Handled(pos)
  /\ LET end == CHOOSE q \in pos + 1 .. Len(fmt) + 1 :
                  /\ Char(q) \in {"%", "NUL"}
                  /\ \A r \in pos + 1 .. q - 1 : fmt[r] # "%"
     IN  Output(SubSeq(fmt, pos, end - 1)) /\ pos' = end
  /\ UNCHANGED taken

FormatDone ==
  /\ pc = "format" /\ pos > Len(fmt)
  /\ ret' = num_written
  /\ pc' = "returned"
  /\ UNCHANGED <<fmt, pos, taken, str, num_written, checked, stream, jobWrites>>

Tagged(by, text) == [i \in DOMAIN text |-> [by |-> by, char |-> text[i]]]

(* Mutant: what a short write left over is not written. *)
WriteSome_once ==
  /\ pc = "write"
  /\ \E n \in 1 .. Len(str) :
       stream' = stream \o Tagged("shell", SubSeq(str, 1, n))
  /\ str' = <<>>
  /\ pc' = "format"
  /\ UNCHANGED <<fmt, pos, taken, num_written, ret, checked, jobWrites>>

(* rio_writen: a write may take a part of the text. *)
WriteSome ==
  /\ pc = "write"
  /\ \E n \in 1 .. Len(str) :
       /\ stream' = stream \o Tagged("shell", SubSeq(str, 1, n))
       /\ str' = SubSeq(str, n + 1, Len(str))
  /\ pc' = IF str' = <<>> THEN "format" ELSE "write"
  /\ UNCHANGED <<fmt, pos, taken, num_written, ret, checked, jobWrites>>

(* A write a handler interrupted is repeated. *)
WriteInterrupted == pc = "write" /\ UNCHANGED vars

(* Another error ends the call; Sio_vfprintf then says so, if the output takes
   it, and ends the process. *)
WriteFails ==
  /\ pc = "write"
  /\ ret' = -1
  /\ \/ /\ pc' = "returned" /\ ~checked
        /\ UNCHANGED stream
     \/ /\ pc' = "exited" /\ checked
        /\ \E message \in {<<>>, <<"k">>} : stream' = stream \o Tagged("error", message)
  /\ UNCHANGED <<fmt, pos, taken, str, num_written, checked, jobWrites>>

JobWritesToo ==
  /\ jobWrites < JobWrites
  /\ pc \in {"format", "write"}
  /\ stream' = stream \o Tagged("job", <<"k">>)
  /\ jobWrites' = jobWrites + 1
  /\ UNCHANGED <<pc, fmt, pos, taken, str, num_written, ret, checked>>

Format ==
  \/ OtherDirective \/ Percent \/ IntDirective \/ SizeDirective
  \/ LongDirective \/ LongDirectiveAtEnd \/ Literal \/ FormatDone

(* The call is over. *)
Done == pc \in {"returned", "exited", "wild"} /\ UNCHANGED vars

Next ==
  Format \/ WriteSome \/ WriteInterrupted \/ WriteFails \/ JobWritesToo \/ Done

Spec == Init /\ [][Next]_vars

-----------------------------------------------------------------------------
(* What printf prints, said without the loop.                              *)

(* The powers of b. *)
Weight(b) ==
  LET weight[i \in Nat] == IF i = 0 THEN 1 ELSE b * weight[i - 1]
  IN  weight

(* The numeral of n in base b: as many digits as it takes, each read off by
   its weight. *)
Places(n, b) ==
  CHOOSE k \in 1 .. n + 1 :
    n < Weight(b)[k] /\ (k = 1 \/ Weight(b)[k - 1] <= n)

Numeral(n, b) ==
  [i \in 1 .. Places(n, b) |->
     digit[((n \div Weight(b)[Places(n, b) - i]) % b) + 1]]

SignedNumeral(v) == IF v < 0 THEN <<"-">> \o Numeral(-v, 10) ELSE Numeral(v, 10)

Converted(conversion, size, w) ==
  CASE conversion \in {"d", "i"} -> SignedNumeral(Fetch(w, size, TRUE))
    [] conversion = "u" -> Numeral(Fetch(w, size, FALSE), 10)
    [] conversion = "x" -> Numeral(Fetch(w, size, FALSE), 16)
    [] OTHER -> ConvertOther(conversion, w)

(* The text of the format from p on with the arguments args from the k-th on,
   up to the directive whose argument is not there. *)
TextFrom(args) ==
  LET text[p \in 1 .. Len(fmt) + 3] ==
        [k \in 1 .. Len(args) + 1 |->
           IF p > Len(fmt) THEN <<>>
           ELSE IF ~Handled(p) THEN <<fmt[p]>> \o text[p + 1][k]
           ELSE IF fmt[p + 1] = "%" THEN <<"%">> \o text[p + 2][k]
           ELSE IF k > Len(args) THEN <<>>
           ELSE IF fmt[p + 1] \in {"l", "z"}
           THEN Converted(fmt[p + 2], fmt[p + 1], args[k]) \o text[p + 3][k + 1]
           ELSE Converted(fmt[p + 1], "", args[k]) \o text[p + 2][k + 1]]
  IN  text

Formatted == TextFrom(taken)[1][1]

(* The formats on which the case of l takes more than its own directive. *)
FallsThrough ==
  \E p \in DOMAIN fmt :
    /\ fmt[p] = "%" /\ Char(p + 1) = "l" /\ Char(p + 2) \in IntConversions
    /\ Char(p + 5) \in IntConversions \/ p + 5 > Len(fmt) + 1

(* The characters of output s that are the shell's. *)
OwnText(s) ==
  LET own[i \in 0 .. Len(s)] ==
        IF i = 0 THEN <<>>
        ELSE IF s[i].by = "shell" THEN Append(own[i - 1], s[i].char)
        ELSE own[i - 1]
  IN  own[Len(s)]

Printed == OwnText(stream)

(* Whatever writes are cut short, interrupted or refused and whatever other
   processes write in between, the shell's characters of the output are the
   formatted text in order, from its start; all of it when the call succeeds,
   and the result is its length.  Numbers are right up to the ends of their
   type, of which the smallest cannot be negated.  Formats with an l that the
   fall-through touches are left out (sio_printf.c:39-67, 93-240,
   csapp.c:755-772). *)
OutputIsFormatted ==
  ~FallsThrough =>
    /\ IsPrefix(Printed, Formatted)
    /\ pc = "returned" /\ ret >= 0 => Printed = Formatted /\ ret = Len(Printed)
    /\ pc = "exited" => checked /\ ret = -1

(* Where the case of l stands fewer than three characters before the end: what
   it looks at is behind the NUL. *)
LooksBehind(p) ==
  /\ fmt[p] = "%" /\ Char(p + 1) = "l" /\ Char(p + 2) \in IntConversions
  /\ p + 5 > Len(fmt) + 1

(* The loop may leave the format in one case only: a %l with its conversion
   stands fewer than three characters before the end.  In every other format,
   also where the case of l falls through, skips text and fetches an argument
   too many, it ends at the NUL; and whenever it ends there the result is how
   many characters were printed, no matter how many writes that took
   (sio_printf.c:93-245). *)
StaysInFormat ==
  /\ pos <= Len(fmt) + 1 \/ \E p \in DOMAIN fmt : LooksBehind(p)
  /\ pc = "returned" /\ ret >= 0 => pos = Len(fmt) + 1 /\ ret = Len(Printed)
=============================================================================
