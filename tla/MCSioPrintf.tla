----------------------------- MODULE MCSioPrintf ----------------------------
EXTENDS SioPrintf

MCCharacters == {"%", "c", "d", "u", "x", "l", "z", "k"}

MCShortFormats == UNION {[1 .. n -> MCCharacters] : n \in 0 .. 3}

(* Several directives, sizes, and the texts after %ld that the fall-through
   skips, stops short of, or looks beyond. *)
MCLongFormats == {
  <<"%", "s", "k", "%", "d">>,
  <<"k", "%", "%", "d", "%", "x", "k">>,
  <<"%", "z", "i", "k">>,
  <<"%", "z", "x", "%", "%">>,
  <<"%", "l", "d", "k", "k">>,
  <<"%", "l", "u", "k", "k", "k">>,
  <<"%", "l", "x", "k", "%", "s">>,
  <<"%", "l", "d", "k", "k", "d", "k">>,
  <<"%", "l", "i", "%", "l", "d", "k", "k">>,
  <<"%", "l", "s", "%", "u">>,
  <<"k", "%", "c", "%">>}

MCFormats == MCShortFormats \cup MCLongFormats

MCStrings == <<<<"k", "k">>, <<>>>>
=============================================================================
