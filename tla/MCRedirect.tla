----------------------------- MODULE MCRedirect -----------------------------
EXTENDS Redirect

MCPieces == {"sp", "<", ">", "'", "&", "a", "f"}

(* Every line of at most five pieces, typed alone. *)
MCShortLines == UNION {[1 .. n -> MCPieces] : n \in 0 .. 5}

(* Lines of the forms the traces use, and ones that are hard to parse. *)
MCLongLines == {
  <<"a", "sp", "<", "sp", "f">>,
  <<"a", "sp", "<", "f", "sp", ">", "n", "sp", "&">>,
  <<"a", "sp", ">", "n", "sp", "<", "f">>,
  <<"a", "sp", "<", "f", "sp", "<", "f">>,
  <<"<", "f", "sp", ">", "f", "sp", "a">>,
  <<"<", "sp", ">", "n", "sp", "a">>,
  <<"a", "sp", "\"", "sp", "'", "\"", "a">>,
  <<"'", "<", "sp", "a", "'", "sp", "&", "a">>,
  <<"<", "'", "f", "'", "a", "'">>,
  <<"a", "sp", "a", "sp", "a", "sp", "&">>,
  <<"a", "sp", "a", "sp", "<", "f">>,
  <<"jobs", "sp", ">", "null">>,
  <<"quit", "sp", "&">>,
  <<"a", "sp", "<", "loop">>,
  <<"<", "loop">>,
  <<"a", "sp", "&">>}

MCFollowing == {<<"a">>, <<"a", "sp", "<", "f">>, <<"a", "sp", ">", "n">>,
                <<"a", "<", "f", "sp", "&">>, <<"<", "loop">>}

MCSessions ==
  {<<l>> : l \in MCShortLines}
  \cup {<<l, m>> : l \in MCLongLines, m \in MCFollowing}
  \cup {<<l, m, n>> : l, m, n \in MCFollowing}

(* f holds commands, loop a command that reads loop again. *)
MCContents ==
  LET name(piece) == <<piece>>
  IN  [n \in {name("f"), name("loop"), name("null")} |->
         IF n = name("f") THEN <<<<"a">>, <<"a", "sp", "&">>>>
         ELSE IF n = name("loop") THEN <<<<"a", "sp", "<", "loop">>, <<"a">>>>
         ELSE <<>>]

MCWritable == {<<"null">>}
MCMissing == {<<"n">>}
=============================================================================
