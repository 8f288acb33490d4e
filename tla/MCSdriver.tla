----------------------------- MODULE MCSdriver ------------------------------
EXTENDS Sdriver

MCOptions ==
  {[letter |-> "A"], [letter |-> "V"], [letter |-> "h"]}
  \cup {[letter |-> "i", value |-> n] : n \in {0, 1, 4}}
  \cup {[letter |-> "t", value |-> t] : t \in {0, 2}}

MCCommandLines == UNION {[1 .. n -> MCOptions] : n \in 0 .. 2}
=============================================================================
