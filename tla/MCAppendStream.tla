--------------------------- MODULE MCAppendStream ----------------------------
(* Small lines for TLC: one per shape the cfg names. *)
EXTENDS AppendStream

CONSTANT Shapes

ShapeLine(s) ==
    CASE s = "r1"    -> [id |-> 0, kind |-> "row",   size |-> 1]
      [] s = "r2"    -> [id |-> 0, kind |-> "row",   size |-> 2]
      [] s = "bad"   -> [id |-> 0, kind |-> "bad",   size |-> 1]
      [] s = "blank" -> [id |-> 0, kind |-> "blank", size |-> 0]

MCLines == {ShapeLine(s) : s \in Shapes}
=============================================================================
