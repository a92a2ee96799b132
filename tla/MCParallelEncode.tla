-------------------------- MODULE MCParallelEncode ---------------------------
(* Small inputs for TLC: every sequence of up to MaxLines lines drawn from  *)
(* the shapes the cfg allows.                                               *)
EXTENDS ParallelEncode

CONSTANTS MinLines, MaxLines, Shapes

(* A shape is a kind and a size: one name per shape, for the cfg. *)
ShapeOf(s) ==
    CASE s = "r1" -> [kind |-> "row",    size |-> 1]
      [] s = "r2" -> [kind |-> "row",    size |-> 2]
      [] s = "loose" -> [kind |-> "loose",  size |-> 1]
      [] s = "bad"   -> [kind |-> "bad",    size |-> 1]
      [] s = "blank" -> [kind |-> "blank",  size |-> 0]
      [] s = "reject" -> [kind |-> "reject", size |-> 0]

MCInputs ==
    {[i \in DOMAIN shapes |-> [id |-> i, size |-> ShapeOf(shapes[i]).size,
                               kind |-> ShapeOf(shapes[i]).kind]] :
        shapes \in UNION {[1..n -> Shapes] : n \in MinLines..MaxLines}}

(* Eleven blocks of one row: with two workers enough to fill both channels, *)
(* both workers and the scheduler's hand.  The first line may be one the    *)
(* collector gives up for.                                                  *)
MCFullInputs ==
    {[i \in 1..11 |-> [id |-> i, size |-> 1, kind |-> IF i = 1 THEN first ELSE "row"]] :
        first \in {"row", "bad"}}
=============================================================================
