----------------------------- MODULE BlockStream -----------------------------
(***************************************************************************)
(* What any CMP2 encoder promises of its output, whatever threads it uses:  *)
(* the bytes only grow, they are at every moment a prefix of the one stream *)
(* the sequential writer would produce for the same lines, possibly with a  *)
(* torn last cell, and the call succeeds exactly when the stream is whole.  *)
(***************************************************************************)
EXTENDS Cmp2File

CONSTANT Inputs   \* the inputs considered: sequences of lines

VARIABLES lines,    \* the input
          output,   \* the cells written
          status    \* "running", "ok" or "failed": what the call returned

vars == <<lines, output, status>>

-----------------------------------------------------------------------------
FirstRow(groups, k) == Len(FlattenSeq(SubSeq(groups, 1, k - 1)))

BlockAt(groups, k) ==
    [index |-> k - 1, first |-> FirstRow(groups, k), rows |-> groups[k]]

(* The frames that may ever be written: those before the first group the    *)
(* row-group encoder refuses.                                               *)
WritableFrames(ls) ==
    LET groups == SequentialGroups(ls)
        good   == {n \in 0..Len(groups) : \A i \in 1..n : IsEncodable(groups[i])}
    IN  [k \in 1..Cardinality(good) - 1 |-> Frame(BlockAt(groups, k))]

(* The lines can be encoded to the end. *)
IsEncodableInput(ls) ==
    /\ Rejects(ls) = {}
    /\ IsEncodable(RowsOf(ls))

Index(frames) ==
    FoldLeft(LAMBDA r, c : TakeBlock(r, c.block), ReaderStart, frames).entries

WholeStream(ls) ==
    LET frames == WritableFrames(ls)
    IN  <<Header>> \o frames \o
            (IF IsEncodableInput(ls) THEN <<Footer(Index(frames))>> ELSE << >>)

IsTorn  == output # << >> /\ Last(output) = Torn
IsWhole == output # << >> /\ Last(output).kind = "footer"

-----------------------------------------------------------------------------
Init == /\ lines \in Inputs
        /\ output = << >>
        /\ status = "running"

Write == /\ status = "running"
         /\ ~IsTorn
         /\ Len(output) < Len(WholeStream(lines))
         /\ output' = Append(output, WholeStream(lines)[Len(output) + 1])
         /\ UNCHANGED <<lines, status>>

(* A write fails half way; the call may still have threads to wait for. *)
Tear == /\ status = "running"
        /\ ~IsTorn /\ ~IsWhole
        /\ output' = Append(output, Torn)
        /\ UNCHANGED <<lines, status>>

Succeed == /\ status = "running"
           /\ IsWhole
           /\ status' = "ok"
           /\ UNCHANGED <<lines, output>>

Fail == /\ status = "running"
        /\ ~IsWhole
        /\ status' = "failed"
        /\ \/ UNCHANGED output
           \/ ~IsTorn /\ output' = Append(output, Torn)
        /\ UNCHANGED lines

Next == Write \/ Tear \/ Succeed \/ Fail

Spec == Init /\ [][Next]_vars
=============================================================================
