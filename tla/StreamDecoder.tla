---------------------------- MODULE StreamDecoder ----------------------------
(***************************************************************************)
(* What any decoder of a sealed CMP2 file promises of its output: the rows  *)
(* written are at every moment the first rows of those the sequential       *)
(* reader decodes, with at most a torn row at the end, and the call         *)
(* succeeds exactly when they are all there and the file is sealed.         *)
(***************************************************************************)
EXTENDS Cmp2File

CONSTANT Files   \* the files considered: sequences of cells

VARIABLES file,     \* the input
          output,   \* the rows written
          status    \* "running", "ok" or "failed": what the call returned

vars == <<file, output, status>>

Rows(f) == SequentialDecode(f).rows

IsTorn == output # << >> /\ Last(output) = Torn

-----------------------------------------------------------------------------
Init == /\ file \in Files
        /\ output = << >>
        /\ status = "running"

Write == /\ status = "running"
         /\ ~IsTorn
         /\ \E n \in Len(output) + 1..Len(Rows(file)) :
               output' = SubSeq(Rows(file), 1, n)
         /\ UNCHANGED <<file, status>>

(* A write fails in the middle of a row. *)
Tear == /\ status = "running"
        /\ ~IsTorn
        /\ \E n \in Len(output)..Len(Rows(file)) - 1 :
              output' = Append(SubSeq(Rows(file), 1, n), Torn)
        /\ UNCHANGED <<file, status>>

Succeed == /\ status = "running"
           /\ IsDecodable(file)
           /\ output = Rows(file)
           /\ status' = "ok"
           /\ UNCHANGED <<file, output>>

Fail == /\ status = "running"
        /\ status' = "failed"
        /\ UNCHANGED <<file, output>>

Next == Write \/ Tear \/ Succeed \/ Fail

Spec == Init /\ [][Next]_vars
=============================================================================
