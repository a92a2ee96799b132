------------------------------ MODULE Recovery -------------------------------
(***************************************************************************)
(* recover_append_stream: how much of the cells of a file is an append      *)
(* stream that can be gone on with, and what it holds.  The append writer   *)
(* resumes from it, replay reads it, stream-append, repair and the rolled   *)
(* segments depend on it.                                                   *)
(***************************************************************************)
EXTENDS Cmp2File

(* The row a frame after n good cells has to start with. *)
NextRow(cells, n) ==
    IF n <= 1 THEN 0 ELSE cells[n].block.first + Len(cells[n].block.rows)

(* Bug: the header is skipped, not compared. *)
FollowsOnAnyHeader(cells, i) ==
    i > 1 => /\ cells[i].kind = "frame"
             /\ i - 2 < MaxStreamBlocks
             /\ cells[i].block.index = i - 2
             /\ cells[i].block.first = NextRow(cells, i - 1)

(* The header, then frames that follow on. *)
FollowsOn(cells, i) ==
    IF i = 1 THEN cells[1] = Header
    ELSE /\ cells[i].kind = "frame"
         /\ i - 2 < MaxStreamBlocks
         /\ cells[i].block.index = i - 2
         /\ cells[i].block.first = NextRow(cells, i - 1)

(* valid_len, in cells: up to the first one that does not follow on. *)
IsValidLen(cells, n) ==
    /\ \A i \in 1..n : FollowsOn(cells, i)
    /\ n < Len(cells) => ~FollowsOn(cells, n + 1)

ValidLen(cells) == CHOOSE n \in 0..Len(cells) : IsValidLen(cells, n)

(* Bug: the cut is one record short. *)
ValidPrefixShort(cells) == SubSeq(cells, 1, ValidLen(cells) - 1)

ValidPrefix(cells) == SubSeq(cells, 1, ValidLen(cells))

(* The row groups of the blocks recovered. *)
Recovered(cells) ==
    [k \in 1..ValidLen(cells) - 1 |-> cells[k + 1].block.rows]

(* replay_jsonl_append_stream: the unsealed reader on the valid prefix. *)
Replay(cells) ==
    LET prefix == ValidPrefix(cells)
    IN  IF prefix = << >> \/ prefix[1] # Header THEN ReaderFails(ReaderStart)
        ELSE FoldLeft(DecodeCell, ReaderStart, Tail(prefix))
=============================================================================
