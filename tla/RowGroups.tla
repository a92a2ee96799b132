------------------------------ MODULE RowGroups ------------------------------
(***************************************************************************)
(* How a CMP2 encoder cuts JSONL lines into row groups.  Both encoders, the *)
(* sequential JsonlBlockWriter and the scheduler of the parallel one, carry *)
(* their own copy of this buffer (RowGroupBuffer and PendingRowGroup).      *)
(*                                                                          *)
(* A line is its identity, its size after normalisation and what the code   *)
(* makes of it:                                                             *)
(*   "row"     an object the codecs encode and render back byte for byte    *)
(*   "loose"   an object the codecs accept, but whose text is not the one   *)
(*             the decoder renders (extra spaces, fields outside the schema)*)
(*   "bad"     an object the row-group encoder refuses                      *)
(*   "blank"   white space only, skipped by every reader of lines           *)
(*   "reject"  refused before it reaches a row group: too long, not UTF-8,  *)
(*             an embedded newline, or an I/O error of the input            *)
(***************************************************************************)
EXTENDS Integers, Sequences, SequencesExt

CONSTANTS MaxRowsPerBlock,   \* BlockOptions.max_rows_per_block
          MaxBytesPerBlock   \* BlockOptions.max_uncompressed_bytes_per_block

(* BlockOptions::validate refuses a zero limit. *)
ASSUME BlockOptionsAssumption ==
    /\ MaxRowsPerBlock \in Nat \ {0}
    /\ MaxBytesPerBlock \in Nat \ {0}

LineKinds == {"row", "loose", "bad", "blank", "reject"}
Line == [id : Nat, size : Nat, kind : LineKinds]
Row  == {l \in Line : l.kind \in {"row", "loose", "bad"}}

-----------------------------------------------------------------------------
(* The row group being filled. *)

Group == [rows : Seq(Row), bytes : Nat]
EmptyGroup == [rows |-> << >>, bytes |-> 0]

IsEmptyGroup(g) == g.rows = << >>

(* Bug: a row that fills the group exactly counts as one too many. *)
WouldExceedEarly(g, row) ==
    /\ ~IsEmptyGroup(g)
    /\ \/ Len(g.rows) + 1 >= MaxRowsPerBlock
       \/ g.bytes + row.size >= MaxBytesPerBlock

WouldExceed(g, row) ==
    /\ ~IsEmptyGroup(g)
    /\ \/ Len(g.rows) + 1 > MaxRowsPerBlock
       \/ g.bytes + row.size > MaxBytesPerBlock

ReachedLimit(g) ==
    \/ Len(g.rows) >= MaxRowsPerBlock
    \/ g.bytes >= MaxBytesPerBlock

PushLine(g, row) == [rows |-> Append(g.rows, row), bytes |-> g.bytes + row.size]

-----------------------------------------------------------------------------
(* The sequential writer's cut of a whole input, one write_jsonl_line after *)
(* the other: `done` holds the flushed groups, `group` the one being filled.*)

FlushBlock(s) ==
    IF IsEmptyGroup(s.group) THEN s
    ELSE [done |-> Append(s.done, s.group.rows), group |-> EmptyGroup]

WriteLine(s, line) ==
    LET room == IF WouldExceed(s.group, line) THEN FlushBlock(s) ELSE s
        full == [room EXCEPT !.group = PushLine(@, line)]
    IN  IF line.kind = "blank" THEN s
        ELSE IF ReachedLimit(full.group) THEN FlushBlock(full) ELSE full

EmptyWriter == [done |-> << >>, group |-> EmptyGroup]

WriterAfter(lines) == FoldLeft(WriteLine, EmptyWriter, lines)

(* The lines the encoder reads before it stops: all of them, or those before*)
(* the first one it rejects.                                                *)
Rejects(lines) == {i \in DOMAIN lines : lines[i].kind = "reject"}

ReadableLines(lines) ==
    LET accepted == {n \in 0..Len(lines) : \A i \in Rejects(lines) : n < i}
    IN  SubSeq(lines, 1, CHOOSE n \in accepted : \A m \in accepted : m <= n)

IsEncodable(rows) == \A i \in DOMAIN rows : rows[i].kind # "bad"

(* The rows of the blocks a sequential encode of `lines` would cut: every   *)
(* full group and, when the input ends well, the last one.                  *)
SequentialGroups(lines) ==
    LET read == WriterAfter(ReadableLines(lines))
    IN  IF Rejects(lines) = {} THEN FlushBlock(read).done ELSE read.done

-----------------------------------------------------------------------------
(* What a cut should be, without the algorithm: the groups, end to end, are *)
(* the rows; each is within both limits; none could have taken one row more.*)
(* A row longer than the byte limit never gets here, so one row always fits.*)

KeepRow(rows, line) ==
    IF line.kind \in {"row", "loose", "bad"} THEN Append(rows, line) ELSE rows

RowsOf(lines) == FoldLeft(KeepRow, << >>, lines)

BytesOf(rows) == FoldLeft(LAMBDA n, r : n + r.size, 0, rows)

IsGreedyCut(groups, rows) ==
    /\ FlattenSeq(groups) = rows
    /\ \A i \in DOMAIN groups :
           /\ Len(groups[i]) \in 1..MaxRowsPerBlock
           /\ BytesOf(groups[i]) <= MaxBytesPerBlock
           /\ i < Len(groups) =>
                  \/ Len(groups[i]) = MaxRowsPerBlock
                  \/ BytesOf(groups[i]) + groups[i + 1][1].size > MaxBytesPerBlock
=============================================================================
