--------------------------- MODULE RollingSegments ---------------------------
(***************************************************************************)
(* roll_jsonl_append_segments: one input cut into several append streams.   *)
(* A segment is cut in front of a line, once the blocks written to it are   *)
(* many or long enough; the rows still buffered then go into one more block.*)
(* Any error fails the whole call, and there are no segments.               *)
(***************************************************************************)
EXTENDS Recovery

CONSTANTS MaxSegmentBytes, MaxBlocksPerSegment,   \* RollingOptions
          Err   \* the result of a call that failed

ASSUME RollingAssumption ==
    /\ MaxSegmentBytes \in Nat \ {0}
    /\ MaxBlocksPerSegment \in Nat \ {0}

(* The frames of some groups, behind `index` blocks and `first` rows. *)
Frames(groups, index, first) ==
    [k \in DOMAIN groups |->
        Frame([index |-> index + k - 1,
               first |-> first + Len(FlattenSeq(SubSeq(groups, 1, k - 1))),
               rows  |-> groups[k]])]

AppendFile(groups) == <<Header>> \o Frames(groups, 0, 0)

(* A writer is as in RowGroups: the groups done, and the one being filled. *)
NoRows == [done |-> << >>, group |-> EmptyGroup]

BytesWritten(writer) == HeaderLen + Len(writer.done) + Len(FlattenSeq(writer.done))

IsFull(writer) == /\ writer # NoRows
                  /\ \/ Len(writer.done) >= MaxBlocksPerSegment
                     \/ BytesWritten(writer) >= MaxSegmentBytes

(* Bug: the rows still buffered are left behind. *)
CutUnflushed(roll) ==
    [segments |-> Append(roll.segments, roll.writer.done), writer |-> NoRows]

(* finish of the current writer. *)
Cut(roll) ==
    [segments |-> Append(roll.segments, FlushBlock(roll.writer).done), writer |-> NoRows]

RollLine(roll, line) ==
    LET at == IF IsFull(roll.writer) THEN Cut(roll) ELSE roll
    IN  IF line.kind = "blank" THEN roll
        ELSE [at EXCEPT !.writer = WriteLine(@, line)]

RollSegments(lines) ==
    LET end  == FoldLeft(RollLine, [segments |-> << >>, writer |-> NoRows], ReadableLines(lines))
        segments == IF end.writer = NoRows THEN end.segments ELSE Cut(end).segments
    IN  IF \/ Rejects(lines) # {}
           \/ \E s \in DOMAIN segments :
                  \/ Len(segments[s]) > MaxStreamBlocks
                  \/ ~IsEncodable(FlattenSeq(segments[s]))
        THEN Err
        ELSE [s \in DOMAIN segments |-> AppendFile(segments[s])]

(* Bug: what is there is recovered, but not copied. *)
AppendLinesAnew(existing, lines) ==
    LET groups == SequentialGroups(lines)
    IN  IF Rejects(lines) # {} \/ ~IsEncodable(FlattenSeq(groups))
        THEN Err ELSE AppendFile(groups)

(* append_jsonl_stream: what is recovered of a file, and the lines behind it.*)
AppendLines(existing, lines) ==
    LET n      == ValidLen(existing)
        groups == SequentialGroups(lines)
    IN  IF \/ Rejects(lines) # {}
           \/ ~IsEncodable(FlattenSeq(groups))
           \/ Len(Recovered(existing)) + Len(groups) > MaxStreamBlocks
        THEN Err
        ELSE IF n = 0 THEN AppendFile(groups)
        ELSE ValidPrefix(existing) \o Frames(groups, n - 1, NextRow(existing, n))
=============================================================================
