----------------------------- MODULE AppendStream -----------------------------
(***************************************************************************)
(* The sequential CMP2 writer (JsonlBlockWriter) and the append writer built*)
(* on it (JsonlAppendWriter), over a medium whose writes may fail half way, *)
(* whose process may be stopped at any moment and whose bytes may be damaged*)
(* between two sessions; a session goes on from what the Recovery finds.    *)
(*                                                                          *)
(* A session starts with Create or Resume and ends with Finish or Stop.  A  *)
(* call of write_jsonl_line, flush_block or finish is one to three steps,   *)
(* told apart by pc:                                                        *)
(*   "room"    flush_block to make room for the line at hand                *)
(*   "push"    push_line                                                    *)
(*   "full"    flush_block because the group reached a limit                *)
(*   "flush"   flush_block called from outside                              *)
(*   "finish"  flush_block of finish                                        *)
(*   "footer"  write_index_footer of finish                                 *)
(***************************************************************************)
EXTENDS Recovery

CONSTANTS Lines,        \* the lines a caller writes; the id is set per call
          MaxCalls,     \* bound: calls of the writers, over all sessions
          MaxDamages,   \* bound: damages to the file between sessions
          Retries,      \* the caller goes on with a writer that failed to write
          Truncates,    \* the caller cuts the file at valid_len to resume
          NoLine        \* no line at hand

ASSUME AppendAssumption ==
    /\ Lines \subseteq Line
    /\ MaxCalls \in Nat
    /\ MaxDamages \in Nat
    /\ Retries \in BOOLEAN
    /\ Truncates \in BOOLEAN
    /\ NoLine \notin Row

VARIABLES file,       \* the cells in front of the writer's position
          beyond,     \* old cells behind it: the caller did not cut the file
          pc,         \* where the call in progress is
          sealing,    \* the session is a JsonlBlockWriter's: finish seals
          writer,     \* the JsonlBlockWriter
          held,       \* the line of the write_jsonl_line in progress
          failed,     \* a write of this session failed
          result,     \* how the last session ended
          opened,     \* history: the row groups recovered when it began
          accepted,   \* history: the rows pushed since
          calls, damages

vars == <<file, beyond, pc, sealing, writer, held, failed, result, opened,
          accepted, calls, damages>>
medium  == <<file, beyond>>
history == <<opened, accepted>>
bounds  == <<calls, damages>>

-----------------------------------------------------------------------------
(* The medium: what the file would be read as. *)
Contents == file \o beyond

-----------------------------------------------------------------------------
(* The writer.  A frame is one longer than its rows are many, so n blocks   *)
(* of r rows end at HeaderLen + n + r.                                      *)

WriterSet == [current : Group, blocks_written : Nat, rows_written : Nat,
              bytes_written : Nat, metadata : Seq(EntrySet)]

NewWriter(blocks, rows) ==
    [current |-> EmptyGroup, blocks_written |-> blocks, rows_written |-> rows,
     bytes_written |-> HeaderLen + blocks + rows, metadata |-> << >>]

NoWriter == NewWriter(0, 0)

NextBlock == [index |-> writer.blocks_written, first |-> writer.rows_written,
              rows |-> writer.current.rows]

(* Bug: the row counter stays. *)
BlockDoneSameRow ==
    [current        |-> EmptyGroup,
     blocks_written |-> writer.blocks_written + 1,
     rows_written   |-> writer.rows_written,
     bytes_written  |-> writer.bytes_written + FrameLen(NextBlock),
     metadata       |-> Append(writer.metadata,
                               Entry(NextBlock, writer.bytes_written))]

(* The counters move, and the group is cleared, once write_all returned Ok. *)
BlockDone ==
    [current        |-> EmptyGroup,
     blocks_written |-> writer.blocks_written + 1,
     rows_written   |-> writer.rows_written + Len(writer.current.rows),
     bytes_written  |-> writer.bytes_written + FrameLen(NextBlock),
     metadata       |-> Append(writer.metadata,
                               Entry(NextBlock, writer.bytes_written))]

FlushRefuses == \/ writer.blocks_written >= MaxStreamBlocks
                \/ ~IsEncodable(writer.current.rows)

(* What a frame written over old cells leaves of those behind it: all but   *)
(* the first one, or bytes that start in the middle of a cell.              *)
LeftBeyond(block) ==
    IF beyond = << >> THEN {<< >>}
    ELSE {<<Torn>>} \cup
         {cells \in {Tail(beyond)} :
             \/ beyond[1].kind = "corrupt"
             \/ beyond[1].kind = "frame"
                /\ FrameLen(beyond[1].block) = FrameLen(block)}

(* Bug: a failed write is forgotten. *)
MayCallAnyhow == pc = "idle" /\ calls < MaxCalls

IsOpen  == pc # "closed"
MayCall == pc = "idle" /\ calls < MaxCalls /\ (failed => Retries)
Flushing == pc \in {"room", "full", "flush", "finish"}
            /\ ~IsEmptyGroup(writer.current)

-----------------------------------------------------------------------------
Init == /\ file = << >> /\ beyond = << >>
        /\ pc = "closed"
        /\ sealing = FALSE
        /\ writer = NoWriter
        /\ held = NoLine
        /\ failed = FALSE
        /\ result = "none"
        /\ opened = << >> /\ accepted = << >>
        /\ calls = 0 /\ damages = 0

(* The end of a session: the writer is gone, the bytes stay. *)
Close(how) ==
    /\ pc' = "closed"
    /\ result' = how
    /\ writer' = NoWriter
    /\ held' = NoLine
    /\ failed' = FALSE
    /\ beyond' = << >>

Begin(w, groups, seals) ==
    /\ pc' = "idle"
    /\ writer' = w
    /\ sealing' = seals
    /\ result' = "none"
    /\ opened' = groups
    /\ accepted' = << >>
    /\ UNCHANGED <<held, failed, bounds>>

(* JsonlBlockWriter::new for a new file, JsonlAppendWriter::new for one in  *)
(* which recovery finds not even a header.                                  *)
Create == /\ pc = "closed"
          /\ ValidLen(file) = 0
          /\ file' = <<Header>>
          /\ beyond' = << >>
          /\ \E seals \in BOOLEAN :
                /\ seals => file = << >>
                /\ Begin(NewWriter(0, 0), << >>, seals)

(* The header is not written to its end: no writer comes back. *)
CreateFails == /\ pc = "closed"
               /\ ValidLen(file) = 0
               /\ file' \in {<< >>, <<Torn>>}
               /\ result' = "failed"
               /\ UNCHANGED <<beyond, pc, sealing, writer, held, failed,
                              history, bounds>>

(* JsonlAppendWriter::resume at the valid_len of a recovery. *)
Resume == /\ pc = "closed"
          /\ ValidLen(file) > 0
          /\ file' = ValidPrefix(file)
          /\ beyond' = IF Truncates THEN << >>
                       ELSE SubSeq(file, ValidLen(file) + 1, Len(file))
          /\ Begin(NewWriter(ValidLen(file) - 1, NextRow(file, ValidLen(file))),
                   Recovered(file), FALSE)

-----------------------------------------------------------------------------
(* write_jsonl_line on a blank line, and on one it refuses. *)
SkipLine == /\ MayCall
            /\ \E line \in Lines : line.kind \in {"blank", "reject"}
            /\ calls' = calls + 1
            /\ UNCHANGED <<medium, pc, sealing, writer, held, failed, result,
                           history, damages>>

(* write_jsonl_line on a row: make room for it first, or push it at once. *)
WriteRow(line) ==
    /\ MayCall
    /\ line.kind \in {"row", "loose", "bad"}
    /\ line.size <= MaxBytesPerBlock
    /\ held' = [line EXCEPT !.id = calls + 1]
    /\ pc' = IF WouldExceed(writer.current, line) THEN "room" ELSE "push"
    /\ calls' = calls + 1
    /\ UNCHANGED <<medium, sealing, writer, failed, result, history, damages>>

PushRow ==
    /\ pc = "push"
    /\ writer' = [writer EXCEPT !.current = PushLine(@, held)]
    /\ pc' = IF ReachedLimit(writer'.current) THEN "full" ELSE "idle"
    /\ accepted' = Append(accepted, held)
    /\ held' = NoLine
    /\ UNCHANGED <<medium, sealing, failed, result, opened, bounds>>

FlushBlockCall == /\ MayCall
                  /\ ~IsEmptyGroup(writer.current)
                  /\ pc' = "flush"
                  /\ calls' = calls + 1
                  /\ UNCHANGED <<medium, sealing, writer, held, failed, result,
                                 history, damages>>

(* finish and finish_without_footer: the writer is consumed. *)
Finish == /\ MayCall
          /\ pc' = "finish"
          /\ calls' = calls + 1
          /\ UNCHANGED <<medium, sealing, writer, held, failed, result,
                         history, damages>>

-----------------------------------------------------------------------------
(* flush_block wrote its frame. *)
WriteFrame ==
    /\ file' = Append(file, Frame(NextBlock))
    /\ beyond' \in LeftBeyond(NextBlock)
    /\ writer' = BlockDone

FlushInLine ==
    /\ Flushing /\ pc # "finish"
    /\ ~FlushRefuses
    /\ WriteFrame
    /\ pc' = IF pc = "room" THEN "push" ELSE "idle"
    /\ UNCHANGED <<sealing, held, failed, result, history, bounds>>

FlushBeforeFooter ==
    /\ Flushing /\ pc = "finish" /\ sealing
    /\ ~FlushRefuses
    /\ WriteFrame
    /\ pc' = "footer"
    /\ UNCHANGED <<sealing, held, failed, result, history, bounds>>

(* The last flush of an append writer is all that finish does. *)
FlushAtEnd ==
    /\ Flushing /\ pc = "finish" /\ ~sealing
    /\ ~FlushRefuses
    /\ \E left \in LeftBeyond(NextBlock) :
          file' = Append(file, Frame(NextBlock)) \o left
    /\ Close("ok")
    /\ UNCHANGED <<sealing, history, bounds>>

(* finish with nothing buffered. *)
NothingToFlush ==
    /\ pc = "finish"
    /\ IsEmptyGroup(writer.current)
    /\ IF sealing
       THEN /\ pc' = "footer"
            /\ UNCHANGED <<medium, writer, held, failed, result>>
       ELSE /\ file' = Contents
            /\ Close("ok")
    /\ UNCHANGED <<sealing, history, bounds>>

(* Bug: the group is cleared before it is encoded. *)
FlushRefusedClears ==
    /\ Flushing /\ pc # "finish"
    /\ FlushRefuses
    /\ pc' = "idle"
    /\ held' = NoLine
    /\ writer' = [writer EXCEPT !.current = EmptyGroup]
    /\ UNCHANGED <<medium, sealing, failed, result, history, bounds>>

(* Too many blocks, or a row the encoder refuses: nothing is written and the*)
(* group stays; a line that waited for room is dropped.                     *)
FlushRefused ==
    /\ Flushing /\ pc # "finish"
    /\ FlushRefuses
    /\ pc' = "idle"
    /\ held' = NoLine
    /\ UNCHANGED <<medium, sealing, writer, failed, result, history, bounds>>

FinishRefused ==
    /\ Flushing /\ pc = "finish"
    /\ FlushRefuses
    /\ file' = Contents
    /\ Close("failed")
    /\ UNCHANGED <<sealing, history, bounds>>

(* Bug: the group is cleared before the write. *)
WriteFailsCleared ==
    /\ Flushing /\ pc # "finish"
    /\ ~FlushRefuses
    /\ \/ UNCHANGED medium
       \/ file' = Append(file, Torn) /\ beyond' = << >>
    /\ failed' = TRUE
    /\ pc' = "idle"
    /\ held' = NoLine
    /\ writer' = [writer EXCEPT !.current = EmptyGroup]
    /\ UNCHANGED <<sealing, result, history, bounds>>

(* write_all fails after none, or some, of the bytes. *)
WriteFails ==
    /\ Flushing /\ pc # "finish"
    /\ ~FlushRefuses
    /\ \/ UNCHANGED medium
       \/ file' = Append(file, Torn) /\ beyond' = << >>
    /\ failed' = TRUE
    /\ pc' = "idle"
    /\ held' = NoLine
    /\ UNCHANGED <<sealing, writer, result, history, bounds>>

FinishFails ==
    /\ \/ Flushing /\ pc = "finish" /\ ~FlushRefuses
       \/ pc = "footer"
    /\ file' \in {Contents, Append(file, Torn)}
    /\ Close("failed")
    /\ UNCHANGED <<sealing, history, bounds>>

(* write_index_footer, from the entries of this session. *)
WriteFooter ==
    /\ pc = "footer"
    /\ file' = Append(file, Footer(writer.metadata))
    /\ Close("sealed")
    /\ UNCHANGED <<sealing, history, bounds>>

-----------------------------------------------------------------------------
(* The process ends, or the caller drops the writer; a write may be cut.    *)
Stop == /\ IsOpen
        /\ \/ file' = Contents
           \/ /\ (Flushing /\ ~FlushRefuses) \/ pc = "footer"
              /\ file' = Append(file, Torn)
        /\ Close("stopped")
        /\ UNCHANGED <<sealing, history, bounds>>

(* Between two sessions a cell is damaged or the end of the file is lost.   *)
Damage ==
    /\ pc = "closed"
    /\ damages < MaxDamages
    /\ \/ \E i \in 1..Len(file) : file' = [file EXCEPT ![i] = Corrupt]
       \/ \E n \in 0..Len(file) - 1 :
             file' \in {SubSeq(file, 1, n), Append(SubSeq(file, 1, n), Torn)}
    /\ result' = "none"
    /\ damages' = damages + 1
    /\ UNCHANGED <<beyond, pc, sealing, writer, held, failed, history, calls>>

Call == \/ SkipLine
        \/ \E line \in Lines : WriteRow(line)
        \/ PushRow
        \/ FlushBlockCall
        \/ Finish

Flush == \/ FlushInLine \/ FlushBeforeFooter \/ FlushAtEnd \/ NothingToFlush
         \/ FlushRefused \/ FinishRefused
         \/ WriteFails \/ FinishFails
         \/ WriteFooter

Next == Create \/ CreateFails \/ Resume \/ Call \/ Flush \/ Stop \/ Damage

Spec == Init /\ [][Next]_vars

-----------------------------------------------------------------------------
(* The rows a caller may offer: a line and the call that writes it. *)
RowsOffered == {row \in {[line EXCEPT !.id = i] : line \in Lines, i \in 1..MaxCalls} :
                    row.kind \in {"row", "loose", "bad"}}

(* Every variable has its type; a line is at hand while its call needs it;  *)
(* a closed session leaves no writer state and no uncut bytes.              *)
TypeOK ==
    /\ file \in Seq(Cell)
    /\ beyond \in Seq(Cell)
    /\ pc \in {"closed", "idle", "room", "push", "full", "flush", "finish", "footer"}
    /\ sealing \in BOOLEAN
    /\ writer \in WriterSet
    /\ held \in Row \cup {NoLine}
    /\ (held \in Row) <=> pc \in {"room", "push"}
    /\ failed \in BOOLEAN
    /\ result \in {"none", "ok", "sealed", "failed", "stopped"}
    /\ opened \in Seq(Seq(Row))
    /\ accepted \in Seq(Row)
    /\ calls \in 0..MaxCalls
    /\ damages \in 0..MaxDamages
    /\ pc = "closed" => beyond = << >> /\ writer = NoWriter /\ ~failed

(* resume and flush_block: as long as no write failed, an open writer stands *)
(* at the end of a file that recovery would keep to its last byte, and its   *)
(* counters are those recovery would hand to resume.                         *)
SessionInSync ==
    IsOpen /\ ~failed =>
        /\ file # << >>
        /\ IsValidLen(file, Len(file))
        /\ writer.blocks_written = Len(file) - 1
        /\ writer.rows_written = NextRow(file, Len(file))
        /\ writer.bytes_written =
               HeaderLen + writer.blocks_written + writer.rows_written

(* What a call in progress may rely on: the footer follows a flush of the   *)
(* last group of a sealing session; a writer that failed to write is not    *)
(* called again; the line at hand is one a caller offered; a file cut at    *)
(* valid_len has nothing behind the position.                               *)
CallInProgress ==
    /\ pc = "footer" => sealing /\ IsEmptyGroup(writer.current)
    /\ failed /\ ~Retries => pc = "idle"
    /\ held \in RowsOffered \cup {NoLine}
    /\ Truncates => beyond = << >>

SyncInv == TypeOK /\ SessionInSync /\ CallInProgress

(* A caller that writes only lines in the text the decoder renders.         *)
CanonicalLines == \A line \in Lines : line.kind # "loose"

(* Such a caller's blocks can all be decoded, wherever they ended up.       *)
ReadableInv ==
    CanonicalLines =>
        IsReadable(file) /\ IsReadable(beyond) /\ IsCanonical(writer.current.rows)

(* A block's place is known from the blocks and the rows in front of it.    *)
EntriesMatch ==
    /\ Len(writer.metadata) = Len(file) - 1
    /\ \A k \in 1..Len(file) - 1 :
           writer.metadata[k] = Entry(file[k + 1].block,
                                      HeaderLen + (k - 1) + file[k + 1].block.first)

(* What was found at the start and pushed since is in the file, up to the   *)
(* rows still buffered; a writer that is to seal has the index of all of it.*)
CommittedInv ==
    Truncates /\ ~Retries /\ IsOpen /\ ~failed =>
        /\ FlattenSeq(Recovered(file)) \o writer.current.rows
               = FlattenSeq(opened) \o accepted
        /\ sealing => opened = << >> /\ EntriesMatch

(* A session that goes on has not ended: its result is still to come.       *)
NoResultYet == IsOpen => result = "none"

RowsInv == ReadableInv /\ CommittedInv /\ NoResultYet

IInv == SyncInv /\ RowsInv

(* finish: once it returned Ok, recovery finds the row groups found at the  *)
(* start and behind them, in order, every row pushed since; a sealed file   *)
(* decodes to the same rows.                                                *)
FinishedIsAllThere ==
    result \in {"ok", "sealed"} =>
        /\ FlattenSeq(Recovered(file)) = FlattenSeq(opened) \o accepted
        /\ result = "sealed" =>
               /\ IsDecodable(file)
               /\ SequentialDecode(file).rows = accepted

(* replay_jsonl_append_stream: whatever the sessions, failures and damages, *)
(* the reader gets through the recovered prefix and yields its rows.        *)
ReplayReadsRecovered ==
    ValidLen(Contents) > 0 =>
        /\ Replay(Contents).status = "reading"
        /\ Replay(Contents).rows = FlattenSeq(Recovered(Contents))

(* flush_block, resume, a crash: no step of a writer changes or drops a     *)
(* block that recovery finds; only damage to the medium does.               *)
RecoveredBlocksGrow ==
    [][damages' = damages => IsPrefix(Recovered(Contents), Recovered(Contents'))]_vars

-----------------------------------------------------------------------------
(* The append stream implements the log: a flush commits the whole group or *)
(* nothing, and a session that ends well has committed every row.           *)

LogStatus == IF IsOpen THEN "open"
             ELSE IF result \in {"ok", "sealed"} THEN "complete" ELSE "closed"

Log == INSTANCE AppendLog WITH
           Rows    <- RowsOffered,
           log     <- Recovered(Contents),
           pending <- writer.current.rows,
           status  <- LogStatus

LogSpec == Log!Spec
=============================================================================
