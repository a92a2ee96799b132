--------------------------- MODULE ParallelEncode ----------------------------
(***************************************************************************)
(* encode_jsonl_stream_parallel: the scheduler cuts the input into row      *)
(* groups and sends them to the pool, the workers encode them in any order, *)
(* the collector (the calling thread) writes the frames in block order, and *)
(* the call writes the IDX1 footer once every thread is joined.             *)
(***************************************************************************)
EXTENDS ParallelPipeline

CONSTANT Inputs   \* the inputs considered: sequences of lines

(* A row longer than the byte limit is a line to reject, not a row. *)
ASSUME InputsAssumption ==
    /\ Inputs \subseteq Seq(Line)
    /\ \A ls \in Inputs : \A i \in DOMAIN ls :
           ls[i] \in Row => ls[i].size \in 1..MaxBytesPerBlock

VARIABLES
    lines,         \* the input
    position,      \* how many of its lines the scheduler has read
    group,         \* the scheduler's PendingRowGroup
    held,          \* the line to push once the outbox is sent: none or one
    bytesWritten,  \* the collector's bytes_written
    metadata,      \* the collector's index entries
    output         \* the cells written to the caller's writer

readerVars == <<position, group, held>>
writerVars == <<bytesWritten, metadata, output>>
vars == <<pipelineVars, readerVars, writerVars, lines>>

TypeOK ==
    /\ PipelineTypeOK
    /\ lines \in Inputs
    /\ position \in 0..Len(lines)
    /\ group \in Group
    /\ held \in Seq(Row) /\ Len(held) <= 1
    /\ bytesWritten \in Nat
    /\ metadata \in Seq(EntrySet)
    /\ output \in Seq(Cell)

Init ==
    /\ PipelineInit
    /\ lines \in Inputs
    /\ position = 0
    /\ group = EmptyGroup
    /\ held = << >>
    /\ bytesWritten = HeaderLen
    /\ metadata = << >>
    /\ output = << >>

-----------------------------------------------------------------------------
(* The scheduler thread: schedule_jobs. *)

(* PendingRowGroup::take_job *)
TakeJob(g) == [index |-> nextBlock, first |-> nextRow, rows |-> g.rows]

NextLine == lines[position + 1]

HasLine == spc = "reading" /\ position < Len(lines)

AtEnd == spc = "reading" /\ position = Len(lines)

(* The scheduler goes on to the next line. *)
ReadOn ==
    /\ position' = position + 1
    /\ PrepareFrame

SkipBlankLine ==
    /\ HasLine
    /\ NextLine.kind = "blank"
    /\ ReadOn
    /\ UNCHANGED <<group, held, outbox, spc>>

(* Bug: an unreadable line is skipped like a blank one. *)
RejectLineSkips ==
    /\ HasLine
    /\ NextLine.kind = "reject"
    /\ ReadOn
    /\ UNCHANGED <<group, held, outbox, spc>>

(* The input cannot be read or the line is refused: the thread returns the  *)
(* error, and the rows of the unfinished group are dropped.                 *)
RejectLine ==
    /\ HasLine
    /\ NextLine.kind = "reject"
    /\ EndScheduler("inputError")
    /\ UNCHANGED readerVars

(* The line does not fit: the group goes first, the line waits. *)
CutBeforeLine ==
    /\ HasLine
    /\ NextLine \in Row
    /\ WouldExceed(group, NextLine)
    /\ outbox' = TakeJob(group)
    /\ group' = EmptyGroup
    /\ held' = <<NextLine>>
    /\ spc' = "sending"
    /\ ReadOn

(* push_line, and take_job at once when the group reached a limit. *)
Push(line, block, row) ==
    LET g == PushLine(group, line)
    IN  /\ held' = << >>
        /\ IF ReachedLimit(g)
           THEN /\ outbox' = [index |-> block, first |-> row, rows |-> g.rows]
                /\ group' = EmptyGroup
                /\ spc' = "sending"
           ELSE /\ outbox' = NoBlock
                /\ group' = g
                /\ spc' = "reading"

PushNextLine ==
    /\ HasLine
    /\ NextLine \in Row
    /\ ~WouldExceed(group, NextLine)
    /\ Push(NextLine, nextBlock, nextRow)
    /\ ReadOn

(* End of input with rows left: one last job. *)
CutLastGroup ==
    /\ AtEnd
    /\ ~IsEmptyGroup(group)
    /\ outbox' = TakeJob(group)
    /\ group' = EmptyGroup
    /\ spc' = "sending"
    /\ PrepareFrame
    /\ UNCHANGED <<position, held>>

FinishScheduling ==
    /\ AtEnd
    /\ IsEmptyGroup(group)
    /\ EndScheduler("ok")
    /\ UNCHANGED readerVars

(* After a send the line that waited is pushed. *)
PushHeld ==
    IF held = << >>
    THEN /\ outbox' = NoBlock
         /\ spc' = "reading"
         /\ UNCHANGED <<group, held>>
    ELSE Push(held[1], nextBlock', nextRow')

SendJob ==
    /\ Send
    /\ PushHeld
    /\ UNCHANGED position

SendJobDisconnected == SendDisconnected /\ UNCHANGED readerVars

SchedulerStep ==
    /\ \/ SkipBlankLine \/ RejectLine \/ CutBeforeLine \/ PushNextLine
       \/ CutLastGroup \/ FinishScheduling
       \/ SendJob \/ SendJobDisconnected
    /\ SchedulerFrame
    /\ UNCHANGED <<writerVars, lines>>

-----------------------------------------------------------------------------
(* The worker threads. *)

(* encode_job succeeds when the row-group encoder accepts every row. *)
WorkerStep(w) ==
    /\ PoolWorkerStep(w, wpc[w] = "working" /\ IsEncodable(hand[w].rows))
    /\ UNCHANGED <<readerVars, writerVars, lines>>

-----------------------------------------------------------------------------
(* The calling thread. *)

WriteHeader ==
    /\ mpc = "start"
    /\ output' = <<Header>>
    /\ mpc' = "spawn"
    /\ UNCHANGED <<verdict, outcome>>

(* A failed write_all may leave some of its bytes behind. *)
TornWrite == output' \in {output, Append(output, Torn)}

(* The header is written before there is a scope to leave. *)
WriteHeaderFails ==
    /\ "write" \in Faults
    /\ mpc = "start"
    /\ TornWrite
    /\ verdict' = "headerError"
    /\ outcome' = "headerError"
    /\ mpc' = "returned"

(* Bug: the offset leaves the frame header out. *)
WriteReadyShortOffset ==
    /\ \E b \in Ready :
          /\ Advance(b)
          /\ output' = Append(output, Frame(b))
          /\ metadata' = Append(metadata, Entry(b, bytesWritten))
          /\ bytesWritten' = bytesWritten + Len(b.rows)
    /\ CollectorFrame

WriteReady ==
    /\ \E b \in Ready :
          /\ Advance(b)
          /\ output' = Append(output, Frame(b))
          /\ metadata' = Append(metadata, Entry(b, bytesWritten))
          /\ bytesWritten' = bytesWritten + FrameLen(b)
    /\ CollectorFrame

WriteReadyFails ==
    /\ "write" \in Faults
    /\ \E b \in Ready : GiveUp(b, "writeError")
    /\ TornWrite
    /\ UNCHANGED <<bytesWritten, metadata>>
    /\ CollectorFrame

(* Bug: the footer is written without looking at what was collected. *)
WriteFooterUnchecked ==
    /\ mpc = "finish"
    /\ output' = Append(output, Footer(metadata))
    /\ verdict' = "ok"
    /\ mpc' = "leaveScope"
    /\ UNCHANGED outcome

(* Bug: the footer is written before the threads are joined. *)
WriteFooterBeforeJoin ==
    /\ mpc = "joinScheduler"
    /\ IsComplete
    /\ output' = Append(output, Footer(metadata))
    /\ verdict' = "ok"
    /\ mpc' = "leaveScope"
    /\ UNCHANGED outcome

(* write_index_footer *)
WriteFooter ==
    /\ mpc = "finish"
    /\ IsComplete
    /\ output' = Append(output, Footer(metadata))
    /\ verdict' = "ok"
    /\ mpc' = "leaveScope"
    /\ UNCHANGED outcome

WriteFooterFails ==
    /\ "write" \in Faults
    /\ mpc = "finish"
    /\ IsComplete
    /\ TornWrite
    /\ verdict' = "footerError"
    /\ mpc' = "leaveScope"
    /\ UNCHANGED outcome

EndsStep ==
    /\ WriteHeader \/ WriteHeaderFails \/ WriteFooter \/ WriteFooterFails
    /\ UNCHANGED <<poolVars, schedulerVars, orderVars, collected, joined,
                   bytesWritten, metadata>>

MainStep ==
    /\ \/ EndsStep
       \/ WriteReady
       \/ WriteReadyFails
       \/ (SpawnStep \/ ReceiveStep \/ JoinStep) /\ UNCHANGED writerVars
    /\ UNCHANGED <<readerVars, lines>>

(* The call has returned and nothing runs any more. *)
Returned == mpc = "returned" /\ UNCHANGED vars

Next ==
    \/ SchedulerStep
    \/ \E w \in WorkerIds : WorkerStep(w)
    \/ MainStep
    \/ Returned

(* Each thread is scheduled by the operating system. *)
Fairness ==
    /\ WF_vars(SchedulerStep)
    /\ \A w \in WorkerIds : WF_vars(WorkerStep(w))
    /\ WF_vars(MainStep)

Spec == Init /\ [][Next]_vars /\ Fairness

-----------------------------------------------------------------------------
(* Safety. *)

(* Whatever order the workers finish in, the frames written are the jobs    *)
(* the scheduler sent, each at the place of its block index, behind the     *)
(* header (collect_results and its BTreeMap).                               *)
OutputInOrder ==
    \A i \in DOMAIN output :
        output[i].kind = "frame" =>
            /\ i - 1 \in DOMAIN sent
            /\ output[i].block = sent[i - 1]

(* The footer is what a reader finds by scanning the frames: for each block *)
(* its index, rows, length, checksum and the offset it really starts at.    *)
FooterMatchesFrames ==
    \A i \in DOMAIN output :
        output[i].kind = "footer" =>
            LET index == output[i].index
            IN  /\ i = Len(output)
                /\ Len(index) = Len(output) - 2
                /\ \A k \in DOMAIN index :
                       /\ index[k] = Entry(output[k + 1].block,
                                           IF k = 1 THEN HeaderLen
                                           ELSE index[k - 1].encoded_offset
                                                + index[k - 1].compressed_size)
                       /\ index[k].block_index = k - 1

(* A call that succeeds has read its whole input and written every job that *)
(* was sent, once, with the footer behind them: no block is lost in a       *)
(* channel, in a worker or in the map.                                      *)
SuccessIsComplete ==
    outcome = "ok" =>
        /\ position = Len(lines)
        /\ Len(output) = Len(sent) + 2
        /\ \A k \in DOMAIN sent : output[k + 1] = Frame(sent[k])
        /\ output[Len(output)].kind = "footer"

(* ... and its blocks are a greedy cut of the rows of the input.            *)
SuccessIsGreedyCut ==
    outcome = "ok" =>
        IsGreedyCut([k \in DOMAIN sent |-> sent[k].rows], RowsOf(lines))

(* The footer is written only after every thread has ended, none of them by *)
(* panicking: nobody is left who could still have a block or an error.      *)
FooterAfterAllThreads ==
    (output # << >> /\ Last(output).kind = "footer") =>
        /\ spc = "ok"
        /\ \A w \in WorkerIds : wpc[w] = "exited"
        /\ outcome \in {"none", "ok"}

(* With an input that can be encoded and an environment without faults the  *)
(* call cannot fail: none of the internal errors ("incomplete", "worker     *)
(* pool stopped") is an artefact of the scheduling.                         *)
CleanInputSucceeds ==
    (mpc = "returned" /\ Faults = {} /\ \A i \in DOMAIN lines :
                                            lines[i].kind \notin {"bad", "reject"})
        => outcome = "ok"

-----------------------------------------------------------------------------
(* The inductive invariant behind the safety properties. *)

(* What is behind the header: the first nextToWrite jobs, and then perhaps  *)
(* a torn cell, or the footer of a call that succeeds.                      *)
FramesWritten ==
    /\ \A k \in 1..nextToWrite :
           k + 1 \in DOMAIN output /\ output[k + 1] = Frame(sent[k])
    /\ \A i \in DOMAIN output : output[i].kind = "frame" => i \in 2..nextToWrite + 1
    /\ \A i \in DOMAIN output :
           output[i].kind = "footer" => verdict = "ok" /\ i = nextToWrite + 2

OutputLength ==
    /\ mpc = "start" => output = << >> /\ nextToWrite = 0
    /\ mpc # "start" /\ verdict = "none" /\ collected \in {"none", "ok"} =>
           Len(output) = nextToWrite + 1
    /\ verdict = "ok" => Len(output) = nextToWrite + 2

(* The collector's index describes the frames written. *)
IndexMatches ==
    /\ Len(metadata) = nextToWrite
    /\ \A k \in 1..nextToWrite :
           metadata[k] = Entry(sent[k],
                               IF k = 1 THEN HeaderLen
                               ELSE metadata[k - 1].encoded_offset
                                    + metadata[k - 1].compressed_size)
    /\ bytesWritten = IF nextToWrite = 0 THEN HeaderLen
                      ELSE metadata[nextToWrite].encoded_offset
                           + metadata[nextToWrite].compressed_size
    /\ verdict = "ok" => output[nextToWrite + 2] = Footer(metadata)

(* A scheduler that ended well has read everything. *)
InputRead == spc = "ok" => position = Len(lines)

DataInv ==
    /\ PipelineInv
    /\ TypeOK
    /\ InputRead
    /\ FramesWritten
    /\ OutputLength
    /\ IndexMatches

(* The scheduler is where the sequential writer is after the same lines: its*)
(* jobs are the groups flushed, its group is the group being filled.  While *)
(* a job is in the outbox, that is one group more, and the line that waits  *)
(* is still to be written.                                                  *)
Sequential == WriterAfter(SubSeq(lines, 1, position))
SentRows   == [k \in DOMAIN sent |-> sent[k].rows]
WithOutbox == [done |-> Append(SentRows, outbox.rows), group |-> EmptyGroup]

CutsAsFar ==
    /\ held = << >>
    /\ \/ spc # "ok" /\ Sequential = [done |-> SentRows, group |-> group]
       \/ /\ position = Len(lines)
          /\ IsEmptyGroup(group)
          /\ SentRows = FlushBlock(Sequential).done

CutsOneMore ==
    /\ outbox # NoBlock
    /\ group = EmptyGroup
    /\ \/ held # << >> /\ Sequential = WriteLine(WithOutbox, held[1])
       \/ held = << >> /\ Sequential = WithOutbox
       \/ /\ held = << >>
          /\ position = Len(lines)
          /\ ~IsEmptyGroup(Sequential.group)
          /\ WithOutbox = FlushBlock(Sequential)

CutsAlike ==
    /\ \A i \in 1..position : lines[i].kind # "reject"
    /\ IF spc \in {"sending", "poolStopped"} THEN CutsOneMore ELSE CutsAsFar

(* What a worker passed on as encoded, and what is written of it, can be    *)
(* encoded.                                                                 *)
OnlyEncodable ==
    /\ \A w \in WorkerIds : wpc[w] = "done" => IsEncodable(hand[w].rows)
    /\ \A i \in DOMAIN results : results[i].ok => IsEncodable(results[i].block.rows)
    /\ \A b \in pending : IsEncodable(b.rows)
    /\ \A k \in 1..nextToWrite : IsEncodable(sent[k].rows)

HeaderFirst ==
    mpc # "start" /\ outcome # "headerError" => output # << >> /\ output[1] = Header

StreamInv == CutsAlike /\ OnlyEncodable /\ HeaderFirst

(* Nothing in the input and nothing in the environment can fail ... *)
IsClean == Faults = {} /\ \A i \in DOMAIN lines : lines[i].kind \notin {"bad", "reject"}

(* ... so that every row on its way can be encoded.  Then nobody stops.      *)
RowsAreGood ==
    /\ IsEncodable(group.rows)
    /\ IsEncodable(held)
    /\ outbox # NoBlock => IsEncodable(outbox.rows)
    /\ \A k \in DOMAIN sent : IsEncodable(sent[k].rows)

CleanInv == IsClean => RowsAreGood /\ NobodyStops

IInv == DataInv /\ ThreadsInv /\ BlocksInv /\ CleanInv /\ StreamInv

-----------------------------------------------------------------------------
(* Steps. *)

(* Once collect_results has met an error, nothing more is written, and the  *)
(* call never seals what it left behind.                                    *)
QuietAfterError == [][(collected \in CollectErrors) => UNCHANGED output]_vars

-----------------------------------------------------------------------------
(* Liveness. *)

(* Whatever fails, the call returns: no thread stays blocked on a full      *)
(* channel, an empty one or the mutex.                                      *)
CallReturns == <>(mpc = "returned")

-----------------------------------------------------------------------------
(* Refinement. *)

StatusOf(result) ==
    CASE result = "none" -> "running"
      [] result = "ok"   -> "ok"
      [] OTHER           -> "failed"

Stream == INSTANCE BlockStream WITH status <- StatusOf(outcome)

(* The parallel encoder is an encoder: its output is at every moment a      *)
(* prefix of what the sequential writer would have produced for the lines   *)
(* read ("byte-for-byte compatible"), and it succeeds only with all of it.  *)
StreamSpec == Stream!Spec

-----------------------------------------------------------------------------
(* What the documentation says of the program, and the code does not do.    *)

(* Any stream the encoder seals can be read back by the sequential reader.  *)
SealedStreamsDecode == outcome = "ok" => IsDecodable(output)

(* Any stream the encoder seals can be inspected.                           *)
SealedStreamsInspect == outcome = "ok" => IsInspectable(output)

(* A worker's error is the error the caller sees.                           *)
WorkerErrorSurfaces ==
    (mpc = "returned" /\ collected = "workerError") => outcome = "workerError"
=============================================================================
