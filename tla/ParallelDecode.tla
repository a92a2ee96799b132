--------------------------- MODULE ParallelDecode ----------------------------
(***************************************************************************)
(* decode_jsonl_stream_parallel: the scheduler scans the frames of a sealed *)
(* stream, checks their checksums and their numbering and sends the blocks  *)
(* to the pool, the workers decode the columns in any order, the collector  *)
(* (the calling thread) writes the rows in block order.                     *)
(***************************************************************************)
EXTENDS ParallelPipeline

CONSTANT Files   \* the files considered: sequences of cells

ASSUME FilesAssumption == Files \subseteq Seq(Cell)

VARIABLES
    file,          \* the input
    position,      \* how many of its cells have been read
    index,         \* the scheduler's metadata: an entry per job it sent
    nextOffset,    \* the scheduler's next_offset
    nextRowIndex,  \* the collector's next_row_index
    output         \* the rows written, perhaps with a torn one at the end

scanVars   == <<position, index, nextOffset>>
writerVars == <<nextRowIndex, output>>
vars == <<pipelineVars, scanVars, writerVars, file>>

TypeOK ==
    /\ PipelineTypeOK
    /\ file \in Files
    /\ position \in 0..Len(file)
    /\ index \in Seq(EntrySet)
    /\ nextOffset \in Nat
    /\ nextRowIndex \in Nat
    /\ output \in Seq(Row \cup {Torn})

Init ==
    /\ PipelineInit
    /\ file \in Files
    /\ position = 0
    /\ index = << >>
    /\ nextOffset = HeaderLen
    /\ nextRowIndex = 0
    /\ output = << >>

-----------------------------------------------------------------------------
(* The scheduler thread: schedule_decode_jobs. *)

NextCell == file[position + 1]

HasCell == spc = "reading" /\ position < Len(file)

(* The block is the next one, and there may be one more. *)
IsExpected(block) ==
    /\ block.index = nextBlock
    /\ block.first = nextRow
    /\ Len(index) < MaxStreamBlocks

ScanFrame ==
    /\ HasCell
    /\ NextCell.kind = "frame"
    /\ IsExpected(NextCell.block)
    /\ outbox' = NextCell.block
    /\ spc' = "sending"
    /\ position' = position + 1
    /\ PrepareFrame
    /\ UNCHANGED <<index, nextOffset>>

(* Bug: what comes behind the footer is not looked at. *)
IsSealedAnyTail == /\ NextCell.kind = "footer"
                   /\ Len(NextCell.index) <= MaxStreamBlocks
                   /\ NextCell.index = index

(* The footer lists what was scanned, and nothing comes behind it. *)
IsSealed == /\ NextCell.kind = "footer"
            /\ Len(NextCell.index) <= MaxStreamBlocks
            /\ NextCell.index = index
            /\ position + 1 = Len(file)

ScanFooter ==
    /\ HasCell
    /\ IsSealed
    /\ EndScheduler("ok")
    /\ position' = position + 1
    /\ UNCHANGED <<index, nextOffset>>

(* Bug: a file that just ends is taken for a sealed one. *)
EndOfFileSeals ==
    /\ spc = "reading" /\ position = Len(file)
    /\ EndScheduler("ok")
    /\ UNCHANGED scanVars

EndOfFile ==
    /\ spc = "reading" /\ position = Len(file)
    /\ EndScheduler("inputError")
    /\ UNCHANGED scanVars

(* A cell that is torn or corrupt, a frame out of its place, one too many,  *)
(* a footer that does not match or is not the end of the file.              *)
RejectCell ==
    /\ HasCell
    /\ ~(NextCell.kind = "frame" /\ IsExpected(NextCell.block))
    /\ ~IsSealed
    /\ EndScheduler("inputError")
    /\ UNCHANGED scanVars

(* The entry of the job is pushed once the job is sent. *)
SendJob ==
    /\ Send
    /\ index' = Append(index, Entry(outbox, nextOffset))
    /\ nextOffset' = nextOffset + FrameLen(outbox)
    /\ outbox' = NoBlock
    /\ spc' = "reading"
    /\ UNCHANGED position

SendJobDisconnected == SendDisconnected /\ UNCHANGED scanVars

SchedulerStep ==
    /\ \/ ScanFrame \/ ScanFooter \/ EndOfFile \/ RejectCell
       \/ SendJob \/ SendJobDisconnected
    /\ SchedulerFrame
    /\ UNCHANGED <<writerVars, file>>

-----------------------------------------------------------------------------
(* The worker threads. *)

(* Bug: the size of the decoded rows is not compared with the raw size. *)
DecodesUnchecked(block) == TRUE

(* decode_job: the columns decode to as many rows and bytes as announced.   *)
Decodes(block) == DecodesToRawSize(block)

WorkerStep(w) ==
    /\ PoolWorkerStep(w, wpc[w] = "working" /\ Decodes(hand[w]))
    /\ UNCHANGED <<scanVars, writerVars, file>>

-----------------------------------------------------------------------------
(* The calling thread. *)

HasHeader == file # << >> /\ NextCell = Header

ReadHeader ==
    /\ mpc = "start"
    /\ HasHeader
    /\ position' = 1
    /\ mpc' = "spawn"
    /\ UNCHANGED <<verdict, outcome>>

(* validate_stream_header fails before there is a scope to leave. *)
RejectHeader ==
    /\ mpc = "start"
    /\ ~HasHeader
    /\ verdict' = "headerError"
    /\ outcome' = "headerError"
    /\ mpc' = "returned"
    /\ UNCHANGED position

(* Every block is there: the closure returns Ok. *)
Finish ==
    /\ mpc = "finish"
    /\ IsComplete
    /\ verdict' = "ok"
    /\ mpc' = "leaveScope"
    /\ UNCHANGED <<outcome, position>>

EndsStep ==
    /\ ReadHeader \/ RejectHeader \/ Finish
    /\ UNCHANGED <<poolVars, schedulerVars, orderVars, collected, joined, writerVars>>

(* Bug: the blocks are written as they come. *)
WriteReadyAsTheyCome ==
    /\ \E b \in pending :
          /\ Advance(b)
          /\ output' = output \o b.rows
          /\ nextRowIndex' = nextRowIndex + Len(b.rows)
    /\ CollectorFrame

(* A block leaves the map; its first row must be the next row to write.     *)
WriteReady ==
    /\ \E b \in Ready :
          IF b.first = nextRowIndex
          THEN /\ Advance(b)
               /\ output' = output \o b.rows
               /\ nextRowIndex' = nextRowIndex + Len(b.rows)
          ELSE /\ GiveUp(b, "rowOrder")
               /\ UNCHANGED writerVars
    /\ CollectorFrame

(* A failed write_all leaves some of the rows, and perhaps part of one.     *)
PartOf(rows) ==
    UNION {{SubSeq(rows, 1, n), Append(SubSeq(rows, 1, n), Torn)} :
              n \in 0..Len(rows) - 1}

WriteReadyFails ==
    /\ "write" \in Faults
    /\ \E b \in Ready :
          /\ b.first = nextRowIndex
          /\ GiveUp(b, "writeError")
          /\ \E part \in PartOf(b.rows) : output' = output \o part
    /\ UNCHANGED nextRowIndex
    /\ CollectorFrame

MainStep ==
    /\ \/ EndsStep
       \/ (WriteReady \/ WriteReadyFails) /\ UNCHANGED position
       \/ (SpawnStep \/ ReceiveStep \/ JoinStep) /\ UNCHANGED <<writerVars, position>>
    /\ UNCHANGED <<index, nextOffset, file>>

(* The call has returned and nothing runs any more. *)
Returned == mpc = "returned" /\ UNCHANGED vars

Next ==
    \/ SchedulerStep
    \/ \E w \in WorkerIds : WorkerStep(w)
    \/ MainStep
    \/ Returned

(* Each thread is scheduled by the operating system. *)
Fairness ==
    /\ WF_vars(SchedulerStep)
    /\ \A w \in WorkerIds : WF_vars(WorkerStep(w))
    /\ WF_vars(MainStep)

Spec == Init /\ [][Next]_vars /\ Fairness

-----------------------------------------------------------------------------
(* Safety. *)

(* The collector's own check of the row order never fails: what the         *)
(* scheduler checked of each frame, and the workers of each block, is       *)
(* enough to put the rows where they belong.                                *)
RowOrderNeverFails == collected # "rowOrder"

(* The rows written are those of the blocks that left the map, each at the  *)
(* place its first row index says, whatever order the workers finish in.    *)
RowsInPlace ==
    \A k \in 1..nextToWrite : \A j \in 1..Len(sent[k].rows) :
        /\ sent[k].first + j \in DOMAIN output
        /\ output[sent[k].first + j] = sent[k].rows[j]

(* A call that succeeds has decoded a whole file: a header, frames that are *)
(* the jobs it sent, the footer that lists them and nothing else; and it    *)
(* has written the rows of all of them, each once.                          *)
SuccessIsWhole ==
    outcome = "ok" =>
        /\ Len(file) = Len(sent) + 2
        /\ \A k \in DOMAIN sent : file[k + 1] = Frame(sent[k])
        /\ file[Len(file)] = Footer(index)
        /\ nextToWrite = Len(sent)
        /\ Len(output) = nextRow

(* Unless a write, a spawn or a thread fails, the parallel decoder accepts  *)
(* exactly the files the sequential one accepts.                            *)
AgreesWithSequential ==
    (mpc = "returned" /\ ~EnvironmentFailed) => ((outcome = "ok") <=> IsDecodable(file))

-----------------------------------------------------------------------------
(* The inductive invariant behind the safety properties. *)

(* The frames scanned are the jobs sent, and perhaps the one being sent.    *)
FramesScanned ==
    /\ \A k \in DOMAIN sent : k + 1 \in DOMAIN file /\ file[k + 1] = Frame(sent[k])
    /\ mpc = "start" => position = 0 /\ sent = << >>
    /\ mpc = "spawn" => position = 1 /\ sent = << >>
    /\ spc = "reading" => position = Len(sent) + 1
    /\ spc = "sending" => /\ position = Len(sent) + 2
                          /\ file[position] = Frame(outbox)
    /\ spc = "ok" => /\ position = Len(sent) + 2
                     /\ position = Len(file)
                     /\ file[position] = Footer(index)

(* The collector counts the rows of the blocks it has written. *)
RowsCounted ==
    /\ nextRowIndex = IF nextToWrite = 0 THEN 0
                      ELSE sent[nextToWrite].first + Len(sent[nextToWrite].rows)
    /\ Len(output) >= nextRowIndex
    /\ collected # "writeError" => Len(output) = nextRowIndex

DataInv ==
    /\ PipelineInv
    /\ TypeOK
    /\ FramesScanned
    /\ RowsCounted
    /\ RowsInPlace
    /\ RowOrderNeverFails

(* The header has been checked, or the call has failed for want of it.      *)
StartsWithHeader == file # << >> /\ file[1] = Header

HeaderChecked ==
    /\ mpc = "start" \/ outcome = "headerError" \/ StartsWithHeader
    /\ outcome = "headerError" => ~StartsWithHeader /\ spc = "unspawned"
    /\ verdict = "headerError" => mpc = "returned"

(* The scheduler knows what the sequential reader would know at this point, *)
(* if that gets so far: it looks at the columns too.                        *)
AllDecode(blocks, n) == \A k \in 1..n : Decodes(blocks[k])

ScansAlike ==
    /\ Len(index) = Len(sent)
    /\ spc = "ok" => Len(index) <= MaxStreamBlocks
    /\ \A n \in 0..Len(sent) : AllDecode(sent, n) =>
           LET r == ReaderAfter(file, n + 1)
           IN  /\ r.status = "reading"
               /\ Len(r.entries) = n
               /\ r.nextRow = IF n = 0 THEN 0 ELSE sent[n].first + Len(sent[n].rows)
    /\ AllDecode(sent, Len(sent)) =>
           LET r == ReaderAfter(file, Len(sent) + 1)
           IN  r.entries = index /\ r.nextOffset = nextOffset

(* Only blocks that decode get past the workers, ... *)
WorkersJudge ==
    /\ \A w \in WorkerIds : wpc[w] = "done" => Decodes(hand[w])
    /\ \A i \in DOMAIN results : results[i].ok => Decodes(results[i].block)
    /\ \A b \in pending : Decodes(b)
    /\ AllDecode(sent, nextToWrite)

(* ... so that what is written is what the sequential reader has read.      *)
WritesAlike ==
    collected # "writeError" => output = ReaderAfter(file, nextToWrite + 1).rows

(* A file the sequential reader takes stops nobody. *)
Undisturbed ==
    /\ \A w \in WorkerIds : wpc[w] # "panicked"
    /\ collected # "writeError"
    /\ verdict # "spawnError"

GoodFilesPass == IsDecodable(file) /\ Undisturbed => NobodyStops

SequentialInv ==
    /\ HeaderChecked
    /\ ScansAlike
    /\ WorkersJudge
    /\ WritesAlike
    /\ GoodFilesPass

IInv == DataInv /\ ThreadsInv /\ BlocksInv /\ SequentialInv

-----------------------------------------------------------------------------
(* Steps and liveness. *)

(* Once collect_decode_results has met an error nothing more is written.    *)
QuietAfterError == [][(collected \in CollectErrors) => UNCHANGED output]_vars

(* Whatever the file holds and whatever fails, the call returns. *)
CallReturns == <>(mpc = "returned")

-----------------------------------------------------------------------------
(* Refinement. *)

StatusOf(result) ==
    CASE result = "none" -> "running"
      [] result = "ok"   -> "ok"
      [] OTHER           -> "failed"

Decoder == INSTANCE StreamDecoder WITH status <- StatusOf(outcome)

(* The parallel decoder is a decoder: what it has written is at every       *)
(* moment a prefix of what the sequential reader decodes, and it succeeds   *)
(* only on a sealed file with all of it.                                    *)
DecoderSpec == Decoder!Spec
=============================================================================
