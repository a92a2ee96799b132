---------------------------- MODULE AsyncDecode ------------------------------
(***************************************************************************)
(* decode_jsonl_stream_parallel_async_writer: a batch of up to Workers      *)
(* blocks is scanned, decoded by a thread each and joined, and then handed  *)
(* to an async sink one awaited block at a time.  Only at an await does the *)
(* caller see anything, and only there can it drop the future.              *)
(*                                                                          *)
(* The threads of a batch share nothing and the caller is blocked until it  *)
(* has joined them all, so that a batch decodes in one step.                *)
(***************************************************************************)
EXTENDS Cmp2File

CONSTANTS Workers,   \* ParallelDecodeOptions.worker_count
          Faults,    \* what may fail: "sink", "spawn", "panic"
          Files      \* the files considered: sequences of cells

ASSUME WorkersAssumption == Workers \in Nat \ {0}
ASSUME FaultsAssumption  == Faults \subseteq {"sink", "spawn", "panic"}
ASSUME FilesAssumption   == Files \subseteq Seq(Cell)

VARIABLES
    file,      \* the input
    position,  \* how many of its cells have been read
    pc,        \* where the future is
    scan,      \* metadata, expected indices and next_offset, as a reader record
    batch,     \* the jobs scanned, or the decoded blocks left to write
    taken,     \* how many rows of the first of them the sink has accepted
    outcome,   \* what the future resolved to
    output     \* the rows the sink has, perhaps with a torn one at the end

vars == <<file, position, pc, scan, batch, taken, outcome, output>>

Errors == {"headerError", "inputError", "blockError", "sinkError",
           "spawnError", "panicked", "scopePanic"}

TypeOK ==
    /\ file \in Files
    /\ position \in 0..Len(file)
    /\ pc \in {"start", "scanning", "decoding", "writing", "failing", "returned", "dropped"}
    /\ scan \in [status : {"reading", "sealed"}, entries : Seq(EntrySet),
                 nextRow : Nat, nextOffset : Nat, rows : Seq(Row)]
    /\ batch \in Seq(Block) /\ Len(batch) <= Workers
    /\ taken \in Nat
    /\ outcome \in Errors \cup {"none", "ok"}
    /\ output \in Seq(Row \cup {Torn})

Init ==
    /\ file \in Files
    /\ position = 0
    /\ pc = "start"
    /\ scan = ReaderStart
    /\ batch = << >>
    /\ taken = 0
    /\ outcome = "none"
    /\ output = << >>

-----------------------------------------------------------------------------
Return(result) == pc' = "returned" /\ outcome' = result

HasHeader == file # << >> /\ file[1] = Header

(* validate_stream_header *)
ReadHeader ==
    /\ pc = "start"
    /\ IF HasHeader
       THEN position' = 1 /\ pc' = "scanning" /\ UNCHANGED outcome
       ELSE Return("headerError") /\ UNCHANGED position
    /\ UNCHANGED <<file, scan, batch, taken, output>>

HasCell == pc = "scanning" /\ position < Len(file)

NextCell == file[position + 1]

IsNextJob == /\ NextCell.kind = "frame"
             /\ IsNextBlock(scan, NextCell.block)
             /\ Len(scan.entries) < MaxStreamBlocks

(* Bug: the batch has no bound, everything is scanned before anything is    *)
(* written.                                                                 *)
ScanFrameGreedily ==
    /\ HasCell
    /\ IsNextJob
    /\ scan' = TakeBlock(scan, NextCell.block)
    /\ batch' = Append(batch, NextCell.block)
    /\ position' = position + 1
    /\ UNCHANGED <<file, pc, taken, outcome, output>>

(* Bug: the batch is decoded one block too early. *)
ScanFrameEarly ==
    /\ HasCell
    /\ IsNextJob
    /\ scan' = TakeBlock(scan, NextCell.block)
    /\ batch' = Append(batch, NextCell.block)
    /\ pc' = IF Len(batch') + 1 >= Workers THEN "decoding" ELSE "scanning"
    /\ position' = position + 1
    /\ UNCHANGED <<file, taken, outcome, output>>

(* A frame in its place becomes a job; a full batch is decoded. *)
ScanFrame ==
    /\ HasCell
    /\ IsNextJob
    /\ scan' = TakeBlock(scan, NextCell.block)
    /\ batch' = Append(batch, NextCell.block)
    /\ pc' = IF Len(batch') = Workers THEN "decoding" ELSE "scanning"
    /\ position' = position + 1
    /\ UNCHANGED <<file, taken, outcome, output>>

IsSealed == /\ NextCell.kind = "footer"
            /\ Len(NextCell.index) <= MaxStreamBlocks
            /\ NextCell.index = scan.entries
            /\ position + 1 = Len(file)

(* The footer is the last record: what is left in the batch is decoded. *)
ScanFooter ==
    /\ HasCell
    /\ IsSealed
    /\ scan' = [scan EXCEPT !.status = "sealed"]
    /\ pc' = "decoding"
    /\ position' = position + 1
    /\ UNCHANGED <<file, batch, taken, outcome, output>>

(* A damaged record, a wrong footer or none: the jobs of the unfinished     *)
(* batch are dropped.                                                       *)
ScanFails ==
    /\ pc = "scanning"
    /\ ~(HasCell /\ (IsNextJob \/ IsSealed))
    /\ Return("inputError")
    /\ UNCHANGED <<file, position, scan, batch, taken, output>>

-----------------------------------------------------------------------------
(* decode_batch *)

(* Bug: the blocks in front of the first error are kept and written. *)
DecodeBatchKeepsGood ==
    /\ pc = "decoding"
    /\ LET good == {n \in 0..Len(batch) : \A i \in 1..n : DecodesToRawSize(batch[i])}
       IN  batch' = SubSeq(batch, 1, CHOOSE n \in good : \A m \in good : m <= n)
    /\ pc' = "writing"
    /\ UNCHANGED <<file, position, scan, taken, outcome, output>>

(* Every thread is joined; one error discards the whole batch. *)
DecodeBatch ==
    /\ pc = "decoding"
    /\ IF \A i \in DOMAIN batch : DecodesToRawSize(batch[i])
       THEN pc' = "writing" /\ UNCHANGED outcome
       ELSE Return("blockError")
    /\ UNCHANGED <<file, position, scan, batch, taken, output>>

(* A thread panics and join_scoped makes an error of it; or a thread cannot *)
(* be spawned, and the scope waits for those that were: if one of them      *)
(* panics, nobody joined it and the scope panics.                           *)
DecodeBatchFails ==
    /\ pc = "decoding"
    /\ batch # << >>
    /\ \/ "panic" \in Faults /\ Return("panicked")
       \/ "spawn" \in Faults /\ Return("spawnError")
       \/ {"spawn", "panic"} \subseteq Faults /\ Len(batch) > 1 /\ Return("scopePanic")
    /\ UNCHANGED <<file, position, scan, batch, taken, output>>

-----------------------------------------------------------------------------
(* output.write_all(block).await *)

Rest == Head(batch).rows

(* The sink accepts some rows more and is not done: the future is pending. *)
SinkTakesSome ==
    /\ pc = "writing"
    /\ batch # << >>
    /\ \E n \in taken + 1..Len(Rest) - 1 :
          /\ output' = output \o SubSeq(Rest, taken + 1, n)
          /\ taken' = n
    /\ UNCHANGED <<file, position, pc, scan, batch, outcome>>

(* Bug: a block that was pending is handed over again from its start. *)
SinkTakesBlockAgain ==
    /\ pc = "writing"
    /\ batch # << >>
    /\ output' = output \o Rest
    /\ taken' = 0
    /\ batch' = Tail(batch)
    /\ UNCHANGED <<file, position, pc, scan, outcome>>

(* The await is over; the next block follows. *)
SinkTakesBlock ==
    /\ pc = "writing"
    /\ batch # << >>
    /\ output' = output \o SubSeq(Rest, taken + 1, Len(Rest))
    /\ taken' = 0
    /\ batch' = Tail(batch)
    /\ UNCHANGED <<file, position, pc, scan, outcome>>

(* The sink fails, perhaps in the middle of a row. *)
SinkFails ==
    /\ "sink" \in Faults
    /\ pc = "writing"
    /\ batch # << >>
    /\ \/ UNCHANGED output
       \/ taken < Len(Rest) /\ output' = Append(output, Torn)
    /\ pc' = "failing"
    /\ UNCHANGED <<file, position, scan, batch, taken, outcome>>

SinkError ==
    /\ pc = "failing"
    /\ Return("sinkError")
    /\ UNCHANGED <<file, position, scan, batch, taken, output>>

(* The batch is written: the next one, or the end. *)
BatchWritten ==
    /\ pc = "writing"
    /\ batch = << >>
    /\ IF scan.status = "sealed"
       THEN Return("ok")
       ELSE pc' = "scanning" /\ UNCHANGED outcome
    /\ UNCHANGED <<file, position, scan, batch, taken, output>>

(* The caller drops the future while it is pending. *)
DropFuture ==
    /\ pc = "writing"
    /\ batch # << >>
    /\ pc' = "dropped"
    /\ UNCHANGED <<file, position, scan, batch, taken, outcome, output>>

Done == pc \in {"returned", "dropped"} /\ UNCHANGED vars

Next ==
    \/ ReadHeader
    \/ ScanFrame \/ ScanFooter \/ ScanFails
    \/ DecodeBatch \/ DecodeBatchFails
    \/ SinkTakesSome \/ SinkTakesBlock \/ SinkFails \/ SinkError
    \/ BatchWritten
    \/ DropFuture
    \/ Done

Spec == Init /\ [][Next]_vars

-----------------------------------------------------------------------------
(* Safety. *)

EnvironmentFailed ==
    pc = "dropped" \/ outcome \in {"sinkError", "spawnError", "panicked", "scopePanic"}

(* Unless the sink, a thread or the caller gives up, the async decoder      *)
(* accepts exactly the files the sequential one accepts.                    *)
AgreesWithSequential ==
    (pc \in {"returned", "dropped"} /\ ~EnvironmentFailed) =>
        ((outcome = "ok") <=> IsDecodable(file))

RowsOfBlocks(n) == FlattenSeq([k \in 1..n |-> file[k + 1].block.rows])

(* When a record or a block fails, the sink has exactly the rows of the     *)
(* full batches in front of it: nothing of the batch the failure is in,     *)
(* also not of its good blocks, and everything of those before.             *)
FailureKeepsWholeBatches ==
    outcome \in {"inputError", "blockError"} =>
        LET scanned == Len(scan.entries)
        IN  output = RowsOfBlocks(scanned - Len(batch))
            /\ (scanned - Len(batch)) % Workers = 0

(* The sink holds reading back: never more than a batch of blocks is        *)
(* decoded or scanned and not yet in the sink, also when the future is      *)
(* dropped.                                                                 *)
ReadAheadIsOneBatch ==
    Len(scan.entries) > Workers =>
        Len(output) >= Len(RowsOfBlocks(Len(scan.entries) - Workers))

-----------------------------------------------------------------------------
(* The inductive invariant behind the safety properties. *)

Scanned   == Len(scan.entries)
Delivered == Scanned - Len(batch)   \* blocks in the sink
BlockAt(k)   == file[k + 1].block
AllDecode(n) == \A k \in 1..n : DecodesToRawSize(BlockAt(k))

(* Nothing is scanned before the header is checked, or without one. *)
HeaderChecked ==
    /\ outcome # "none" <=> pc = "returned"
    /\ IF pc = "start" \/ outcome = "headerError"
       THEN position = 0 /\ scan = ReaderStart /\ batch = << >>
       ELSE HasHeader
    /\ outcome = "headerError" => ~HasHeader

(* The frames behind the header are the blocks scanned, the last of them    *)
(* are the batch.                                                           *)
FramesScanned ==
    /\ \A k \in 1..Scanned : k + 1 \in DOMAIN file /\ file[k + 1].kind = "frame"
    /\ Len(batch) <= Scanned
    /\ \A i \in DOMAIN batch : batch[i] = BlockAt(Delivered + i)
    /\ pc = "scanning" => scan.status = "reading" /\ Len(batch) < Workers
    /\ outcome = "ok" => scan.status = "sealed" /\ batch = << >>
    /\ IF scan.status = "reading"
       THEN (pc # "start" /\ outcome # "headerError") => position = Scanned + 1
       ELSE /\ position = Scanned + 2
            /\ position = Len(file)
            /\ file[position] = Footer(scan.entries)
            /\ Scanned <= MaxStreamBlocks

(* A batch starts behind full ones; it is full itself, or the last. *)
WholeBatches ==
    /\ pc \in {"start", "scanning", "decoding"}
          \/ outcome \in {"inputError", "blockError"} => Delivered % Workers = 0
    /\ pc \in {"decoding", "writing"} /\ scan.status = "reading" => Scanned % Workers = 0

(* The scan knows what the sequential reader would know at this point, if   *)
(* that gets so far: it looks at the columns too.                           *)
ScansAlike ==
    /\ \A n \in 0..Scanned : AllDecode(n) => ReaderAfter(file, n + 1).status = "reading"
    /\ AllDecode(Scanned) =>
           ReaderAfter(file, Scanned + 1) = [scan EXCEPT !.status = "reading"]

(* Only a batch that decodes is handed over. *)
BatchesJudged ==
    /\ AllDecode(Delivered)
    /\ pc \in {"writing", "failing", "dropped"} \/ outcome \in {"ok", "sinkError"} =>
           AllDecode(Scanned)

(* What the sink has of the blocks delivered and of the first of the batch. *)
TakenRows == IF batch = << >> THEN << >> ELSE SubSeq(Rest, 1, taken)
Delivery  == ReaderAfter(file, Delivered + 1).rows \o TakenRows

SinkFailed == pc = "failing" \/ outcome = "sinkError"

SinkInStep ==
    /\ taken <= IF batch = << >> THEN 0 ELSE Len(Rest)
    /\ taken # 0 => pc \in {"writing", "dropped"} \/ SinkFailed
    /\ \/ output = Delivery
       \/ /\ SinkFailed
          /\ batch # << >> /\ taken < Len(Rest)
          /\ output = Append(Delivery, Torn)

(* A file the sequential reader takes is never refused. *)
GoodFilesPass ==
    IsDecodable(file) => outcome \notin {"headerError", "inputError", "blockError"}

IInv ==
    /\ TypeOK
    /\ HeaderChecked
    /\ FramesScanned
    /\ WholeBatches
    /\ ScansAlike
    /\ BatchesJudged
    /\ SinkInStep
    /\ GoodFilesPass

-----------------------------------------------------------------------------
(* Refinement. *)

Decoder == INSTANCE StreamDecoder WITH
    status <- IF outcome = "ok" THEN "ok"
              ELSE IF pc \in {"returned", "dropped"} THEN "failed" ELSE "running"

(* The async decoder is a decoder: at every await, at every error and when  *)
(* it is dropped, the sink has a prefix of what the sequential reader       *)
(* decodes, and it succeeds only on a sealed file with all of it.           *)
DecoderSpec == Decoder!Spec
=============================================================================
