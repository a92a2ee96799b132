------------------------ MODULE ParallelDecode_proofs ------------------------
(***************************************************************************)
(* The safety of the parallel decoder, for any number of workers, any limit *)
(* and any files: every row is written where its block's first row index    *)
(* says, and a call that succeeds has decoded a whole file.                 *)
(***************************************************************************)
EXTENDS ParallelDecode, ParallelPipeline_proofs, Cmp2File_proofs

USE DEF SchedulerStates, SchedulerErrors, SchedulerEnded, CollectErrors,
        MainStates, Verdicts, WorkerStates

LEMMA FileTypes == Files \subseteq Seq(Cell)
BY FilesAssumption

-----------------------------------------------------------------------------
(* The scheduler. *)

LEMMA SchedulerLeaves ==
    ASSUME SchedulerStep
    PROVE  /\ SchedulerFrame
           /\ UNCHANGED <<file, nextRowIndex, output>>
BY DEF SchedulerStep, writerVars

LEMMA CellType ==
    ASSUME TypeOK, position < Len(file)
    PROVE  /\ NextCell \in Cell
           /\ position + 1 \in 1..Len(file)
           /\ position + 1 \in 0..Len(file)
<1>1. file \in Seq(Cell)
  BY FileTypes DEF TypeOK
<1>2. position + 1 \in 1..Len(file)
  BY <1>1 DEF TypeOK
<1> QED
  BY <1>1, <1>2 DEF NextCell

LEMMA FrameCell ==
    ASSUME NEW cell \in Cell, cell.kind = "frame"
    PROVE  cell.block \in Block /\ cell = Frame(cell.block)
BY DEF Cell, Frame

LEMMA FooterCell ==
    ASSUME NEW cell \in Cell, cell.kind = "footer"
    PROVE  cell = Footer(cell.index)
BY DEF Cell, Footer

LEMMA EntryType ==
    ASSUME NEW b \in Block, NEW offset \in Nat
    PROVE  Entry(b, offset) \in EntrySet /\ FrameLen(b) \in Nat
BY DEF Entry, EntrySet, FrameLen, Block

(* The part of the invariant that the scheduler's steps move. *)
ScanInv == PipelineInv /\ TypeOK /\ FramesScanned

LEMMA ScanFrameInv ==
    ASSUME ScanInv, ScanFrame, SchedulerStep
    PROVE  ScanInv'
<1> USE SchedulerLeaves DEF ScanInv
<1>1. /\ spc = "reading" /\ spc' = "sending"
      /\ position < Len(file) /\ position' = position + 1
      /\ NextCell.kind = "frame"
      /\ outbox' = NextCell.block
      /\ NextCell.block.index = nextBlock /\ NextCell.block.first = nextRow
      /\ PrepareFrame
      /\ UNCHANGED <<index, nextOffset>>
  BY DEF ScanFrame, HasCell, IsExpected
<1>2. /\ outbox' \in Block /\ outbox' # NoBlock
      /\ file[position + 1] = Frame(outbox')
  BY <1>1, CellType, FrameCell, Constants DEF NextCell
<1>3. PipelineInv'
  BY <1>1, <1>2, PrepareInv
<1>4. TypeOK'
  BY <1>1, <1>3, CellType DEF TypeOK, PipelineInv
<1>5. FramesScanned'
  BY <1>1, <1>2, SchedulerFrameFacts DEF FramesScanned, PrepareFrame, PipelineInv, Progress
<1> QED
  BY <1>3, <1>4, <1>5

LEMMA SendJobInv ==
    ASSUME ScanInv, SendJob, SchedulerStep
    PROVE  ScanInv'
<1> USE SchedulerLeaves DEF ScanInv
<1>1. /\ Send
      /\ spc = "sending" /\ spc' = "reading"
      /\ outbox' = NoBlock
      /\ UNCHANGED <<position, file>>
  BY DEF SendJob, Send
<1>2. PipelineInv'
  BY <1>1, SendInv
<1>3. index' \in Seq(EntrySet) /\ nextOffset' \in Nat
  <2>1. outbox \in Block
    BY <1>1, SendFacts
  <2>2. Entry(outbox, nextOffset) \in EntrySet /\ FrameLen(outbox) \in Nat
    BY <2>1, EntryType DEF TypeOK
  <2> QED
    BY <2>2 DEF SendJob, TypeOK
<1>4. TypeOK'
  BY <1>1, <1>2, <1>3 DEF TypeOK, PipelineInv
<1>5. \A k \in DOMAIN sent' : k + 1 \in DOMAIN file /\ file[k + 1] = Frame(sent'[k])
  <2>1. position = Len(sent) + 2 /\ file[position] = Frame(outbox)
    BY <1>1 DEF FramesScanned
  <2>2. position \in DOMAIN file
    <3>1. file \in Seq(Cell)
      BY FileTypes DEF TypeOK
    <3> QED
      BY <2>1, <3>1, SendFacts, <1>1 DEF TypeOK
  <2> QED
    BY <1>1, <2>1, <2>2, SendFacts DEF FramesScanned
<1>6. FramesScanned'
  BY <1>1, <1>5, SendFacts, SchedulerFrameFacts DEF FramesScanned, PipelineInv, Progress
<1> QED
  BY <1>2, <1>4, <1>6

LEMMA ScanEndInv ==
    ASSUME ScanInv, SchedulerStep,
           ScanFooter \/ EndOfFile \/ RejectCell \/ SendJobDisconnected
    PROVE  ScanInv'
<1> USE SchedulerLeaves DEF ScanInv
<1>1. PICK state \in SchedulerEnded :
          /\ EndScheduler(state)
          /\ spc \in {"reading", "sending"}
          /\ UNCHANGED <<index, nextOffset>>
          /\ state # "ok" => UNCHANGED position
          /\ state = "ok" => ScanFooter
  BY DEF ScanFooter, EndOfFile, RejectCell, SendJobDisconnected,
     SendDisconnected, HasCell, scanVars
<1>2. PipelineInv'
  BY <1>1, EndInv
<1>3. /\ spc' = state
      /\ UNCHANGED <<outbox, nextBlock, nextRow, sent>>
  BY <1>1 DEF EndScheduler, senderVars
<1>4. mpc' \notin {"start", "spawn"}
  BY <1>1, SchedulerFrameFacts DEF PipelineInv, Progress
<1>5. CASE state = "ok"
  <2>1. /\ spc = "reading"
        /\ position < Len(file) /\ position' = position + 1
        /\ position + 1 = Len(file)
        /\ NextCell.kind = "footer" /\ NextCell.index = index
    BY <1>1, <1>5 DEF ScanFooter, HasCell, IsSealed
  <2>2. file[position + 1] = Footer(index)
    BY <2>1, CellType, FooterCell DEF NextCell
  <2>3. TypeOK'
    BY <1>1, <1>2, <2>1, CellType DEF TypeOK, PipelineInv
  <2>4. FramesScanned'
    BY <1>1, <1>3, <1>4, <1>5, <2>1, <2>2 DEF FramesScanned, TypeOK,
       PipelineTypeOK
  <2> QED
    BY <1>2, <2>3, <2>4
<1>6. CASE state # "ok"
  <2>1. TypeOK'
    BY <1>1, <1>2, <1>6 DEF TypeOK, PipelineInv
  <2>2. FramesScanned'
    BY <1>1, <1>3, <1>4, <1>6 DEF FramesScanned
  <2> QED
    BY <1>2, <2>1, <2>2
<1> QED
  BY <1>5, <1>6

LEMMA SchedulerInv ==
    ASSUME ScanInv, SchedulerStep
    PROVE  ScanInv'
BY ScanFrameInv, SendJobInv, ScanEndInv DEF SchedulerStep

-----------------------------------------------------------------------------
(* The workers. *)

LEMMA DecoderWorkerInv ==
    ASSUME ScanInv, NEW w \in WorkerIds, WorkerStep(w)
    PROVE  ScanInv'
<1> DEFINE succeeds == wpc[w] = "working" /\ Decodes(hand[w])
<1>1. /\ PoolWorkerStep(w, succeeds)
      /\ UNCHANGED <<scanVars, writerVars, file>>
  BY DEF WorkerStep
<1> HIDE DEF succeeds
<1>2. PipelineInv'
  BY <1>1, WorkerInv DEF ScanInv
<1> QED
  BY <1>1, <1>2, WorkerFrame DEF ScanInv, PipelineInv, TypeOK, FramesScanned,
     scanVars, writerVars

-----------------------------------------------------------------------------
(* The calling thread and what was scanned. *)

LEMMA EndsFacts ==
    ASSUME EndsStep
    PROVE  UNCHANGED <<jobs, results, jobTx, resultRx, lock, wpc, hand, spc, outbox,
                       nextBlock, nextRow, sent, pending, nextToWrite, resultCount,
                       collected, joined, nextRowIndex, output>>
BY DEF EndsStep, poolVars, schedulerVars, senderVars, orderVars, writerVars

LEMMA EndsInv ==
    ASSUME PipelineInv, EndsStep
    PROVE  PipelineInv'
<1> USE EndsFacts DEF PipelineInv
<1>1. /\ mpc' \in MainStates
      /\ verdict' \in Verdicts \cup {"none"}
      /\ outcome' \in Verdicts \cup {"none", "scopePanic"}
      /\ Progress'
  <2> USE DEF PipelineTypeOK, Progress
  <2>1. CASE ReadHeader
    BY <2>1 DEF ReadHeader
  <2>2. CASE RejectHeader
    BY <2>2 DEF RejectHeader
  <2>3. CASE Finish
    BY <2>3 DEF Finish, IsComplete
  <2> QED
    BY <2>1, <2>2, <2>3 DEF EndsStep
<1> QED
  BY <1>1, MainOnlyInv DEF PipelineTypeOK, PoolTypeOK, schedulerVars, senderVars,
     orderVars

(* The calling thread drains only the blocks that are ready. *)
LEMMA DrainStep ==
    ASSUME WriteReady \/ WriteReadyFails
    PROVE  /\ CollectorFrame
           /\ \E b \in Ready :
                 \/ Advance(b)
                 \/ GiveUp(b, "rowOrder")
                 \/ GiveUp(b, "writeError")
           /\ mpc = "drain" /\ mpc' \in {"drain", "joinScheduler"}
BY DEF WriteReady, WriteReadyFails, Advance, GiveUp, StopCollecting

LEMMA MainInv ==
    ASSUME PipelineInv, MainStep
    PROVE  PipelineInv'
<1>1. CASE WriteReady \/ WriteReadyFails
  BY <1>1, DrainStep, AdvanceInv, GiveUpInv
<1> QED
  BY <1>1, EndsInv, SpawnInv, ReceiveInv, JoinInv DEF MainStep

(* Nothing it does moves the scanner, but for the header it reads first and *)
(* the start of the scanner.                                                *)
LEMMA MainScans ==
    ASSUME PipelineInv, MainStep
    PROVE  /\ UNCHANGED <<file, index, nextOffset, sent, outbox>>
           /\ \/ ReadHeader
              \/ /\ UNCHANGED position
                 /\ mpc' # "start"
                 /\ mpc' = "spawn" => mpc = "spawn"
                 /\ UNCHANGED spc \/ (mpc = "spawn" /\ spc' = "reading")
<1>1. CASE EndsStep
  BY <1>1, EndsFacts DEF MainStep, EndsStep, RejectHeader, Finish
<1>2. CASE WriteReady \/ WriteReadyFails
  BY <1>2, DrainStep, CollectorFrameFacts DEF MainStep, WriteReady, WriteReadyFails,
     EndsStep, ReadHeader, RejectHeader, Finish, SpawnStep, SpawnWorker,
     SpawnScheduler, SpawnFails, ReceiveStep, JoinStep, CollectBlock, CollectError,
     CollectDisconnected, NothingReady, JoinScheduler, JoinWorker, AllJoined,
     CollectedError, LeaveScope
<1>3. CASE SpawnStep /\ UNCHANGED position
  BY <1>3 DEF MainStep, SpawnStep, SpawnWorker, SpawnScheduler, SpawnFails,
     schedulerVars, senderVars, mainVars
<1>4. CASE ReceiveStep /\ UNCHANGED position
  BY <1>4, CollectorFrameFacts DEF MainStep, ReceiveStep, CollectBlock,
     CollectError, CollectDisconnected, NothingReady, StopCollecting
<1>5. CASE JoinStep /\ UNCHANGED position
  BY <1>5 DEF MainStep, JoinStep, JoinScheduler, JoinWorker, AllJoined,
     CollectedError, LeaveScope, schedulerVars, senderVars
<1> QED
  BY <1>1, <1>2, <1>3, <1>4, <1>5 DEF MainStep

LEMMA AppendRows ==
    ASSUME output \in Seq(Row \cup {Torn}), NEW rows \in Seq(Row \cup {Torn}),
           output' = output \o rows
    PROVE  /\ output' \in Seq(Row \cup {Torn})
           /\ Len(output) \in Nat /\ Len(rows) \in Nat
           /\ Len(output') = Len(output) + Len(rows)
           /\ DOMAIN output' = 1..(Len(output) + Len(rows))
           /\ \A j \in 1..Len(rows) : output'[Len(output) + j] = rows[j]
OBVIOUS

(* What is written of a block is a part of its rows. *)
LEMMA PartType ==
    ASSUME NEW rows \in Seq(Row)
    PROVE  /\ rows \in Seq(Row \cup {Torn})
           /\ \A part \in PartOf(rows) : part \in Seq(Row \cup {Torn})
<1>1. rows \in Seq(Row \cup {Torn})
  OBVIOUS
<1>2. ASSUME NEW n \in 0..Len(rows) - 1
      PROVE  /\ SubSeq(rows, 1, n) \in Seq(Row \cup {Torn})
             /\ Append(SubSeq(rows, 1, n), Torn) \in Seq(Row \cup {Torn})
  <2>1. SubSeq(rows, 1, n) \in Seq(Row \cup {Torn})
    BY <1>1
  <2> QED
    BY <2>1
<1> QED
  BY <1>1, <1>2 DEF PartOf

LEMMA MainTypeOK ==
    ASSUME PipelineInv, TypeOK, MainStep
    PROVE  TypeOK'
<1> USE DEF TypeOK
<1>1. nextRowIndex' \in Nat /\ output' \in Seq(Row \cup {Torn})
  <2>1. CASE WriteReady
    <3>1. PICK b \in Ready :
              \/ /\ output' = output \o b.rows
                 /\ nextRowIndex' = nextRowIndex + Len(b.rows)
              \/ UNCHANGED writerVars
      BY <2>1 DEF WriteReady
    <3>2. b.rows \in Seq(Row) /\ Len(b.rows) \in Nat
      BY ReadyIsNext DEF Block
    <3>3. output' = output \o b.rows => output' \in Seq(Row \cup {Torn})
      BY <3>2, PartType, AppendRows
    <3> QED
      BY <3>1, <3>2, <3>3 DEF writerVars
  <2>2. CASE WriteReadyFails
    <3>1. PICK b \in Ready : \E part \in PartOf(b.rows) : output' = output \o part
      BY <2>2 DEF WriteReadyFails
    <3>2. b.rows \in Seq(Row)
      BY ReadyIsNext DEF Block
    <3>3. PICK part \in PartOf(b.rows) : output' = output \o part
      BY <3>1
    <3>4. part \in Seq(Row \cup {Torn})
      BY <3>2, PartType
    <3>5. output' \in Seq(Row \cup {Torn})
      BY <3>3, <3>4, AppendRows
    <3> QED
      BY <2>2, <3>5 DEF WriteReadyFails
  <2>3. CASE UNCHANGED writerVars
    BY <2>3 DEF writerVars
  <2> QED
    BY <2>1, <2>2, <2>3, EndsFacts DEF MainStep, writerVars
<1>2. position' \in 0..Len(file)
  <2>1. CASE ReadHeader
    <3>1. file \in Seq(Cell) /\ file # << >>
      BY <2>1, FileTypes DEF ReadHeader, HasHeader
    <3> QED
      BY <2>1, <3>1 DEF ReadHeader
  <2> QED
    BY <2>1, MainScans
<1> QED
  BY <1>1, <1>2, MainInv, MainScans DEF PipelineInv

LEMMA MainFramesScanned ==
    ASSUME PipelineInv, TypeOK, FramesScanned, MainStep
    PROVE  FramesScanned'
<1>1. CASE ReadHeader
  <2>1. EndsStep
    BY <1>1 DEF MainStep, ReadHeader, EndsStep, WriteReady, WriteReadyFails,
       Advance, GiveUp, SpawnStep, SpawnWorker, SpawnScheduler, SpawnFails,
       ReceiveStep, CollectBlock, CollectError, CollectDisconnected, NothingReady,
       JoinStep, JoinScheduler, JoinWorker, AllJoined, CollectedError, LeaveScope
  <2>2. spc = "unspawned" /\ spc' = "unspawned" /\ mpc' = "spawn" /\ position' = 1
    BY <1>1, <2>1, EndsFacts DEF ReadHeader, PipelineInv, Progress
  <2> QED
    BY <1>1, <2>2, MainScans DEF FramesScanned, ReadHeader
<1>2. CASE ~ReadHeader
  BY <1>2, MainScans DEF FramesScanned
<1> QED
  BY <1>1, <1>2

-----------------------------------------------------------------------------
(* The rows. *)

RowsInv == RowsCounted /\ RowsInPlace /\ RowOrderNeverFails

(* A step that writes no rows and leaves the jobs already sent as they are. *)
LEMMA QuietRows ==
    ASSUME PipelineInv, RowsInv,
           UNCHANGED <<output, nextRowIndex, nextToWrite>>,
           \A k \in 1..Len(sent) : sent'[k] = sent[k],
           collected' = collected \/ (collected = "none" /\ collected' # "rowOrder")
    PROVE  RowsInv'
<1>1. \A k \in 1..nextToWrite : sent'[k] = sent[k]
  BY DEF PipelineInv, PipelineTypeOK, NotAhead
<1>2. nextToWrite \in Nat
  BY DEF PipelineInv, PipelineTypeOK
<1>3. RowsInPlace' /\ RowOrderNeverFails'
  BY <1>1 DEF RowsInv, RowsInPlace, RowOrderNeverFails
<1>4. RowsCounted'
  <2>1. nextToWrite # 0 => sent'[nextToWrite] = sent[nextToWrite]
    BY <1>1, <1>2
  <2> QED
    BY <2>1 DEF RowsInv, RowsCounted
<1> QED
  BY <1>3, <1>4 DEF RowsInv

LEMMA OtherThreadsRows ==
    ASSUME PipelineInv, RowsInv,
           SchedulerStep \/ \E w \in WorkerIds : WorkerStep(w)
    PROVE  RowsInv'
<1>1. UNCHANGED <<output, nextRowIndex, nextToWrite, collected>>
  BY SchedulerLeaves, SchedulerFrameFacts, WorkerFrame DEF WorkerStep, writerVars
<1>2. \A k \in 1..Len(sent) : sent'[k] = sent[k]
  <2>1. CASE SendJob
    BY <2>1, SendFacts DEF SendJob
  <2>2. SendJob \/ UNCHANGED sent
    BY WorkerFrame DEF SchedulerStep, ScanFrame, ScanFooter, EndOfFile, RejectCell,
       SendJobDisconnected, SendDisconnected, PrepareFrame, EndScheduler,
       senderVars, WorkerStep
  <2> QED
    BY <2>1, <2>2
<1> QED
  BY <1>1, <1>2, QuietRows

(* The next block's first row is the next row to write. *)
LEMMA ReadyLinesUp ==
    ASSUME PipelineInv, RowsCounted, NEW b \in Ready
    PROVE  b.first = nextRowIndex
<1>1. /\ nextToWrite \in Nat
      /\ nextToWrite + 1 \in DOMAIN sent
      /\ b = sent[nextToWrite + 1]
  BY ReadyIsNext DEF PipelineInv, PipelineTypeOK
<1>2. b.first = IF nextToWrite + 1 = 1 THEN 0
                ELSE sent[nextToWrite].first + Len(sent[nextToWrite].rows)
  <2>1. (nextToWrite + 1) - 1 = nextToWrite
    BY <1>1
  <2> QED
    BY <1>1, <2>1 DEF PipelineInv, JobsAreSequential
<1> QED
  BY <1>1, <1>2 DEF RowsCounted

(* Rows that are in place stay there when more are written behind them.     *)
LEMMA RowsStay ==
    ASSUME output \in Seq(Row \cup {Torn}), RowsInPlace,
           NEW more \in Seq(Row \cup {Torn}), output' = output \o more
    PROVE  \A k \in 1..nextToWrite : \A j \in 1..Len(sent[k].rows) :
               /\ sent[k].first + j \in DOMAIN output'
               /\ output'[sent[k].first + j] = sent[k].rows[j]
<1>1. \A i \in DOMAIN output : i \in DOMAIN output' /\ output'[i] = output[i]
  OBVIOUS
<1> QED
  BY <1>1 DEF RowsInPlace

LEMMA WriteReadyRows ==
    ASSUME PipelineInv, TypeOK, RowsInv, WriteReady
    PROVE  RowsInv'
<1>1. PICK b \in Ready :
          /\ Advance(b)
          /\ output' = output \o b.rows
          /\ nextRowIndex' = nextRowIndex + Len(b.rows)
          /\ CollectorFrame
  BY ReadyLinesUp DEF WriteReady, RowsInv
<1>2. /\ nextToWrite \in Nat /\ nextToWrite' = nextToWrite + 1
      /\ UNCHANGED <<sent, collected>>
      /\ collected = "none"
  BY <1>1, CollectorFrameFacts DEF Advance, PipelineInv, PipelineTypeOK, Progress
<1>3. /\ b = sent[nextToWrite + 1]
      /\ b.first = nextRowIndex
      /\ b.rows \in Seq(Row)
      /\ b.rows \in Seq(Row \cup {Torn})
      /\ output \in Seq(Row \cup {Torn})
      /\ nextRowIndex \in Nat
      /\ Len(output) = nextRowIndex
  <2>1. b.rows \in Seq(Row)
    BY ReadyIsNext DEF Block
  <2> QED
    BY <1>2, <2>1, ReadyIsNext, ReadyLinesUp, PartType DEF RowsInv, RowsCounted, TypeOK
<1>4. /\ Len(output') = Len(output) + Len(b.rows)
      /\ DOMAIN output' = 1..(Len(output) + Len(b.rows))
      /\ \A j \in 1..Len(b.rows) : output'[Len(output) + j] = b.rows[j]
      /\ Len(b.rows) \in Nat
  BY <1>1, <1>3, AppendRows
<1>5. RowsInPlace'
  <2> SUFFICES ASSUME NEW k \in 1..nextToWrite', NEW j \in 1..Len(sent[k].rows)
               PROVE  /\ sent[k].first + j \in DOMAIN output'
                      /\ output'[sent[k].first + j] = sent[k].rows[j]
    BY <1>2 DEF RowsInPlace
  <2>1. CASE k \in 1..nextToWrite
    BY <1>1, <1>3, <2>1, RowsStay DEF RowsInv
  <2>2. CASE k = nextToWrite + 1
    BY <1>3, <1>4, <2>2
  <2> QED
    BY <1>2, <2>1, <2>2
<1>6. RowsCounted'
  <2>1. /\ nextRowIndex' = sent[nextToWrite'].first + Len(sent[nextToWrite'].rows)
        /\ nextToWrite' # 0
        /\ Len(output') = nextRowIndex'
    BY <1>1, <1>2, <1>3, <1>4
  <2> QED
    BY <1>1, <1>2, <1>3, <1>4, <2>1 DEF RowsCounted
<1> QED
  BY <1>2, <1>5, <1>6 DEF RowsInv, RowOrderNeverFails

LEMMA WriteReadyFailsRows ==
    ASSUME PipelineInv, TypeOK, RowsInv, WriteReadyFails
    PROVE  RowsInv'
<1>1. PICK b \in Ready : /\ GiveUp(b, "writeError")
                         /\ \E part \in PartOf(b.rows) : output' = output \o part
  BY DEF WriteReadyFails
<1>2. PICK part \in PartOf(b.rows) : output' = output \o part
  BY <1>1
<1>3. b.rows \in Seq(Row)
  BY ReadyIsNext DEF Block
<1>4. /\ part \in Seq(Row \cup {Torn})
      /\ output \in Seq(Row \cup {Torn})
      /\ Len(output') >= Len(output)
  BY <1>2, <1>3, PartType, AppendRows DEF TypeOK
<1>5. /\ UNCHANGED <<sent, nextToWrite, nextRowIndex>>
      /\ collected' = "writeError"
  BY <1>1, CollectorFrameFacts DEF WriteReadyFails, GiveUp, StopCollecting
<1>6. RowsInPlace'
  BY <1>2, <1>4, <1>5, RowsStay DEF RowsInv, RowsInPlace
<1>7. RowsCounted'
  <2>1. Len(output') \in Nat /\ Len(output) \in Nat /\ nextRowIndex \in Nat
    BY <1>2, <1>4, AppendRows DEF TypeOK
  <2> QED
    BY <1>4, <1>5, <2>1 DEF RowsInv, RowsCounted
<1> QED
  BY <1>5, <1>6, <1>7 DEF RowsInv, RowOrderNeverFails

LEMMA MainRows ==
    ASSUME PipelineInv, TypeOK, RowsInv, MainStep
    PROVE  RowsInv'
<1>1. CASE WriteReady
  BY <1>1, WriteReadyRows
<1>2. CASE WriteReadyFails
  BY <1>2, WriteReadyFailsRows
<1>3. CASE EndsStep
  BY <1>3, EndsFacts, QuietRows
<1>4. CASE (SpawnStep \/ ReceiveStep \/ JoinStep) /\ UNCHANGED writerVars
  <2>1. UNCHANGED <<output, nextRowIndex, sent>>
    BY <1>4, MainScans DEF writerVars
  <2>2. /\ UNCHANGED nextToWrite
        /\ collected' = collected \/ (collected = "none" /\ collected' # "rowOrder")
    <3>1. CASE SpawnStep
      BY <3>1 DEF SpawnStep, SpawnWorker, SpawnScheduler, SpawnFails, orderVars
    <3>2. CASE ReceiveStep
      BY <3>2 DEF ReceiveStep, CollectBlock, CollectError, CollectDisconnected,
         NothingReady, StopCollecting, orderVars, PipelineInv, Progress
    <3>3. CASE JoinStep
      BY <3>3 DEF JoinStep, orderVars
    <3> QED
      BY <1>4, <3>1, <3>2, <3>3
  <2> QED
    BY <2>1, <2>2, QuietRows
<1> QED
  BY <1>1, <1>2, <1>3, <1>4 DEF MainStep

-----------------------------------------------------------------------------
(* The inductive invariant. *)

LEMMA InitDataInv == Init => DataInv
<1> SUFFICES ASSUME Init
             PROVE  DataInv
  OBVIOUS
<1>1. PipelineInv
  BY PipelineInitInv DEF Init
<1>2. TypeOK
  <2>1. file \in Seq(Cell)
    BY FileTypes DEF Init
  <2> QED
    BY <1>1, <2>1 DEF Init, TypeOK, PipelineInv, HeaderLen
<1>3. FramesScanned /\ RowsCounted /\ RowsInPlace /\ RowOrderNeverFails
  BY DEF Init, PipelineInit, FramesScanned, RowsCounted, RowsInPlace,
     RowOrderNeverFails
<1> QED
  BY <1>1, <1>2, <1>3 DEF DataInv

LEMMA NextDataInv ==
    ASSUME DataInv, [Next]_vars
    PROVE  DataInv'
<1> USE DEF DataInv, ScanInv, RowsInv
<1>1. CASE SchedulerStep
  BY <1>1, SchedulerInv, OtherThreadsRows
<1>2. CASE \E w \in WorkerIds : WorkerStep(w)
  BY <1>2, DecoderWorkerInv, OtherThreadsRows
<1>3. CASE MainStep
  BY <1>3, MainInv, MainTypeOK, MainFramesScanned, MainRows
<1>4. CASE UNCHANGED vars
  <2>1. PipelineInv'
    BY <1>4, PipelineStutter DEF vars
  <2>2. UNCHANGED <<file, position, index, nextOffset, nextRowIndex, output, spc,
                    outbox, mpc, sent, nextToWrite, collected>>
    BY <1>4 DEF vars, scanVars, writerVars, pipelineVars, schedulerVars, senderVars,
       orderVars, mainVars
  <2> QED
    BY <2>1, <2>2 DEF PipelineInv, TypeOK, FramesScanned, RowsCounted, RowsInPlace,
       RowOrderNeverFails
<1> QED
  BY <1>1, <1>2, <1>3, <1>4 DEF Next, Returned

-----------------------------------------------------------------------------
(* The threads, and where the blocks are. *)

LEMMA DecoderThreads ==
    ASSUME PipelineInv, ThreadsInv, BlocksInv, [Next]_vars
    PROVE  ThreadsInv' /\ BlocksInv'
<1>1. CASE SchedulerStep
  <2>1. /\ SchedulerFrame
        /\ spc \in {"reading", "sending"}
        /\ spc' # "unspawned"
        /\ SendJob \/ UNCHANGED <<jobs, sent>>
    BY <1>1 DEF SchedulerStep, ScanFrame, ScanFooter, EndOfFile, RejectCell, SendJob,
       SendJobDisconnected, SendDisconnected, Send, PrepareFrame, EndScheduler, HasCell,
       senderVars
  <2> QED
    BY <2>1, SchedulerThreads, SchedulerBlocks, SendBlocks DEF SendJob
<1>2. CASE \E w \in WorkerIds : WorkerStep(w)
  <2>1. PICK w \in WorkerIds : WorkerStep(w)
    BY <1>2
  <2> DEFINE succeeds == wpc[w] = "working" /\ Decodes(hand[w])
  <2>2. PoolWorkerStep(w, succeeds)
    BY <2>1 DEF WorkerStep
  <2> HIDE DEF succeeds
  <2> QED
    BY <2>2, WorkerThreads, WorkerBlocks
<1>3. CASE MainStep
  <2>1. CASE EndsStep
    <3>1. /\ UNCHANGED <<wpc, spc, joined, resultRx, collected>>
          /\ UNCHANGED <<poolVars, schedulerVars, orderVars, collected>>
          /\ mpc' # "collect"
          /\ \/ mpc = "start" /\ mpc' = "spawn" /\ UNCHANGED <<verdict, outcome>>
             \/ mpc = "start" /\ mpc' = "returned"
                   /\ verdict' = "headerError" /\ outcome' = "headerError"
             \/ mpc = "finish" /\ mpc' = "leaveScope"
                   /\ verdict' \in {"ok", "footerError"} /\ UNCHANGED outcome
      BY <2>1, EndsFacts DEF EndsStep, ReadHeader, RejectHeader, Finish
    <3> QED
      BY <3>1, EndsThreads, MainBlocks
  <2>2. CASE WriteReady \/ WriteReadyFails
    <3>1. PICK b \in Ready : /\ \/ Advance(b)
                                \/ GiveUp(b, "rowOrder")
                                \/ GiveUp(b, "writeError")
                             /\ CollectorFrame
      BY <2>2 DEF WriteReady, WriteReadyFails
    <3>2. CASE Advance(b)
      <4>1. mpc = "drain" /\ mpc' = "drain" /\ UNCHANGED <<resultRx, collected>>
        BY <3>2 DEF Advance
      <4> QED
        BY <3>1, <3>2, <4>1, AdvanceBlocks, CollectorThreads
    <3>3. ASSUME NEW result \in CollectErrors, GiveUp(b, result)
          PROVE  ThreadsInv' /\ BlocksInv'
      <4>1. mpc = "drain" /\ mpc' = "joinScheduler" /\ collected' # "none"
        BY <3>3 DEF GiveUp, StopCollecting
      <4> QED
        BY <3>1, <3>3, <4>1, GiveUpBlocks, CollectorThreads
    <3> QED
      BY <3>1, <3>2, <3>3
  <2>3. CASE SpawnStep
    BY <2>3, SpawnThreads, SpawnBlocks
  <2>4. CASE ReceiveStep
    BY <2>4, ReceiveThreads, ReceiveStepBlocks
  <2>5. CASE JoinStep
    BY <2>5, JoinThreads, JoinBlocks
  <2> QED
    BY <1>3, <2>1, <2>2, <2>3, <2>4, <2>5 DEF MainStep
<1>4. CASE UNCHANGED vars
  BY <1>4, ThreadsStutter, BlocksStutter DEF vars
<1> QED
  BY <1>1, <1>2, <1>3, <1>4 DEF Next, Returned

-----------------------------------------------------------------------------
(* The sequential reader, next to the scheduler and the collector.          *)

LEMMA FileStays ==
    ASSUME [Next]_vars
    PROVE  UNCHANGED file
BY SchedulerLeaves DEF Next, WorkerStep, MainStep, Returned, vars

(* What a step of the calling thread that writes no rows leaves alone.      *)
LEMMA MainQuiet ==
    ASSUME PipelineInv, MainStep, ~WriteReady, ~WriteReadyFails
    PROVE  /\ UNCHANGED <<output, nextToWrite>>
           /\ \/ collected' = collected
              \/ collected = "none" /\ collected' \notin {"rowOrder", "writeError"}
<1>1. CASE EndsStep
  BY <1>1, EndsFacts
<1>2. CASE SpawnStep /\ UNCHANGED writerVars
  BY <1>2 DEF SpawnStep, SpawnWorker, SpawnScheduler, SpawnFails, orderVars, writerVars
<1>3. CASE ReceiveStep /\ UNCHANGED writerVars
  BY <1>3 DEF ReceiveStep, CollectBlock, CollectError, CollectDisconnected,
     NothingReady, StopCollecting, orderVars, PipelineInv, Progress, writerVars
<1>4. CASE JoinStep /\ UNCHANGED writerVars
  BY <1>4 DEF JoinStep, orderVars, writerVars
<1> QED
  BY <1>1, <1>2, <1>3, <1>4 DEF MainStep

(* What a step of another thread leaves alone. *)
LEMMA OthersQuiet ==
    ASSUME SchedulerStep \/ \E w \in WorkerIds : WorkerStep(w)
    PROVE  UNCHANGED <<output, nextToWrite, pending, collected, mpc, verdict, outcome>>
BY SchedulerLeaves, SchedulerFrameFacts, WorkerFrame DEF WorkerStep, writerVars

LEMMA HeaderStep ==
    ASSUME DataInv, ThreadsInv, HeaderChecked, [Next]_vars
    PROVE  HeaderChecked'
<1> USE FileStays DEF DataInv
<1>1. StartsWithHeader' <=> StartsWithHeader
  BY DEF StartsWithHeader
<1>2. CASE SchedulerStep \/ \E w \in WorkerIds : WorkerStep(w)
  <2>1. spc # "unspawned" \/ UNCHANGED spc
    BY <1>2, WorkerFrame DEF SchedulerStep, ScanFrame, ScanFooter, EndOfFile, RejectCell,
       SendJob, SendJobDisconnected, SendDisconnected, Send, HasCell, WorkerStep
  <2> QED
    BY <1>1, <1>2, <2>1, OthersQuiet DEF HeaderChecked
<1>3. CASE MainStep
  <2>1. CASE EndsStep
    <3>1. CASE ReadHeader \/ RejectHeader
      <4>1. HasHeader <=> StartsWithHeader
        BY <3>1 DEF HasHeader, NextCell, StartsWithHeader, ReadHeader, RejectHeader,
           FramesScanned
      <4>2. spc = "unspawned" /\ UNCHANGED spc
        BY <2>1, <3>1, EndsFacts DEF ReadHeader, RejectHeader, PipelineInv, Progress
      <4>3. CASE ReadHeader
        <5>1. mpc' = "spawn" /\ StartsWithHeader /\ verdict' = "none" /\ outcome' = "none"
          BY <4>1, <4>3 DEF ReadHeader, PipelineInv, PipelineTypeOK, Progress
        <5> QED
          BY <1>1, <5>1 DEF HeaderChecked
      <4>4. CASE RejectHeader
        BY <1>1, <4>1, <4>2, <4>4 DEF RejectHeader, HeaderChecked
      <4> QED
        BY <3>1, <4>3, <4>4
    <3>2. CASE Finish
      <4>1. mpc = "finish" /\ verdict' = "ok" /\ UNCHANGED <<outcome, spc>>
        BY <2>1, <3>2, EndsFacts DEF Finish
      <4> QED
        BY <1>1, <4>1 DEF HeaderChecked
    <3> QED
      BY <2>1, <3>1, <3>2 DEF EndsStep
  <2>2. CASE ~EndsStep
    <3>1. /\ mpc # "start" /\ mpc # "returned"
          /\ outcome = "none"
          /\ verdict' # "headerError" \/ UNCHANGED verdict
          /\ outcome' \in {"none", "scopePanic", verdict}
      <4>1. CASE WriteReady \/ WriteReadyFails
        BY <4>1, DrainStep, CollectorFrameFacts DEF PipelineInv, Progress, PipelineTypeOK
      <4>2. CASE SpawnStep
        BY <4>2 DEF SpawnStep, SpawnWorker, SpawnScheduler, SpawnFails, mainVars,
           PipelineInv, Progress
      <4>3. CASE ReceiveStep
        BY <4>3, CollectorFrameFacts DEF ReceiveStep, CollectBlock, CollectError,
           CollectDisconnected, NothingReady, PipelineInv, Progress
      <4>4. CASE JoinStep
        BY <4>4 DEF JoinStep, JoinScheduler, JoinWorker, AllJoined, CollectedError,
           LeaveScope, PipelineInv, Progress, PipelineTypeOK
      <4> QED
        BY <1>3, <2>2, <4>1, <4>2, <4>3, <4>4 DEF MainStep
    <3> QED
      BY <1>1, <3>1 DEF HeaderChecked
  <2> QED
    BY <2>1, <2>2
<1>4. CASE UNCHANGED vars
  BY <1>1, <1>4 DEF vars, pipelineVars, schedulerVars, mainVars, HeaderChecked
<1> QED
  BY <1>2, <1>3, <1>4 DEF Next, Returned

(* There is a header in front of every job. *)
LEMMA HeaderInFront ==
    ASSUME DataInv, BlocksInv, HeaderChecked, sent # << >> \/ spc # "unspawned"
    PROVE  file \in Seq(Cell) /\ file # << >> /\ file[1] = Header
<1>1. spc # "unspawned"
  BY DEF BlocksInv, Drained
<1>2. mpc # "start" /\ outcome # "headerError"
  BY <1>1 DEF DataInv, PipelineInv, Progress, HeaderChecked
<1> QED
  BY <1>2, FileTypes DEF HeaderChecked, StartsWithHeader, DataInv, TypeOK

(* The sequential reader takes a block that was sent, if it takes all those *)
(* in front of it and if the block decodes.                                 *)
LEMMA ReadsNext ==
    ASSUME DataInv, ScansAlike, NEW n \in 0..Len(sent) - 1, AllDecode(sent, n + 1)
    PROVE  /\ sent[n + 1] \in Block
           /\ ReaderAfter(file, n + 1) \in Reader
           /\ ReaderAfter(file, (n + 1) + 1) = TakeBlock(ReaderAfter(file, n + 1), sent[n + 1])
<1> USE DEF DataInv
<1>1. /\ file \in Seq(Cell) /\ sent \in Seq(Block)
  BY FileTypes DEF TypeOK, PipelineInv, PipelineTypeOK
<1>2. n + 1 \in DOMAIN sent /\ n \in 0..Len(sent) /\ n \in Nat /\ (n + 1) - 1 = n
  BY <1>1
<1> DEFINE b == sent[n + 1]
           r == ReaderAfter(file, n + 1)
<1>3. b \in Block /\ b.index = n
      /\ b.first = IF n = 0 THEN 0 ELSE sent[n].first + Len(sent[n].rows)
  BY <1>1, <1>2 DEF PipelineInv, JobsAreSequential
<1>4. (n + 1) + 1 \in DOMAIN file /\ file[(n + 1) + 1] = Frame(b)
  BY <1>2 DEF FramesScanned
<1>5. AllDecode(sent, n) /\ DecodesToRawSize(b)
  BY <1>2 DEF AllDecode, Decodes
<1>6. /\ r.status = "reading" /\ Len(r.entries) = n
      /\ r.nextRow = IF n = 0 THEN 0 ELSE sent[n].first + Len(sent[n].rows)
  BY <1>2, <1>5 DEF ScansAlike
<1>7. (n + 1) + 1 \in 2..Len(file) /\ ((n + 1) + 1) - 1 = n + 1
  BY <1>1, <1>2, <1>4
<1>8. IsNextBlock(r, b)
  BY <1>3, <1>6 DEF IsNextBlock
<1> HIDE DEF b
<1>9. ReaderAfter(file, (n + 1) + 1) = TakeBlock(r, b) /\ r \in Reader
  <2> DEFINE m == (n + 1) + 1
  <2>1. m \in 2..Len(file) /\ ReaderAfter(file, m - 1) = r /\ file[m] = Frame(b)
    BY <1>4, <1>7
  <2> HIDE DEF m, r
  <2>2. ReaderAfter(file, m) = TakeBlock(r, b)
    BY <1>1, <1>3, <1>5, <1>6, <1>8, <2>1, ReadFrame
  <2>3. r \in Reader
    BY <1>1, <2>1, ReaderStep
  <2> QED
    BY <2>2, <2>3 DEF m, r
<1> QED
  BY <1>3, <1>9 DEF b

(* The scheduler sends one more block. *)
LEMMA SendScansAlike ==
    ASSUME DataInv, ScansAlike, SchedulerStep, SendJob
    PROVE  ScansAlike'
<1> USE DEF DataInv
<1> DEFINE n == Len(sent)
           b == outbox
           r == ReaderAfter(file, n + 1)
           q == ReaderAfter(file, (n + 1) + 1)
<1>1. /\ sent \in Seq(Block) /\ sent' = Append(sent, b) /\ b \in Block
      /\ b.index = n /\ b.first = nextRow
      /\ index \in Seq(EntrySet) /\ Entry(b, nextOffset) \in EntrySet
      /\ index' = Append(index, Entry(b, nextOffset))
      /\ nextOffset' = nextOffset + FrameLen(b)
      /\ UNCHANGED file /\ file \in Seq(Cell)
      /\ spc' # "ok"
  <2>1. Send /\ sent \in Seq(Block) /\ outbox \in Block /\ nextOffset \in Nat
    BY SendFacts DEF SendJob, PipelineInv, PipelineTypeOK, TypeOK
  <2> QED
    BY <2>1, SendFacts, SchedulerLeaves, EntryType, FileTypes DEF SendJob, Send, TypeOK
<1>2. /\ n \in Nat /\ Len(sent') = n + 1 /\ sent'[n + 1] = b
      /\ \A k \in 1..n : sent'[k] = sent[k]
      /\ Len(index') = n + 1
  BY <1>1 DEF ScansAlike
<1>3. \A m \in 0..n : AllDecode(sent', m) => AllDecode(sent, m)
  BY <1>2 DEF AllDecode
<1>4. AllDecode(sent', n + 1) => AllDecode(sent, n) /\ DecodesToRawSize(b)
  BY <1>2 DEF AllDecode, Decodes
<1>5. AllDecode(sent', n + 1) =>
          /\ q.status = "reading" /\ Len(q.entries) = n + 1
          /\ q.nextRow = b.first + Len(b.rows)
          /\ q.entries = index' /\ q.nextOffset = nextOffset'
  <2> SUFFICES ASSUME AllDecode(sent', n + 1)
               PROVE  /\ q.status = "reading" /\ Len(q.entries) = n + 1
                      /\ q.nextRow = b.first + Len(b.rows)
                      /\ q.entries = index' /\ q.nextOffset = nextOffset'
    OBVIOUS
  <2>1. /\ r.status = "reading" /\ Len(r.entries) = n
        /\ r.nextRow = IF n = 0 THEN 0 ELSE sent[n].first + Len(sent[n].rows)
        /\ r.entries = index /\ r.nextOffset = nextOffset
    BY <1>2, <1>4 DEF ScansAlike
  <2>2. r.nextRow = nextRow
    BY <1>1, <2>1 DEF PipelineInv, CountersMatch
  <2>3. IsNextBlock(r, b)
    BY <1>1, <2>1, <2>2 DEF IsNextBlock
  <2>4. position = n + 2 /\ position <= Len(file) /\ file[position] = Frame(b)
    BY DEF SendJob, Send, FramesScanned, TypeOK
  <2>5. (n + 1) + 1 \in 2..Len(file) /\ ((n + 1) + 1) - 1 = n + 1 /\ file[(n + 1) + 1] = Frame(b)
    BY <1>1, <1>2, <2>4
  <2>6. q = TakeBlock(r, b) /\ r \in Reader
    <3> DEFINE m == (n + 1) + 1
    <3>1. m \in 2..Len(file) /\ ReaderAfter(file, m - 1) = r /\ file[m] = Frame(b)
      BY <2>5
    <3> HIDE DEF m, r, b
    <3>2. ReaderAfter(file, m) = TakeBlock(r, b)
      BY <1>1, <1>4, <2>1, <2>3, <3>1, ReadFrame
    <3>3. r \in Reader
      BY <1>1, <3>1, ReaderStep
    <3> QED
      BY <3>2, <3>3 DEF m
  <2> HIDE DEF q, r, b
  <2>7. /\ q.status = r.status
        /\ q.entries = Append(r.entries, Entry(b, r.nextOffset))
        /\ q.nextRow = r.nextRow + Len(b.rows)
        /\ q.nextOffset = r.nextOffset + FrameLen(b)
    BY <1>1, <2>6, TakeBlockIs
  <2> QED
    BY <1>1, <1>2, <2>1, <2>2, <2>7
<1> HIDE DEF b, r, q
<1>6. \A m \in 0..n + 1 : AllDecode(sent', m) =>
          LET s == ReaderAfter(file, m + 1)
          IN  /\ s.status = "reading"
              /\ Len(s.entries) = m
              /\ s.nextRow = IF m = 0 THEN 0 ELSE sent'[m].first + Len(sent'[m].rows)
  <2> SUFFICES ASSUME NEW m \in 0..n + 1, AllDecode(sent', m)
               PROVE  LET s == ReaderAfter(file, m + 1)
                      IN  /\ s.status = "reading"
                          /\ Len(s.entries) = m
                          /\ s.nextRow = IF m = 0 THEN 0
                                         ELSE sent'[m].first + Len(sent'[m].rows)
    OBVIOUS
  <2>1. CASE m \in 0..n
    <3>1. AllDecode(sent, m) /\ (m # 0 => sent'[m] = sent[m])
      BY <1>2, <1>3, <2>1
    <3> QED
      BY <2>1, <3>1 DEF ScansAlike
  <2>2. CASE m = n + 1
    BY <1>2, <1>5, <2>2 DEF q
  <2> QED
    BY <1>2, <2>1, <2>2
<1>7. AllDecode(sent', Len(sent')) =>
          LET s == ReaderAfter(file, Len(sent') + 1)
          IN  s.entries = index' /\ s.nextOffset = nextOffset'
  BY <1>2, <1>5 DEF q
<1> HIDE DEF n
<1> QED
  BY <1>1, <1>2, <1>6, <1>7 DEF ScansAlike

(* Every other step sends nothing. *)
LEMMA NothingSent ==
    ASSUME DataInv, [Next]_vars, ~(SchedulerStep /\ SendJob)
    PROVE  /\ UNCHANGED <<sent, index, nextOffset>>
           /\ spc' = "ok" => spc = "ok" \/ ScanFooter
<1> USE DEF DataInv
<1>1. CASE SchedulerStep
  BY <1>1 DEF SchedulerStep, ScanFrame, ScanFooter, EndOfFile, RejectCell,
     SendJobDisconnected, SendDisconnected, PrepareFrame, EndScheduler, senderVars, scanVars,
     HasCell
<1>2. CASE \E w \in WorkerIds : WorkerStep(w)
  BY <1>2, WorkerFrame DEF WorkerStep, scanVars
<1>3. CASE MainStep
  <2>1. mpc' = "spawn" => spc' = "unspawned"
    BY <1>3, MainInv DEF PipelineInv, Progress
  <2> QED
    BY <1>3, <2>1, MainScans DEF ReadHeader
<1>4. CASE UNCHANGED vars
  BY <1>4 DEF vars, pipelineVars, schedulerVars, senderVars, scanVars
<1> QED
  BY <1>1, <1>2, <1>3, <1>4 DEF Next, Returned

LEMMA ScansStep ==
    ASSUME DataInv, ScansAlike, [Next]_vars
    PROVE  ScansAlike'
<1>1. CASE SchedulerStep /\ SendJob
  BY <1>1, SendScansAlike
<1>2. CASE ~(SchedulerStep /\ SendJob)
  <2>1. /\ UNCHANGED <<sent, index, nextOffset, file>>
        /\ spc' = "ok" => spc = "ok" \/ ScanFooter
    BY <1>2, NothingSent, FileStays
  <2>2. ScanFooter => Len(index) <= MaxStreamBlocks
    BY DEF ScanFooter, IsSealed
  <2> QED
    BY <2>1, <2>2 DEF ScansAlike
<1> QED
  BY <1>1, <1>2

(* The workers judge the blocks, the collector believes them. *)
LEMMA JudgeStep ==
    ASSUME DataInv, WorkersJudge, [Next]_vars
    PROVE  WorkersJudge'
<1> USE DEF DataInv
<1>0. /\ nextToWrite \in Nat /\ nextToWrite <= Len(sent) /\ sent \in Seq(Block)
      /\ wpc \in [WorkerIds -> WorkerStates] /\ results \in Seq(Result)
      /\ hand \in [WorkerIds -> Block \cup {NoBlock}]
  BY DEF PipelineInv, PipelineTypeOK, PoolTypeOK, NotAhead
<1>1. CASE SchedulerStep
  <2>1. UNCHANGED <<wpc, hand, results, pending, nextToWrite>>
    BY <1>1, SchedulerLeaves, SchedulerFrameFacts
  <2>2. \A k \in 1..nextToWrite : sent'[k] = sent[k]
    <3>1. CASE SendJob
      <4>1. sent' = Append(sent, outbox)
        BY <3>1 DEF SendJob, Send
      <4> QED
        BY <1>0, <4>1
    <3> QED
      BY <1>1, <3>1, NothingSent
  <2> QED
    BY <2>1, <2>2 DEF WorkersJudge, AllDecode
<1>2. ASSUME NEW w \in WorkerIds, WorkerStep(w)
      PROVE  WorkersJudge'
  <2> DEFINE good == Decodes(hand[w])
             succeeds == wpc[w] = "working" /\ good
  <2>1. PoolWorkerStep(w, succeeds)
    BY <1>2 DEF WorkerStep
  <2>2. UNCHANGED <<sent, nextToWrite, pending>>
    BY <2>1, WorkerFrame
  <2>3. CASE ProcessJob(w, succeeds)
    <3>1. /\ wpc' = [wpc EXCEPT ![w] = IF succeeds THEN "done" ELSE "refused"]
          /\ UNCHANGED <<results, hand>>
      BY <2>3 DEF ProcessJob, Goto
    <3>2. wpc'[w] = "done" => good
      BY <1>0, <3>1
    <3> HIDE DEF succeeds
    <3>3. \A v \in WorkerIds : wpc'[v] = "done" => Decodes(hand[v])
      BY <1>0, <3>1, <3>2 DEF WorkersJudge
    <3> QED
      BY <2>2, <3>1, <3>3 DEF WorkersJudge
  <2>4. CASE SendResult(w)
    <3> DEFINE answer == [ok |-> wpc[w] = "done", block |-> hand[w]]
    <3>1. /\ wpc' = [wpc EXCEPT ![w] = "idle"]
          /\ hand' = [hand EXCEPT ![w] = NoBlock]
          /\ results' = Append(results, answer)
          /\ wpc[w] \in {"done", "refused"}
      BY <2>4 DEF SendResult, Goto
    <3>2. answer \in Result
      BY <3>1, AnswerType DEF PipelineInv
    <3>3. answer.ok => Decodes(answer.block)
      BY DEF WorkersJudge
    <3> HIDE DEF answer
    <3>4. \A i \in DOMAIN results' : results'[i].ok => Decodes(results'[i].block)
      BY <1>0, <3>1, <3>2, <3>3 DEF WorkersJudge
    <3>5. \A v \in WorkerIds : wpc'[v] = "done" => Decodes(hand'[v])
      BY <1>0, <3>1 DEF WorkersJudge
    <3> QED
      BY <2>2, <3>4, <3>5 DEF WorkersJudge
  <2>5. CASE WorkerExchange(w) /\ ~SendResult(w)
    <3>1. UNCHANGED results
      BY <2>5 DEF WorkerExchange, LockReceiver, ReceiveJob, ReceiveDisconnected, Panic,
         SendResultDisconnected
    <3>2. \A v \in WorkerIds : wpc'[v] = "done" => wpc[v] = "done" /\ hand'[v] = hand[v]
      BY <1>0, <2>5 DEF WorkerExchange, LockReceiver, ReceiveJob, ReceiveDisconnected, Panic,
         SendResultDisconnected, Goto
    <3> QED
      BY <2>2, <3>1, <3>2 DEF WorkersJudge
  <2> QED
    BY <2>1, <2>3, <2>4, <2>5 DEF PoolWorkerStep
<1>3. CASE MainStep
  <2>1. UNCHANGED <<sent, hand>>
        /\ \A w \in WorkerIds : wpc'[w] = "done" => wpc[w] = "done"
    <3>1. CASE SpawnStep
      BY <1>0, <1>3, <3>1, MainScans DEF SpawnStep, SpawnWorker, SpawnScheduler, SpawnFails,
         Goto, poolVars
    <3>2. CASE EndsStep \/ JoinStep
      BY <1>3, <3>2, MainScans, EndsFacts DEF JoinStep, poolVars
    <3>3. CASE ReceiveStep \/ WriteReady \/ WriteReadyFails
      BY <3>3, DrainStep, CollectorFrameFacts DEF ReceiveStep
    <3> QED
      BY <1>3, <3>1, <3>2, <3>3 DEF MainStep
  <2>2. CASE CollectBlock
    <3>1. /\ results # << >> /\ Head(results).ok
          /\ results' = Tail(results)
          /\ pending' = Insert(pending, Head(results).block)
          /\ UNCHANGED nextToWrite
      BY <2>2 DEF CollectBlock
    <3>2. Head(results) = results[1] /\ 1 \in DOMAIN results
      BY <1>0, <3>1
    <3>3. \A b \in pending' : Decodes(b)
      BY <3>1, <3>2 DEF Insert, WorkersJudge
    <3>4. \A i \in DOMAIN results' : i + 1 \in DOMAIN results /\ results'[i] = results[i + 1]
      BY <1>0, <3>1
    <3> QED
      BY <2>1, <3>1, <3>3, <3>4 DEF WorkersJudge
  <2>3. CASE WriteReady /\ \E b \in Ready : Advance(b)
    <3>1. PICK b \in Ready : Advance(b)
      BY <2>3
    <3>2. /\ pending' = pending \ {b} /\ nextToWrite' = nextToWrite + 1 /\ UNCHANGED results
          /\ b \in pending /\ b = sent[nextToWrite + 1]
      BY <3>1, ReadyIsNext DEF Advance, Ready
    <3>3. AllDecode(sent, nextToWrite + 1)
      BY <1>0, <3>2 DEF AllDecode, WorkersJudge
    <3> QED
      BY <2>1, <3>2, <3>3 DEF WorkersJudge
  <2>4. CASE ~CollectBlock /\ ~(WriteReady /\ \E b \in Ready : Advance(b))
    <3>1. /\ results' = results \/ results' = << >>
          /\ pending' \subseteq pending
          /\ UNCHANGED nextToWrite
      <4>1. CASE SpawnStep
        BY <4>1 DEF SpawnStep, SpawnWorker, SpawnScheduler, SpawnFails, poolVars, orderVars
      <4>2. CASE EndsStep \/ JoinStep
        BY <4>2, EndsFacts DEF JoinStep, poolVars, orderVars
      <4>3. CASE ReceiveStep
        BY <2>4, <4>3 DEF ReceiveStep, CollectError, CollectDisconnected, NothingReady,
           StopCollecting, orderVars
      <4>4. CASE WriteReady \/ WriteReadyFails
        <5>1. \E b \in Ready : \E result \in CollectErrors : GiveUp(b, result)
          BY <2>4, <4>4, DrainStep DEF WriteReady, WriteReadyFails
        <5> QED
          BY <5>1 DEF GiveUp, StopCollecting
      <4> QED
        BY <1>3, <4>1, <4>2, <4>3, <4>4 DEF MainStep
    <3>2. \A i \in DOMAIN results' : results'[i].ok => Decodes(results'[i].block)
      BY <3>1 DEF WorkersJudge
    <3> QED
      BY <2>1, <3>1, <3>2 DEF WorkersJudge
  <2> QED
    BY <2>2, <2>3, <2>4
<1>4. CASE UNCHANGED vars
  BY <1>4 DEF vars, pipelineVars, poolVars, schedulerVars, senderVars, orderVars, WorkersJudge
<1> QED
  BY <1>1, <1>2, <1>3, <1>4 DEF Next, Returned

(* The rows of the next block are the next rows the sequential reader reads.*)
LEMMA NextRows ==
    ASSUME DataInv, ScansAlike, WorkersJudge, WritesAlike, NEW b \in Ready, mpc = "drain"
    PROVE  /\ nextToWrite \in Nat /\ nextToWrite + 1 \in DOMAIN sent
           /\ b \in Block
           /\ output = ReaderAfter(file, nextToWrite + 1).rows
           /\ output \in Seq(Row)
           /\ ReaderAfter(file, (nextToWrite + 1) + 1).rows = output \o b.rows
<1> USE DEF DataInv
<1>1. collected = "none" /\ nextToWrite \in Nat
  BY DEF PipelineInv, PipelineTypeOK, Progress
<1>2. b = sent[nextToWrite + 1] /\ nextToWrite + 1 \in DOMAIN sent /\ b \in pending
  BY ReadyIsNext DEF Ready
<1>3. AllDecode(sent, nextToWrite + 1)
  BY <1>1, <1>2 DEF AllDecode, WorkersJudge
<1>4. nextToWrite \in 0..Len(sent) - 1
  BY <1>1, <1>2 DEF PipelineInv, PipelineTypeOK
<1> DEFINE r == ReaderAfter(file, nextToWrite + 1)
<1>5. /\ b \in Block /\ r \in Reader
      /\ ReaderAfter(file, (nextToWrite + 1) + 1) = TakeBlock(r, b)
  BY <1>2, <1>3, <1>4, ReadsNext
<1>6. output = r.rows
  BY <1>1 DEF WritesAlike
<1> HIDE DEF r
<1>7. TakeBlock(r, b).rows = r.rows \o b.rows /\ r.rows \in Seq(Row)
  BY <1>5, TakeBlockIs DEF Reader
<1> QED
  BY <1>1, <1>2, <1>5, <1>6, <1>7 DEF r

LEMMA WritesNext ==
    ASSUME DataInv, ScansAlike, WorkersJudge, WritesAlike, WriteReady
    PROVE  output' = ReaderAfter(file, nextToWrite' + 1).rows
<1>1. PICK b \in Ready : Advance(b) /\ output' = output \o b.rows
  BY ReadyLinesUp DEF WriteReady, DataInv
<1>2. nextToWrite' = nextToWrite + 1 /\ mpc = "drain"
  BY <1>1 DEF Advance
<1> QED
  BY <1>1, <1>2, NextRows

LEMMA WritesStep ==
    ASSUME DataInv, ScansAlike, WorkersJudge, WritesAlike, [Next]_vars
    PROVE  WritesAlike'
<1> USE FileStays DEF DataInv
<1>1. CASE SchedulerStep \/ \E w \in WorkerIds : WorkerStep(w)
  BY <1>1, OthersQuiet DEF WritesAlike
<1>2. CASE MainStep /\ WriteReady
  BY <1>2, WritesNext DEF WritesAlike
<1>3. CASE WriteReadyFails
  BY <1>3 DEF WriteReadyFails, GiveUp, StopCollecting, WritesAlike
<1>4. CASE MainStep /\ ~WriteReady /\ ~WriteReadyFails
  BY <1>4, MainQuiet DEF WritesAlike
<1>5. CASE UNCHANGED vars
  BY <1>5 DEF vars, pipelineVars, orderVars, writerVars, WritesAlike
<1> QED
  BY <1>1, <1>2, <1>3, <1>4, <1>5 DEF Next, Returned

-----------------------------------------------------------------------------
(* A file the sequential reader takes stops nobody. *)

(* Every block sent from it decodes. *)
LEMMA GoodBlocks ==
    ASSUME DataInv, IsDecodable(file)
    PROVE  \A k \in DOMAIN sent : Decodes(sent[k])
<1> SUFFICES ASSUME NEW k \in DOMAIN sent
             PROVE  Decodes(sent[k])
  OBVIOUS
<1>1. file \in Seq(Cell) /\ sent \in Seq(Block)
  BY FileTypes DEF DataInv, TypeOK, PipelineInv, PipelineTypeOK
<1>2. k + 1 \in DOMAIN file /\ file[k + 1] = Frame(sent[k])
  BY DEF DataInv, FramesScanned
<1>3. /\ Len(file) >= 2 /\ file[Len(file)].kind = "footer"
      /\ \A n \in 2..Len(file) - 1 : DecodesToRawSize(file[n].block)
  BY <1>1, DecodableFile
<1>4. file[k + 1].kind = "frame" /\ file[k + 1].block = sent[k]
  BY <1>2 DEF Frame
<1>5. k + 1 \in 2..Len(file) - 1
  <2>1. k \in Nat /\ k >= 1 /\ k + 1 <= Len(file) /\ k + 1 # Len(file)
    BY <1>1, <1>2, <1>3, <1>4
  <2> QED
    BY <1>1, <2>1
<1> QED
  BY <1>3, <1>4, <1>5 DEF Decodes

(* The scheduler takes whatever comes next in it. *)
LEMMA GoodCells ==
    ASSUME DataInv, ScansAlike, IsDecodable(file), spc = "reading"
    PROVE  /\ position < Len(file)
           /\ (NextCell.kind = "frame" /\ IsExpected(NextCell.block)) \/ IsSealed
<1> USE DEF DataInv
<1> DEFINE n == Len(sent)
           N == Len(file)
           r == ReaderAfter(file, n + 1)
<1>1. /\ file \in Seq(Cell) /\ sent \in Seq(Block) /\ index \in Seq(EntrySet)
      /\ n \in Nat /\ N \in Nat
  BY FileTypes DEF TypeOK, PipelineInv, PipelineTypeOK
<1>2. position = n + 1 /\ position <= N
  BY DEF FramesScanned, TypeOK
<1>3. /\ N >= 2
      /\ \A m \in 1..N - 1 : Len(ReaderAfter(file, m).entries) = m - 1
      /\ \A m \in 2..N - 1 : file[m].kind = "frame"
                              /\ IsNextBlock(ReaderAfter(file, m - 1), file[m].block)
      /\ file[N].kind = "footer" /\ Len(file[N].index) <= MaxStreamBlocks
      /\ file[N].index = ReaderAfter(file, N - 1).entries
  BY <1>1, DecodableFile
<1>4. n + 1 < N
  <2>1. n # 0 => file[n + 1].kind = "frame"
    <3>1. n # 0 => file[n + 1] = Frame(sent[n])
      BY <1>1 DEF FramesScanned
    <3> QED
      BY <3>1 DEF Frame
  <2>2. n + 1 # N
    BY <1>1, <1>3, <2>1
  <2> QED
    BY <1>1, <1>2, <2>2
<1>5. r.entries = index /\ r.nextRow = nextRow /\ n = nextBlock /\ Len(index) = n
  <2>1. AllDecode(sent, n)
    BY <1>1, GoodBlocks DEF AllDecode
  <2>2. /\ r.entries = index
        /\ r.nextRow = IF n = 0 THEN 0 ELSE sent[n].first + Len(sent[n].rows)
        /\ Len(index) = n
    BY <1>1, <2>1 DEF ScansAlike
  <2> QED
    BY <1>1, <2>2 DEF PipelineInv, CountersMatch
<1>6. NextCell = file[n + 2]
  BY <1>1, <1>2 DEF NextCell
<1>7. CASE n + 2 = N
  <2>1. N - 1 = n + 1 /\ position + 1 = N
    BY <1>1, <1>2, <1>7
  <2>2. NextCell.kind = "footer" /\ Len(NextCell.index) <= MaxStreamBlocks
        /\ NextCell.index = index
    BY <1>3, <1>5, <1>6, <1>7, <2>1
  <2> QED
    BY <1>1, <1>2, <1>4, <2>1, <2>2 DEF IsSealed
<1>8. CASE n + 2 # N
  <2>1. n + 2 \in 2..N - 1 /\ (n + 2) - 1 = n + 1 /\ N - 1 \in 1..N - 1 /\ n < N - 2
    BY <1>1, <1>4, <1>8
  <2>2. NextCell.kind = "frame" /\ IsNextBlock(r, NextCell.block)
    BY <1>3, <1>6, <2>1
  <2>3. n < MaxStreamBlocks
    <3>1. Len(ReaderAfter(file, N - 1).entries) = (N - 1) - 1
      BY <1>3, <2>1
    <3>2. (N - 1) - 1 <= MaxStreamBlocks
      BY <1>3, <3>1
    <3> QED
      BY <1>1, <2>1, <3>2, MaxStreamBlocksAssumption
  <2>4. IsExpected(NextCell.block)
    BY <1>5, <2>2, <2>3 DEF IsExpected, IsNextBlock
  <2> QED
    BY <1>1, <1>2, <1>4, <2>2, <2>4
<1> QED
  BY <1>7, <1>8

LEMMA GoodScheduler ==
    ASSUME DataInv, ThreadsInv, ScansAlike, IsDecodable(file), NobodyStops, SchedulerStep
    PROVE  NobodyStops'
<1> USE DEF DataInv
<1>1. SchedulerFrame /\ spc \in {"reading", "sending"}
  BY SchedulerLeaves DEF SchedulerStep, ScanFrame, ScanFooter, EndOfFile, RejectCell,
     SendJob, SendJobDisconnected, SendDisconnected, Send, HasCell
<1>2. jobTx /\ JobRx
  BY <1>1, SchedulerIsHeard
<1>3. CASE ScanFrame \/ SendJob
  <2>1. spc' \in {"reading", "sending"} /\ UNCHANGED jobTx
    BY <1>3 DEF ScanFrame, PrepareFrame, SendJob, Send
  <2> QED
    BY <1>1, <1>2, <2>1, SchedulerGoesOn
<1>4. CASE ScanFooter
  <2>1. spc' = "ok" /\ jobTx' = FALSE
    BY <1>4 DEF ScanFooter, EndScheduler
  <2> QED
    BY <1>1, <1>2, <2>1, SchedulerGoesOn
<1>5. ~EndOfFile /\ ~RejectCell
  <2>1. file \in Seq(Cell) /\ position \in 0..Len(file)
    BY FileTypes DEF TypeOK
  <2> QED
    BY <2>1, GoodCells DEF EndOfFile, RejectCell, HasCell
<1>6. ~SendJobDisconnected
  BY <1>2 DEF SendJobDisconnected, SendDisconnected
<1> QED
  BY <1>3, <1>4, <1>5, <1>6 DEF SchedulerStep

LEMMA GoodWorker ==
    ASSUME DataInv, ThreadsInv, BlocksInv, IsDecodable(file), NobodyStops,
           NEW w \in WorkerIds, WorkerStep(w), wpc'[w] # "panicked"
    PROVE  NobodyStops'
<1> USE DEF DataInv
<1> DEFINE good == Decodes(hand[w])
           succeeds == wpc[w] = "working" /\ good
<1>1. PoolWorkerStep(w, succeeds)
  BY DEF WorkerStep
<1>2. wpc[w] = "working" => succeeds
  <2> SUFFICES ASSUME wpc[w] = "working"
               PROVE  good
    OBVIOUS
  <2>1. IsIn(hand[w], sent)
    BY DEF PipelineInv, InFlightWasSent, Busy
  <2> QED
    BY <2>1, GoodBlocks DEF IsIn
<1> HIDE DEF succeeds, good
<1>3. ~Panic(w)
  BY DEF Panic, Goto, PipelineInv, PipelineTypeOK, PoolTypeOK
<1> QED
  BY <1>1, <1>2, <1>3, WorkerGoesOn

LEMMA GoodMain ==
    ASSUME DataInv, ThreadsInv, BlocksInv, HeaderChecked, IsDecodable(file), NobodyStops,
           MainStep, collected' # "writeError", verdict' # "spawnError"
    PROVE  NobodyStops'
<1> USE DEF DataInv
<1>1. CASE ReceiveStep
  BY <1>1, ReceiverGoesOn
<1>2. CASE WriteReady
  <2>1. \E b \in Ready : Advance(b) /\ CollectorFrame
    BY <1>2, ReadyLinesUp DEF WriteReady
  <2> QED
    BY <2>1, WriterGoesOn
<1>3. ~WriteReadyFails /\ ~SpawnFails
  BY DEF WriteReadyFails, GiveUp, StopCollecting, SpawnFails
<1>4. CASE SpawnStep
  BY <1>3, <1>4, SpawnerGoesOn
<1>5. CASE JoinStep
  BY <1>5, JoinerGoesOn
<1>6. CASE EndsStep
  <2>1. UNCHANGED <<jobs, results, jobTx, resultRx, wpc, spc, sent, resultCount, collected>>
    BY <1>6, EndsFacts
  <2>2. ~RejectHeader
    <3>1. file # << >> /\ file[1] = Header
      <4>1. file \in Seq(Cell)
        BY FileTypes DEF TypeOK
      <4> QED
        BY <4>1, DecodableFile
    <3> QED
      BY <3>1 DEF RejectHeader, HasHeader, NextCell, FramesScanned
  <2>3. \/ mpc' = "spawn" /\ UNCHANGED <<verdict, outcome>>
        \/ mpc' = "leaveScope" /\ verdict' = "ok" /\ UNCHANGED outcome
    BY <1>6, <2>2 DEF EndsStep, ReadHeader, Finish
  <2> QED
    BY <2>1, <2>3 DEF NobodyStops
<1> QED
  BY <1>1, <1>2, <1>3, <1>4, <1>5, <1>6 DEF MainStep

(* Once something has failed in the environment, it has failed. *)
LEMMA DisturbanceStays ==
    ASSUME DataInv, [Next]_vars, Undisturbed'
    PROVE  Undisturbed
<1> USE DEF DataInv
<1>1. /\ wpc \in [WorkerIds -> WorkerStates]
      /\ \A w \in WorkerIds : wpc'[w] # "panicked"
      /\ collected' # "writeError" /\ verdict' # "spawnError"
  BY DEF Undisturbed, PipelineInv, PipelineTypeOK, PoolTypeOK
<1>2. CASE SchedulerStep
  <2>1. UNCHANGED <<wpc, collected, verdict>>
    BY <1>2, SchedulerLeaves, SchedulerFrameFacts
  <2> QED
    BY <1>1, <2>1 DEF Undisturbed
<1>3. ASSUME NEW w \in WorkerIds, WorkerStep(w)
      PROVE  Undisturbed
  <2> DEFINE succeeds == wpc[w] = "working" /\ Decodes(hand[w])
  <2>1. PoolWorkerStep(w, succeeds)
    BY <1>3 DEF WorkerStep
  <2> HIDE DEF succeeds
  <2>2. UNCHANGED <<collected, verdict>>
    BY <2>1, WorkerFrame
  <2>3. wpc[w] \notin Gone /\ \A v \in WorkerIds : v # w => wpc'[v] = wpc[v]
    BY <2>1, WorkerMoves DEF PipelineInv
  <2> QED
    BY <1>1, <2>2, <2>3 DEF Undisturbed, Gone
<1>4. CASE MainStep
  <2>1. CASE SpawnStep
    <3>1. collected' = collected /\ verdict = "none"
      BY <2>1 DEF SpawnStep, SpawnWorker, SpawnScheduler, SpawnFails, PipelineInv, Progress
    <3>2. \A w \in WorkerIds : wpc[w] = "panicked" => wpc'[w] = "panicked"
      <4>1. CASE SpawnWorker
        <5>1. PICK w \in WorkerIds : SpawnedWorkers = 1..(w - 1) /\ Goto(w, "idle")
          BY <4>1 DEF SpawnWorker
        <5>2. w \notin SpawnedWorkers
          BY <5>1, Constants DEF WorkerIds
        <5> QED
          BY <1>1, <5>1, <5>2 DEF SpawnedWorkers, Goto
      <4>2. CASE SpawnScheduler \/ SpawnFails
        BY <4>2 DEF SpawnScheduler, SpawnFails, poolVars
      <4> QED
        BY <2>1, <4>1, <4>2 DEF SpawnStep
    <3> QED
      BY <1>1, <3>1, <3>2 DEF Undisturbed
  <2>2. CASE EndsStep
    <3>1. UNCHANGED <<wpc, collected>> /\ (verdict' = verdict \/ verdict = "none")
      BY <2>2, EndsFacts DEF EndsStep, ReadHeader, RejectHeader, Finish, PipelineInv, Progress
    <3> QED
      BY <1>1, <3>1 DEF Undisturbed
  <2>3. CASE JoinStep
    <3>1. UNCHANGED <<wpc, collected>> /\ (verdict' = verdict \/ verdict = "none")
      BY <2>3 DEF JoinStep, JoinScheduler, JoinWorker, AllJoined, CollectedError, LeaveScope,
         poolVars, PipelineInv, Progress
    <3> QED
      BY <1>1, <3>1 DEF Undisturbed
  <2>4. CASE ReceiveStep \/ WriteReady \/ WriteReadyFails
    <3>1. UNCHANGED <<wpc, verdict>>
      BY <2>4, DrainStep, CollectorFrameFacts DEF ReceiveStep
    <3>2. collected = "none"
      BY <2>4, DrainStep DEF ReceiveStep, CollectBlock, CollectError, CollectDisconnected,
         NothingReady, PipelineInv, Progress
    <3> QED
      BY <1>1, <3>1, <3>2 DEF Undisturbed
  <2> QED
    BY <1>4, <2>1, <2>2, <2>3, <2>4 DEF MainStep
<1>5. CASE UNCHANGED vars
  BY <1>1, <1>5 DEF vars, pipelineVars, poolVars, mainVars, Undisturbed
<1> QED
  BY <1>2, <1>3, <1>4, <1>5 DEF Next, Returned

LEMMA GoodStep ==
    ASSUME DataInv, ThreadsInv, BlocksInv, HeaderChecked, ScansAlike, GoodFilesPass, [Next]_vars
    PROVE  GoodFilesPass'
<1> SUFFICES ASSUME IsDecodable(file), Undisturbed'
             PROVE  NobodyStops'
  BY FileStays DEF GoodFilesPass
<1>1. NobodyStops
  BY DisturbanceStays DEF GoodFilesPass
<1>2. CASE SchedulerStep
  BY <1>1, <1>2, GoodScheduler
<1>3. CASE \E w \in WorkerIds : WorkerStep(w)
  BY <1>1, <1>3, GoodWorker DEF Undisturbed
<1>4. CASE MainStep
  BY <1>1, <1>4, GoodMain DEF Undisturbed
<1>5. CASE UNCHANGED vars
  BY <1>1, <1>5 DEF vars, pipelineVars, poolVars, schedulerVars, senderVars, orderVars,
     mainVars, NobodyStops
<1> QED
  BY <1>2, <1>3, <1>4, <1>5 DEF Next, Returned

-----------------------------------------------------------------------------
(* All of it. *)

LEMMA InitSequential == Init => SequentialInv
<1> SUFFICES ASSUME Init
             PROVE  SequentialInv
  OBVIOUS
<1>1. /\ sent = << >> /\ results = << >> /\ pending = {} /\ nextToWrite = 0
      /\ index = << >> /\ output = << >> /\ nextOffset = HeaderLen
      /\ spc = "unspawned" /\ mpc = "start" /\ verdict = "none" /\ outcome = "none"
      /\ collected = "none" /\ jobs = << >>
      /\ \A w \in WorkerIds : wpc[w] = "unspawned"
      /\ resultRx = TRUE /\ jobTx = TRUE
  BY DEF Init, PipelineInit, PoolInit
<1>2. ReaderAfter(file, 0 + 1) = ReaderStart
  <2>1. 0 + 1 = 1 /\ file \in Seq(Cell)
    BY FileTypes DEF Init
  <2> QED
    BY <2>1, ReaderUnfolds
<1>3. Len(sent) = 0 /\ Len(index) = 0 /\ \A n \in 0..Len(sent) : n = 0
  BY <1>1
<1>4. ScansAlike
  BY <1>1, <1>2, <1>3 DEF ScansAlike, ReaderStart
<1>5. WritesAlike
  BY <1>1, <1>2 DEF WritesAlike, ReaderStart
<1> QED
  BY <1>1, <1>4, <1>5 DEF SequentialInv, HeaderChecked, WorkersJudge, AllDecode, GoodFilesPass,
     NobodyStops

LEMMA InitIInv == Init => IInv
BY InitDataInv, ThreadsInit, BlocksInit, InitSequential DEF Init, IInv

LEMMA NextIInv ==
    ASSUME IInv, [Next]_vars
    PROVE  IInv'
<1>1. DataInv' /\ ThreadsInv' /\ BlocksInv'
  BY NextDataInv, DecoderThreads DEF IInv, DataInv
<1>2. HeaderChecked' /\ ScansAlike'
  BY HeaderStep, ScansStep DEF IInv, SequentialInv
<1>3. WorkersJudge' /\ WritesAlike' /\ GoodFilesPass'
  BY JudgeStep, WritesStep, GoodStep DEF IInv, SequentialInv
<1> QED
  BY <1>1, <1>2, <1>3 DEF IInv, SequentialInv

(* IInv is an invariant of every run of the parallel decoder, with any      *)
(* number of workers, any limit, any files and any of the faults.           *)
THEOREM DecoderInvariant == Spec => []IInv
BY InitIInv, NextIInv, PTL DEF Spec

(* The variables keep their types (schedule_decode_jobs, decode_worker_loop,*)
(* collect_decode_results and their caller).                                *)
THEOREM DecoderTypes == Spec => []TypeOK
<1>1. IInv => TypeOK
  BY DEF IInv, DataInv
<1> QED
  BY <1>1, DecoderInvariant, PTL

(* collect_decode_results never meets a block whose first row is not the    *)
(* next one: what the scheduler checked is enough.                          *)
THEOREM RowOrderCheckIsRedundant == Spec => []RowOrderNeverFails
<1>1. IInv => RowOrderNeverFails
  BY DEF IInv, DataInv
<1> QED
  BY <1>1, DecoderInvariant, PTL

(* Every row is written where the first row index of its block says,        *)
(* whatever order the workers finish in.                                    *)
THEOREM RowsWrittenInPlace == Spec => []RowsInPlace
<1>1. IInv => RowsInPlace
  BY DEF IInv, DataInv
<1> QED
  BY <1>1, DecoderInvariant, PTL

(* A call that returns Ok has decoded a whole file: every frame of it, in   *)
(* the order of the file, and the footer that lists them.                   *)
THEOREM SuccessMeansWhole == Spec => []SuccessIsWhole
<1>1. IInv => SuccessIsWhole
  <2> SUFFICES ASSUME IInv, outcome = "ok"
               PROVE  /\ Len(file) = Len(sent) + 2
                      /\ \A k \in DOMAIN sent : file[k + 1] = Frame(sent[k])
                      /\ file[Len(file)] = Footer(index)
                      /\ nextToWrite = Len(sent)
                      /\ Len(output) = nextRow
    BY DEF SuccessIsWhole
  <2> USE DEF IInv, DataInv, PipelineInv
  <2>1. verdict = "ok" /\ collected = "ok" /\ spc = "ok"
    BY DEF Progress
  <2>2. nextToWrite = Len(sent)
    BY <2>1 DEF Progress, CountersMatch
  <2>3. Len(output) = nextRowIndex
    BY <2>1 DEF RowsCounted
  <2>4. nextRowIndex = nextRow
    <3>1. sent = << >> <=> nextToWrite = 0
      BY <2>2 DEF PipelineTypeOK
    <3> QED
      BY <2>2, <3>1 DEF RowsCounted, CountersMatch
  <2> QED
    BY <2>1, <2>2, <2>3, <2>4 DEF FramesScanned
<1> QED
  BY <1>1, DecoderInvariant, PTL

(* Once collect_decode_results has met an error no more rows are written.   *)
THEOREM NoRowsAfterError == Spec => QuietAfterError
<1>1. IInv /\ [Next]_vars => [(collected \in CollectErrors) => UNCHANGED output]_vars
  <2> SUFFICES ASSUME IInv, Next, collected \in CollectErrors
               PROVE  UNCHANGED output
    OBVIOUS
  <2> USE DEF IInv, DataInv, PipelineInv
  <2>1. CASE SchedulerStep
    BY <2>1, SchedulerLeaves
  <2>2. CASE \E w \in WorkerIds : WorkerStep(w)
    BY <2>2 DEF WorkerStep, writerVars
  <2>3. CASE MainStep
    <3>1. mpc # "drain"
      BY DEF Progress
    <3>2. ~WriteReady /\ ~WriteReadyFails
      BY <3>1, DrainStep
    <3> QED
      BY <2>3, <3>2, EndsFacts DEF MainStep, writerVars
  <2>4. CASE Returned
    BY <2>4 DEF Returned, vars, writerVars
  <2> QED
    BY <2>1, <2>2, <2>3, <2>4 DEF Next
<1> QED
  BY <1>1, DecoderInvariant, PTL DEF Spec, QuietAfterError

(* A decode worker that panics makes the call fail with "worker panicked",  *)
(* or with a panic of its own.                                              *)
THEOREM DecoderPanicsSurface == Spec => []PanicSurfaces
<1>1. IInv => PanicSurfaces
  BY PanicIsSeen DEF IInv, DataInv
<1> QED
  BY <1>1, DecoderInvariant, PTL

(* No block is lost or doubled between schedule_decode_jobs, the channels,  *)
(* the workers and the collector's map.                                     *)
THEOREM NoDecodedBlockIsLost == Spec => []BlocksConserved
<1>1. IInv => BlocksConserved
  BY BlocksAreConserved DEF IInv, DataInv
<1> QED
  BY <1>1, DecoderInvariant, PTL

(* Success means that the sequential reader takes the file too, and that    *)
(* all its rows are written.                                                *)
LEMMA SuccessDecodes ==
    ASSUME IInv, outcome = "ok"
    PROVE  /\ IsDecodable(file)
           /\ output = SequentialDecode(file).rows
<1> USE DEF IInv, DataInv, SequentialInv
<1> DEFINE n == Len(sent)
           N == Len(file)
<1>1. verdict = "ok" /\ collected = "ok" /\ spc = "ok" /\ nextToWrite = n
  BY DEF PipelineInv, Progress, CountersMatch
<1>2. /\ file \in Seq(Cell) /\ file # << >> /\ file[1] = Header
      /\ index \in Seq(EntrySet) /\ n \in Nat
  BY <1>1, HeaderInFront DEF TypeOK, PipelineInv, PipelineTypeOK
<1>3. N = n + 2 /\ file[N] = Footer(index)
  BY <1>1 DEF FramesScanned
<1>4. AllDecode(sent, n)
  BY <1>1 DEF WorkersJudge
<1>5. /\ ReaderAfter(file, n + 1).status = "reading"
      /\ ReaderAfter(file, n + 1).entries = index
      /\ Len(index) <= MaxStreamBlocks
  BY <1>1, <1>2, <1>4 DEF ScansAlike
<1>6. output = ReaderAfter(file, n + 1).rows
  BY <1>1 DEF WritesAlike
<1>7. N >= 2 /\ N - 1 = n + 1
  BY <1>2, <1>3
<1>8. /\ IsDecodable(file)
      /\ SequentialDecode(file).rows = ReaderAfter(file, N - 1).rows
  BY <1>2, <1>3, <1>5, <1>7, ReadFooter
<1> QED
  BY <1>6, <1>7, <1>8

(* Unless a write, a spawn or a thread fails, the parallel decoder accepts  *)
(* exactly the files decode_jsonl_stream accepts, whatever the order of its *)
(* threads.                                                                 *)
THEOREM SameFilesAsSequential == Spec => []AgreesWithSequential
<1>1. IInv => AgreesWithSequential
  <2> SUFFICES ASSUME IInv, mpc = "returned", ~EnvironmentFailed
               PROVE  (outcome = "ok") <=> IsDecodable(file)
    BY DEF AgreesWithSequential
  <2>1. outcome = "ok" => IsDecodable(file)
    BY SuccessDecodes
  <2>2. Undisturbed
    <3>1. PanicSurfaces
      BY PanicIsSeen DEF IInv, DataInv
    <3>2. verdict # "spawnError"
      BY DEF EnvironmentFailed, IInv, ThreadsInv
    <3> QED
      BY <3>1, <3>2 DEF EnvironmentFailed, PanicSurfaces, Undisturbed
  <2>3. IsDecodable(file) => outcome = "ok"
    BY <2>2 DEF IInv, SequentialInv, GoodFilesPass, NobodyStops
  <2> QED
    BY <2>1, <2>3
<1> QED
  BY <1>1, DecoderInvariant, PTL

-----------------------------------------------------------------------------
(* The parallel decoder is a decoder: refinement of StreamDecoder.          *)

(* A part of the next block's rows, behind what is written, is where the    *)
(* sequential reader's rows go on.                                          *)
LEMMA PartIsPrefix ==
    ASSUME IInv, NEW b \in Ready, mpc = "drain"
    PROVE  LET rows == SequentialDecode(file).rows
           IN  /\ output \in Seq(Row) /\ b.rows \in Seq(Row) /\ rows \in Seq(Row)
               /\ Len(output) + Len(b.rows) <= Len(rows)
               /\ \A n \in 0..Len(b.rows) :
                      output \o SubSeq(b.rows, 1, n) = SubSeq(rows, 1, Len(output) + n)
<1> USE DEF IInv, DataInv, SequentialInv
<1> DEFINE rows == SequentialDecode(file).rows
           m == (nextToWrite + 1) + 1
           more == b.rows
<1>1. /\ nextToWrite \in Nat /\ nextToWrite + 1 \in DOMAIN sent
      /\ b \in Block /\ output \in Seq(Row)
      /\ ReaderAfter(file, m).rows = output \o more
  BY NextRows
<1>2. file \in Seq(Cell) /\ file # << >> /\ file[1] = Header
  BY <1>1, HeaderInFront
<1>3. m \in 1..Len(file) /\ Len(file) \in m..Len(file)
  <2>1. m \in DOMAIN file
    BY <1>1 DEF FramesScanned
  <2> QED
    BY <1>2, <2>1
<1>4. rows = ReaderAfter(file, Len(file)).rows
  BY <1>2, RowsOfFile
<1> HIDE DEF m
<1>5. /\ Len(output \o more) <= Len(rows)
      /\ \A i \in 1..Len(output \o more) : rows[i] = (output \o more)[i]
  BY <1>1, <1>2, <1>3, <1>4, RowsOnlyGrow
<1>6. rows \in Seq(Row)
  <2>1. Len(file) \in 1..Len(file)
    BY <1>2
  <2>2. ReaderAfter(file, Len(file)) \in Reader
    BY <1>2, <2>1, ReaderType
  <2> QED
    BY <1>4, <2>2 DEF Reader
<1>7. more \in Seq(Row)
  BY <1>1 DEF Block
<1> HIDE DEF rows, more
<1>8. \A n \in 0..Len(more) :
          output \o SubSeq(more, 1, n) = SubSeq(rows, 1, Len(output) + n)
  BY <1>1, <1>5, <1>6, <1>7, PrefixGoesOn
<1>9. Len(output) + Len(more) <= Len(rows)
  BY <1>1, <1>5, <1>6, <1>7
<1> QED
  BY <1>1, <1>6, <1>7, <1>8, <1>9 DEF rows, more

(* The sequential reader is the one StreamDecoder means. *)
LEMMA SameReader ==
    ASSUME NEW f, NEW n
    PROVE  Decoder!ReaderAfter(f, n) = ReaderAfter(f, n)
BY Zenon
   DEF Decoder!ReaderAfter, ReaderAfter, Decoder!FoldLeft, FoldLeft,
       Decoder!MapThenFoldSet, MapThenFoldSet, Decoder!Max, Max,
       Decoder!DecodeCell, DecodeCell, Decoder!ReaderFails, ReaderFails,
       Decoder!IsNextBlock, IsNextBlock, Decoder!TakeBlock, TakeBlock,
       Decoder!Entry, Entry, Decoder!FrameLen, FrameLen,
       Decoder!DecodesToRawSize, DecodesToRawSize,
       Decoder!ReaderStart, ReaderStart, Decoder!HeaderLen, HeaderLen

LEMMA SameDecode ==
    ASSUME NEW f
    PROVE  /\ Decoder!Rows(f) = SequentialDecode(f).rows
           /\ Decoder!IsDecodable(f) = IsDecodable(f)
<1>1. Decoder!SequentialDecode(f) = SequentialDecode(f)
  BY SameReader, Zenon
     DEF Decoder!SequentialDecode, SequentialDecode, Decoder!Header, Header,
         Decoder!ReaderFails, ReaderFails, Decoder!ReaderStart, ReaderStart,
         Decoder!HeaderLen, HeaderLen
<1> QED
  BY <1>1, Zenon DEF Decoder!Rows, Decoder!IsDecodable, IsDecodable

LEMMA DecoderInit == Init => Decoder!Init
BY DEF Init, PipelineInit, Decoder!Init, StatusOf

(* What the collector writes of a block, the abstract decoder writes. *)
LEMMA WriteStep ==
    ASSUME IInv, WriteReady \/ WriteReadyFails, outcome = "none", outcome' = outcome,
           file' = file
    PROVE  Decoder!Next \/ UNCHANGED Decoder!vars
<1> DEFINE rows == SequentialDecode(file).rows
<1>1. PICK b \in Ready :
          /\ mpc = "drain"
          /\ \/ output' = output
             \/ output' = output \o b.rows
             \/ \E part \in PartOf(b.rows) : output' = output \o part
  BY DEF WriteReady, WriteReadyFails, GiveUp, Advance, writerVars
<1>2. /\ output \in Seq(Row) /\ b.rows \in Seq(Row) /\ rows \in Seq(Row)
      /\ Len(output) + Len(b.rows) <= Len(rows)
      /\ \A n \in 0..Len(b.rows) :
             output \o SubSeq(b.rows, 1, n) = SubSeq(rows, 1, Len(output) + n)
  BY <1>1, PartIsPrefix
<1>3. ~Decoder!IsTorn
  <2>1. output # << >> => output[Len(output)] \in Row
    BY <1>2
  <2>2. Decoder!Torn \notin Row
    BY TornIsNoRow DEF Torn, Decoder!Torn
  <2> QED
    BY <2>1, <2>2 DEF Decoder!IsTorn, Decoder!Last
<1>4. StatusOf(outcome) = "running" /\ StatusOf(outcome)' = "running"
  BY DEF StatusOf
<1>5. Decoder!Rows(file) = rows
  BY SameDecode
<1> HIDE DEF rows
<1>6. ASSUME NEW n \in 0..Len(b.rows), output' = output \o SubSeq(b.rows, 1, n)
      PROVE  Decoder!Write \/ output' = output
  <2>1. output' = SubSeq(rows, 1, Len(output) + n)
    BY <1>2, <1>6
  <2>2. CASE n = 0
    BY <1>2, <1>6, <2>2
  <2>3. CASE n # 0
    <3>1. Len(output) + n \in Len(output) + 1..Len(rows)
      BY <1>2, <2>3
    <3> QED
      BY <1>3, <1>4, <1>5, <2>1, <3>1 DEF Decoder!Write
  <2> QED
    BY <2>2, <2>3
<1>7. ASSUME NEW n \in 0..Len(b.rows) - 1,
             output' = output \o Append(SubSeq(b.rows, 1, n), Torn)
      PROVE  Decoder!Tear
  <2> DEFINE front == SubSeq(b.rows, 1, n)
  <2>1. front \in Seq(Row)
    BY <1>2
  <2>2. output \o Append(front, Torn) = Append(output \o front, Torn)
    <3>1. output \in Seq(Row \cup {Torn}) /\ front \in Seq(Row \cup {Torn})
      BY <1>2, <2>1, PartType
    <3> HIDE DEF front
    <3> QED
      BY <3>1
  <2>3. n \in 0..Len(b.rows) /\ output \o front = SubSeq(rows, 1, Len(output) + n)
    BY <1>2
  <2>4. output' = Append(SubSeq(rows, 1, Len(output) + n), Decoder!Torn)
    BY <1>7, <2>2, <2>3 DEF Torn, Decoder!Torn
  <2>5. Len(output) + n \in Len(output)..Len(rows) - 1
    BY <1>2
  <2> QED
    BY <1>3, <1>4, <1>5, <2>4, <2>5 DEF Decoder!Tear
<1>8. CASE output' = output \o b.rows
  <2>1. Len(b.rows) \in 0..Len(b.rows) /\ SubSeq(b.rows, 1, Len(b.rows)) = b.rows
    BY <1>2
  <2>2. Decoder!Write \/ output' = output
    BY <1>6, <1>8, <2>1
  <2> QED
    BY <1>4, <2>2 DEF Decoder!Next, Decoder!vars
<1>9. CASE \E part \in PartOf(b.rows) : output' = output \o part
  <2>1. PICK n \in 0..Len(b.rows) - 1 :
            \/ output' = output \o SubSeq(b.rows, 1, n)
            \/ output' = output \o Append(SubSeq(b.rows, 1, n), Torn)
    BY <1>9 DEF PartOf
  <2>2. n \in 0..Len(b.rows)
    BY <1>2
  <2>3. Decoder!Write \/ Decoder!Tear \/ output' = output
    BY <1>6, <1>7, <2>1, <2>2
  <2> QED
    BY <1>4, <2>3 DEF Decoder!Next, Decoder!vars
<1> QED
  BY <1>1, <1>4, <1>8, <1>9 DEF Decoder!vars

DecodedIfOk == outcome = "ok" => IsDecodable(file) /\ output = SequentialDecode(file).rows

LEMMA DecodedAfter == IInv' => DecodedIfOk'
<1>1. IInv => DecodedIfOk
  BY SuccessDecodes DEF DecodedIfOk
<1> QED
  BY <1>1, PTL

LEMMA DecoderStep ==
    ASSUME IInv, IInv', [Next]_vars
    PROVE  Decoder!Next \/ UNCHANGED Decoder!vars
<1>1. file' = file
  BY FileStays
<1>2. CASE UNCHANGED <<output, outcome>>
  BY <1>1, <1>2 DEF Decoder!vars, StatusOf
<1>3. CASE MainStep
  <2>1. mpc # "returned"
    BY <1>3 DEF MainStep, EndsStep, ReadHeader, RejectHeader, Finish,
       WriteReady, WriteReadyFails, Advance, GiveUp, SpawnStep, SpawnWorker, SpawnScheduler,
       SpawnFails, ReceiveStep, CollectBlock, CollectError, CollectDisconnected, NothingReady,
       JoinStep, JoinScheduler, JoinWorker, AllJoined, CollectedError, LeaveScope
  <2>2. outcome = "none"
    BY <2>1 DEF IInv, DataInv, PipelineInv, Progress
  <2>3. CASE WriteReady \/ WriteReadyFails
    <3>1. outcome' = outcome
      BY <2>3 DEF WriteReady, WriteReadyFails, CollectorFrame
    <3> QED
      BY <1>1, <2>2, <2>3, <3>1, WriteStep
  <2>4. CASE ~WriteReady /\ ~WriteReadyFails
    <3>1. output' = output
      BY <1>3, <2>4, MainQuiet DEF IInv, DataInv
    <3>2. StatusOf(outcome) = "running"
      BY <2>2 DEF StatusOf
    <3>3. CASE outcome' = "ok"
      <4>1. IsDecodable(file') /\ output' = SequentialDecode(file').rows
        BY <3>3, DecodedAfter DEF DecodedIfOk
      <4>2. Decoder!IsDecodable(file) /\ output = Decoder!Rows(file)
        BY <1>1, <3>1, <4>1, SameDecode
      <4>3. StatusOf(outcome)' = "ok"
        BY <3>3 DEF StatusOf
      <4> QED
        BY <1>1, <3>1, <3>2, <4>2, <4>3 DEF Decoder!Next, Decoder!Succeed
    <3>4. CASE outcome' \notin {"none", "ok"}
      <4>1. StatusOf(outcome)' = "failed"
        BY <3>4 DEF StatusOf
      <4> QED
        BY <1>1, <3>1, <3>2, <4>1 DEF Decoder!Next, Decoder!Fail
    <3> QED
      BY <1>2, <2>2, <3>1, <3>3, <3>4
  <2> QED
    BY <2>3, <2>4
<1>4. CASE SchedulerStep \/ \E w \in WorkerIds : WorkerStep(w)
  BY <1>2, <1>4, OthersQuiet
<1>5. CASE Returned \/ UNCHANGED vars
  BY <1>2, <1>5 DEF Returned, vars, writerVars, pipelineVars, mainVars
<1> QED
  BY <1>3, <1>4, <1>5 DEF Next

(* The parallel decoder is a decoder of the stream: at every moment it has  *)
(* written the first rows of those decode_jsonl_stream finds, with at most  *)
(* a torn one at the end, and it succeeds only when they are all there and  *)
(* the file is sealed.                                                      *)
THEOREM DecoderImplementsStreamDecoder == Spec => DecoderSpec
<1>1. IInv /\ IInv' /\ [Next]_vars => [Decoder!Next]_(Decoder!vars)
  BY DecoderStep
<1> QED
  BY <1>1, DecoderInit, DecoderInvariant, PTL DEF Spec, DecoderSpec, Decoder!Spec
=============================================================================
