------------------------ MODULE ParallelEncode_proofs ------------------------
(***************************************************************************)
(* The safety of the parallel encoder, for any number of workers, any       *)
(* limits, any inputs and any of the faults.  ParallelPipeline_proofs shows *)
(* that the threads' shared skeleton keeps PipelineInv; here are the        *)
(* scheduler that cuts the lines and the output that is written.  The last  *)
(* part shows that the whole is an encoder as BlockStream describes one,    *)
(* from what Cmp2File_proofs says of the sequential cut.                    *)
(***************************************************************************)
EXTENDS ParallelEncode, ParallelPipeline_proofs, Cmp2File_proofs, FiniteSetTheorems

USE DEF SchedulerStates, SchedulerErrors, SchedulerEnded, CollectErrors,
        MainStates, Verdicts, WorkerStates

LEMMA InputTypes == Inputs \subseteq Seq(Line)
BY InputsAssumption

(* The types of what this module adds to the pipeline. *)
LEMMA TypeOKParts ==
    TypeOK <=> /\ PipelineTypeOK
               /\ lines \in Inputs
               /\ position \in 0..Len(lines)
               /\ group \in Group
               /\ held \in Seq(Row) /\ Len(held) <= 1
               /\ bytesWritten \in Nat
               /\ metadata \in Seq(EntrySet)
               /\ output \in Seq(Cell)
BY DEF TypeOK

-----------------------------------------------------------------------------
(* The scheduler. *)

LEMMA NextLineType ==
    ASSUME TypeOK, position < Len(lines)
    PROVE  /\ NextLine \in Line
           /\ position + 1 \in 0..Len(lines)
<1>1. lines \in Seq(Line)
  BY InputTypes DEF TypeOK
<1>2. position + 1 \in 1..Len(lines)
  BY <1>1 DEF TypeOK
<1> QED
  BY <1>1, <1>2 DEF NextLine

LEMMA PushType ==
    ASSUME group \in Group, NEW line \in Row, NEW block \in Nat, NEW row \in Nat,
           Push(line, block, row)
    PROVE  /\ group' \in Group
           /\ held' \in Seq(Row) /\ Len(held') <= 1
           /\ outbox' \in Block \cup {NoBlock}
           /\ spc' \in {"reading", "sending"}
           /\ (outbox' # NoBlock) <=> (spc' = "sending")
           /\ spc' = "sending" => outbox'.index = block /\ outbox'.first = row
<1> DEFINE g == PushLine(group, line)
<1>1. g \in Group
  BY DEF Group, PushLine, Row, Line
<1>2. [index |-> block, first |-> row, rows |-> g.rows] \in Block
  BY <1>1 DEF Group, Block
<1> HIDE DEF g
<1>3. /\ held' = << >>
      /\ IF ReachedLimit(g)
         THEN /\ outbox' = [index |-> block, first |-> row, rows |-> g.rows]
              /\ group' = EmptyGroup
              /\ spc' = "sending"
         ELSE /\ outbox' = NoBlock
              /\ group' = g
              /\ spc' = "reading"
  BY DEF Push, g
<1>4. EmptyGroup \in Group
  BY DEF EmptyGroup, Group
<1>5. CASE ReachedLimit(g)
  BY <1>2, <1>3, <1>4, <1>5, Constants
<1>6. CASE ~ReachedLimit(g)
  BY <1>1, <1>3, <1>6
<1> QED
  BY <1>5, <1>6

LEMMA TakeJobType ==
    ASSUME TypeOK
    PROVE  /\ TakeJob(group) \in Block
           /\ TakeJob(group) # NoBlock
           /\ TakeJob(group).index = nextBlock
           /\ TakeJob(group).first = nextRow
           /\ EmptyGroup \in Group
BY Constants DEF TypeOK, PipelineTypeOK, TakeJob, Block, Group, EmptyGroup

(* What the scheduler never touches. *)
LEMMA SchedulerLeaves ==
    ASSUME SchedulerStep
    PROVE  /\ SchedulerFrame
           /\ UNCHANGED <<lines, bytesWritten, metadata, output>>
BY DEF SchedulerStep, writerVars

(* The steps that prepare the next job have what PrepareInv asks for.       *)
LEMMA PrepareStep ==
    ASSUME TypeOK, HandsMatch, CountersMatch,
           SkipBlankLine \/ CutBeforeLine \/ PushNextLine \/ CutLastGroup
    PROVE  /\ spc = "reading"
           /\ PrepareFrame
           /\ spc' \in {"reading", "sending"}
           /\ outbox' \in Block \cup {NoBlock}
           /\ (outbox' # NoBlock) <=> (spc' = "sending")
           /\ spc' = "sending" => outbox'.index = nextBlock /\ outbox'.first = nextRow
           /\ position' \in 0..Len(lines)
           /\ group' \in Group
           /\ held' \in Seq(Row) /\ Len(held') <= 1
<1> USE DEF HasLine, AtEnd, ReadOn
<1>1. CASE SkipBlankLine
  BY <1>1, NextLineType DEF SkipBlankLine, TypeOK, PipelineTypeOK, HandsMatch
<1>2. CASE CutBeforeLine
  BY <1>2, NextLineType, TakeJobType DEF CutBeforeLine, TypeOK
<1>3. CASE PushNextLine
  <2>1. /\ position < Len(lines)
        /\ NextLine \in Row
        /\ Push(NextLine, nextBlock, nextRow)
        /\ position' = position + 1
        /\ PrepareFrame
        /\ spc = "reading"
    BY <1>3 DEF PushNextLine
  <2>2. group \in Group /\ nextBlock \in Nat /\ nextRow \in Nat
    BY DEF TypeOK, PipelineTypeOK
  <2>3. position' \in 0..Len(lines)
    BY <2>1, NextLineType
  <2> QED
    BY <2>1, <2>2, <2>3, PushType
<1>4. CASE CutLastGroup
  BY <1>4, TakeJobType DEF CutLastGroup, TypeOK
<1> QED
  BY <1>1, <1>2, <1>3, <1>4

LEMMA SendStep ==
    ASSUME TypeOK, PipelineInv, SendJob
    PROVE  /\ Send
           /\ spc' \in {"reading", "sending"}
           /\ outbox' \in Block \cup {NoBlock}
           /\ (outbox' # NoBlock) <=> (spc' = "sending")
           /\ spc' = "sending" => outbox'.index = nextBlock' /\ outbox'.first = nextRow'
           /\ position' \in 0..Len(lines)
           /\ group' \in Group
           /\ held' \in Seq(Row) /\ Len(held') <= 1
<1>1. Send /\ PushHeld /\ UNCHANGED position
  BY DEF SendJob
<1>2. CASE held = << >>
  BY <1>1, <1>2 DEF PushHeld, TypeOK
<1>3. CASE held # << >>
  <2>1. held[1] \in Row
    BY <1>3 DEF TypeOK
  <2>2. Push(held[1], nextBlock', nextRow')
    BY <1>1, <1>3 DEF PushHeld
  <2>3. nextBlock' \in Nat /\ nextRow' \in Nat
    BY <1>1, SendFacts
  <2>4. group \in Group /\ position' \in 0..Len(lines)
    BY <1>1 DEF TypeOK
  <2> QED
    BY <1>1, <2>1, <2>2, <2>3, <2>4, PushType
<1> QED
  BY <1>2, <1>3

LEMMA SchedulerInv ==
    ASSUME PipelineInv, TypeOK, InputRead, SchedulerStep
    PROVE  PipelineInv' /\ TypeOK' /\ InputRead'
<1> USE SchedulerLeaves
<1>1. CASE SkipBlankLine \/ CutBeforeLine \/ PushNextLine \/ CutLastGroup
  <2>1. PipelineInv'
    BY <1>1, PrepareStep, PrepareInv DEF PipelineInv
  <2> QED
    BY <1>1, <2>1, PrepareStep DEF PipelineInv, TypeOK, InputRead
<1>2. CASE SendJob
  <2>1. PipelineInv'
    BY <1>2, SendStep, SendInv
  <2> QED
    BY <1>2, <2>1, SendStep DEF PipelineInv, TypeOK, InputRead
<1>3. CASE RejectLine \/ SendJobDisconnected \/ FinishScheduling
  <2>1. PICK state \in SchedulerEnded :
            /\ EndScheduler(state)
            /\ UNCHANGED <<position, group, held>>
            /\ spc \in {"reading", "sending"}
            /\ state = "ok" => position = Len(lines)
    BY <1>3 DEF RejectLine, SendJobDisconnected, SendDisconnected,
       FinishScheduling, HasLine, AtEnd, readerVars
  <2>2. PipelineInv'
    BY <2>1, EndInv
  <2> QED
    BY <2>1, <2>2 DEF PipelineInv, TypeOK, InputRead, EndScheduler
<1> QED
  BY <1>1, <1>2, <1>3 DEF SchedulerStep

-----------------------------------------------------------------------------
(* The workers. *)

LEMMA EncoderWorkerInv ==
    ASSUME PipelineInv, TypeOK, InputRead, NEW w \in WorkerIds, WorkerStep(w)
    PROVE  PipelineInv' /\ TypeOK' /\ InputRead'
<1> DEFINE succeeds == wpc[w] = "working" /\ IsEncodable(hand[w].rows)
<1>1. /\ PoolWorkerStep(w, succeeds)
      /\ UNCHANGED <<readerVars, writerVars, lines>>
  BY DEF WorkerStep
<1> HIDE DEF succeeds
<1>2. PipelineInv'
  BY <1>1, WorkerInv
<1> QED
  BY <1>1, <1>2, WorkerFrame DEF PipelineInv, TypeOK, InputRead, readerVars, writerVars

-----------------------------------------------------------------------------
(* The calling thread and the pipeline. *)

LEMMA TornWriteType ==
    ASSUME output \in Seq(Cell), TornWrite
    PROVE  /\ output' \in Seq(Cell)
           /\ output' = output \/ output' = Append(output, Torn)
BY DEF TornWrite, Torn, Cell

LEMMA EntryType ==
    ASSUME NEW b \in Block, NEW offset \in Nat
    PROVE  /\ Entry(b, offset) \in EntrySet
           /\ FrameLen(b) \in Nat
           /\ Frame(b) \in Cell
BY DEF Entry, EntrySet, FrameLen, Frame, Cell, Block

LEMMA EndsFacts ==
    ASSUME EndsStep
    PROVE  UNCHANGED <<jobs, results, jobTx, resultRx, lock, wpc, hand, spc, outbox,
                       nextBlock, nextRow, sent, pending, nextToWrite, resultCount,
                       collected, joined, bytesWritten, metadata>>
BY DEF EndsStep, poolVars, schedulerVars, senderVars, orderVars

LEMMA EndsInv ==
    ASSUME PipelineInv, EndsStep
    PROVE  PipelineInv'
<1> USE EndsFacts DEF PipelineInv
<1>1. /\ mpc' \in MainStates
      /\ verdict' \in Verdicts \cup {"none"}
      /\ outcome' \in Verdicts \cup {"none", "scopePanic"}
      /\ Progress'
  <2> USE DEF PipelineTypeOK, Progress
  <2>1. CASE WriteHeader
    BY <2>1 DEF WriteHeader
  <2>2. CASE WriteHeaderFails
    BY <2>2 DEF WriteHeaderFails
  <2>3. CASE WriteFooter
    BY <2>3 DEF WriteFooter, IsComplete
  <2>4. CASE WriteFooterFails
    BY <2>4 DEF WriteFooterFails, IsComplete
  <2> QED
    BY <2>1, <2>2, <2>3, <2>4 DEF EndsStep
<1> QED
  BY <1>1, MainOnlyInv DEF PipelineTypeOK, PoolTypeOK, schedulerVars, senderVars,
     orderVars

LEMMA MainInv ==
    ASSUME PipelineInv, MainStep
    PROVE  PipelineInv'
<1>1. CASE WriteReady
  BY <1>1, AdvanceInv DEF WriteReady
<1>2. CASE WriteReadyFails
  BY <1>2, GiveUpInv DEF WriteReadyFails
<1> QED
  BY <1>1, <1>2, EndsInv, SpawnInv, ReceiveInv, JoinInv DEF MainStep

LEMMA MainReads ==
    ASSUME PipelineInv, InputRead, MainStep
    PROVE  /\ UNCHANGED <<position, group, held, lines, sent>>
           /\ InputRead'
<1>1. UNCHANGED <<position, group, held, lines>>
  BY DEF MainStep, readerVars
<1>2. UNCHANGED sent /\ (spc' = "ok" => spc = "ok")
  BY EndsFacts, CollectorFrameFacts
     DEF MainStep, WriteReady, WriteReadyFails, ReceiveStep, SpawnStep, JoinStep,
         SpawnWorker, SpawnScheduler, SpawnFails, schedulerVars, senderVars
<1> QED
  BY <1>1, <1>2 DEF InputRead

LEMMA MainTypeOK ==
    ASSUME PipelineInv, TypeOK, InputRead, MainStep
    PROVE  TypeOK'
<1> USE MainReads
<1>1. bytesWritten' \in Nat /\ metadata' \in Seq(EntrySet) /\ output' \in Seq(Cell)
  <2> USE DEF TypeOK
  <2>1. CASE WriteReady
    <3>1. PICK b \in Ready : /\ output' = Append(output, Frame(b))
                             /\ metadata' = Append(metadata, Entry(b, bytesWritten))
                             /\ bytesWritten' = bytesWritten + FrameLen(b)
      BY <2>1 DEF WriteReady
    <3> QED
      BY <3>1, ReadyIsNext, EntryType
  <2>2. CASE WriteReadyFails
    BY <2>2, TornWriteType DEF WriteReadyFails
  <2>3. CASE EndsStep
    <3>1. CASE WriteHeader
      BY <2>3, <3>1, EndsFacts DEF WriteHeader, Header, Cell
    <3>2. CASE WriteHeaderFails
      BY <2>3, <3>2, EndsFacts, TornWriteType DEF WriteHeaderFails
    <3>3. CASE WriteFooter
      BY <2>3, <3>3, EndsFacts DEF WriteFooter, Footer, Cell
    <3>4. CASE WriteFooterFails
      BY <2>3, <3>4, EndsFacts, TornWriteType DEF WriteFooterFails
    <3> QED
      BY <2>3, <3>1, <3>2, <3>3, <3>4 DEF EndsStep
  <2>4. CASE UNCHANGED writerVars
    BY <2>4 DEF writerVars
  <2> QED
    BY <2>1, <2>2, <2>3, <2>4 DEF MainStep
<1> QED
  BY <1>1, MainInv DEF PipelineInv, TypeOK
-----------------------------------------------------------------------------
(* The output. *)

OutputInv == FramesWritten /\ OutputLength /\ IndexMatches

(* A step that writes nothing, leaves the numbers of the jobs sent as they  *)
(* are, and neither opens nor closes the call.                              *)
LEMMA QuietOutput ==
    ASSUME PipelineInv, OutputInv,
           UNCHANGED <<output, metadata, bytesWritten, nextToWrite>>,
           Len(sent) <= Len(sent'), \A k \in 1..Len(sent) : sent'[k] = sent[k],
           mpc' = "start" => mpc = "start",
           mpc' # "start" => mpc # "start",
           (verdict' = "ok") <=> (verdict = "ok"),
           verdict' = "none" => verdict = "none",
           collected' \in {"none", "ok"} => collected \in {"none", "ok"}
    PROVE  OutputInv'
<1>1. \A k \in 1..nextToWrite : sent'[k] = sent[k]
  BY DEF PipelineInv, PipelineTypeOK, NotAhead
<1>2. FramesWritten'
  BY <1>1 DEF OutputInv, FramesWritten
<1>3. IndexMatches'
  BY <1>1 DEF OutputInv, IndexMatches
<1> QED
  BY <1>2, <1>3 DEF OutputInv, OutputLength

LEMMA OtherThreadsOutput ==
    ASSUME PipelineInv, TypeOK, OutputInv,
           SchedulerStep \/ \E w \in WorkerIds : WorkerStep(w)
    PROVE  OutputInv'
<1>1. UNCHANGED <<output, metadata, bytesWritten, nextToWrite, verdict, mpc, collected>>
  BY SchedulerLeaves, SchedulerFrameFacts, WorkerFrame DEF WorkerStep, writerVars
<1>2. /\ Len(sent) <= Len(sent')
      /\ \A k \in 1..Len(sent) : sent'[k] = sent[k]
  <2>1. CASE SendJob
    BY <2>1, SendFacts DEF SendJob
  <2>2. CASE UNCHANGED sent
    BY <2>2 DEF PipelineInv, PipelineTypeOK
  <2>3. SendJob \/ UNCHANGED sent
    BY WorkerFrame DEF SchedulerStep, SkipBlankLine, RejectLine, CutBeforeLine,
       PushNextLine, CutLastGroup, FinishScheduling, SendJobDisconnected,
       SendDisconnected, ReadOn, PrepareFrame, EndScheduler, senderVars, WorkerStep
  <2> QED
    BY <2>1, <2>2, <2>3
<1> QED
  BY <1>1, <1>2, QuietOutput

LEMMA CellKinds ==
    /\ Header.kind = "header"
    /\ Torn.kind = "torn"
    /\ \A b : Frame(b).kind = "frame"
    /\ \A index : Footer(index).kind = "footer"
BY DEF Header, Torn, Frame, Footer

LEMMA AppendCell ==
    ASSUME output \in Seq(Cell), NEW c \in Cell, output' = Append(output, c)
    PROVE  /\ Len(output) \in Nat
           /\ Len(output') = Len(output) + 1
           /\ output'[Len(output) + 1] = c
           /\ DOMAIN output = 1..Len(output)
           /\ DOMAIN output' = 1..(Len(output) + 1)
           /\ \A i \in 1..Len(output) : output'[i] = output[i]
OBVIOUS

(* A torn cell ends the output of a call that fails. *)
LEMMA TornOutput ==
    ASSUME TypeOK, OutputInv, verdict = "none", TornWrite,
           UNCHANGED <<nextToWrite, sent, metadata, bytesWritten>>,
           mpc' # "start", verdict' # "ok",
           verdict' = "none" => collected' \notin {"none", "ok"}
    PROVE  OutputInv'
<1>1. Torn \in Cell
  BY DEF Torn, Cell
<1>2. \A i \in DOMAIN output : output[i].kind # "footer"
  BY DEF OutputInv, FramesWritten
<1>3. FramesWritten'
  <2>1. CASE output' = Append(output, Torn)
    <3>1. \A k \in 1..nextToWrite : /\ k + 1 \in DOMAIN output'
                                   /\ output'[k + 1] = Frame(sent[k])
      BY <1>1, <2>1, AppendCell DEF OutputInv, FramesWritten, TypeOK
    <3>2. \A i \in DOMAIN output' :
              /\ output'[i].kind = "frame" => i \in 2..(nextToWrite + 1)
              /\ output'[i].kind # "footer"
      BY <1>1, <1>2, <2>1, AppendCell, CellKinds DEF OutputInv, FramesWritten, TypeOK
    <3> QED
      BY <3>1, <3>2 DEF FramesWritten
  <2>2. CASE output' = output
    BY <1>2, <2>2 DEF OutputInv, FramesWritten
  <2> QED
    BY <2>1, <2>2, TornWriteType DEF TypeOK
<1>4. OutputLength'
  BY DEF OutputLength
<1>5. IndexMatches'
  BY DEF OutputInv, IndexMatches
<1> QED
  BY <1>3, <1>4, <1>5 DEF OutputInv

LEMMA HeaderOutput ==
    ASSUME TypeOK, Progress, OutputInv, EndsStep, WriteHeader
    PROVE  OutputInv'
<1>1. /\ output' = <<Header>> /\ nextToWrite = 0
      /\ mpc' = "spawn" /\ verdict' = "none"
  BY DEF WriteHeader, OutputInv, OutputLength, Progress
<1>2. FramesWritten'
  BY <1>1, EndsFacts, CellKinds DEF FramesWritten
<1>3. OutputLength'
  BY <1>1, EndsFacts DEF OutputLength
<1>4. IndexMatches'
  BY <1>1, EndsFacts DEF OutputInv, IndexMatches
<1> QED
  BY <1>2, <1>3, <1>4 DEF OutputInv

LEMMA FooterOutput ==
    ASSUME TypeOK, Progress, OutputInv, EndsStep, WriteFooter
    PROVE  OutputInv'
<1>1. /\ output' = Append(output, Footer(metadata))
      /\ verdict' = "ok" /\ mpc' = "leaveScope"
      /\ Len(output) = nextToWrite + 1
  BY DEF WriteFooter, IsComplete, OutputInv, OutputLength, Progress
<1>2. Footer(metadata) \in Cell
  BY DEF Footer, Cell, TypeOK
<1>3. nextToWrite \in Nat
  BY DEF TypeOK, PipelineTypeOK
<1>4. /\ Len(output') = nextToWrite + 2
      /\ output'[nextToWrite + 2] = Footer(metadata)
      /\ DOMAIN output' = 1..(nextToWrite + 2)
      /\ DOMAIN output = 1..(nextToWrite + 1)
      /\ \A i \in 1..(nextToWrite + 1) : output'[i] = output[i]
  BY <1>1, <1>2, <1>3, AppendCell DEF TypeOK
<1>5. FramesWritten'
  <2>1. \A k \in 1..nextToWrite : /\ k + 1 \in DOMAIN output'
                                 /\ output'[k + 1] = Frame(sent[k])
    BY <1>3, <1>4 DEF OutputInv, FramesWritten
  <2>2. \A i \in DOMAIN output' :
            /\ output'[i].kind = "frame" => i \in 2..(nextToWrite + 1)
            /\ output'[i].kind = "footer" => i = nextToWrite + 2
    BY <1>3, <1>4, CellKinds DEF OutputInv, FramesWritten
  <2> QED
    BY <1>1, <2>1, <2>2, EndsFacts DEF FramesWritten
<1>6. OutputLength'
  BY <1>1, <1>4, EndsFacts DEF OutputLength
<1>7. IndexMatches'
  BY <1>4, EndsFacts DEF OutputInv, IndexMatches
<1> QED
  BY <1>5, <1>6, <1>7 DEF OutputInv
(* The next frame goes where its index says, and its entry says where.      *)
LEMMA FrameOutput ==
    ASSUME PipelineInv, TypeOK, OutputInv, WriteReady
    PROVE  OutputInv'
<1>1. PICK b \in Ready :
          /\ Advance(b)
          /\ output' = Append(output, Frame(b))
          /\ metadata' = Append(metadata, Entry(b, bytesWritten))
          /\ bytesWritten' = bytesWritten + FrameLen(b)
  BY DEF WriteReady
<1>2. /\ nextToWrite' = nextToWrite + 1
      /\ Len(output) = nextToWrite + 1
      /\ verdict = "none" /\ verdict' = "none"
      /\ mpc' = "drain"
      /\ UNCHANGED sent
      /\ nextToWrite \in Nat
  BY <1>1, CollectorFrameFacts DEF WriteReady, Advance, OutputInv, OutputLength,
     PipelineInv, Progress, PipelineTypeOK
<1>3. /\ b \in Block
      /\ b = sent[nextToWrite + 1]
      /\ Frame(b) \in Cell
      /\ Entry(b, bytesWritten) \in EntrySet
      /\ Entry(b, bytesWritten).encoded_offset = bytesWritten
      /\ Entry(b, bytesWritten).compressed_size = FrameLen(b)
  BY ReadyIsNext, EntryType DEF TypeOK, Entry
<1>4. /\ Len(output') = nextToWrite + 2
      /\ output'[nextToWrite + 2] = Frame(b)
      /\ DOMAIN output' = 1..(nextToWrite + 2)
      /\ DOMAIN output = 1..(nextToWrite + 1)
      /\ \A i \in 1..(nextToWrite + 1) : output'[i] = output[i]
  BY <1>1, <1>2, <1>3, AppendCell DEF TypeOK
<1>5. FramesWritten'
  <2>1. \A k \in 1..nextToWrite' : /\ k + 1 \in DOMAIN output'
                                  /\ output'[k + 1] = Frame(sent[k])
    <3>1. \A k \in 1..nextToWrite : output'[k + 1] = Frame(sent[k])
      BY <1>2, <1>4 DEF OutputInv, FramesWritten
    <3>2. output'[(nextToWrite + 1) + 1] = Frame(sent[nextToWrite + 1])
      BY <1>2, <1>3, <1>4
    <3> QED
      BY <1>2, <1>4, <3>1, <3>2
  <2>2. \A i \in DOMAIN output' :
            /\ output'[i].kind = "frame" => i \in 2..(nextToWrite' + 1)
            /\ output'[i].kind # "footer"
    BY <1>2, <1>4, CellKinds DEF OutputInv, FramesWritten
  <2> QED
    BY <1>2, <2>1, <2>2 DEF FramesWritten
<1>6. OutputLength'
  BY <1>2, <1>4 DEF OutputLength
<1>7. IndexMatches'
  <2>1. /\ Len(metadata') = nextToWrite + 1
        /\ metadata'[nextToWrite + 1] = Entry(b, bytesWritten)
        /\ \A k \in 1..nextToWrite : metadata'[k] = metadata[k]
    BY <1>1, <1>2, <1>3 DEF OutputInv, IndexMatches, TypeOK
  <2>2. ASSUME NEW k \in 1..nextToWrite'
        PROVE  metadata'[k] = Entry(sent[k],
                                    IF k = 1 THEN HeaderLen
                                    ELSE metadata'[k - 1].encoded_offset
                                         + metadata'[k - 1].compressed_size)
    <3>1. k # 1 => metadata'[k - 1] = metadata[k - 1]
      BY <1>2, <2>1
    <3>2. CASE k <= nextToWrite
      BY <1>2, <2>1, <3>1, <3>2 DEF OutputInv, IndexMatches
    <3>3. CASE k = nextToWrite + 1
      <4>1. bytesWritten = IF k = 1 THEN HeaderLen
                           ELSE metadata'[k - 1].encoded_offset
                                + metadata'[k - 1].compressed_size
        BY <1>2, <3>1, <3>3 DEF OutputInv, IndexMatches
      <4> QED
        BY <1>3, <2>1, <3>3, <4>1
    <3> QED
      BY <1>2, <3>2, <3>3
  <2>3. bytesWritten' = metadata'[nextToWrite'].encoded_offset
                        + metadata'[nextToWrite'].compressed_size
    BY <1>1, <1>2, <1>3, <2>1
  <2> QED
    BY <1>2, <2>1, <2>2, <2>3 DEF IndexMatches
<1> QED
  BY <1>5, <1>6, <1>7 DEF OutputInv

(* Spawning, receiving and joining write nothing. *)
LEMMA QuietSteps ==
    ASSUME PipelineTypeOK, Progress, SpawnStep \/ ReceiveStep \/ JoinStep
    PROVE  /\ UNCHANGED nextToWrite
           /\ mpc # "start" /\ mpc' # "start"
           /\ (verdict' = "ok") <=> (verdict = "ok")
           /\ verdict' = "none" => verdict = "none"
           /\ collected' \in {"none", "ok"} => collected \in {"none", "ok"}
<1>1. CASE SpawnStep
  BY <1>1 DEF SpawnStep, SpawnWorker, SpawnScheduler, SpawnFails, mainVars,
     orderVars, Progress
<1>2. CASE ReceiveStep
  BY <1>2, CollectorFrameFacts DEF ReceiveStep, CollectBlock, CollectError,
     CollectDisconnected, NothingReady, StopCollecting, orderVars, Progress
<1>3. CASE JoinStep
  <2>1. UNCHANGED <<nextToWrite, collected>>
    BY <1>3 DEF JoinStep, orderVars
  <2>2. /\ mpc # "start" /\ mpc' # "start"
        /\ (verdict' = "ok") <=> (verdict = "ok")
        /\ verdict' = "none" => verdict = "none"
    BY <1>3 DEF JoinStep, JoinScheduler, JoinWorker, AllJoined, CollectedError,
       LeaveScope, Progress, PipelineTypeOK
  <2> QED
    BY <2>1, <2>2
<1> QED
  BY <1>1, <1>2, <1>3

LEMMA MainOutput ==
    ASSUME PipelineInv, TypeOK, InputRead, OutputInv, MainStep
    PROVE  OutputInv'
<1>1. UNCHANGED sent
  BY MainReads
<1>2. CASE WriteReady
  BY <1>2, FrameOutput
<1>3. CASE WriteReadyFails
  <2>1. /\ TornWrite
        /\ verdict = "none"
        /\ UNCHANGED <<verdict, nextToWrite, metadata, bytesWritten>>
        /\ collected' = "writeError"
        /\ mpc' = "joinScheduler"
    BY <1>3, CollectorFrameFacts DEF WriteReadyFails, GiveUp, StopCollecting,
       PipelineInv, Progress
  <2> QED
    BY <1>1, <2>1, TornOutput
<1>4. CASE EndsStep
  <2>1. CASE WriteHeader
    BY <1>4, <2>1, HeaderOutput DEF PipelineInv
  <2>2. CASE WriteFooter
    BY <1>4, <2>2, FooterOutput DEF PipelineInv
  <2>3. CASE WriteHeaderFails \/ WriteFooterFails
    <3>1. /\ TornWrite
          /\ verdict = "none"
          /\ verdict' \in {"headerError", "footerError"}
          /\ mpc' # "start"
      BY <2>3 DEF WriteHeaderFails, WriteFooterFails, PipelineInv, Progress
    <3> QED
      BY <1>1, <1>4, <3>1, EndsFacts, TornOutput
  <2> QED
    BY <1>4, <2>1, <2>2, <2>3 DEF EndsStep
<1>5. CASE (SpawnStep \/ ReceiveStep \/ JoinStep) /\ UNCHANGED writerVars
  <2>1. UNCHANGED <<output, metadata, bytesWritten, nextToWrite>>
    BY <1>5, QuietSteps DEF PipelineInv, writerVars
  <2>2. /\ mpc # "start" /\ mpc' # "start"
        /\ (verdict' = "ok") <=> (verdict = "ok")
        /\ verdict' = "none" => verdict = "none"
        /\ collected' \in {"none", "ok"} => collected \in {"none", "ok"}
    BY <1>5, QuietSteps DEF PipelineInv
  <2>3. Len(sent) <= Len(sent')
    BY <1>1 DEF PipelineInv, PipelineTypeOK
  <2> QED
    BY <1>1, <2>1, <2>2, <2>3, QuietOutput
<1> QED
  BY <1>2, <1>3, <1>4, <1>5 DEF MainStep

-----------------------------------------------------------------------------
(* The inductive invariant. *)

LEMMA InitDataInv == Init => DataInv
<1> SUFFICES ASSUME Init
             PROVE  DataInv
  OBVIOUS
<1>1. PipelineInv
  BY PipelineInitInv DEF Init
<1>2. TypeOK
  BY <1>1, InputTypes DEF Init, TypeOK, PipelineInv, Group, EmptyGroup, HeaderLen
<1>3. InputRead /\ FramesWritten /\ OutputLength /\ IndexMatches
  BY DEF Init, PipelineInit, InputRead, FramesWritten, OutputLength, IndexMatches
<1> QED
  BY <1>1, <1>2, <1>3 DEF DataInv

LEMMA NextDataInv ==
    ASSUME DataInv, [Next]_vars
    PROVE  DataInv'
<1> USE DEF DataInv, OutputInv
<1>1. CASE SchedulerStep
  BY <1>1, SchedulerInv, OtherThreadsOutput
<1>2. CASE \E w \in WorkerIds : WorkerStep(w)
  BY <1>2, EncoderWorkerInv, OtherThreadsOutput
<1>3. CASE MainStep
  BY <1>3, MainInv, MainTypeOK, MainReads, MainOutput
<1>4. CASE UNCHANGED vars
  <2>1. PipelineInv'
    BY <1>4, PipelineStutter DEF vars
  <2>2. UNCHANGED <<lines, position, group, held, bytesWritten, metadata, output,
                    spc, mpc, sent, nextToWrite, verdict, collected>>
    BY <1>4 DEF vars, readerVars, writerVars, pipelineVars, schedulerVars, senderVars,
       orderVars, mainVars
  <2> QED
    BY <2>1, <2>2 DEF PipelineInv, TypeOK, InputRead, FramesWritten,
       OutputLength, IndexMatches
<1> QED
  BY <1>1, <1>2, <1>3, <1>4 DEF Next, Returned

-----------------------------------------------------------------------------
(* The threads, and where the blocks are. *)

LEMMA EncoderThreads ==
    ASSUME PipelineInv, ThreadsInv, BlocksInv, [Next]_vars
    PROVE  ThreadsInv' /\ BlocksInv'
<1>1. CASE SchedulerStep
  <2>1. /\ SchedulerFrame
        /\ spc \in {"reading", "sending"}
        /\ spc' # "unspawned"
        /\ SendJob \/ UNCHANGED <<jobs, sent>>
    BY <1>1 DEF SchedulerStep, SkipBlankLine, RejectLine, CutBeforeLine, PushNextLine, Push,
       CutLastGroup, FinishScheduling, SendJob, PushHeld, SendJobDisconnected, SendDisconnected,
       Send, ReadOn, PrepareFrame, EndScheduler, HasLine, AtEnd, senderVars
  <2> QED
    BY <2>1, SchedulerThreads, SchedulerBlocks, SendBlocks DEF SendJob
<1>2. CASE \E w \in WorkerIds : WorkerStep(w)
  <2>1. PICK w \in WorkerIds : WorkerStep(w)
    BY <1>2
  <2> DEFINE succeeds == wpc[w] = "working" /\ IsEncodable(hand[w].rows)
  <2>2. PoolWorkerStep(w, succeeds)
    BY <2>1 DEF WorkerStep
  <2> HIDE DEF succeeds
  <2> QED
    BY <2>2, WorkerThreads, WorkerBlocks
<1>3. CASE MainStep
  <2>1. CASE EndsStep
    <3>1. /\ UNCHANGED <<wpc, spc, joined, resultRx, collected>>
          /\ UNCHANGED <<poolVars, schedulerVars, orderVars, collected>>
          /\ mpc' # "collect"
          /\ \/ mpc = "start" /\ mpc' = "spawn" /\ UNCHANGED <<verdict, outcome>>
             \/ mpc = "start" /\ mpc' = "returned"
                   /\ verdict' = "headerError" /\ outcome' = "headerError"
             \/ mpc = "finish" /\ mpc' = "leaveScope"
                   /\ verdict' \in {"ok", "footerError"} /\ UNCHANGED outcome
      BY <2>1, EndsFacts DEF EndsStep, WriteHeader, WriteHeaderFails, WriteFooter,
         WriteFooterFails
    <3> QED
      BY <3>1, EndsThreads, MainBlocks
  <2>2. CASE WriteReady
    <3>1. PICK b \in Ready : Advance(b) /\ CollectorFrame
      BY <2>2 DEF WriteReady
    <3>2. mpc = "drain" /\ mpc' = "drain" /\ UNCHANGED <<resultRx, collected>>
      BY <3>1 DEF Advance
    <3> QED
      BY <3>1, <3>2, AdvanceBlocks, CollectorThreads
  <2>3. CASE WriteReadyFails
    <3>1. PICK b \in Ready : GiveUp(b, "writeError") /\ CollectorFrame
      BY <2>3 DEF WriteReadyFails
    <3>2. mpc = "drain" /\ mpc' = "joinScheduler" /\ collected' # "none"
      BY <3>1 DEF GiveUp, StopCollecting
    <3> QED
      BY <3>1, <3>2, GiveUpBlocks, CollectorThreads
  <2>4. CASE SpawnStep
    BY <2>4, SpawnThreads, SpawnBlocks
  <2>5. CASE ReceiveStep
    BY <2>5, ReceiveThreads, ReceiveStepBlocks
  <2>6. CASE JoinStep
    BY <2>6, JoinThreads, JoinBlocks
  <2> QED
    BY <1>3, <2>1, <2>2, <2>3, <2>4, <2>5, <2>6 DEF MainStep
<1>4. CASE UNCHANGED vars
  BY <1>4, ThreadsStutter, BlocksStutter DEF vars
<1> QED
  BY <1>1, <1>2, <1>3, <1>4 DEF Next, Returned

-----------------------------------------------------------------------------
(* A clean input in a clean environment. *)

LEMMA CleanLine ==
    ASSUME TypeOK, IsClean, position < Len(lines), NextLine \in Row
    PROVE  NextLine.kind # "bad"
<1>1. position + 1 \in DOMAIN lines
  BY InputTypes DEF TypeOK
<1> QED
  BY <1>1 DEF IsClean, NextLine

LEMMA AppendEncodable ==
    ASSUME NEW rows \in Seq(Row), NEW row \in Row, IsEncodable(rows), row.kind # "bad"
    PROVE  IsEncodable(Append(rows, row))
BY DEF IsEncodable

(* What a push of a good line leaves behind is good. *)
LEMMA CleanPush ==
    ASSUME group \in Group, IsEncodable(group.rows),
           NEW line \in Row, line.kind # "bad", NEW block, NEW row, Push(line, block, row)
    PROVE  /\ IsEncodable(group'.rows)
           /\ IsEncodable(held')
           /\ outbox' # NoBlock => IsEncodable(outbox'.rows)
<1> DEFINE g == PushLine(group, line)
<1>1. IsEncodable(g.rows)
  BY AppendEncodable DEF Group, PushLine
<1>2. IsEncodable(<< >>) /\ EmptyGroup.rows = << >>
  BY DEF IsEncodable, EmptyGroup
<1> HIDE DEF g
<1>3. /\ held' = << >>
      /\ IF ReachedLimit(g)
         THEN outbox' = [index |-> block, first |-> row, rows |-> g.rows] /\ group' = EmptyGroup
         ELSE outbox' = NoBlock /\ group' = g
  BY DEF Push, g
<1>4. CASE ReachedLimit(g)
  BY <1>1, <1>2, <1>3, <1>4
<1>5. CASE ~ReachedLimit(g)
  BY <1>1, <1>2, <1>3, <1>5
<1> QED
  BY <1>4, <1>5

LEMMA CleanScheduler ==
    ASSUME PipelineInv, TypeOK, IsClean, RowsAreGood, SchedulerStep
    PROVE  RowsAreGood'
<1>1. IsEncodable(<< >>) /\ EmptyGroup.rows = << >>
  BY DEF IsEncodable, EmptyGroup
<1>2. group \in Group
  BY DEF TypeOK
<1>3. CASE SkipBlankLine \/ RejectLine \/ FinishScheduling \/ SendJobDisconnected
  BY <1>3 DEF SkipBlankLine, ReadOn, PrepareFrame, RejectLine, FinishScheduling,
     SendJobDisconnected, SendDisconnected, EndScheduler, readerVars, senderVars, RowsAreGood
<1>4. CASE CutBeforeLine
  <2>1. /\ outbox'.rows = group.rows /\ group' = EmptyGroup /\ held' = <<NextLine>>
        /\ NextLine.kind # "bad" /\ UNCHANGED sent
    BY <1>4, CleanLine DEF CutBeforeLine, HasLine, TakeJob, ReadOn, PrepareFrame
  <2>2. IsEncodable(held')
    BY <2>1 DEF IsEncodable
  <2> QED
    BY <1>1, <2>1, <2>2 DEF RowsAreGood
<1>5. CASE PushNextLine
  <2>1. /\ Push(NextLine, nextBlock, nextRow) /\ NextLine \in Row
        /\ NextLine.kind # "bad" /\ UNCHANGED sent
    BY <1>5, CleanLine DEF PushNextLine, HasLine, ReadOn, PrepareFrame
  <2> QED
    BY <1>2, <2>1, CleanPush DEF RowsAreGood
<1>6. CASE CutLastGroup
  BY <1>1, <1>6 DEF CutLastGroup, TakeJob, PrepareFrame, RowsAreGood
<1>7. CASE SendJob
  <2>1. Send /\ PushHeld
    BY <1>7 DEF SendJob
  <2>2. \A k \in DOMAIN sent' : IsEncodable(sent'[k].rows)
    <3>1. IsEncodable(outbox.rows)
      BY <2>1, SendFacts, Constants DEF RowsAreGood
    <3>2. \A k \in DOMAIN sent' : sent'[k] = outbox \/ (k \in DOMAIN sent /\ sent'[k] = sent[k])
      BY <2>1, SendFacts
    <3> QED
      BY <3>1, <3>2 DEF RowsAreGood
  <2>3. CASE held = << >>
    BY <2>1, <2>2, <2>3 DEF PushHeld, RowsAreGood
  <2>4. CASE held # << >>
    <3>1. held[1] \in Row /\ 1 \in DOMAIN held
      BY <2>4 DEF TypeOK
    <3>2. held[1].kind # "bad"
      BY <3>1 DEF RowsAreGood, IsEncodable
    <3>3. Push(held[1], nextBlock', nextRow')
      BY <2>1, <2>4 DEF PushHeld
    <3> QED
      BY <1>2, <2>2, <3>1, <3>2, <3>3, CleanPush DEF RowsAreGood
  <2> QED
    BY <2>3, <2>4
<1> QED
  BY <1>3, <1>4, <1>5, <1>6, <1>7 DEF SchedulerStep

LEMMA CleanSchedulerStops ==
    ASSUME PipelineInv, TypeOK, ThreadsInv, IsClean, NobodyStops, SchedulerStep
    PROVE  NobodyStops'
<1>1. SchedulerFrame /\ spc \in {"reading", "sending"}
  BY SchedulerLeaves DEF SchedulerStep, SkipBlankLine, RejectLine, CutBeforeLine,
     PushNextLine, CutLastGroup, FinishScheduling, SendJob, SendJobDisconnected,
     SendDisconnected, Send, HasLine, AtEnd
<1>2. collected = "none" /\ jobTx /\ JobRx
  BY <1>1, SchedulerIsHeard
<1>3. CASE SkipBlankLine \/ CutBeforeLine \/ PushNextLine \/ CutLastGroup
  <2>1. spc' \in {"reading", "sending"} /\ UNCHANGED jobTx
    BY <1>3, PrepareStep DEF PipelineInv, PrepareFrame
  <2> QED
    BY <1>1, <1>2, <2>1, SchedulerGoesOn
<1>4. CASE SendJob
  <2>1. spc' \in {"reading", "sending"} /\ UNCHANGED jobTx
    BY <1>4, SendStep DEF Send
  <2> QED
    BY <1>1, <1>2, <2>1, SchedulerGoesOn
<1>5. CASE FinishScheduling
  <2>1. spc' = "ok" /\ jobTx' = FALSE
    BY <1>5 DEF FinishScheduling, EndScheduler
  <2> QED
    BY <1>1, <1>2, <2>1, SchedulerGoesOn
<1>6. ~RejectLine
  <2> SUFFICES ASSUME RejectLine
               PROVE  FALSE
    OBVIOUS
  <2>1. position + 1 \in DOMAIN lines /\ lines[position + 1].kind = "reject"
    BY InputTypes DEF RejectLine, HasLine, NextLine, TypeOK
  <2> QED
    BY <2>1 DEF IsClean
<1>7. ~SendJobDisconnected
  BY <1>2 DEF SendJobDisconnected, SendDisconnected
<1> QED
  BY <1>3, <1>4, <1>5, <1>6, <1>7 DEF SchedulerStep

LEMMA CleanWorkerStops ==
    ASSUME PipelineInv, ThreadsInv, BlocksInv, IsClean, RowsAreGood, NobodyStops,
           NEW w \in WorkerIds, WorkerStep(w)
    PROVE  NobodyStops'
<1> DEFINE good == IsEncodable(hand[w].rows)
           succeeds == wpc[w] = "working" /\ good
<1>1. PoolWorkerStep(w, succeeds)
  BY DEF WorkerStep
<1>2. wpc[w] = "working" => succeeds
  <2> SUFFICES ASSUME wpc[w] = "working"
               PROVE  good
    OBVIOUS
  <2>1. IsIn(hand[w], sent)
    BY DEF PipelineInv, InFlightWasSent, Busy
  <2> QED
    BY <2>1 DEF IsIn, RowsAreGood
<1> HIDE DEF succeeds, good
<1>3. ~Panic(w)
  BY DEF Panic, IsClean
<1> QED
  BY <1>1, <1>2, <1>3, WorkerGoesOn

LEMMA CleanMainStops ==
    ASSUME PipelineInv, ThreadsInv, BlocksInv, IsClean, NobodyStops, MainStep
    PROVE  NobodyStops'
<1>1. CASE ReceiveStep
  BY <1>1, ReceiverGoesOn
<1>2. CASE WriteReady
  BY <1>2, WriterGoesOn DEF WriteReady
<1>3. ~WriteReadyFails /\ ~SpawnFails
  BY DEF WriteReadyFails, SpawnFails, IsClean
<1>4. CASE SpawnStep
  BY <1>3, <1>4, SpawnerGoesOn
<1>5. CASE JoinStep
  BY <1>5, JoinerGoesOn
<1>6. CASE EndsStep
  <2>1. UNCHANGED <<jobs, results, jobTx, resultRx, wpc, spc, sent, resultCount, collected>>
    BY <1>6, EndsFacts
  <2>2. \/ mpc' = "spawn" /\ UNCHANGED <<verdict, outcome>>
        \/ mpc' = "leaveScope" /\ verdict' = "ok" /\ UNCHANGED outcome
    BY <1>6 DEF EndsStep, WriteHeader, WriteHeaderFails, WriteFooter, WriteFooterFails, IsClean
  <2> QED
    BY <2>1, <2>2 DEF NobodyStops
<1> QED
  BY <1>1, <1>2, <1>3, <1>4, <1>5, <1>6 DEF MainStep

LEMMA CleanStep ==
    ASSUME DataInv, ThreadsInv, BlocksInv, CleanInv, [Next]_vars
    PROVE  CleanInv'
<1> SUFFICES ASSUME IsClean'
             PROVE  RowsAreGood' /\ NobodyStops'
  BY DEF CleanInv
<1>1. UNCHANGED lines
  BY SchedulerLeaves DEF Next, WorkerStep, MainStep, Returned, vars
<1>2. IsClean /\ RowsAreGood /\ NobodyStops
  BY <1>1 DEF IsClean, CleanInv
<1> USE DEF DataInv
<1>3. CASE SchedulerStep
  BY <1>2, <1>3, CleanScheduler, CleanSchedulerStops
<1>4. CASE \E w \in WorkerIds : WorkerStep(w)
  <2>1. NobodyStops'
    BY <1>2, <1>4, CleanWorkerStops
  <2>2. UNCHANGED <<group, held, outbox, sent>>
    BY <1>4, WorkerFrame DEF WorkerStep, readerVars
  <2> QED
    BY <1>2, <2>1, <2>2 DEF RowsAreGood
<1>5. CASE MainStep
  <2>1. NobodyStops'
    BY <1>2, <1>5, CleanMainStops
  <2>2. UNCHANGED outbox
    BY <1>5, EndsFacts, CollectorFrameFacts
       DEF MainStep, WriteReady, WriteReadyFails, ReceiveStep, SpawnStep, JoinStep,
           SpawnWorker, SpawnScheduler, SpawnFails, schedulerVars, senderVars
  <2> QED
    BY <1>2, <1>5, <2>1, <2>2, MainReads DEF RowsAreGood
<1>6. CASE UNCHANGED vars
  BY <1>2, <1>6 DEF vars, readerVars, pipelineVars, poolVars, schedulerVars, senderVars,
     orderVars, mainVars, RowsAreGood, NobodyStops
<1> QED
  BY <1>3, <1>4, <1>5, <1>6 DEF Next, Returned

-----------------------------------------------------------------------------
(* The scheduler cuts what the sequential writer cuts. *)

(* What write_jsonl_line does with a row, by what the group is. *)
LEMMA WriteRow ==
    ASSUME NEW done, NEW g \in Group, NEW line \in Row
    PROVE  LET w == [done |-> done, group |-> g]
               more == PushLine(g, line)
           IN  /\ WouldExceed(g, line) =>
                      /\ FlushBlock(w) = [done |-> Append(done, g.rows), group |-> EmptyGroup]
                      /\ WriteLine(w, line) = WriteLine(FlushBlock(w), line)
               /\ ~WouldExceed(g, line) =>
                      WriteLine(w, line) =
                          IF ReachedLimit(more)
                          THEN [done |-> Append(done, more.rows), group |-> EmptyGroup]
                          ELSE [done |-> done, group |-> more]
<1> DEFINE w == [done |-> done, group |-> g]
           more == PushLine(g, line)
           f == FlushBlock(w)
<1>1. w.done = done /\ w.group = g
  OBVIOUS
<1>2. line.kind # "blank"
  BY DEF Row
<1>3. ASSUME NEW v, ~WouldExceed(v.group, line)
      PROVE  LET full == [v EXCEPT !.group = PushLine(@, line)]
             IN  WriteLine(v, line) =
                     IF ReachedLimit(full.group) THEN FlushBlock(full) ELSE full
  BY <1>2, <1>3, Zenon DEF WriteLine
<1>4. CASE WouldExceed(g, line)
  <2>1. ~IsEmptyGroup(g)
    BY <1>4 DEF WouldExceed
  <2>2. f = [done |-> Append(done, g.rows), group |-> EmptyGroup]
    BY <2>1 DEF FlushBlock
  <2>3. f.group = EmptyGroup
    BY <2>2
  <2>4. ~WouldExceed(f.group, line)
    BY <2>3 DEF WouldExceed, IsEmptyGroup, EmptyGroup
  <2> HIDE DEF f, w
  <2>5. WriteLine(w, line) = LET full == [f EXCEPT !.group = PushLine(@, line)]
                             IN  IF ReachedLimit(full.group) THEN FlushBlock(full) ELSE full
    BY <1>1, <1>2, <1>4, Zenon DEF WriteLine, f
  <2>6. WriteLine(f, line) = WriteLine(w, line)
    BY <1>3, <2>4, <2>5
  <2> QED
    BY <1>4, <2>2, <2>6 DEF f, w
<1>5. CASE ~WouldExceed(g, line)
  <2> DEFINE full == [w EXCEPT !.group = PushLine(@, line)]
  <2>1. full = [done |-> done, group |-> more]
    BY <1>1
  <2>2. full.group = more /\ full.done = done
    BY <2>1
  <2>3. ~IsEmptyGroup(more)
    <3>1. g.rows \in Seq(Row)
      BY DEF Group
    <3>2. more.rows = Append(g.rows, line)
      BY DEF PushLine
    <3> HIDE DEF more
    <3>3. Len(more.rows) = Len(g.rows) + 1 /\ Len(g.rows) \in Nat
      BY <3>1, <3>2
    <3> QED
      BY <3>1, <3>2, <3>3 DEF IsEmptyGroup
  <2>4. WriteLine(w, line) = IF ReachedLimit(full.group) THEN FlushBlock(full) ELSE full
    <3> HIDE DEF w
    <3> QED
      BY <1>1, <1>3, <1>5
  <2> HIDE DEF more, full, w
  <2>5. FlushBlock(full) = [done |-> Append(done, more.rows), group |-> EmptyGroup]
    BY <2>2, <2>3 DEF FlushBlock
  <2> QED
    BY <1>5, <2>1, <2>2, <2>4, <2>5 DEF more, w
<1> QED
  BY <1>4, <1>5

LEMMA PushMeans ==
    ASSUME group \in Group, NEW line \in Row, NEW block, NEW row, NEW done,
           ~WouldExceed(group, line), Push(line, block, row)
    PROVE  /\ held' = << >> /\ spc' \in {"reading", "sending"}
           /\ WriteLine([done |-> done, group |-> group], line) =
                  IF spc' = "sending"
                  THEN [done |-> Append(done, outbox'.rows), group |-> EmptyGroup]
                  ELSE [done |-> done, group |-> group']
           /\ spc' = "sending" => group' = EmptyGroup
<1> DEFINE g == PushLine(group, line)
<1>1. /\ held' = << >>
      /\ IF ReachedLimit(g)
         THEN /\ outbox' = [index |-> block, first |-> row, rows |-> g.rows]
              /\ group' = EmptyGroup
              /\ spc' = "sending"
         ELSE /\ outbox' = NoBlock
              /\ group' = g
              /\ spc' = "reading"
  BY DEF Push
<1>2. WriteLine([done |-> done, group |-> group], line) =
          IF ReachedLimit(g)
          THEN [done |-> Append(done, g.rows), group |-> EmptyGroup]
          ELSE [done |-> done, group |-> g]
  BY WriteRow
<1> HIDE DEF g
<1>3. CASE ReachedLimit(g)
  BY <1>1, <1>2, <1>3
<1>4. CASE ~ReachedLimit(g)
  BY <1>1, <1>2, <1>4
<1> QED
  BY <1>3, <1>4

(* The rows the jobs carry. *)
LEMMA SentRowsAre ==
    ASSUME sent \in Seq(Block)
    PROVE  /\ SentRows \in Seq(Seq(Row)) /\ Len(SentRows) = Len(sent)
           /\ \A k \in DOMAIN sent : SentRows[k] = sent[k].rows
           /\ Send /\ outbox \in Block => SentRows' = Append(SentRows, outbox.rows)
           /\ UNCHANGED sent => SentRows' = SentRows
<1>1. DOMAIN sent = 1..Len(sent) /\ Len(sent) \in Nat
  OBVIOUS
<1>2. \A k \in DOMAIN sent : sent[k].rows \in Seq(Row)
  <2>1. \A k \in DOMAIN sent : sent[k] \in Block
    OBVIOUS
  <2> QED
    BY <2>1 DEF Block
<1>3. SentRows \in Seq(Seq(Row)) /\ Len(SentRows) = Len(sent)
      /\ \A k \in DOMAIN sent : SentRows[k] = sent[k].rows
  BY <1>1, <1>2 DEF SentRows
<1>4. ASSUME Send, outbox \in Block
      PROVE  SentRows' = Append(SentRows, outbox.rows)
  <2>1. sent' = Append(sent, outbox)
    BY <1>4 DEF Send
  <2>2. DOMAIN sent' = 1..Len(sent) + 1 /\ sent'[Len(sent) + 1] = outbox
        /\ \A k \in 1..Len(sent) : sent'[k] = sent[k]
    BY <1>4, <2>1
  <2>3. SentRows' = [k \in 1..Len(sent) + 1 |-> sent'[k].rows]
    BY <2>2 DEF SentRows
  <2>4. outbox.rows \in Seq(Row)
    BY <1>4 DEF Block
  <2> DEFINE more == Append(SentRows, outbox.rows)
  <2>5. more \in Seq(Seq(Row)) /\ Len(more) = Len(sent) + 1
        /\ more[Len(sent) + 1] = outbox.rows
        /\ \A k \in 1..Len(sent) : more[k] = SentRows[k]
    BY <1>3, <2>4
  <2> HIDE DEF more
  <2>6. SentRows' \in Seq(Seq(Row)) /\ Len(SentRows') = Len(sent) + 1
    BY <1>1, <1>2, <2>2, <2>3, <2>4
  <2>7. ASSUME NEW k \in 1..Len(sent) + 1
        PROVE  SentRows'[k] = more[k]
    <3>1. SentRows'[k] = sent'[k].rows
      BY <2>3
    <3>2. k \in 1..Len(sent) \/ k = Len(sent) + 1
      BY <1>1
    <3>3. CASE k \in 1..Len(sent)
      BY <1>1, <1>3, <2>2, <2>5, <3>1, <3>3
    <3>4. CASE k = Len(sent) + 1
      BY <2>2, <2>5, <3>1, <3>4
    <3> QED
      BY <3>2, <3>3, <3>4
  <2> QED
    BY <2>5, <2>6, <2>7 DEF more
<1>5. UNCHANGED sent => SentRows' = SentRows
  BY DEF SentRows
<1> QED
  BY <1>3, <1>4, <1>5

(* The lines before a position, and with the next line. *)
LEMMA SequentialNext ==
    ASSUME TypeOK, UNCHANGED lines
    PROVE  /\ UNCHANGED position => Sequential' = Sequential
           /\ position < Len(lines) /\ position' = position + 1 =>
                  Sequential' = WriteLine(Sequential, NextLine)
<1>1. lines \in Seq(Line) /\ position \in 0..Len(lines)
  BY InputTypes DEF TypeOK
<1>2. ASSUME position < Len(lines), position' = position + 1
      PROVE  Sequential' = WriteLine(Sequential, NextLine)
  <2>1. position \in 0..Len(lines) - 1
    BY <1>1, <1>2
  <2>2. WriterAfter(SubSeq(lines, 1, position + 1)) =
            WriteLine(WriterAfter(SubSeq(lines, 1, position)), lines[position + 1])
    BY <1>1, <2>1, LineByLine
  <2> QED
    BY <1>2, <2>2 DEF Sequential, NextLine
<1> QED
  BY <1>2 DEF Sequential

LEMMA NoRejectYet ==
    ASSUME TypeOK, UNCHANGED lines, \A i \in 1..position : lines[i].kind # "reject",
           \/ UNCHANGED position
           \/ position' = position + 1 /\ NextLine.kind # "reject"
    PROVE  \A i \in 1..position' : lines'[i].kind # "reject"
<1>1. position \in Nat
  BY DEF TypeOK
<1>2. CASE position' = position + 1 /\ NextLine.kind # "reject"
  <2>1. \A i \in 1..position' : i \in 1..position \/ i = position + 1
    BY <1>1, <1>2
  <2> QED
    BY <1>2, <2>1 DEF NextLine
<1> QED
  BY <1>2

LEMMA CutsScheduler ==
    ASSUME PipelineInv, TypeOK, CutsAlike, SchedulerStep
    PROVE  CutsAlike'
<1> DEFINE now == [done |-> SentRows, group |-> group]
<1>1. UNCHANGED lines
  BY SchedulerLeaves
<1>2. sent \in Seq(Block) /\ group \in Group /\ (spc = "sending" => outbox \in Block)
  BY DEF PipelineInv, PipelineTypeOK, TypeOK, HandsMatch
<1>0. spc' = "sending" => outbox' # NoBlock
  <2>1. CASE SkipBlankLine \/ CutBeforeLine \/ PushNextLine \/ CutLastGroup
    BY <2>1, PrepareStep DEF PipelineInv
  <2>2. CASE SendJob
    BY <2>2, SendStep
  <2>3. CASE RejectLine \/ FinishScheduling \/ SendJobDisconnected
    BY <2>3 DEF RejectLine, FinishScheduling, SendJobDisconnected, SendDisconnected, EndScheduler
  <2> QED
    BY <2>1, <2>2, <2>3 DEF SchedulerStep
<1>3. ASSUME HasLine
      PROVE  held = << >> /\ Sequential = now /\ position < Len(lines) /\ spc = "reading"
  BY <1>3 DEF HasLine, CutsAlike, CutsAsFar
<1>4. CASE SkipBlankLine
  <2>1. /\ HasLine /\ NextLine.kind = "blank" /\ position' = position + 1
        /\ UNCHANGED <<sent, group, held, spc>>
    BY <1>4 DEF SkipBlankLine, ReadOn, PrepareFrame
  <2>2. Sequential' = WriteLine(Sequential, NextLine)
    BY <1>1, <1>3, <2>1, SequentialNext
  <2>3. WriteLine(Sequential, NextLine) = Sequential
    BY <2>1 DEF WriteLine
  <2>4. SentRows' = SentRows
    BY <1>2, <2>1, SentRowsAre
  <2> QED
    BY <1>1, <1>3, <2>1, <2>2, <2>3, <2>4, NoRejectYet DEF CutsAlike, CutsAsFar
<1>5. CASE CutBeforeLine
  <2>1. /\ HasLine /\ NextLine \in Row /\ WouldExceed(group, NextLine)
        /\ outbox'.rows = group.rows
        /\ group' = EmptyGroup /\ held' = <<NextLine>> /\ spc' = "sending"
        /\ position' = position + 1 /\ UNCHANGED sent
    BY <1>5 DEF CutBeforeLine, ReadOn, PrepareFrame, TakeJob
  <2>2. Sequential' = WriteLine(now, NextLine)
    BY <1>1, <1>3, <2>1, SequentialNext
  <2>3. SentRows' = SentRows
    BY <1>2, <2>1, SentRowsAre
  <2>4. WithOutbox' = FlushBlock(now) /\ WriteLine(now, NextLine) = WriteLine(FlushBlock(now), NextLine)
    BY <1>2, <2>1, <2>3, WriteRow DEF WithOutbox
  <2>5. held' # << >> /\ held'[1] = NextLine /\ NextLine.kind # "reject"
    BY <2>1 DEF Row
  <2> HIDE DEF now
  <2> QED
    BY <1>0, <1>1, <2>1, <2>2, <2>4, <2>5, NoRejectYet DEF CutsAlike, CutsOneMore
<1>6. CASE PushNextLine
  <2>1. /\ HasLine /\ NextLine \in Row /\ ~WouldExceed(group, NextLine)
        /\ Push(NextLine, nextBlock, nextRow)
        /\ position' = position + 1 /\ UNCHANGED sent
    BY <1>6 DEF PushNextLine, ReadOn, PrepareFrame
  <2>2. Sequential' = WriteLine(now, NextLine)
    BY <1>1, <1>3, <2>1, SequentialNext
  <2>3. SentRows' = SentRows
    BY <1>2, <2>1, SentRowsAre
  <2>4. /\ held' = << >> /\ spc' \in {"reading", "sending"}
        /\ WriteLine(now, NextLine) =
               IF spc' = "sending"
               THEN [done |-> Append(SentRows, outbox'.rows), group |-> EmptyGroup]
               ELSE [done |-> SentRows, group |-> group']
        /\ spc' = "sending" => group' = EmptyGroup
    BY <1>2, <2>1, PushMeans
  <2>5. NextLine.kind # "reject"
    BY <2>1 DEF Row
  <2> HIDE DEF now
  <2>6. CASE spc' = "sending"
    BY <1>0, <1>1, <2>1, <2>2, <2>3, <2>4, <2>5, <2>6, NoRejectYet
       DEF CutsAlike, CutsOneMore, WithOutbox
  <2>7. CASE spc' = "reading"
    BY <1>1, <2>1, <2>2, <2>3, <2>4, <2>5, <2>7, NoRejectYet DEF CutsAlike, CutsAsFar
  <2> QED
    BY <2>4, <2>6, <2>7
<1>7. CASE CutLastGroup
  <2>1. /\ spc = "reading" /\ position = Len(lines) /\ ~IsEmptyGroup(group)
        /\ outbox'.rows = group.rows /\ group' = EmptyGroup /\ spc' = "sending"
        /\ UNCHANGED <<position, held, sent>>
    BY <1>7 DEF CutLastGroup, AtEnd, PrepareFrame, TakeJob
  <2>2. Sequential' = Sequential /\ SentRows' = SentRows
    BY <1>1, <1>2, <2>1, SequentialNext, SentRowsAre
  <2>3. held = << >> /\ Sequential = now
    BY <2>1 DEF CutsAlike, CutsAsFar
  <2>4. Sequential.group = group /\ WithOutbox' = FlushBlock(Sequential)
    BY <2>1, <2>2, <2>3 DEF WithOutbox, FlushBlock
  <2> QED
    BY <1>0, <1>1, <2>1, <2>2, <2>3, <2>4, NoRejectYet DEF CutsAlike, CutsOneMore
<1>8. CASE FinishScheduling
  <2>1. /\ spc = "reading" /\ position = Len(lines) /\ IsEmptyGroup(group)
        /\ spc' = "ok" /\ UNCHANGED <<position, held, group, sent>>
    BY <1>8 DEF FinishScheduling, AtEnd, EndScheduler, readerVars, senderVars
  <2>2. Sequential' = Sequential /\ SentRows' = SentRows
    BY <1>1, <1>2, <2>1, SequentialNext, SentRowsAre
  <2>3. held = << >> /\ SentRows = FlushBlock(Sequential).done
    BY <2>1 DEF CutsAlike, CutsAsFar, FlushBlock
  <2> QED
    BY <1>1, <2>1, <2>2, <2>3, NoRejectYet DEF CutsAlike, CutsAsFar
<1>9. CASE RejectLine
  <2>1. /\ HasLine /\ spc' = "inputError" /\ UNCHANGED <<position, held, group, sent>>
    BY <1>9 DEF RejectLine, EndScheduler, readerVars, senderVars
  <2>2. Sequential' = Sequential /\ SentRows' = SentRows
    BY <1>1, <1>2, <2>1, SequentialNext, SentRowsAre
  <2> QED
    BY <1>1, <1>3, <2>1, <2>2, NoRejectYet DEF CutsAlike, CutsAsFar
<1>10. CASE SendJobDisconnected
  <2>1. /\ spc = "sending" /\ spc' = "poolStopped"
        /\ UNCHANGED <<position, held, group, sent, outbox>>
    BY <1>10 DEF SendJobDisconnected, SendDisconnected, EndScheduler, readerVars, senderVars
  <2>2. Sequential' = Sequential /\ SentRows' = SentRows
    BY <1>1, <1>2, <2>1, SequentialNext, SentRowsAre
  <2>3. WithOutbox' = WithOutbox
    BY <2>1, <2>2 DEF WithOutbox
  <2> QED
    BY <1>1, <2>1, <2>2, <2>3, NoRejectYet DEF CutsAlike, CutsOneMore
<1>11. CASE SendJob
  <2>1. Send /\ PushHeld /\ UNCHANGED position /\ spc = "sending"
    BY <1>11 DEF SendJob, Send
  <2>2. Sequential' = Sequential /\ SentRows' = Append(SentRows, outbox.rows)
    BY <1>1, <1>2, <2>1, SequentialNext, SentRowsAre
  <2>3. WithOutbox = [done |-> SentRows', group |-> EmptyGroup]
    BY <2>2 DEF WithOutbox
  <2>4. CutsOneMore
    BY <2>1 DEF CutsAlike
  <2>5. CASE held = << >>
    <3>1. spc' = "reading" /\ group' = EmptyGroup /\ held' = << >>
      BY <2>1, <2>4, <2>5 DEF PushHeld, CutsOneMore
    <3>2. CASE Sequential = WithOutbox
      BY <1>1, <2>1, <2>2, <2>3, <3>1, <3>2, NoRejectYet DEF CutsAlike, CutsAsFar
    <3>3. CASE position = Len(lines) /\ WithOutbox = FlushBlock(Sequential)
      <4>1. SentRows' = FlushBlock(Sequential).done /\ IsEmptyGroup(EmptyGroup)
        BY <2>3, <3>3 DEF IsEmptyGroup, EmptyGroup
      <4> QED
        BY <1>1, <2>1, <2>2, <3>1, <3>3, <4>1, NoRejectYet DEF CutsAlike, CutsAsFar
    <3> QED
      BY <2>4, <2>5, <3>2, <3>3 DEF CutsOneMore
  <2>6. CASE held # << >>
    <3>1. held[1] \in Row
      BY <2>6 DEF TypeOK
    <3>2. /\ Push(held[1], nextBlock', nextRow') /\ group = EmptyGroup
          /\ Sequential = WriteLine(WithOutbox, held[1])
      BY <2>1, <2>4, <2>6 DEF PushHeld, CutsOneMore
    <3>3. ~WouldExceed(group, held[1])
      BY <3>2 DEF WouldExceed, IsEmptyGroup, EmptyGroup
    <3> DEFINE done == SentRows'
    <3> HIDE DEF done
    <3>4. WithOutbox = [done |-> done, group |-> group]
      BY <2>3, <3>2 DEF done
    <3>5. /\ held' = << >> /\ spc' \in {"reading", "sending"}
          /\ WriteLine(WithOutbox, held[1]) =
                 IF spc' = "sending"
                 THEN [done |-> Append(done, outbox'.rows), group |-> EmptyGroup]
                 ELSE [done |-> done, group |-> group']
          /\ spc' = "sending" => group' = EmptyGroup
      BY <1>2, <3>1, <3>2, <3>3, <3>4, PushMeans
    <3>6. CASE spc' = "sending"
      BY <1>0, <1>1, <2>1, <2>2, <3>2, <3>5, <3>6, NoRejectYet
         DEF CutsAlike, CutsOneMore, WithOutbox, done
    <3>7. CASE spc' = "reading"
      BY <1>1, <2>1, <2>2, <3>2, <3>5, <3>7, NoRejectYet DEF CutsAlike, CutsAsFar, done
    <3> QED
      BY <3>5, <3>6, <3>7
  <2> QED
    BY <2>5, <2>6
<1> QED
  BY <1>4, <1>5, <1>6, <1>7, <1>8, <1>9, <1>10, <1>11 DEF SchedulerStep

(* The calling thread starts the scheduler, and leaves it alone. *)
LEMMA MainLeavesScheduler ==
    ASSUME PipelineInv, MainStep
    PROVE  /\ UNCHANGED <<lines, position, group, held, sent, outbox>>
           /\ UNCHANGED spc \/ (spc = "unspawned" /\ spc' = "reading")
<1>1. UNCHANGED <<position, group, held, lines>>
  BY DEF MainStep, readerVars
<1>2. CASE SpawnStep
  BY <1>1, <1>2 DEF SpawnStep, SpawnWorker, SpawnScheduler, SpawnFails, schedulerVars,
     senderVars, PipelineInv, Progress
<1>3. CASE EndsStep \/ JoinStep
  BY <1>1, <1>3, EndsFacts DEF JoinStep, schedulerVars, senderVars
<1>4. CASE ReceiveStep \/ WriteReady \/ WriteReadyFails
  BY <1>1, <1>4, CollectorFrameFacts DEF ReceiveStep, WriteReady, WriteReadyFails
<1> QED
  BY <1>2, <1>3, <1>4 DEF MainStep

LEMMA CutsStep ==
    ASSUME DataInv, CutsAlike, [Next]_vars
    PROVE  CutsAlike'
<1> USE DEF DataInv
<1>1. CASE SchedulerStep
  BY <1>1, CutsScheduler
<1>2. CASE ~SchedulerStep
  <2>1. /\ UNCHANGED <<lines, position, group, held, sent, outbox>>
        /\ UNCHANGED spc \/ (spc = "unspawned" /\ spc' = "reading")
    <3>1. CASE \E w \in WorkerIds : WorkerStep(w)
      BY <3>1, WorkerFrame DEF WorkerStep, readerVars
    <3>2. CASE MainStep
      BY <3>2, MainLeavesScheduler
    <3>3. CASE UNCHANGED vars
      BY <3>3 DEF vars, readerVars, pipelineVars, schedulerVars, senderVars
    <3> QED
      BY <1>2, <3>1, <3>2, <3>3 DEF Next, Returned
  <2>2. Sequential' = Sequential /\ SentRows' = SentRows
    BY <2>1 DEF Sequential, SentRows
  <2>3. WithOutbox' = WithOutbox
    BY <2>1, <2>2 DEF WithOutbox
  <2>4. /\ spc' \in {"sending", "poolStopped"} <=> spc \in {"sending", "poolStopped"}
        /\ spc' = "ok" <=> spc = "ok"
    BY <2>1
  <2>5. CutsOneMore => CutsOneMore'
    BY <2>1, <2>2, <2>3 DEF CutsOneMore
  <2>6. CutsAsFar => CutsAsFar'
    BY <2>1, <2>2, <2>4 DEF CutsAsFar
  <2> QED
    BY <2>1, <2>4, <2>5, <2>6 DEF CutsAlike
<1> QED
  BY <1>1, <1>2

(* The workers encode, the collector believes them. *)
LEMMA EncodableStep ==
    ASSUME DataInv, OnlyEncodable, [Next]_vars
    PROVE  OnlyEncodable'
<1> USE DEF DataInv
<1>0. /\ nextToWrite \in Nat /\ nextToWrite <= Len(sent) /\ sent \in Seq(Block)
      /\ wpc \in [WorkerIds -> WorkerStates] /\ results \in Seq(Result)
      /\ hand \in [WorkerIds -> Block \cup {NoBlock}]
  BY DEF PipelineInv, PipelineTypeOK, PoolTypeOK, NotAhead
<1>1. CASE SchedulerStep
  <2>1. UNCHANGED <<wpc, hand, results, pending, nextToWrite>>
    BY <1>1, SchedulerLeaves, SchedulerFrameFacts
  <2>2. \A k \in 1..nextToWrite : sent'[k] = sent[k]
    <3>1. CASE SendJob
      <4>1. sent' = Append(sent, outbox)
        BY <3>1 DEF SendJob, Send
      <4> QED
        BY <1>0, <4>1
    <3>2. CASE ~SendJob
      BY <1>1, <3>2 DEF SchedulerStep, SkipBlankLine, RejectLine, CutBeforeLine,
         PushNextLine, CutLastGroup, FinishScheduling, SendJobDisconnected, SendDisconnected,
         ReadOn, PrepareFrame, EndScheduler, senderVars
    <3> QED
      BY <3>1, <3>2
  <2> QED
    BY <2>1, <2>2 DEF OnlyEncodable
<1>2. ASSUME NEW w \in WorkerIds, WorkerStep(w)
      PROVE  OnlyEncodable'
  <2> DEFINE good == IsEncodable(hand[w].rows)
             succeeds == wpc[w] = "working" /\ good
  <2>1. PoolWorkerStep(w, succeeds)
    BY <1>2 DEF WorkerStep
  <2>2. UNCHANGED <<sent, nextToWrite, pending>>
    BY <2>1, WorkerFrame
  <2>3. CASE ProcessJob(w, succeeds)
    <3>1. /\ wpc' = [wpc EXCEPT ![w] = IF succeeds THEN "done" ELSE "refused"]
          /\ UNCHANGED <<results, hand>>
      BY <2>3 DEF ProcessJob, Goto
    <3>2. wpc'[w] = "done" => good
      BY <1>0, <3>1
    <3> HIDE DEF succeeds
    <3>3. \A v \in WorkerIds : wpc'[v] = "done" => IsEncodable(hand[v].rows)
      BY <1>0, <3>1, <3>2 DEF OnlyEncodable
    <3> QED
      BY <2>2, <3>1, <3>3 DEF OnlyEncodable
  <2>4. CASE SendResult(w)
    <3> DEFINE answer == [ok |-> wpc[w] = "done", block |-> hand[w]]
    <3>1. /\ wpc' = [wpc EXCEPT ![w] = "idle"]
          /\ hand' = [hand EXCEPT ![w] = NoBlock]
          /\ results' = Append(results, answer)
          /\ wpc[w] \in {"done", "refused"}
      BY <2>4 DEF SendResult, Goto
    <3>2. answer \in Result
      BY <3>1, AnswerType DEF PipelineInv
    <3>3. answer.ok => IsEncodable(answer.block.rows)
      BY DEF OnlyEncodable
    <3> HIDE DEF answer
    <3>4. \A i \in DOMAIN results' : results'[i].ok => IsEncodable(results'[i].block.rows)
      BY <1>0, <3>1, <3>2, <3>3 DEF OnlyEncodable
    <3>5. \A v \in WorkerIds : wpc'[v] = "done" => IsEncodable(hand'[v].rows)
      BY <1>0, <3>1 DEF OnlyEncodable
    <3> QED
      BY <2>2, <3>4, <3>5 DEF OnlyEncodable
  <2>5. CASE WorkerExchange(w) /\ ~SendResult(w)
    <3>1. UNCHANGED results
      BY <2>5 DEF WorkerExchange, LockReceiver, ReceiveJob, ReceiveDisconnected, Panic,
         SendResultDisconnected
    <3>2. \A v \in WorkerIds : wpc'[v] = "done" => wpc[v] = "done" /\ hand'[v] = hand[v]
      BY <1>0, <2>5 DEF WorkerExchange, LockReceiver, ReceiveJob, ReceiveDisconnected, Panic,
         SendResultDisconnected, Goto
    <3> QED
      BY <2>2, <3>1, <3>2 DEF OnlyEncodable
  <2> QED
    BY <2>1, <2>3, <2>4, <2>5 DEF PoolWorkerStep
<1>3. CASE MainStep
  <2>1. UNCHANGED <<sent, hand>>
        /\ \A w \in WorkerIds : wpc'[w] = "done" => wpc[w] = "done"
    <3>1. CASE SpawnStep
      BY <1>0, <1>3, <3>1, MainLeavesScheduler DEF SpawnStep, SpawnWorker, SpawnScheduler,
         SpawnFails, Goto, poolVars
    <3>2. CASE EndsStep \/ JoinStep
      BY <1>3, <3>2, MainLeavesScheduler, EndsFacts DEF JoinStep, poolVars
    <3>3. CASE ReceiveStep \/ WriteReady \/ WriteReadyFails
      BY <3>3, CollectorFrameFacts DEF ReceiveStep, WriteReady, WriteReadyFails
    <3> QED
      BY <1>3, <3>1, <3>2, <3>3 DEF MainStep
  <2>2. CASE CollectBlock
    <3>1. /\ results # << >> /\ Head(results).ok
          /\ results' = Tail(results)
          /\ pending' = Insert(pending, Head(results).block)
          /\ UNCHANGED nextToWrite
      BY <2>2 DEF CollectBlock
    <3>2. Head(results) = results[1] /\ 1 \in DOMAIN results
      BY <1>0, <3>1
    <3>3. \A b \in pending' : IsEncodable(b.rows)
      BY <3>1, <3>2 DEF Insert, OnlyEncodable
    <3>4. \A i \in DOMAIN results' : i + 1 \in DOMAIN results /\ results'[i] = results[i + 1]
      BY <1>0, <3>1
    <3> QED
      BY <2>1, <3>1, <3>3, <3>4 DEF OnlyEncodable
  <2>3. CASE WriteReady
    <3>1. PICK b \in Ready : Advance(b)
      BY <2>3 DEF WriteReady
    <3>2. /\ pending' = pending \ {b} /\ nextToWrite' = nextToWrite + 1 /\ UNCHANGED results
          /\ b \in pending /\ b = sent[nextToWrite + 1]
      BY <3>1, ReadyIsNext DEF Advance, Ready
    <3>3. IsEncodable(sent[nextToWrite + 1].rows)
      BY <3>2 DEF OnlyEncodable
    <3>4. \A k \in 1..nextToWrite' : k \in 1..nextToWrite \/ k = nextToWrite + 1
      BY <1>0, <3>2
    <3> QED
      BY <2>1, <3>2, <3>3, <3>4 DEF OnlyEncodable
  <2>4. CASE ~CollectBlock /\ ~WriteReady
    <3>1. /\ results' = results \/ results' = << >>
          /\ pending' \subseteq pending
          /\ UNCHANGED nextToWrite
      <4>1. CASE SpawnStep
        BY <4>1 DEF SpawnStep, SpawnWorker, SpawnScheduler, SpawnFails, poolVars, orderVars
      <4>2. CASE EndsStep \/ JoinStep
        BY <4>2, EndsFacts DEF JoinStep, poolVars, orderVars
      <4>3. CASE ReceiveStep
        BY <2>4, <4>3 DEF ReceiveStep, CollectError, CollectDisconnected, NothingReady,
           StopCollecting, orderVars
      <4>4. CASE WriteReadyFails
        BY <4>4 DEF WriteReadyFails, GiveUp, StopCollecting
      <4> QED
        BY <1>3, <2>4, <4>1, <4>2, <4>3, <4>4 DEF MainStep
    <3>2. \A i \in DOMAIN results' : results'[i].ok => IsEncodable(results'[i].block.rows)
      BY <3>1 DEF OnlyEncodable
    <3> QED
      BY <2>1, <3>1, <3>2 DEF OnlyEncodable
  <2> QED
    BY <2>2, <2>3, <2>4
<1>4. CASE UNCHANGED vars
  BY <1>4 DEF vars, pipelineVars, poolVars, schedulerVars, senderVars, orderVars, OnlyEncodable
<1> QED
  BY <1>1, <1>2, <1>3, <1>4 DEF Next, Returned

(* What a step does to the output: nothing, or one cell more. *)
LEMMA OutputSteps ==
    ASSUME DataInv, [Next]_vars
    PROVE  \/ UNCHANGED output
           \/ MainStep /\ \E c \in Cell : output' = Append(output, c)
<1> USE DEF DataInv
<1>1. CASE SchedulerStep \/ \E w \in WorkerIds : WorkerStep(w)
  BY <1>1, SchedulerLeaves DEF WorkerStep, writerVars
<1>2. CASE MainStep
  <2>1. CASE EndsStep
    <3>1. Header \in Cell /\ Torn \in Cell /\ Footer(metadata) \in Cell
      BY DEF Header, Torn, Footer, Cell, TypeOK
    <3>2. CASE WriteHeader
      <4>1. output = << >> /\ output' = <<Header>>
        BY <3>2 DEF WriteHeader, OutputLength
      <4>2. output' = Append(output, Header)
        BY <4>1
      <4> QED
        BY <1>2, <3>1, <4>2
    <3>3. CASE WriteFooter
      BY <1>2, <3>1, <3>3 DEF WriteFooter
    <3>4. CASE WriteHeaderFails \/ WriteFooterFails
      BY <1>2, <3>1, <3>4, TornWriteType DEF WriteHeaderFails, WriteFooterFails, TypeOK
    <3> QED
      BY <2>1, <3>2, <3>3, <3>4 DEF EndsStep
  <2>2. CASE WriteReady
    <3>1. PICK b \in Ready : output' = Append(output, Frame(b))
      BY <2>2 DEF WriteReady
    <3>2. Frame(b) \in Cell
      BY ReadyIsNext, EntryType DEF Frame, Cell
    <3> QED
      BY <1>2, <3>1, <3>2
  <2>3. CASE WriteReadyFails
    <3>1. Torn \in Cell
      BY DEF Torn, Cell
    <3> QED
      BY <1>2, <2>3, <3>1, TornWriteType DEF WriteReadyFails, TypeOK
  <2> QED
    BY <1>2, <2>1, <2>2, <2>3 DEF MainStep, writerVars
<1>3. CASE UNCHANGED vars
  BY <1>3 DEF vars, writerVars
<1> QED
  BY <1>1, <1>2, <1>3 DEF Next, Returned

LEMMA HeaderStep ==
    ASSUME DataInv, HeaderFirst, [Next]_vars
    PROVE  HeaderFirst'
<1> USE DEF DataInv
<1> SUFFICES ASSUME mpc' # "start", outcome' # "headerError"
             PROVE  output' # << >> /\ output'[1] = Header
  BY DEF HeaderFirst
<1>1. CASE mpc # "start"
  <2>1. outcome # "headerError"
    <3>1. CASE MainStep
      <4>1. mpc # "returned"
        BY <1>1, <3>1 DEF MainStep, EndsStep, WriteHeader, WriteHeaderFails, WriteFooter,
           WriteFooterFails, WriteReady, WriteReadyFails, Advance, GiveUp, SpawnStep, SpawnWorker,
           SpawnScheduler, SpawnFails, ReceiveStep, CollectBlock, CollectError,
           CollectDisconnected, NothingReady, JoinStep, JoinScheduler, JoinWorker, AllJoined,
           CollectedError, LeaveScope
      <4> QED
        BY <4>1 DEF PipelineInv, Progress
    <3>2. CASE ~MainStep
      <4>1. UNCHANGED outcome
        BY <3>2, SchedulerLeaves, SchedulerFrameFacts, WorkerFrame
           DEF Next, WorkerStep, Returned, vars, pipelineVars, mainVars
      <4> QED
        BY <4>1
    <3> QED
      BY <3>1, <3>2
  <2>2. output # << >> /\ output[1] = Header
    BY <1>1, <2>1 DEF HeaderFirst
  <2>3. output \in Seq(Cell)
    BY DEF TypeOK
  <2>4. ASSUME NEW c \in Cell, output' = Append(output, c)
        PROVE  output' # << >> /\ output'[1] = Header
    BY <2>2, <2>3, <2>4
  <2> QED
    BY <2>2, <2>4, OutputSteps
<1>2. CASE mpc = "start"
  <2>1. MainStep
    BY <1>2, SchedulerLeaves, SchedulerFrameFacts, WorkerFrame
       DEF Next, WorkerStep, Returned, vars, pipelineVars, mainVars
  <2>2. EndsStep
    BY <1>2, <2>1 DEF MainStep, WriteReady, WriteReadyFails, Advance, GiveUp, SpawnStep,
       SpawnWorker, SpawnScheduler, SpawnFails, ReceiveStep, CollectBlock, CollectError,
       CollectDisconnected, NothingReady, JoinStep, JoinScheduler, JoinWorker, AllJoined,
       CollectedError, LeaveScope
  <2>3. WriteHeader
    BY <1>2, <2>2 DEF EndsStep, WriteHeaderFails, WriteFooter, WriteFooterFails
  <2> QED
    BY <2>3 DEF WriteHeader
<1> QED
  BY <1>1, <1>2

LEMMA StreamInit == Init => StreamInv
<1> SUFFICES ASSUME Init
             PROVE  StreamInv
  OBVIOUS
<1>1. CutsAlike
  <2>1. lines \in Seq(Line) /\ position = 0 /\ sent = << >> /\ group = EmptyGroup
        /\ held = << >> /\ spc = "unspawned"
    BY InputTypes DEF Init, PipelineInit
  <2>2. Sequential = EmptyWriter
    BY <2>1, LineByLine DEF Sequential
  <2>3. SentRows = << >>
    BY <2>1 DEF SentRows
  <2> QED
    BY <2>1, <2>2, <2>3 DEF CutsAlike, CutsAsFar, EmptyWriter
<1>2. OnlyEncodable /\ HeaderFirst
  BY DEF Init, PipelineInit, PoolInit, OnlyEncodable, HeaderFirst
<1> QED
  BY <1>1, <1>2 DEF StreamInv

LEMMA StreamStep ==
    ASSUME DataInv, StreamInv, [Next]_vars
    PROVE  StreamInv'
BY CutsStep, EncodableStep, HeaderStep DEF StreamInv

-----------------------------------------------------------------------------
(* All of it. *)

LEMMA InitIInv == Init => IInv
<1> SUFFICES ASSUME Init
             PROVE  IInv
  OBVIOUS
<1>1. ThreadsInv /\ BlocksInv
  BY ThreadsInit, BlocksInit DEF Init
<1>2. RowsAreGood /\ NobodyStops
  BY DEF Init, PipelineInit, PoolInit, RowsAreGood, NobodyStops, IsEncodable, EmptyGroup
<1> QED
  BY <1>1, <1>2, InitDataInv, StreamInit DEF IInv, CleanInv

LEMMA NextIInv ==
    ASSUME IInv, [Next]_vars
    PROVE  IInv'
BY NextDataInv, EncoderThreads, CleanStep, StreamStep DEF IInv, DataInv

(* IInv is an invariant of every run of the parallel encoder, with any      *)
(* number of workers, any limits, any inputs and any of the faults.         *)
THEOREM InductiveInvariant == Spec => []IInv
BY InitIInv, NextIInv, PTL DEF Spec

(* The variables keep their types (schedule_jobs, worker_loop,              *)
(* collect_results and their caller).                                       *)
THEOREM TypeCorrect == Spec => []TypeOK
<1>1. IInv => TypeOK
  BY DEF IInv, DataInv
<1> QED
  BY <1>1, InductiveInvariant, PTL

(* schedule_jobs numbers the blocks, and counts their first rows, without a *)
(* gap.                                                                     *)
THEOREM JobNumbering == Spec => []JobsAreSequential
<1>1. IInv => JobsAreSequential
  BY DEF IInv, DataInv, PipelineInv
<1> QED
  BY <1>1, InductiveInvariant, PTL

(* collect_results writes the frames in block order, whatever order the     *)
(* workers finish in.                                                       *)
THEOREM OrderedOutput == Spec => []OutputInOrder
<1>1. IInv => OutputInOrder
  <2> SUFFICES ASSUME IInv, NEW i \in DOMAIN output, output[i].kind = "frame"
               PROVE  /\ i - 1 \in DOMAIN sent
                      /\ output[i].block = sent[i - 1]
    BY DEF OutputInOrder
  <2> USE DEF IInv, DataInv, TypeOK, PipelineTypeOK
  <2>1. i - 1 \in 1..nextToWrite
    BY DEF FramesWritten
  <2>2. output[(i - 1) + 1] = Frame(sent[i - 1])
    BY <2>1 DEF FramesWritten
  <2>3. (i - 1) + 1 = i
    BY <2>1
  <2>4. i - 1 \in DOMAIN sent
    BY <2>1 DEF PipelineInv, NotAhead
  <2> QED
    BY <2>2, <2>3, <2>4 DEF Frame
<1> QED
  BY <1>1, InductiveInvariant, PTL

(* The footer's entries are the blocks of the frames, each with the offset  *)
(* and the length a scan of the frames finds (write_index_footer).          *)
THEOREM FooterIsTrue == Spec => []FooterMatchesFrames
<1>1. IInv => FooterMatchesFrames
  <2> SUFFICES ASSUME IInv, NEW i \in DOMAIN output, output[i].kind = "footer"
               PROVE  /\ i = Len(output)
                      /\ Len(output[i].index) = Len(output) - 2
                      /\ \A k \in DOMAIN output[i].index :
                             /\ output[i].index[k] =
                                   Entry(output[k + 1].block,
                                         IF k = 1 THEN HeaderLen
                                         ELSE output[i].index[k - 1].encoded_offset
                                              + output[i].index[k - 1].compressed_size)
                             /\ output[i].index[k].block_index = k - 1
    BY DEF FooterMatchesFrames
  <2>1. /\ verdict = "ok"
        /\ i = nextToWrite + 2
        /\ i = Len(output)
        /\ output[i] = Footer(metadata)
    BY DEF IInv, DataInv, FramesWritten, OutputLength, IndexMatches
  <2>2. /\ output[i].index = metadata
        /\ DOMAIN metadata = 1..nextToWrite
        /\ Len(metadata) = nextToWrite
        /\ nextToWrite \in Nat
    BY <2>1 DEF Footer, IInv, DataInv, IndexMatches, TypeOK, PipelineTypeOK
  <2>3. ASSUME NEW k \in 1..nextToWrite
        PROVE  /\ metadata[k] = Entry(output[k + 1].block,
                                      IF k = 1 THEN HeaderLen
                                      ELSE metadata[k - 1].encoded_offset
                                           + metadata[k - 1].compressed_size)
               /\ metadata[k].block_index = k - 1
    <3>1. output[k + 1].block = sent[k]
      <4>1. output[k + 1] = Frame(sent[k])
        BY DEF IInv, DataInv, FramesWritten
      <4>2. Frame(sent[k]).block = sent[k]
        BY DEF Frame
      <4> QED
        BY <4>1, <4>2
    <3>2. k \in DOMAIN sent
      BY <2>3 DEF IInv, DataInv, PipelineInv, NotAhead, PipelineTypeOK
    <3>3. sent[k].index = k - 1
      BY <3>2 DEF IInv, DataInv, PipelineInv, JobsAreSequential
    <3> DEFINE offset == IF k = 1 THEN HeaderLen
                         ELSE metadata[k - 1].encoded_offset
                              + metadata[k - 1].compressed_size
    <3>4. metadata[k] = Entry(sent[k], offset)
      BY <2>3 DEF IInv, DataInv, IndexMatches
    <3> HIDE DEF offset
    <3>5. metadata[k].block_index = sent[k].index
      BY <3>4 DEF Entry
    <3> USE DEF offset
    <3> QED
      BY <3>1, <3>3, <3>4, <3>5
  <2>4. Len(output[i].index) = Len(output) - 2
    BY <2>1, <2>2
  <2> QED
    BY <2>1, <2>2, <2>3, <2>4
<1> QED
  BY <1>1, InductiveInvariant, PTL

LEMMA SuccessIsAll ==
    ASSUME IInv
    PROVE  SuccessIsComplete
<1> SUFFICES ASSUME outcome = "ok"
             PROVE  /\ position = Len(lines)
                    /\ Len(output) = Len(sent) + 2
                    /\ \A k \in DOMAIN sent : output[k + 1] = Frame(sent[k])
                    /\ output[Len(output)].kind = "footer"
  BY DEF SuccessIsComplete
<1> USE DEF IInv, DataInv, PipelineInv
<1>1. verdict = "ok" /\ collected = "ok" /\ spc = "ok"
  BY DEF Progress
<1>2. position = Len(lines) /\ nextToWrite = Len(sent)
  BY <1>1 DEF Progress, CountersMatch, InputRead
<1>3. Len(output) = nextToWrite + 2 /\ output[nextToWrite + 2] = Footer(metadata)
  BY <1>1 DEF OutputLength, IndexMatches
<1>4. \A k \in DOMAIN sent : output[k + 1] = Frame(sent[k])
  BY <1>2 DEF FramesWritten, PipelineTypeOK
<1> QED
  BY <1>2, <1>3, <1>4, CellKinds

(* A call that returns Ok has read the whole input and written every job    *)
(* once, in order, and the footer.                                          *)
THEOREM SuccessMeansComplete == Spec => []SuccessIsComplete
<1>1. IInv => SuccessIsComplete
  BY SuccessIsAll
<1> QED
  BY <1>1, InductiveInvariant, PTL

(* Once collect_results has met an error, the output no longer changes and  *)
(* no footer seals it.                                                      *)
THEOREM NothingAfterError == Spec => QuietAfterError
<1>1. IInv /\ [Next]_vars => [(collected \in CollectErrors) => UNCHANGED output]_vars
  <2> SUFFICES ASSUME IInv, Next, collected \in CollectErrors
               PROVE  UNCHANGED output
    OBVIOUS
  <2> USE DEF IInv, DataInv, PipelineInv
  <2>1. CASE SchedulerStep
    BY <2>1, SchedulerLeaves
  <2>2. CASE \E w \in WorkerIds : WorkerStep(w)
    BY <2>2 DEF WorkerStep, writerVars
  <2>3. CASE MainStep
    <3>1. mpc \notin {"start", "spawn", "collect", "drain"} /\ ~IsComplete
      BY DEF Progress, IsComplete
    <3>2. ~WriteReady /\ ~WriteReadyFails /\ ~EndsStep
      BY <3>1 DEF WriteReady, WriteReadyFails, Advance, GiveUp, EndsStep,
         WriteHeader, WriteHeaderFails, WriteFooter, WriteFooterFails
    <3> QED
      BY <2>3, <3>2 DEF MainStep, writerVars
  <2>4. CASE Returned
    BY <2>4 DEF Returned, vars, writerVars
  <2> QED
    BY <2>1, <2>2, <2>3, <2>4 DEF Next
<1> QED
  BY <1>1, InductiveInvariant, PTL DEF Spec, QuietAfterError

LEMMA FooterEndsAll ==
    ASSUME IInv
    PROVE  FooterAfterAllThreads
<1> SUFFICES ASSUME output # << >>, Last(output).kind = "footer"
             PROVE  /\ spc = "ok"
                    /\ \A w \in WorkerIds : wpc[w] = "exited"
                    /\ outcome \in {"none", "ok"}
  BY DEF FooterAfterAllThreads
<1> USE Constants DEF IInv, DataInv, PipelineInv, Progress
<1>1. Len(output) \in DOMAIN output /\ Last(output) = output[Len(output)]
  BY DEF TypeOK, Last
<1>2. verdict = "ok"
  BY <1>1 DEF FramesWritten
<1>3. joined = Workers
  BY <1>2 DEF ThreadsInv
<1>4. \A w \in WorkerIds : wpc[w] = "exited"
  BY <1>2, <1>3 DEF ThreadsInv, WorkerIds
<1>5. ~UnjoinedPanic
  BY <1>4 DEF UnjoinedPanic
<1> QED
  BY <1>2, <1>4, <1>5 DEF ThreadsInv

(* The footer is written only after every thread has ended, and none of     *)
(* them by panicking (join_workers before write_index_footer).              *)
THEOREM FooterComesLast == Spec => []FooterAfterAllThreads
<1>1. IInv => FooterAfterAllThreads
  BY FooterEndsAll
<1> QED
  BY <1>1, InductiveInvariant, PTL

(* A worker that panics makes the call fail with "worker panicked", or with *)
(* a panic of its own (join_workers and the end of thread::scope).          *)
THEOREM PanicsSurface == Spec => []PanicSurfaces
<1>1. IInv => PanicSurfaces
  BY PanicIsSeen DEF IInv, DataInv
<1> QED
  BY <1>1, InductiveInvariant, PTL

(* No block is lost or doubled between schedule_jobs, the channels, the     *)
(* workers and the collector's map.                                         *)
THEOREM NoBlockIsLost == Spec => []BlocksConserved
<1>1. IInv => BlocksConserved
  BY BlocksAreConserved DEF IInv, DataInv
<1> QED
  BY <1>1, InductiveInvariant, PTL

(* A call whose input can be encoded, in an environment without faults,     *)
(* succeeds whatever the scheduling: "incomplete" and "worker pool stopped" *)
(* cannot happen to it.                                                     *)
THEOREM CleanCallsSucceed == Spec => []CleanInputSucceeds
<1>1. IInv => CleanInputSucceeds
  BY DEF IInv, CleanInv, CleanInputSucceeds, IsClean, NobodyStops
<1> QED
  BY <1>1, InductiveInvariant, PTL

-----------------------------------------------------------------------------
(* What was sent, and the cut of the whole input. *)

LEMMA InputLines ==
    ASSUME DataInv, CutsAlike
    PROVE  /\ lines \in Seq(Line) /\ position \in 0..Len(lines)
           /\ Acceptable(lines, position)
           /\ position = Len(lines) => Rejects(lines) = {}
           /\ Sequential \in Writer
<1>1. lines \in Seq(Line) /\ position \in 0..Len(lines) /\ lines \in Inputs
  BY InputTypes DEF DataInv, TypeOK
<1>2. \A i \in 1..position : lines[i].kind # "reject" /\ i \in DOMAIN lines
  BY <1>1 DEF CutsAlike
<1>3. Acceptable(lines, position)
  BY <1>1, <1>2, InputsAssumption DEF Acceptable
<1>4. position = Len(lines) => Rejects(lines) = {}
  BY <1>1, <1>2 DEF Rejects
<1>5. SubSeq(lines, 1, position) \in Seq(Line)
  BY <1>1
<1> QED
  BY <1>1, <1>3, <1>4, <1>5, WriterUnfolds DEF Sequential

(* All lines read, the sequential writer has only to flush its last group.  *)
LEMMA ReadToTheEnd ==
    ASSUME DataInv, CutsAlike, position = Len(lines)
    PROVE  /\ SequentialGroups(lines) = FlushBlock(Sequential).done
           /\ CutSoFar(Sequential, RowsOf(lines))
<1>1. /\ lines \in Seq(Line) /\ Acceptable(lines, position) /\ Rejects(lines) = {}
      /\ position \in 0..Len(lines)
  BY InputLines
<1>2. SubSeq(lines, 1, position) = lines
  BY <1>1
<1>3. ReadableLines(lines) = lines
  BY <1>1, <1>2, LinesRead
<1>4. CutSoFar(WriterAfter(SubSeq(lines, 1, position)), RowsOf(SubSeq(lines, 1, position)))
  BY <1>1, CutAfter
<1> QED
  BY <1>1, <1>2, <1>3, <1>4 DEF SequentialGroups, Sequential

(* The jobs sent are the first groups of the sequential cut. *)
LEMMA SentIsPrefix ==
    ASSUME DataInv, CutsAlike
    PROVE  /\ SequentialGroups(lines) \in Seq(Seq(Line))
           /\ StartsWith(SequentialGroups(lines), SentRows)
           /\ spc = "ok" => SequentialGroups(lines) = SentRows
<1> DEFINE groups == SequentialGroups(lines)
           more == Append(SentRows, outbox.rows)
<1>1. /\ lines \in Seq(Line) /\ position \in 0..Len(lines) /\ Sequential \in Writer
      /\ Acceptable(lines, position)
  BY InputLines
<1>2. sent \in Seq(Block) /\ SentRows \in Seq(Seq(Line)) /\ Len(SentRows) \in Nat
  <2>1. sent \in Seq(Block)
    BY DEF DataInv, TypeOK, PipelineTypeOK
  <2>2. Seq(Row) \subseteq Seq(Line)
    BY DEF Row
  <2> QED
    BY <2>1, <2>2, SentRowsAre
<1>3. StartsWith(groups, Sequential.done)
  BY <1>1, GroupsGrow DEF Sequential, Acceptable
<1>4. groups \in Seq(Seq(Line)) /\ Sequential.done \in Seq(Seq(Line))
  <2>1. PICK n \in 0..Len(lines) : ReadableLines(lines) = SubSeq(lines, 1, n)
    BY <1>1, LinesRead
  <2>2. WriterAfter(SubSeq(lines, 1, n)) \in Writer
    <3>1. SubSeq(lines, 1, n) \in Seq(Line)
      BY <1>1
    <3> QED
      BY <3>1, WriterUnfolds
  <2>3. FlushBlock(WriterAfter(SubSeq(lines, 1, n))) \in Writer
    BY <2>2, FlushGrows
  <2> QED
    BY <1>1, <2>1, <2>2, <2>3 DEF SequentialGroups, Writer
<1>5. StartsWith(SentRows, SentRows)
  BY <1>2 DEF StartsWith
<1>6. CASE spc \in {"sending", "poolStopped"}
  <2>1. CutsOneMore
    BY <1>6 DEF CutsAlike
  <2>2. outbox \in Block /\ outbox.rows \in Seq(Line)
    <3>1. outbox \in Block
      BY <2>1 DEF CutsOneMore, DataInv, TypeOK, PipelineTypeOK
    <3> QED
      BY <3>1 DEF Block, Row
  <2>3. more \in Seq(Seq(Line)) /\ StartsWith(more, SentRows)
    BY <1>2, <2>2 DEF StartsWith
  <2>4. WithOutbox \in Writer /\ WithOutbox.done = more
    BY <2>3 DEF WithOutbox, Writer, EmptyGroup
  <2>5. StartsWith(groups, more)
    <3> HIDE DEF more, groups
    <3>1. CASE held # << >> /\ Sequential = WriteLine(WithOutbox, held[1])
      <4>1. held[1] \in Line
        BY <3>1 DEF DataInv, TypeOK, Row
      <4>2. StartsWith(Sequential.done, more)
        BY <2>4, <3>1, <4>1, WriteGrows
      <4> QED
        BY <1>3, <1>4, <2>3, <4>2, StartsTransitively
    <3>2. CASE Sequential = WithOutbox
      BY <1>3, <2>4, <3>2
    <3>3. CASE position = Len(lines) /\ WithOutbox = FlushBlock(Sequential)
      <4>1. groups = more
        BY <2>4, <3>3, ReadToTheEnd DEF groups
      <4> QED
        BY <2>3, <4>1 DEF StartsWith
    <3> QED
      BY <2>1, <3>1, <3>2, <3>3 DEF CutsOneMore
  <2> HIDE DEF more, groups
  <2>6. StartsWith(groups, SentRows)
    BY <1>2, <1>4, <2>3, <2>5, StartsTransitively
  <2> QED
    BY <1>4, <1>6, <2>6 DEF groups
<1>7. CASE spc \notin {"sending", "poolStopped"}
  <2>1. CutsAsFar
    BY <1>7 DEF CutsAlike
  <2>2. CASE spc # "ok" /\ Sequential = [done |-> SentRows, group |-> group]
    BY <1>3, <1>4, <2>2
  <2>3. CASE position = Len(lines) /\ SentRows = FlushBlock(Sequential).done
    <3>1. groups = SentRows
      BY <2>3, ReadToTheEnd
    <3> QED
      BY <1>4, <1>5, <3>1
  <2> QED
    BY <2>1, <2>2, <2>3 DEF CutsAsFar
<1> QED
  BY <1>6, <1>7

(* A call that succeeds has cut its input greedily, and into groups that    *)
(* can all be encoded.                                                      *)
LEMMA AllSentIsAllCut ==
    ASSUME DataInv, StreamInv, spc = "ok", nextToWrite = Len(sent)
    PROVE  /\ Rejects(lines) = {}
           /\ IsGreedyCut(SentRows, RowsOf(lines))
           /\ IsEncodable(RowsOf(lines))
<1> USE DEF StreamInv
<1>1. position = Len(lines)
  BY DEF DataInv, InputRead
<1>2. /\ Rejects(lines) = {}
      /\ SequentialGroups(lines) = FlushBlock(Sequential).done
      /\ CutSoFar(Sequential, RowsOf(lines))
  BY <1>1, InputLines, ReadToTheEnd
<1>3. SentRows = FlushBlock(Sequential).done
  BY <1>2, SentIsPrefix
<1>4. sent \in Seq(Block)
  BY DEF DataInv, TypeOK, PipelineTypeOK
<1>5. \A k \in DOMAIN SentRows : IsEncodable(SentRows[k])
  <2>1. DOMAIN SentRows = 1..nextToWrite /\ DOMAIN sent = 1..nextToWrite
    BY <1>4, SentRowsAre
  <2> QED
    BY <1>4, <2>1, SentRowsAre DEF OnlyEncodable
<1> DEFINE w == Sequential
           rows == RowsOf(lines)
<1> HIDE DEF w, rows
<1>6. CutSoFar(w, rows) /\ SentRows = FlushBlock(w).done
  BY <1>2, <1>3 DEF w, rows
<1>7. IsGreedyCut(SentRows, rows) /\ IsEncodable(rows)
  BY <1>5, <1>6, FlushedCut
<1> QED
  BY <1>2, <1>7 DEF rows

(* A call that succeeds has cut the rows of its input greedily: the blocks  *)
(* are within both limits and none could have taken one row more            *)
(* (PendingRowGroup agrees with RowGroupBuffer).                            *)
THEOREM SuccessfulCutIsGreedy == Spec => []SuccessIsGreedyCut
<1>1. IInv => SuccessIsGreedyCut
  <2> SUFFICES ASSUME IInv, StreamInv, outcome = "ok"
               PROVE  IsGreedyCut(SentRows, RowsOf(lines))
    BY DEF SuccessIsGreedyCut, SentRows, IInv
  <2>1. spc = "ok" /\ nextToWrite = Len(sent)
    BY DEF IInv, DataInv, PipelineInv, Progress, CountersMatch
  <2> QED
    BY <2>1, AllSentIsAllCut DEF IInv
<1> QED
  BY <1>1, InductiveInvariant, PTL

-----------------------------------------------------------------------------
(* The sequential writer is the one BlockStream means. *)

LEMMA SameWriter ==
    ASSUME NEW ls
    PROVE  /\ Stream!SequentialGroups(ls) = SequentialGroups(ls)
           /\ Stream!RowsOf(ls) = RowsOf(ls)
           /\ Stream!Rejects(ls) = Rejects(ls)
<1>1. ASSUME NEW s
      PROVE  Stream!WriterAfter(s) = WriterAfter(s)
  BY Zenon
     DEF Stream!WriterAfter, WriterAfter, Stream!FoldLeft, FoldLeft,
         Stream!MapThenFoldSet, MapThenFoldSet, Stream!Max, Max,
         Stream!WriteLine, WriteLine, Stream!EmptyWriter, EmptyWriter,
         Stream!WouldExceed, WouldExceed, Stream!ReachedLimit, ReachedLimit,
         Stream!PushLine, PushLine, Stream!FlushBlock, FlushBlock,
         Stream!IsEmptyGroup, IsEmptyGroup, Stream!EmptyGroup, EmptyGroup
<1>2. Stream!Rejects(ls) = Rejects(ls)
  BY Zenon DEF Stream!Rejects, Rejects
<1>3. Stream!ReadableLines(ls) = ReadableLines(ls)
  BY <1>2, Zenon DEF Stream!ReadableLines, ReadableLines
<1>4. Stream!SequentialGroups(ls) = SequentialGroups(ls)
  BY <1>1, <1>2, <1>3, Zenon
     DEF Stream!SequentialGroups, SequentialGroups, Stream!FlushBlock, FlushBlock,
         Stream!IsEmptyGroup, IsEmptyGroup, Stream!EmptyGroup, EmptyGroup
<1>5. Stream!RowsOf(ls) = RowsOf(ls)
  BY Zenon
     DEF Stream!RowsOf, RowsOf, Stream!FoldLeft, FoldLeft, Stream!MapThenFoldSet,
         MapThenFoldSet, Stream!Max, Max, Stream!KeepRow, KeepRow
<1> QED
  BY <1>2, <1>4, <1>5

LEMMA SameFirstRow ==
    ASSUME NEW groups, NEW k
    PROVE  Stream!FirstRow(groups, k) = Len(FlattenSeq(SubSeq(groups, 1, k - 1)))
BY Zenon DEF Stream!FirstRow, Stream!FlattenSeq, FlattenSeq

LEMMA SameIndex ==
    ASSUME NEW frames
    PROVE  Stream!Index(frames) = ScanAll(ReaderStart, frames).entries
BY Zenon
   DEF Stream!Index, ScanAll, Stream!FoldLeft, FoldLeft, Stream!MapThenFoldSet,
       MapThenFoldSet, Stream!Max, Max, Stream!TakeBlock, TakeBlock, Stream!Entry, Entry,
       Stream!FrameLen, FrameLen, Stream!ReaderStart, ReaderStart,
       Stream!HeaderLen, HeaderLen

LEMMA SameCells ==
    /\ Stream!Header = Header /\ Stream!Torn = Torn
    /\ \A b : Stream!Frame(b) = Frame(b)
    /\ \A i : Stream!Footer(i) = Footer(i)
    /\ \A rows : Stream!IsEncodable(rows) = IsEncodable(rows)
BY Zenon DEF Stream!Header, Header, Stream!Torn, Torn, Stream!Frame, Frame,
   Stream!Footer, Footer, Stream!IsEncodable, IsEncodable

-----------------------------------------------------------------------------
(* The stream the sequential writer would produce, cell by cell. *)

(* The groups before the first one that cannot be encoded. *)
LEMMA WritableCount ==
    ASSUME NEW groups, Len(groups) \in Nat
    PROVE  \E g \in 0..Len(groups) :
               /\ Cardinality({n \in 0..Len(groups) :
                                   \A i \in 1..n : IsEncodable(groups[i])}) - 1 = g
               /\ \A n \in 0..Len(groups) :
                      (\A i \in 1..n : IsEncodable(groups[i])) => n <= g
<1> DEFINE N == Len(groups)
           Good(n) == \A i \in 1..n : IsEncodable(groups[i])
           good == {n \in 0..N : Good(n)}
           more == {n \in 0..N : ~Good(n)}
<1>1. ASSUME NEW g \in 0..N, Good(g), \A n \in 0..N : Good(n) => n <= g
      PROVE  good = 0..g
  <2>1. \A n \in 0..g : n \in 0..N /\ Good(n)
    BY <1>1
  <2>2. \A n \in good : n \in 0..g
    BY <1>1
  <2> QED
    BY <2>1, <2>2
<1>2. ASSUME NEW g \in 0..N, good = 0..g
      PROVE  Cardinality(good) - 1 = g
  <2>1. Cardinality(0..g) = g + 1
    BY FS_Interval
  <2> HIDE DEF good
  <2> QED
    BY <1>2, <2>1
<1>3. CASE more = {}
  <2>1. N \in 0..N /\ Good(N) /\ \A n \in 0..N : Good(n) => n <= N
    BY <1>3
  <2> HIDE DEF Good
  <2>2. good = 0..N
    BY <1>1, <2>1
  <2>3. Cardinality(good) - 1 = N
    BY <1>2, <2>1, <2>2
  <2> QED
    BY <2>1, <2>3 DEF Good
<1>4. CASE more # {}
  <2>1. more \subseteq Nat
    OBVIOUS
  <2>2. PICK m \in more : \A n \in more : m <= n
    <3> HIDE DEF more
    <3> QED
      BY <1>4, <2>1, LeastNatural
  <2> DEFINE g == m - 1
  <2>3. m \in 1..N /\ g \in 0..N /\ ~Good(m)
    OBVIOUS
  <2>4. Good(g)
    <3> SUFFICES ASSUME ~Good(g) PROVE FALSE
      OBVIOUS
    <3>1. g \in more
      BY <2>3
    <3> HIDE DEF Good, more
    <3> QED
      BY <2>2, <2>3, <3>1
  <2>5. ASSUME NEW n \in 0..N, Good(n)
        PROVE  n <= g
    <3> SUFFICES ASSUME n > g PROVE FALSE
      OBVIOUS
    <3>1. m <= n
      BY <2>3
    <3>2. Good(m)
      BY <2>3, <2>5, <3>1
    <3> QED
      BY <2>3, <3>2
  <2> HIDE DEF Good, g
  <2>6. good = 0..g
    BY <1>1, <2>3, <2>4, <2>5
  <2>7. Cardinality(good) - 1 = g
    BY <1>2, <2>3, <2>6
  <2> QED
    BY <2>3, <2>5, <2>7 DEF Good
<1> QED
  BY <1>3, <1>4

LEMMA ThreeParts ==
    ASSUME NEW S, NEW a \in S, NEW b \in Seq(S), NEW c \in Seq(S)
    PROVE  LET v == (<<a>> \o b) \o c IN
           /\ Len(v) = Len(b) + 1 + Len(c)
           /\ v[1] = a
           /\ \A k \in 1..Len(b) : v[k + 1] = b[k]
           /\ Len(c) = 1 => v[Len(b) + 2] = c[1]
<1> DEFINE front == <<a>> \o b
           w == front \o c
<1>1. front \in Seq(S) /\ Len(front) = Len(b) + 1 /\ front[1] = a
  OBVIOUS
<1>2. ASSUME NEW k \in 1..Len(b)
      PROVE  front[k + 1] = b[k]
  OBVIOUS
<1> HIDE DEF front
<1>4. Len(w) = Len(b) + 1 + Len(c)
  BY <1>1
<1>5. ASSUME NEW k \in 1..Len(b) + 1
      PROVE  w[k] = front[k]
  BY <1>1
<1>6. Len(c) = 1 => w[Len(b) + 2] = c[1]
  <2>1. ASSUME NEW k \in 1..Len(c)
        PROVE  w[Len(front) + k] = c[k]
    BY <1>1
  <2>2. Len(c) = 1 => 1 \in 1..Len(c)
    OBVIOUS
  <2>3. Len(front) + 1 = Len(b) + 2
    BY <1>1
  <2> HIDE DEF w
  <2>4. Len(c) = 1 => w[Len(front) + 1] = c[1]
    BY <2>1, <2>2
  <2> QED
    BY <2>3, <2>4
<1> HIDE DEF w
<1>7. w[1] = a
  <2>1. 1 \in 1..Len(b) + 1
    <3>1. Len(b) \in Nat
      OBVIOUS
    <3> QED
      BY <3>1
  <2>2. w[1] = front[1]
    BY <1>5, <2>1
  <2> QED
    BY <1>1, <2>2
<1>8. ASSUME NEW k \in 1..Len(b)
      PROVE  w[k + 1] = b[k]
  <2>1. k + 1 \in 1..Len(b) + 1
    OBVIOUS
  <2>2. w[k + 1] = front[k + 1]
    BY <1>5, <2>1
  <2> QED
    BY <1>2, <2>2
<1>9. w = (<<a>> \o b) \o c
  BY DEF w, front
<1>10. \A k \in 1..Len(b) : w[k + 1] = b[k]
  BY <1>8
<1> QED
  BY <1>4, <1>6, <1>7, <1>9, <1>10, Zenon

LEMMA HeadMiddleTail ==
    ASSUME NEW S, NEW a \in S, NEW b \in Seq(S), NEW c \in Seq(S),
           NEW v, v = (<<a>> \o b) \o c
    PROVE  /\ Len(v) = Len(b) + 1 + Len(c)
           /\ v[1] = a
           /\ \A k \in 1..Len(b) : v[k + 1] = b[k]
           /\ Len(c) = 1 => v[Len(b) + 2] = c[1]
<1> DEFINE u == (<<a>> \o b) \o c
<1>1. u = (<<a>> \o b) \o c
  OBVIOUS
<1>2. /\ Len(u) = Len(b) + 1 + Len(c)
      /\ u[1] = a
      /\ \A k \in 1..Len(b) : u[k + 1] = b[k]
      /\ Len(c) = 1 => u[Len(b) + 2] = c[1]
  BY ThreeParts
<1>3. u = v
  OBVIOUS
<1> HIDE DEF u
<1> QED
  BY <1>2, <1>3, Zenon

(* The cells of the whole stream. *)
LEMMA WholeStreamIs ==
    ASSUME NEW ls, Len(SequentialGroups(ls)) \in Nat
    PROVE  \E g \in 0..Len(SequentialGroups(ls)) :
               /\ \A n \in 0..Len(SequentialGroups(ls)) :
                      (\A i \in 1..n : IsEncodable(SequentialGroups(ls)[i])) => n <= g
               /\ Len(Stream!WholeStream(ls)) \in Nat
               /\ Stream!WholeStream(ls)[1] = Header
               /\ Len(Stream!WholeStream(ls)) >= g + 1
               /\ \A k \in 1..g :
                      Stream!WholeStream(ls)[k + 1] =
                          Frame(Stream!BlockAt(SequentialGroups(ls), k))
               /\ Stream!IsEncodableInput(ls) =>
                      /\ Len(Stream!WholeStream(ls)) = g + 2
                      /\ Stream!WholeStream(ls)[g + 2] =
                             Footer(Stream!Index([k \in 1..g |->
                                 Frame(Stream!BlockAt(SequentialGroups(ls), k))]))
<1> DEFINE groups == SequentialGroups(ls)
           good == {n \in 0..Len(groups) : \A i \in 1..n : IsEncodable(groups[i])}
           B(k) == Frame(Stream!BlockAt(groups, k))
           W == Stream!WholeStream(ls)
<1>1. PICK g \in 0..Len(groups) :
          /\ Cardinality(good) - 1 = g
          /\ \A n \in 0..Len(groups) : (\A i \in 1..n : IsEncodable(groups[i])) => n <= g
  <2> HIDE DEF groups
  <2>1. Len(groups) \in Nat
    BY DEF groups
  <2> QED
    BY <2>1, WritableCount
<1> DEFINE frames == [k \in 1..g |-> B(k)]
           seal == IF Stream!IsEncodableInput(ls) THEN <<Footer(Stream!Index(frames))>>
                   ELSE << >>
<1>2. Stream!WritableFrames(ls) = [k \in 1..Cardinality(good) - 1 |-> B(k)]
  <2> DEFINE F(gs) == [k \in 1..Cardinality({n \in 0..Len(gs) :
                                \A i \in 1..n : IsEncodable(gs[i])}) - 1 |->
                          Frame(Stream!BlockAt(gs, k))]
  <2>1. Stream!WritableFrames(ls) = F(Stream!SequentialGroups(ls))
    BY Zenon DEF Stream!WritableFrames, Stream!IsEncodable, IsEncodable,
       Stream!Frame, Frame, Stream!Cardinality, Cardinality
  <2>2. F(groups) = [k \in 1..Cardinality(good) - 1 |-> B(k)]
    OBVIOUS
  <2>3. Stream!SequentialGroups(ls) = groups
    BY SameWriter
  <2> HIDE DEF F, groups, good, B
  <2> QED
    BY <2>1, <2>2, <2>3
<1>3. Stream!WritableFrames(ls) = frames
  <2> HIDE DEF good, B
  <2> QED
    BY <1>1, <1>2
<1>4. W = (<<Header>> \o frames) \o seal
  BY <1>3, SameCells, Zenon DEF Stream!WholeStream
<1> DEFINE Cells == {Header} \cup {B(k) : k \in 1..g} \cup {Footer(Stream!Index(frames))}
<1>5. g \in Nat
  BY <1>1
<1>6. Header \in Cells
  OBVIOUS
<1>7. frames \in Seq(Cells) /\ Len(frames) = g /\ \A k \in 1..g : frames[k] = B(k)
  <2>1. \A k \in 1..g : B(k) \in Cells
    OBVIOUS
  <2> HIDE DEF B, Cells
  <2> QED
    BY <1>5, <2>1
<1> DEFINE footer == Footer(Stream!Index(frames))
<1>8. /\ seal \in Seq(Cells)
      /\ Stream!IsEncodableInput(ls) => Len(seal) = 1 /\ seal[1] = footer
  <2>1. footer \in Cells
    OBVIOUS
  <2>2. seal = IF Stream!IsEncodableInput(ls) THEN <<footer>> ELSE << >>
    OBVIOUS
  <2> HIDE DEF Cells, footer, seal
  <2> QED
    BY <2>1, <2>2
<1> HIDE DEF groups, good, frames, seal, B, Cells, W, footer
<1>9. /\ Len(W) = Len(frames) + 1 + Len(seal)
      /\ W[1] = Header
      /\ \A k \in 1..Len(frames) : W[k + 1] = frames[k]
      /\ Len(seal) = 1 => W[Len(frames) + 2] = seal[1]
  <2> DEFINE head == Header
  <2>1. /\ head \in Cells /\ frames \in Seq(Cells) /\ seal \in Seq(Cells)
        /\ W = (<<head>> \o frames) \o seal
    BY <1>4, <1>6, <1>7, <1>8, Zenon
  <2> HIDE DEF head
  <2>2. /\ Len(W) = Len(frames) + 1 + Len(seal)
        /\ W[1] = head
        /\ \A k \in 1..Len(frames) : W[k + 1] = frames[k]
        /\ Len(seal) = 1 => W[Len(frames) + 2] = seal[1]
    BY <2>1, HeadMiddleTail
  <2> QED
    BY <2>2, Zenon DEF head
<1>10. Len(seal) \in Nat /\ Len(W) = g + 1 + Len(seal)
  BY <1>7, <1>8, <1>9
<1>11. Len(W) \in Nat /\ Len(W) >= g + 1
  BY <1>5, <1>10
<1>12. Stream!IsEncodableInput(ls) => Len(W) = g + 2
  <2>1. ASSUME NEW n, NEW m, n = 1, m = g + 1 + n
        PROVE  m = g + 2
    BY <1>5, <2>1
  <2>2. Stream!IsEncodableInput(ls) => Len(seal) = 1
    BY <1>8, Zenon
  <2> QED
    BY <1>10, <2>1, <2>2, Zenon
<1>13. Stream!IsEncodableInput(ls) => W[g + 2] = footer
  BY <1>7, <1>8, <1>9, Zenon
<1>14. \A k \in 1..g : W[k + 1] = B(k)
  BY <1>7, <1>9
<1>15. footer = Footer(Stream!Index([k \in 1..g |-> B(k)]))
  BY Zenon DEF footer, frames
<1> DEFINE Holds(h) ==
               /\ \A n \in 0..Len(groups) : (\A i \in 1..n : IsEncodable(groups[i])) => n <= h
               /\ Len(W) \in Nat
               /\ W[1] = Header
               /\ Len(W) >= h + 1
               /\ \A k \in 1..h : W[k + 1] = B(k)
               /\ Stream!IsEncodableInput(ls) =>
                      /\ Len(W) = h + 2
                      /\ W[h + 2] = Footer(Stream!Index([k \in 1..h |-> B(k)]))
<1>16. Holds(g)
  BY <1>1, <1>9, <1>11, <1>12, <1>13, <1>14, <1>15, Zenon
<1> HIDE DEF Holds
<1>17. \E h \in 0..Len(groups) : Holds(h)
  BY <1>1, <1>16
<1> QED
  BY <1>17, Zenon DEF Holds, groups, B, W

(* The first row of a job is the number of rows in the jobs before it. *)
LEMMA FirstRows ==
    ASSUME DataInv, NEW k \in DOMAIN sent
    PROVE  sent[k].first = Len(FlattenSeq(SubSeq(SentRows, 1, k - 1)))
<1> DEFINE n == Len(sent)
           rows == SentRows
           Before(j) == FlattenSeq(SubSeq(rows, 1, j))
           counted == {j \in 0..n - 1 : sent[j + 1].first = Len(Before(j))}
<1>1. sent \in Seq(Block) /\ n \in Nat /\ DOMAIN sent = 1..n /\ k \in 1..n
  BY DEF DataInv, TypeOK, PipelineTypeOK
<1>2. /\ rows \in Seq(Seq(Row)) /\ Len(rows) = n
      /\ \A j \in 1..n : rows[j] = sent[j].rows
  BY <1>1, SentRowsAre
<1>3. \A j \in 1..n : sent[j].first = IF j = 1 THEN 0
                                      ELSE sent[j - 1].first + Len(sent[j - 1].rows)
  BY <1>1 DEF DataInv, PipelineInv, JobsAreSequential
<1> HIDE DEF n, rows
<1>4. 0 \in counted
  <2>1. SubSeq(rows, 1, 0) = << >>
    BY <1>2
  <2>2. Before(0) = << >>
    BY <2>1, FlattenUnfolds
  <2>3. Len(Before(0)) = 0
    BY <2>2
  <2>4. sent[1].first = 0 /\ 0 \in 0..n - 1 /\ 0 + 1 = 1
    BY <1>1, <1>3
  <2> HIDE DEF Before
  <2> QED
    BY <2>3, <2>4
<1>5. ASSUME NEW j \in 0..(n - 1) - 1, j \in counted
      PROVE  j + 1 \in counted
  <2> DEFINE i == j + 1
             front == SubSeq(rows, 1, j)
             next == rows[i]
  <2>1. i \in 1..n /\ i \in 0..n - 1 /\ i + 1 \in 1..n /\ i + 1 # 1 /\ (i + 1) - 1 = i
        /\ j \in 0..Len(rows) - 1
    BY <1>1, <1>2
  <2>2. sent[i].first = Len(Before(j))
    BY <1>5
  <2>3. SubSeq(rows, 1, i) = Append(front, next)
    BY <1>2, <2>1
  <2>4. front \in Seq(Seq(Row)) /\ next \in Seq(Row) /\ next = sent[i].rows
    BY <1>2, <2>1
  <2> HIDE DEF front, next
  <2>5. Before(i) = FlattenSeq(front) \o next /\ FlattenSeq(front) \in Seq(Row)
    BY <2>3, <2>4, FlattenUnfolds
  <2>6. Len(Before(i)) = Len(FlattenSeq(front)) + Len(next)
    <3> DEFINE flat == FlattenSeq(front)
    <3>1. Before(i) = flat \o next /\ flat \in Seq(Row)
      BY <2>5
    <3> HIDE DEF flat, Before, i
    <3>2. Len(Before(i)) = Len(flat) + Len(next)
      BY <2>4, <3>1
    <3> QED
      BY <3>2 DEF flat
  <2>7. sent[i + 1].first = sent[i].first + Len(sent[i].rows)
    BY <1>3, <2>1
  <2>8. Before(j) = FlattenSeq(front)
    BY DEF front
  <2> HIDE DEF Before, i
  <2>9. sent[i + 1].first = Len(Before(i))
    BY <2>2, <2>4, <2>6, <2>7, <2>8
  <2>10. i \in counted
    BY <2>1, <2>9
  <2> QED
    BY <2>10 DEF i
<1>6. k - 1 \in counted
  <2> HIDE DEF counted
  <2>1. n - 1 \in Nat /\ k - 1 \in 0..n - 1
    BY <1>1
  <2>2. 0..n - 1 \subseteq counted
    BY <1>4, <1>5, <2>1, Induction
  <2> QED
    BY <2>1, <2>2
<1>7. (k - 1) + 1 = k
  BY <1>1
<1> HIDE DEF Before
<1> QED
  BY <1>6, <1>7 DEF Before, rows

(* The jobs sent are the blocks the sequential writer would write. *)
LEMMA SameBlocks ==
    ASSUME DataInv, CutsAlike, NEW k \in DOMAIN sent
    PROVE  Stream!BlockAt(SequentialGroups(lines), k) = sent[k]
<1> DEFINE groups == SequentialGroups(lines)
           rows == SentRows
<1>1. sent \in Seq(Block) /\ Len(sent) \in Nat /\ DOMAIN sent = 1..Len(sent)
  BY DEF DataInv, TypeOK, PipelineTypeOK
<1>2. /\ rows \in Seq(Seq(Row)) /\ Len(rows) = Len(sent)
      /\ rows[k] = sent[k].rows
  BY <1>1, SentRowsAre
<1>3. groups \in Seq(Seq(Line)) /\ StartsWith(groups, rows)
  BY SentIsPrefix
<1>4. sent[k].first = Len(FlattenSeq(SubSeq(rows, 1, k - 1)))
  BY FirstRows
<1>5. sent[k].index = k - 1 /\ sent[k] \in Block
  BY <1>1 DEF DataInv, PipelineInv, JobsAreSequential
<1> HIDE DEF groups, rows
<1>6. groups[k] = sent[k].rows
  BY <1>1, <1>2, <1>3 DEF StartsWith
<1>7. SubSeq(groups, 1, k - 1) = SubSeq(rows, 1, k - 1)
  <2> DEFINE m == k - 1
             x == SubSeq(groups, 1, m)
             y == SubSeq(rows, 1, m)
  <2>1. m \in 0..Len(rows) /\ m \in 0..Len(groups)
    BY <1>1, <1>2, <1>3 DEF StartsWith
  <2> HIDE DEF m
  <2>2. x = [i \in 1..m |-> groups[i]]
    BY <1>3, <2>1
  <2>3. y = [i \in 1..m |-> rows[i]]
    BY <1>2, <2>1
  <2>4. \A i \in 1..m : groups[i] = rows[i]
    BY <1>2, <1>3, <2>1 DEF StartsWith
  <2> HIDE DEF x, y
  <2>5. x = y
    BY <2>2, <2>3, <2>4
  <2> QED
    BY <2>5 DEF x, y, m
<1>8. Stream!FirstRow(groups, k) = sent[k].first
  BY <1>4, <1>7, SameFirstRow
<1>9. Stream!BlockAt(groups, k) = [index |-> sent[k].index, first |-> sent[k].first,
                                   rows |-> sent[k].rows]
  BY <1>5, <1>6, <1>8 DEF Stream!BlockAt
<1> QED
  BY <1>5, <1>9 DEF Block, groups

(* What is written is what BlockStream has the sequential writer write. *)
Whole == Stream!WholeStream(lines)

StreamIsWritten ==
    /\ Len(Whole) \in Nat /\ Len(Whole) >= nextToWrite + 1
    /\ Whole[1] = Header
    /\ \A k \in 1..nextToWrite : Whole[k + 1] = Frame(sent[k])
    /\ verdict = "ok" => /\ Len(Whole) = nextToWrite + 2
                         /\ Whole[nextToWrite + 2] = Footer(metadata)

LEMMA WrittenIsStream ==
    ASSUME DataInv, StreamInv
    PROVE  StreamIsWritten
<1> USE DEF StreamInv
<1> DEFINE groups == SequentialGroups(lines)
           BlockOf(k) == Stream!BlockAt(groups, k)
<1>1. /\ sent \in Seq(Block) /\ metadata \in Seq(EntrySet)
      /\ Len(sent) \in Nat /\ nextToWrite \in 0..Len(sent)
      /\ DOMAIN sent = 1..Len(sent)
  BY DEF DataInv, TypeOK, PipelineInv, PipelineTypeOK, NotAhead
<1>2. /\ groups \in Seq(Seq(Line)) /\ StartsWith(groups, SentRows)
      /\ spc = "ok" => groups = SentRows
  BY SentIsPrefix
<1>3. /\ Len(SentRows) = Len(sent)
      /\ \A k \in DOMAIN sent : SentRows[k] = sent[k].rows
  BY <1>1, SentRowsAre
<1>4. \A k \in DOMAIN sent : BlockOf(k) = sent[k]
  BY SameBlocks
<1>5. Len(groups) \in Nat /\ nextToWrite <= Len(groups)
  <2> HIDE DEF groups
  <2>1. Len(groups) \in Nat
    BY <1>2
  <2> QED
    BY <1>1, <1>2, <1>3, <2>1 DEF StartsWith
<1>6. PICK g \in 0..Len(groups) :
          /\ \A n \in 0..Len(groups) : (\A i \in 1..n : IsEncodable(groups[i])) => n <= g
          /\ Len(Whole) \in Nat
          /\ Whole[1] = Header
          /\ Len(Whole) >= g + 1
          /\ \A k \in 1..g : Whole[k + 1] = Frame(BlockOf(k))
          /\ Stream!IsEncodableInput(lines) =>
                 /\ Len(Whole) = g + 2
                 /\ Whole[g + 2] = Footer(Stream!Index([k \in 1..g |-> Frame(BlockOf(k))]))
  <2>1. Len(SequentialGroups(lines)) \in Nat
    BY <1>5
  <2> QED
    BY <2>1, WholeStreamIs, Zenon DEF Whole, groups
<1> HIDE DEF groups, BlockOf
<1>7. nextToWrite <= g
  <2>1. ASSUME NEW i \in 1..nextToWrite
        PROVE  IsEncodable(groups[i])
    <3>1. i \in DOMAIN sent /\ i \in 1..Len(SentRows)
      BY <1>1, <1>3
    <3>2. groups[i] = sent[i].rows
      BY <1>2, <1>3, <3>1 DEF StartsWith
    <3> QED
      BY <3>2 DEF OnlyEncodable
  <2>2. nextToWrite \in 0..Len(groups)
    BY <1>1, <1>5
  <2> QED
    BY <1>6, <2>1, <2>2
<1>8. \A k \in 1..nextToWrite : Whole[k + 1] = Frame(sent[k])
  <2>1. \A k \in 1..nextToWrite : k \in 1..g /\ k \in DOMAIN sent
    BY <1>1, <1>6, <1>7
  <2> QED
    BY <1>4, <1>6, <2>1
<1>9. Len(Whole) \in Nat /\ Len(Whole) >= nextToWrite + 1
  BY <1>1, <1>6, <1>7
<1>10. ASSUME verdict = "ok"
       PROVE  Len(Whole) = nextToWrite + 2 /\ Whole[nextToWrite + 2] = Footer(metadata)
  <2>1. spc = "ok" /\ nextToWrite = Len(sent)
    BY <1>10 DEF DataInv, PipelineInv, Progress, CountersMatch
  <2>2. Rejects(lines) = {} /\ IsEncodable(RowsOf(lines))
    BY <2>1, AllSentIsAllCut
  <2>3. Stream!IsEncodableInput(lines)
    BY <2>2, SameWriter, SameCells, Zenon DEF Stream!IsEncodableInput
  <2>4. Len(groups) = nextToWrite /\ g = nextToWrite
    <3>1. Len(groups) = nextToWrite
      BY <1>2, <1>3, <2>1
    <3> QED
      BY <1>1, <1>6, <1>7, <3>1
  <2> DEFINE frames == [k \in 1..g |-> Frame(BlockOf(k))]
  <2>5. DOMAIN frames = 1..Len(sent) /\ \A k \in 1..Len(sent) : frames[k] = Frame(sent[k])
    BY <1>1, <1>4, <2>1, <2>4
  <2>6. /\ Len(metadata) = Len(sent)
        /\ \A k \in 1..Len(sent) :
               metadata[k] = Entry(sent[k], IF k = 1 THEN HeaderLen
                                            ELSE metadata[k - 1].encoded_offset
                                                 + metadata[k - 1].compressed_size)
    BY <2>1 DEF DataInv, IndexMatches
  <2>7. Whole[g + 2] = Footer(Stream!Index(frames)) /\ Len(Whole) = g + 2
    BY <1>6, <2>3, Zenon
  <2> HIDE DEF frames
  <2>8. ScanAll(ReaderStart, frames).entries = metadata
    BY <1>1, <2>5, <2>6, ScanFinds
  <2>9. Stream!Index(frames) = metadata
    BY <2>8, SameIndex
  <2> QED
    BY <2>4, <2>7, <2>9
<1> QED
  BY <1>6, <1>8, <1>9, <1>10, Zenon DEF StreamIsWritten

-----------------------------------------------------------------------------
(* The last cell written. *)

EndsIn(cell) == output # << >> /\ output[Len(output)] = cell

WholeWhenSealed ==
    /\ Stream!IsWhole => outcome \in {"none", "ok"}
    /\ outcome = "ok" => Stream!IsWhole

LEMMA SealMeans ==
    ASSUME IInv
    PROVE  WholeWhenSealed
<1>1. Stream!IsWhole <=> output # << >> /\ output[Len(output)].kind = "footer"
  BY Zenon DEF Stream!IsWhole, Stream!Last
<1>2. FooterAfterAllThreads
  BY FooterEndsAll
<1>3. SuccessIsComplete
  BY SuccessIsAll
<1>4. output[Len(output)].kind = "footer" /\ output # << >> => outcome \in {"none", "ok"}
  BY <1>2 DEF FooterAfterAllThreads, Last
<1>5. outcome = "ok" => output # << >> /\ output[Len(output)].kind = "footer"
  <2> SUFFICES ASSUME outcome = "ok"
               PROVE  output # << >> /\ output[Len(output)].kind = "footer"
    OBVIOUS
  <2>1. Len(output) = Len(sent) + 2 /\ output[Len(output)].kind = "footer"
    BY <1>3 DEF SuccessIsComplete
  <2>2. sent \in Seq(Block) /\ output \in Seq(Cell)
    BY DEF IInv, DataInv, TypeOK, PipelineTypeOK
  <2>3. Len(sent) \in Nat
    BY <2>2
  <2>4. Len(output) # 0
    BY <2>1, <2>3
  <2>5. output # << >>
    BY <2>4
  <2> QED
    BY <2>1, <2>5
<1> QED
  BY <1>1, <1>4, <1>5 DEF WholeWhenSealed

StreamSoFar == StreamIsWritten /\ WholeWhenSealed

LEMMA StreamNow == IInv => StreamSoFar
BY WrittenIsStream, SealMeans DEF IInv, StreamSoFar

LEMMA StreamAfter == IInv' => StreamSoFar'
BY StreamNow, PTL

(* While nothing has failed, the last cell is the header or a frame. *)
LEMMA StillOpen ==
    ASSUME DataInv, HeaderFirst, verdict = "none", outcome = "none",
           mpc = "start" \/ collected \in {"none", "ok"}
    PROVE  /\ ~Stream!IsTorn /\ ~Stream!IsWhole
           /\ mpc # "start" => Len(output) = nextToWrite + 1
<1>1. output \in Seq(Cell) /\ nextToWrite \in Nat
  BY DEF DataInv, TypeOK, PipelineTypeOK
<1>2. CASE mpc = "start"
  <2>1. output = << >>
    BY <1>2 DEF DataInv, OutputLength
  <2> QED
    BY <1>2, <2>1, Zenon DEF Stream!IsTorn, Stream!IsWhole
<1>3. CASE mpc # "start"
  <2>1. Len(output) = nextToWrite + 1
    BY <1>3 DEF DataInv, OutputLength
  <2>2. output[Len(output)].kind \in {"header", "frame"}
    <3>1. CASE nextToWrite = 0
      <4>1. output[1] = Header
        BY <1>3 DEF HeaderFirst
      <4> QED
        BY <2>1, <3>1, <4>1, CellKinds
    <3>2. CASE nextToWrite # 0
      <4>1. nextToWrite \in 1..nextToWrite
        BY <1>1, <3>2
      <4>2. output[nextToWrite + 1] = Frame(sent[nextToWrite])
        BY <4>1 DEF DataInv, FramesWritten
      <4> QED
        BY <2>1, <4>2, CellKinds
    <3> QED
      BY <3>1, <3>2
  <2>3. output[Len(output)] # Torn /\ output[Len(output)].kind # "footer"
    BY <2>2, CellKinds
  <2>4. ~Stream!IsTorn /\ ~Stream!IsWhole
    BY <2>3, SameCells, Zenon DEF Stream!IsTorn, Stream!IsWhole, Stream!Last
  <2> QED
    BY <2>1, <2>4
<1> QED
  BY <1>2, <1>3

(* One more cell of the stream. *)
LEMMA WritesOn ==
    ASSUME outcome = "none", outcome' = outcome, lines' = lines, ~Stream!IsTorn,
           NEW c, output' = Append(output, c), Len(output) < Len(Whole),
           Whole[Len(output) + 1] = c
    PROVE  Stream!Next
<1>1. StatusOf(outcome) = "running" /\ StatusOf(outcome)' = StatusOf(outcome)
  BY DEF StatusOf
<1>2. Stream!Write
  BY <1>1, Zenon DEF Stream!Write, Whole
<1> QED
  BY <1>2, Zenon DEF Stream!Next

(* A write that fails half way. *)
LEMMA TearsOff ==
    ASSUME outcome = "none", outcome' = outcome, lines' = lines, ~Stream!IsTorn,
           ~Stream!IsWhole, TornWrite
    PROVE  Stream!Next \/ UNCHANGED Stream!vars
<1>1. StatusOf(outcome) = "running" /\ StatusOf(outcome)' = StatusOf(outcome)
  BY DEF StatusOf
<1>2. CASE output' = output
  BY <1>1, <1>2 DEF Stream!vars
<1>3. CASE output' = Append(output, Torn)
  <2>1. Stream!Tear
    BY <1>1, <1>3, SameCells, Zenon DEF Stream!Tear
  <2> QED
    BY <2>1, Zenon DEF Stream!Next
<1> QED
  BY <1>2, <1>3 DEF TornWrite

(* The call returns. *)
LEMMA ReturnsAs ==
    ASSUME IInv, IInv', outcome = "none", outcome' # outcome, lines' = lines,
           output' = output
    PROVE  Stream!Next
<1>1. StatusOf(outcome) = "running"
  BY DEF StatusOf
<1>2. WholeWhenSealed'
  BY StreamAfter DEF StreamSoFar
<1>3. Stream!IsWhole' <=> Stream!IsWhole
  BY Zenon DEF Stream!IsWhole, Stream!Last
<1>4. CASE outcome' = "ok"
  <2>1. StatusOf(outcome)' = "ok"
    BY <1>4 DEF StatusOf
  <2>2. Stream!IsWhole
    BY <1>2, <1>3, <1>4 DEF WholeWhenSealed
  <2>3. Stream!Succeed
    BY <1>1, <2>1, <2>2, Zenon DEF Stream!Succeed
  <2> QED
    BY <2>3, Zenon DEF Stream!Next
<1>5. CASE outcome' # "ok"
  <2>1. StatusOf(outcome)' = "failed"
    BY <1>5 DEF StatusOf
  <2>2. ~Stream!IsWhole
    BY <1>2, <1>3, <1>5 DEF WholeWhenSealed
  <2>3. Stream!Fail
    BY <1>1, <2>1, <2>2, Zenon DEF Stream!Fail
  <2> QED
    BY <2>3, Zenon DEF Stream!Next
<1> QED
  BY <1>4, <1>5

LEMMA HeaderWritten ==
    ASSUME IInv, outcome = "none", lines' = lines, EndsStep, WriteHeader
    PROVE  Stream!Next
<1>1. output = << >> /\ output' = <<Header>> /\ outcome' = outcome /\ mpc = "start"
      /\ verdict = "none"
  BY DEF WriteHeader, IInv, DataInv, OutputLength, PipelineInv, Progress
<1>2. output' = Append(output, Header)
  BY <1>1
<1>3. Len(output) = 0 /\ Len(Whole) >= 1 /\ Len(Whole) \in Nat /\ Whole[1] = Header
  <2>1. nextToWrite \in Nat
    BY DEF IInv, DataInv, TypeOK, PipelineTypeOK
  <2> QED
    BY <1>1, <2>1, StreamNow DEF StreamSoFar, StreamIsWritten
<1>4. ~Stream!IsTorn
  BY <1>1, StillOpen DEF IInv, StreamInv
<1>5. Len(output) < Len(Whole) /\ Whole[Len(output) + 1] = Header
  BY <1>3
<1> QED
  BY <1>1, <1>2, <1>4, <1>5, WritesOn

LEMMA FrameWritten ==
    ASSUME IInv, IInv', outcome = "none", lines' = lines, WriteReady
    PROVE  Stream!Next
<1>1. PICK b \in Ready : Advance(b) /\ output' = Append(output, Frame(b))
  BY DEF WriteReady
<1>2. /\ outcome' = outcome /\ verdict = "none" /\ mpc = "drain" /\ collected = "none"
      /\ nextToWrite' = nextToWrite + 1 /\ nextToWrite \in Nat /\ sent' = sent
  BY <1>1, CollectorFrameFacts
     DEF WriteReady, Advance, IInv, DataInv, PipelineInv, Progress, PipelineTypeOK
<1>3. ~Stream!IsTorn /\ Len(output) = nextToWrite + 1
  BY <1>2, StillOpen DEF IInv, StreamInv
<1>4. Whole' = Whole
  BY Zenon DEF Whole
<1>5. /\ Len(Whole) \in Nat /\ Len(Whole) >= nextToWrite + 2
      /\ Whole[nextToWrite + 2] = Frame(sent[nextToWrite + 1])
  <2>1. /\ Len(Whole') \in Nat /\ Len(Whole') >= nextToWrite' + 1
        /\ \A k \in 1..nextToWrite' : Whole'[k + 1] = Frame(sent'[k])
    BY StreamAfter DEF StreamSoFar, StreamIsWritten
  <2>2. nextToWrite + 1 \in 1..nextToWrite'
    BY <1>2
  <2>3. Whole'[(nextToWrite + 1) + 1] = Frame(sent'[nextToWrite + 1])
    BY <2>1, <2>2
  <2> HIDE DEF Whole
  <2> QED
    BY <1>2, <1>4, <2>1, <2>3
<1>6. b = sent[nextToWrite + 1]
  BY <1>1, ReadyIsNext DEF IInv, DataInv
<1>7. Len(output) < Len(Whole) /\ Whole[Len(output) + 1] = Frame(b)
  BY <1>2, <1>3, <1>5, <1>6
<1> QED
  BY <1>1, <1>2, <1>3, <1>7, WritesOn

LEMMA FooterWritten ==
    ASSUME IInv, IInv', outcome = "none", lines' = lines, EndsStep, WriteFooter
    PROVE  Stream!Next
<1>1. /\ output' = Append(output, Footer(metadata)) /\ verdict' = "ok"
      /\ outcome' = outcome /\ verdict = "none" /\ mpc = "finish" /\ collected = "ok"
  BY DEF WriteFooter, IsComplete, IInv, DataInv, PipelineInv, Progress
<1>2. nextToWrite' = nextToWrite /\ metadata' = metadata /\ nextToWrite \in Nat
  BY EndsFacts DEF IInv, DataInv, TypeOK, PipelineTypeOK
<1>3. ~Stream!IsTorn /\ Len(output) = nextToWrite + 1
  BY <1>1, StillOpen DEF IInv, StreamInv
<1>4. Whole' = Whole
  BY Zenon DEF Whole
<1>5. Len(Whole) = nextToWrite + 2 /\ Whole[nextToWrite + 2] = Footer(metadata)
  <2>1. Len(Whole') = nextToWrite' + 2 /\ Whole'[nextToWrite' + 2] = Footer(metadata')
    BY <1>1, StreamAfter DEF StreamSoFar, StreamIsWritten
  <2> QED
    BY <1>2, <1>4, <2>1 DEF Footer
<1>6. Len(output) < Len(Whole) /\ Whole[Len(output) + 1] = Footer(metadata)
  BY <1>2, <1>3, <1>5
<1> QED
  BY <1>1, <1>3, <1>6, WritesOn

LEMMA HeaderFails ==
    ASSUME IInv, outcome = "none", lines' = lines, EndsStep, WriteHeaderFails
    PROVE  Stream!Next
<1>1. /\ output = << >> /\ mpc = "start" /\ verdict = "none" /\ outcome' = "headerError"
      /\ output' = output \/ output' = Append(output, Torn)
  BY DEF WriteHeaderFails, TornWrite, IInv, DataInv, OutputLength, PipelineInv, Progress
<1>2. ~Stream!IsTorn /\ ~Stream!IsWhole
  BY <1>1, StillOpen DEF IInv, StreamInv
<1>3. StatusOf(outcome) = "running" /\ StatusOf(outcome)' = "failed"
  BY <1>1 DEF StatusOf
<1>4. Stream!Fail
  BY <1>1, <1>2, <1>3, SameCells, Zenon DEF Stream!Fail
<1> QED
  BY <1>4, Zenon DEF Stream!Next

LEMMA WriteFails ==
    ASSUME IInv, outcome = "none", lines' = lines,
           WriteReadyFails \/ WriteFooterFails
    PROVE  Stream!Next \/ UNCHANGED Stream!vars
<1>1. /\ TornWrite /\ outcome' = outcome /\ verdict = "none"
      /\ collected \in {"none", "ok"}
  BY DEF WriteReadyFails, WriteFooterFails, GiveUp, CollectorFrame, IsComplete, IInv,
     DataInv, PipelineInv, Progress
<1>2. ~Stream!IsTorn /\ ~Stream!IsWhole
  BY <1>1, StillOpen DEF IInv, StreamInv
<1> QED
  BY <1>1, <1>2, TearsOff

LEMMA EncoderStep ==
    ASSUME IInv, IInv', [Next]_vars
    PROVE  Stream!Next \/ UNCHANGED Stream!vars
<1>1. CASE MainStep
  <2>1. outcome = "none"
    <3>1. mpc # "returned"
      BY <1>1 DEF MainStep, EndsStep, WriteHeader, WriteHeaderFails, WriteFooter,
         WriteFooterFails, WriteReady, WriteReadyFails, Advance, GiveUp, SpawnStep, SpawnWorker,
         SpawnScheduler, SpawnFails, ReceiveStep, CollectBlock, CollectError,
         CollectDisconnected, NothingReady, JoinStep, JoinScheduler, JoinWorker, AllJoined,
         CollectedError, LeaveScope
    <3> QED
      BY <3>1 DEF IInv, DataInv, PipelineInv, Progress
  <2>2. lines' = lines
    BY <1>1 DEF MainStep
  <2>3. CASE EndsStep
    BY <2>1, <2>2, <2>3, HeaderWritten, HeaderFails, FooterWritten, WriteFails DEF EndsStep
  <2>4. CASE WriteReady \/ WriteReadyFails
    BY <2>1, <2>2, <2>4, FrameWritten, WriteFails
  <2>5. CASE UNCHANGED writerVars
    <3>1. output' = output
      BY <2>5 DEF writerVars
    <3>2. CASE outcome' = outcome
      BY <2>2, <3>1, <3>2 DEF Stream!vars, StatusOf
    <3>3. CASE outcome' # outcome
      BY <2>1, <2>2, <3>1, <3>3, ReturnsAs
    <3> QED
      BY <3>2, <3>3
  <2> QED
    BY <1>1, <2>3, <2>4, <2>5 DEF MainStep
<1>2. CASE ~MainStep
  <2>1. UNCHANGED <<lines, output, outcome>>
    BY <1>2, SchedulerLeaves, SchedulerFrameFacts, WorkerFrame
       DEF Next, SchedulerStep, WorkerStep, Returned, vars, pipelineVars, mainVars, writerVars
  <2> QED
    BY <2>1 DEF Stream!vars, StatusOf
<1> QED
  BY <1>1, <1>2

(* The parallel encoder is an encoder of the stream: at every moment it has *)
(* written a prefix of what the sequential writer would have produced for   *)
(* the same lines, with at most a torn cell at the end, and it succeeds     *)
(* exactly with all of it.                                                  *)
THEOREM EncoderImplementsBlockStream == Spec => StreamSpec
<1>1. Init => Stream!Init
  BY DEF Init, PipelineInit, Stream!Init, StatusOf
<1>2. IInv /\ IInv' /\ [Next]_vars => [Stream!Next]_(Stream!vars)
  BY EncoderStep
<1> QED
  BY <1>1, <1>2, InductiveInvariant, PTL DEF Spec, StreamSpec, Stream!Spec
=============================================================================
