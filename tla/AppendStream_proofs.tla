------------------------- MODULE AppendStream_proofs -------------------------
(***************************************************************************)
(* What is proved of the append stream for any lines, any limits and any    *)
(* number of calls and damages: its types, that an open writer agrees with  *)
(* recovery, that recovered blocks are never lost by a writer, that the     *)
(* stream implements AppendLog, that nothing is lost when finish returns Ok *)
(* and that replay reads all that recovery counts.                          *)
(***************************************************************************)
EXTENDS AppendStream, Cmp2File_proofs

USE AppendAssumption, BlockOptionsAssumption, MaxStreamBlocksAssumption

-----------------------------------------------------------------------------
(* Types of the parts. *)

LEMMA NewWriterType ==
    ASSUME NEW blocks \in Nat, NEW rows \in Nat
    PROVE  NewWriter(blocks, rows) \in WriterSet
BY DEF NewWriter, WriterSet, Group, EmptyGroup, HeaderLen

LEMMA NextBlockType ==
    ASSUME writer \in WriterSet
    PROVE  /\ NextBlock \in Block
           /\ BlockDone \in WriterSet
<1>1. writer.current.rows \in Seq(Row) /\ Len(writer.current.rows) \in Nat
  BY DEF WriterSet, Group
<1>2. NextBlock \in Block
  BY <1>1 DEF NextBlock, WriterSet, Block
<1>3. FrameLen(NextBlock) \in Nat
  BY <1>1 DEF FrameLen, NextBlock
<1>4. Entry(NextBlock, writer.bytes_written) \in EntrySet
  BY <1>1, <1>2, <1>3 DEF Entry, EntrySet, WriterSet, NextBlock
<1>5. Append(writer.metadata, Entry(NextBlock, writer.bytes_written)) \in Seq(EntrySet)
  BY <1>4 DEF WriterSet
<1>6. EmptyGroup \in Group
  BY DEF EmptyGroup, Group
<1> QED
  BY <1>1, <1>2, <1>3, <1>5, <1>6 DEF BlockDone, WriterSet

LEMMA LeftType ==
    ASSUME TypeOK, NEW cells \in LeftBeyond(NextBlock)
    PROVE  cells \in Seq(Cell) /\ (beyond = << >> => cells = << >>)
<1>1. CASE beyond = << >>
  BY <1>1 DEF LeftBeyond
<1>2. CASE beyond # << >>
  <2>1. cells = <<Torn>> \/ cells = Tail(beyond)
    BY <1>2 DEF LeftBeyond
  <2>2. <<Torn>> \in Seq(Cell)
    BY CellTypes
  <2>3. Tail(beyond) \in Seq(Cell)
    BY <1>2, HeadTailProperties DEF TypeOK
  <2> QED
    BY <1>2, <2>1, <2>2, <2>3
<1> QED
  BY <1>1, <1>2

LEMMA ContentsType ==
    ASSUME TypeOK
    PROVE  Contents \in Seq(Cell) /\ (beyond = << >> => Contents = file)
BY ConcatEmptySeq DEF TypeOK, Contents

-----------------------------------------------------------------------------
(* The inductive invariant, action by action. *)

LEMMA InitInv == Init => SyncInv
<1> SUFFICES ASSUME Init PROVE SyncInv
  OBVIOUS
<1>1. NoWriter \in WriterSet
  BY NewWriterType DEF NoWriter
<1>2. << >> \in Seq(Cell) /\ << >> \in Seq(Seq(Row)) /\ << >> \in Seq(Row)
  OBVIOUS
<1>3. 0 \in 0..MaxCalls /\ 0 \in 0..MaxDamages
  OBVIOUS
<1>4. (held \in Row) <=> pc \in {"room", "push"}
  BY DEF Init
<1>5. TypeOK
  BY <1>1, <1>2, <1>3, <1>4 DEF Init, TypeOK
<1> QED
  BY <1>5 DEF Init, SyncInv, SessionInSync, CallInProgress, IsOpen

LEMMA BeginKeeps ==
    ASSUME SyncInv, pc = "closed",
           NEW blocks \in Nat, NEW rows \in Nat, NEW groups \in Seq(Seq(Row)),
           NEW seals \in BOOLEAN, Begin(NewWriter(blocks, rows), groups, seals),
           file' \in Seq(Cell), beyond' \in Seq(Cell),
           Truncates => beyond' = << >>,
           file' # << >>, IsValidLen(file', Len(file')),
           blocks = Len(file') - 1, rows = NextRow(file', Len(file'))
    PROVE  SyncInv'
<1>1. NewWriter(blocks, rows) \in WriterSet
  BY NewWriterType
<1>2. TypeOK'
  BY <1>1 DEF SyncInv, TypeOK, Begin, bounds
<1>3. SessionInSync'
  BY <1>1 DEF SyncInv, SessionInSync, IsOpen, Begin, NewWriter
<1>4. CallInProgress'
  BY DEF SyncInv, TypeOK, CallInProgress, Begin
<1> QED
  BY <1>2, <1>3, <1>4 DEF SyncInv

LEMMA CloseKeeps ==
    ASSUME SyncInv, NEW how \in {"ok", "sealed", "failed", "stopped"}, Close(how),
           file' \in Seq(Cell), UNCHANGED <<sealing, history, bounds>>
    PROVE  SyncInv'
<1>1. NoWriter \in WriterSet
  BY NewWriterType DEF NoWriter
<1>2. TypeOK'
  <2>1. (held' \in Row) <=> pc' \in {"room", "push"}
    BY DEF Close
  <2>2. beyond' \in Seq(Cell)
    BY DEF Close
  <2> QED
    BY <1>1, <2>1, <2>2 DEF SyncInv, TypeOK, Close, history, bounds
<1>3. SessionInSync'
  BY DEF SessionInSync, IsOpen, Close
<1>4. CallInProgress'
  BY DEF CallInProgress, Close
<1> QED
  BY <1>2, <1>3, <1>4 DEF SyncInv

LEMMA CreateKeeps == SyncInv /\ Create => SyncInv'
<1> SUFFICES ASSUME SyncInv, Create PROVE SyncInv'
  OBVIOUS
<1>1. PICK seals \in BOOLEAN : Begin(NewWriter(0, 0), << >>, seals)
  BY DEF Create
<1>2. pc = "closed" /\ file' = <<Header>> /\ beyond' = << >>
  BY DEF Create
<1>3. /\ file' \in Seq(Cell) /\ file' # << >> /\ Len(file') = 1
      /\ beyond' \in Seq(Cell)
  BY <1>2, CellTypes
<1>4. IsValidLen(file', Len(file')) /\ NextRow(file', Len(file')) = 0
  BY <1>2, <1>3 DEF IsValidLen, FollowsOn, NextRow
<1>5. << >> \in Seq(Seq(Row)) /\ 0 = Len(file') - 1
  BY <1>3
<1>6. Truncates => beyond' = << >>
  BY <1>2
<1>7. 0 = NextRow(file', Len(file')) /\ 0 \in Nat
  BY <1>4
<1> QED
  BY <1>1, <1>2, <1>3, <1>4, <1>5, <1>6, <1>7, BeginKeeps, Zenon

LEMMA CreateFailsKeeps == SyncInv /\ CreateFails => SyncInv'
<1> SUFFICES ASSUME SyncInv, CreateFails PROVE SyncInv'
  OBVIOUS
<1>1. file' \in Seq(Cell)
  <2>1. << >> \in Seq(Cell) /\ <<Torn>> \in Seq(Cell)
    BY CellTypes
  <2> QED
    BY <2>1 DEF CreateFails
<1>2. TypeOK'
  BY <1>1 DEF SyncInv, TypeOK, CreateFails, history, bounds
<1>3. SessionInSync' /\ CallInProgress'
  BY DEF SyncInv, SessionInSync, CallInProgress, IsOpen, CreateFails
<1> QED
  BY <1>2, <1>3 DEF SyncInv

LEMMA ResumeKeeps == SyncInv /\ Resume => SyncInv'
<1> SUFFICES ASSUME SyncInv, Resume PROVE SyncInv'
  OBVIOUS
<1> DEFINE v == ValidLen(file)
<1>1. file \in Seq(Cell) /\ pc = "closed" /\ v > 0
  BY DEF SyncInv, TypeOK, Resume
<1>2. v \in 1..Len(file) /\ v - 1 \in Nat
  BY <1>1, ValidLenIs
<1>3. /\ file' \in Seq(Cell)
      /\ Len(file') = v
      /\ IsValidLen(file', v)
      /\ NextRow(file', v) = NextRow(file, v)
      /\ NextRow(file, v) \in Nat
  BY <1>1, PrefixIsValid DEF Resume
<1>4. beyond' \in Seq(Cell) /\ (Truncates => beyond' = << >>)
  <2>1. SubSeq(file, v + 1, Len(file)) \in Seq(Cell)
    BY <1>1, <1>2
  <2> QED
    BY <2>1 DEF Resume
<1>5. Recovered(file) \in Seq(Seq(Row))
  BY <1>1, RecoveredIs
<1>6. Begin(NewWriter(v - 1, NextRow(file, v)), Recovered(file), FALSE)
  BY DEF Resume
<1>7. file' # << >>
  BY <1>2, <1>3
<1> HIDE DEF v
<1> QED
  BY <1>1, <1>2, <1>3, <1>4, <1>5, <1>6, <1>7, BeginKeeps

LEMMA CallKeeps == SyncInv /\ Call => SyncInv'
<1> SUFFICES ASSUME SyncInv, Call PROVE SyncInv'
  OBVIOUS
<1>1. TypeOK /\ SessionInSync /\ CallInProgress
  BY DEF SyncInv
<1>2. CASE SkipLine
  <2>1. TypeOK'
    BY <1>1, <1>2 DEF TypeOK, SkipLine, MayCall, medium, history
  <2> QED
    BY <1>1, <1>2, <2>1 DEF SyncInv, SessionInSync, CallInProgress, IsOpen, SkipLine,
                            medium, history
<1>3. ASSUME NEW line \in Lines, WriteRow(line) PROVE SyncInv'
  <2>1. held' \in Row /\ held' \in RowsOffered
    <3>1. line \in Line /\ calls + 1 \in 1..MaxCalls
      BY <1>1, <1>3 DEF TypeOK, WriteRow, MayCall
    <3>2. held' \in Line /\ held'.kind = line.kind
      BY <1>3, <3>1 DEF WriteRow, Line
    <3>3. held' \in Row /\ held'.kind \in {"row", "loose", "bad"}
      BY <1>3, <3>2 DEF WriteRow, Row
    <3>4. held' \in {[l EXCEPT !.id = i] : l \in Lines, i \in 1..MaxCalls}
      BY <1>3, <3>1 DEF WriteRow
    <3> QED
      BY <3>3, <3>4 DEF RowsOffered
  <2>2. pc' \in {"room", "push"} /\ pc = "idle" /\ calls' \in 0..MaxCalls
    BY <1>1, <1>3 DEF WriteRow, MayCall, TypeOK
  <2>3. TypeOK'
    BY <1>1, <1>3, <2>1, <2>2 DEF TypeOK, WriteRow, medium, history
  <2>4. SessionInSync' /\ CallInProgress'
    BY <1>1, <1>3, <2>1, <2>2 DEF SessionInSync, CallInProgress, IsOpen, WriteRow,
                                  MayCall, medium, history
  <2> QED
    BY <2>3, <2>4 DEF SyncInv
<1>4. CASE PushRow
  <2>1. held \in Row /\ PushLine(writer.current, held) \in Group
    <3>1. held \in Row /\ writer.current \in Group
      BY <1>1, <1>4 DEF TypeOK, PushRow, WriterSet
    <3>2. held.size \in Nat
      BY <3>1 DEF Row, Line
    <3>3. /\ writer.current.rows \in Seq(Row) /\ writer.current.bytes \in Nat
          /\ Append(writer.current.rows, held) \in Seq(Row)
      BY <3>1 DEF Group
    <3> QED
      BY <3>1, <3>2, <3>3 DEF PushLine, Group
  <2>2. writer' \in WriterSet
    BY <1>1, <1>4, <2>1 DEF TypeOK, PushRow, WriterSet
  <2>3. Append(accepted, held) \in Seq(Row)
    BY <1>1, <2>1 DEF TypeOK
  <2>4. pc' \in {"full", "idle"} /\ pc = "push"
    BY <1>4 DEF PushRow
  <2>5. TypeOK'
    BY <1>1, <1>4, <2>2, <2>3, <2>4 DEF TypeOK, PushRow, medium, bounds
  <2>6. SessionInSync' /\ CallInProgress'
    BY <1>1, <1>4, <2>4 DEF SessionInSync, CallInProgress, IsOpen, PushRow, medium,
                            bounds, TypeOK, WriterSet
  <2> QED
    BY <2>5, <2>6 DEF SyncInv
<1>5. CASE FlushBlockCall
  <2>1. TypeOK'
    BY <1>1, <1>5 DEF TypeOK, FlushBlockCall, MayCall, medium, history
  <2> QED
    BY <1>1, <1>5, <2>1 DEF SyncInv, SessionInSync, CallInProgress, IsOpen, FlushBlockCall,
                            MayCall, medium, history
<1>6. CASE Finish
  <2>1. TypeOK'
    BY <1>1, <1>6 DEF TypeOK, Finish, MayCall, medium, history
  <2> QED
    BY <1>1, <1>6, <2>1 DEF SyncInv, SessionInSync, CallInProgress, IsOpen, Finish,
                            MayCall, medium, history
<1> QED
  BY <1>2, <1>3, <1>4, <1>5, <1>6 DEF Call

(* The frame goes behind a file in sync, and carries the counters on. *)
LEMMA FrameKeepsSync ==
    ASSUME TypeOK, SessionInSync, IsOpen, ~FlushRefuses,
           WriteFrame, UNCHANGED failed, IsOpen'
    PROVE  SessionInSync'
<1> SUFFICES ASSUME ~failed PROVE SessionInSync'
  BY DEF SessionInSync
<1>1. /\ file \in Seq(Cell) /\ file # << >>
      /\ IsValidLen(file, Len(file))
      /\ writer.blocks_written = Len(file) - 1
      /\ writer.rows_written = NextRow(file, Len(file))
      /\ writer.bytes_written = HeaderLen + writer.blocks_written + writer.rows_written
      /\ writer \in WriterSet
  BY DEF TypeOK, SessionInSync
<1>2. NextBlock \in Block
  BY <1>1, NextBlockType
<1>3. /\ NextBlock.index = Len(file) - 1 /\ NextBlock.index < MaxStreamBlocks
      /\ NextBlock.first = NextRow(file, Len(file))
      /\ NextBlock.rows = writer.current.rows
  BY <1>1 DEF NextBlock, FlushRefuses, WriterSet
<1>4. file' = Append(file, Frame(NextBlock))
  BY DEF WriteFrame
<1>5. /\ file' \in Seq(Cell)
      /\ IsValidLen(file', Len(file'))
      /\ Len(file') = Len(file) + 1
      /\ NextRow(file', Len(file')) = NextBlock.first + Len(NextBlock.rows)
  BY <1>1, <1>2, <1>3, <1>4, AppendedFrame
<1>6. /\ writer'.blocks_written = writer.blocks_written + 1
      /\ writer'.rows_written = writer.rows_written + Len(writer.current.rows)
      /\ writer'.bytes_written = writer.bytes_written + 1 + Len(writer.current.rows)
  <2>1. FrameLen(NextBlock) = 1 + Len(writer.current.rows)
    BY <1>3 DEF FrameLen
  <2> QED
    BY <1>1, <2>1 DEF WriteFrame, BlockDone, WriterSet, Group
<1>7. /\ writer.blocks_written \in Nat /\ writer.rows_written \in Nat
      /\ Len(writer.current.rows) \in Nat /\ Len(file) \in Nat /\ HeaderLen \in Nat
  BY <1>1 DEF WriterSet, Group, HeaderLen
<1>8. writer'.blocks_written = Len(file') - 1
  BY <1>1, <1>5, <1>6, <1>7
<1>9. writer'.rows_written = NextRow(file', Len(file'))
  BY <1>1, <1>3, <1>5, <1>6
<1>10. writer'.bytes_written = HeaderLen + writer'.blocks_written + writer'.rows_written
  BY <1>1, <1>6, <1>7
<1>11. file' # << >>
  BY <1>5, <1>7
<1> QED
  BY <1>5, <1>8, <1>9, <1>10, <1>11 DEF SessionInSync

LEMMA FrameTypes ==
    ASSUME TypeOK
    PROVE  /\ Append(file, Frame(NextBlock)) \in Seq(Cell)
           /\ Append(file, Torn) \in Seq(Cell)
           /\ Append(file, Footer(writer.metadata)) \in Seq(Cell)
           /\ \A left \in LeftBeyond(NextBlock) :
                  Append(file, Frame(NextBlock)) \o left \in Seq(Cell)
<1>1. file \in Seq(Cell) /\ writer \in WriterSet /\ writer.metadata \in Seq(EntrySet)
  BY DEF TypeOK, WriterSet
<1>2. Frame(NextBlock) \in Cell /\ Torn \in Cell /\ Footer(writer.metadata) \in Cell
  BY <1>1, NextBlockType, CellTypes
<1>3. \A left \in LeftBeyond(NextBlock) : left \in Seq(Cell)
  BY LeftType
<1> QED
  BY <1>1, <1>2, <1>3

LEMMA FlushGoesOnKeeps == SyncInv /\ (FlushInLine \/ FlushBeforeFooter) => SyncInv'
<1> SUFFICES ASSUME SyncInv, FlushInLine \/ FlushBeforeFooter PROVE SyncInv'
  OBVIOUS
<1>1. TypeOK /\ SessionInSync /\ CallInProgress
  BY DEF SyncInv
<1>2. /\ Flushing /\ ~FlushRefuses /\ WriteFrame
      /\ UNCHANGED <<sealing, held, failed, result, history, bounds>>
      /\ \/ pc' = "push" /\ pc = "room"
         \/ pc' = "idle" /\ pc \in {"full", "flush"}
         \/ pc' = "footer" /\ pc = "finish" /\ sealing
  BY DEF FlushInLine, FlushBeforeFooter, Flushing
<1>3. IsOpen /\ IsOpen'
  BY <1>2 DEF IsOpen
<1>4. SessionInSync'
  BY <1>1, <1>2, <1>3, FrameKeepsSync
<1>5. file' \in Seq(Cell) /\ beyond' \in Seq(Cell) /\ (beyond = << >> => beyond' = << >>)
  BY <1>1, <1>2, FrameTypes, LeftType DEF WriteFrame
<1>6. writer' \in WriterSet /\ writer'.current = EmptyGroup
  BY <1>1, <1>2, NextBlockType DEF WriteFrame, TypeOK, BlockDone
<1>7. TypeOK'
  BY <1>1, <1>2, <1>5, <1>6 DEF TypeOK, history, bounds
<1>8. CallInProgress'
  BY <1>1, <1>2, <1>5, <1>6 DEF CallInProgress, IsEmptyGroup, EmptyGroup
<1> QED
  BY <1>4, <1>7, <1>8 DEF SyncInv

LEMMA FlushStaysKeeps == SyncInv /\ (FlushRefused \/ WriteFails) => SyncInv'
<1> SUFFICES ASSUME SyncInv, FlushRefused \/ WriteFails PROVE SyncInv'
  OBVIOUS
<1>1. TypeOK /\ SessionInSync /\ CallInProgress
  BY DEF SyncInv
<1>2. /\ pc' = "idle" /\ held' = NoLine /\ IsOpen /\ IsOpen'
      /\ UNCHANGED <<sealing, writer, result, history, bounds>>
  BY DEF FlushRefused, WriteFails, Flushing, IsOpen
<1>3. CASE FlushRefused
  <2>1. UNCHANGED <<medium, failed>>
    BY <1>3 DEF FlushRefused
  <2>2. TypeOK'
    BY <1>1, <1>2, <2>1 DEF TypeOK, medium, history, bounds
  <2>3. SessionInSync'
    BY <1>1, <1>2, <2>1 DEF SessionInSync, medium
  <2>4. CallInProgress'
    BY <1>1, <1>2, <2>1 DEF CallInProgress, medium
  <2> QED
    BY <2>2, <2>3, <2>4 DEF SyncInv
<1>4. CASE WriteFails
  <2>1. /\ failed' = TRUE
        /\ \/ file' = file /\ beyond' = beyond
           \/ file' = Append(file, Torn) /\ beyond' = << >>
    BY <1>4 DEF WriteFails, medium
  <2>2. file' \in Seq(Cell) /\ beyond' \in Seq(Cell)
    <3>1. Append(file, Torn) \in Seq(Cell) /\ << >> \in Seq(Cell)
      BY <1>1, FrameTypes
    <3>2. file \in Seq(Cell) /\ beyond \in Seq(Cell)
      BY <1>1 DEF TypeOK
    <3> QED
      BY <2>1, <3>1, <3>2
  <2>3. TypeOK'
    BY <1>1, <1>2, <2>1, <2>2 DEF TypeOK, history, bounds
  <2>4. SessionInSync'
    BY <2>1 DEF SessionInSync
  <2>5. CallInProgress'
    BY <1>1, <1>2, <2>1 DEF CallInProgress
  <2> QED
    BY <2>3, <2>4, <2>5 DEF SyncInv
<1> QED
  BY <1>3, <1>4

LEMMA NothingToFlushKeeps == SyncInv /\ NothingToFlush => SyncInv'
<1> SUFFICES ASSUME SyncInv, NothingToFlush PROVE SyncInv'
  OBVIOUS
<1>1. TypeOK /\ SessionInSync /\ CallInProgress
  BY DEF SyncInv
<1>2. CASE sealing
  <2>1. /\ pc = "finish" /\ pc' = "footer" /\ IsEmptyGroup(writer.current)
        /\ UNCHANGED <<medium, writer, held, failed, result, sealing, history, bounds>>
    BY <1>2 DEF NothingToFlush
  <2>2. TypeOK'
    BY <1>1, <2>1 DEF TypeOK, medium, history, bounds
  <2>3. SessionInSync' /\ CallInProgress'
    BY <1>1, <1>2, <2>1 DEF SessionInSync, CallInProgress, IsOpen, medium
  <2> QED
    BY <2>2, <2>3 DEF SyncInv
<1>3. CASE ~sealing
  <2>1. file' = Contents /\ Close("ok") /\ UNCHANGED <<sealing, history, bounds>>
    BY <1>3, Zenon DEF NothingToFlush
  <2>2. file' \in Seq(Cell)
    BY <1>1, <2>1, ContentsType
  <2> QED
    BY <2>1, <2>2, CloseKeeps
<1> QED
  BY <1>2, <1>3, Zenon

LEMMA EndKeeps ==
    SyncInv /\ (FlushAtEnd \/ FinishRefused \/ FinishFails \/ WriteFooter \/ Stop) => SyncInv'
<1> SUFFICES ASSUME SyncInv, FlushAtEnd \/ FinishRefused \/ FinishFails \/ WriteFooter \/ Stop
             PROVE  SyncInv'
  OBVIOUS
<1>1. TypeOK
  BY DEF SyncInv
<1>2. CASE FlushAtEnd
  <2>1. PICK left \in LeftBeyond(NextBlock) :
              file' = Append(file, Frame(NextBlock)) \o left
    BY <1>2 DEF FlushAtEnd
  <2>2. file' \in Seq(Cell)
    BY <1>1, <2>1, FrameTypes
  <2> QED
    BY <1>2, <2>2, CloseKeeps DEF FlushAtEnd
<1>3. CASE FinishRefused
  BY <1>1, <1>3, ContentsType, CloseKeeps DEF FinishRefused
<1>4. CASE FinishFails
  <2>1. file' \in Seq(Cell)
    BY <1>1, <1>4, FrameTypes, ContentsType DEF FinishFails
  <2> QED
    BY <1>4, <2>1, CloseKeeps DEF FinishFails
<1>5. CASE WriteFooter
  BY <1>1, <1>5, FrameTypes, CloseKeeps DEF WriteFooter
<1>6. CASE Stop
  <2>1. file' \in Seq(Cell)
    BY <1>1, <1>6, FrameTypes, ContentsType DEF Stop
  <2> QED
    BY <1>6, <2>1, CloseKeeps DEF Stop
<1> QED
  BY <1>2, <1>3, <1>4, <1>5, <1>6

(* The bytes damage leaves are the old ones up to some cell. *)
LEMMA DamageLeaves ==
    ASSUME TypeOK, Damage
    PROVE  /\ file' \in Seq(Cell)
           /\ \E n \in 0..Len(file) :
                 /\ n <= Len(file')
                 /\ \A i \in 1..n : file'[i] = file[i]
                 /\ n < Len(file') => file'[n + 1] \in {Torn, Corrupt}
<1>1. file \in Seq(Cell) /\ Len(file) \in Nat
  BY DEF TypeOK
<1>2. ASSUME NEW k \in 1..Len(file), file' = [file EXCEPT ![k] = Corrupt]
      PROVE  /\ file' \in Seq(Cell) /\ Len(file') = Len(file)
             /\ \A i \in 1..k - 1 : file'[i] = file[i]
             /\ file'[k] = Corrupt
  BY <1>1, <1>2, CellTypes, ExceptSeq
<1>3. ASSUME NEW n \in 0..Len(file) - 1
      PROVE  /\ SubSeq(file, 1, n) \in Seq(Cell)
             /\ Len(SubSeq(file, 1, n)) = n
             /\ \A i \in 1..n : SubSeq(file, 1, n)[i] = file[i]
  BY <1>1, <1>3
<1>4. ASSUME NEW n \in 0..Len(file) - 1, file' = Append(SubSeq(file, 1, n), Torn)
      PROVE  /\ file' \in Seq(Cell) /\ Len(file') = n + 1
             /\ \A i \in 1..n : file'[i] = file[i]
             /\ file'[n + 1] = Torn
  BY <1>1, <1>3, <1>4, CellTypes, AppendProperties
<1>5. CASE \E k \in 1..Len(file) : file' = [file EXCEPT ![k] = Corrupt]
  <2>1. PICK k \in 1..Len(file) : file' = [file EXCEPT ![k] = Corrupt]
    BY <1>5
  <2>2. k - 1 \in 0..Len(file) /\ (k - 1) + 1 = k /\ k - 1 <= Len(file)
    BY <1>1
  <2>3. /\ file' \in Seq(Cell) /\ Len(file') = Len(file)
        /\ \A i \in 1..k - 1 : file'[i] = file[i]
        /\ file'[(k - 1) + 1] = Corrupt
    BY <1>2, <2>1, <2>2
  <2> QED
    BY <2>2, <2>3
<1>6. CASE \E n \in 0..Len(file) - 1 :
              file' \in {SubSeq(file, 1, n), Append(SubSeq(file, 1, n), Torn)}
  <2>1. PICK n \in 0..Len(file) - 1 :
              file' \in {SubSeq(file, 1, n), Append(SubSeq(file, 1, n), Torn)}
    BY <1>6
  <2> n \in 0..Len(file)
    BY <1>1
  <2>2. CASE file' = SubSeq(file, 1, n)
    <3>1. /\ file' \in Seq(Cell) /\ Len(file') = n
          /\ \A i \in 1..n : file'[i] = file[i]
      BY <1>3, <2>2
    <3> QED
      BY <1>1, <3>1
  <2>3. CASE file' = Append(SubSeq(file, 1, n), Torn)
    <3>1. /\ file' \in Seq(Cell) /\ Len(file') = n + 1
          /\ \A i \in 1..n : file'[i] = file[i]
          /\ file'[n + 1] = Torn
      BY <1>4, <2>3
    <3> QED
      BY <1>1, <3>1
  <2> QED
    BY <2>1, <2>2, <2>3
<1> QED
  BY <1>5, <1>6 DEF Damage

LEMMA DamageKeeps == SyncInv /\ Damage => SyncInv'
<1> SUFFICES ASSUME SyncInv, Damage PROVE SyncInv'
  OBVIOUS
<1>1. TypeOK
  BY DEF SyncInv
<1>2. file' \in Seq(Cell)
  BY <1>1, DamageLeaves
<1>3. damages' \in 0..MaxDamages
  BY <1>1 DEF TypeOK, Damage
<1>4. TypeOK'
  BY <1>1, <1>2, <1>3 DEF TypeOK, Damage, history
<1>5. SessionInSync' /\ CallInProgress'
  BY DEF SyncInv, SessionInSync, CallInProgress, IsOpen, Damage
<1> QED
  BY <1>4, <1>5 DEF SyncInv

LEMMA StutterKeeps == SyncInv /\ UNCHANGED vars => SyncInv'
BY DEF SyncInv, TypeOK, SessionInSync, CallInProgress, IsOpen, vars

(* The inductive invariant: types, an open writer in sync with recovery,    *)
(* and what the calls in progress rely on.                                  *)
LEMMA SyncAlways == Spec => []SyncInv
<1>1. SyncInv /\ [Next]_vars => SyncInv'
  BY CreateKeeps, CreateFailsKeeps, ResumeKeeps, CallKeeps, FlushGoesOnKeeps,
     FlushStaysKeeps, NothingToFlushKeeps, EndKeeps, DamageKeeps, StutterKeeps, Zenon
     DEF Next, Flush
<1> QED
  BY <1>1, InitInv, PTL DEF Spec

(* Type correctness of writer, file and histories. *)
THEOREM AppendTypes == Spec => []TypeOK
<1>1. SyncInv => TypeOK
  BY DEF SyncInv
<1> QED
  BY <1>1, SyncAlways, PTL

(* An open writer whose writes all succeeded has the counters, and the file *)
(* the length, that recovery would find: resume and a new session agree.    *)
THEOREM WriterAgreesWithRecovery == Spec => []SessionInSync
<1>1. SyncInv => SessionInSync
  BY DEF SyncInv
<1> QED
  BY <1>1, SyncAlways, PTL

-----------------------------------------------------------------------------
(* What recovery finds, step by step, when the caller cuts the file at      *)
(* valid_len to resume.                                                     *)

(* Damage loses blocks from the end only. *)
LEMMA DamageRecovers ==
    ASSUME TypeOK, Damage
    PROVE  IsPrefix(Recovered(file'), Recovered(file))
<1>1. PICK n \in 0..Len(file) :
          /\ n <= Len(file')
          /\ \A i \in 1..n : file'[i] = file[i]
          /\ n < Len(file') => file'[n + 1] \in {Torn, Corrupt}
  BY DamageLeaves
<1>2. file \in Seq(Cell) /\ file' \in Seq(Cell)
  BY DamageLeaves DEF TypeOK
<1>3. ValidLen(file') \in 0..Len(file') /\ IsValidLen(file', ValidLen(file'))
  BY <1>2, ValidLenIs
<1>4. ValidLen(file') <= n
  <2> SUFFICES ASSUME n < ValidLen(file') PROVE FALSE
    BY <1>3
  <2>1. n < Len(file') /\ n + 1 \in 1..ValidLen(file')
    BY <1>3
  <2>2. FollowsOn(file', n + 1)
    BY <1>3, <2>1 DEF IsValidLen
  <2>3. file'[n + 1] = Torn \/ file'[n + 1] = Corrupt
    BY <1>1, <2>1
  <2>4. file'[n + 1] # Header /\ file'[n + 1].kind # "frame"
    BY <2>3 DEF Torn, Corrupt, Header
  <2> QED
    BY <2>2, <2>4 DEF FollowsOn
<1>5. \A i \in 1..ValidLen(file') : file[i] = file'[i]
  BY <1>1, <1>3, <1>4
<1>6. ValidLen(file') <= Len(file)
  BY <1>1, <1>3, <1>4
<1> QED
  BY <1>2, <1>5, <1>6, RecoveredGrows

(* The cells a writer leaves behind after one step, when nothing is beyond. *)
LEMMA StepContents ==
    ASSUME SyncInv, SyncInv', Truncates, Next
    PROVE  /\ Contents = file /\ Contents' = file'
           /\ file \in Seq(Cell) /\ file' \in Seq(Cell)
           /\ \/ Create \/ CreateFails \/ Resume \/ Damage
              \/ file' = file
              \/ file' = Append(file, Torn)
              \/ file' = Append(file, Footer(writer.metadata))
              \/ file' = Append(file, Frame(NextBlock))
<1>1. /\ file \in Seq(Cell) /\ beyond = << >> /\ TypeOK
      /\ file' \in Seq(Cell) /\ beyond' = << >>
  BY DEF SyncInv, TypeOK, CallInProgress
<1>2. Contents = file /\ Contents' = file'
  BY <1>1, ConcatEmptySeq DEF Contents
<1> SUFFICES \/ Create \/ CreateFails \/ Resume \/ Damage
             \/ file' = file
             \/ file' = Append(file, Torn)
             \/ file' = Append(file, Footer(writer.metadata))
             \/ file' = Append(file, Frame(NextBlock))
  BY <1>1, <1>2
<1>3. CASE Call
  BY <1>3 DEF Call, SkipLine, WriteRow, PushRow, FlushBlockCall, Finish, medium
<1>4. CASE FlushInLine \/ FlushBeforeFooter
  BY <1>4 DEF FlushInLine, FlushBeforeFooter, WriteFrame
<1>5. CASE FlushAtEnd
  <2>1. PICK left \in LeftBeyond(NextBlock) :
              file' = Append(file, Frame(NextBlock)) \o left
    BY <1>5 DEF FlushAtEnd
  <2>2. left = << >>
    BY <1>1, LeftType
  <2>3. Append(file, Frame(NextBlock)) \in Seq(Cell)
    BY <1>1, FrameTypes
  <2>4. file' = Append(file, Frame(NextBlock))
    BY <2>1, <2>2, <2>3, ConcatEmptySeq
  <2> QED
    BY <2>4
<1>6. CASE NothingToFlush
  BY <1>2, <1>6 DEF NothingToFlush, medium
<1>7. CASE FlushRefused \/ FinishRefused
  BY <1>2, <1>7 DEF FlushRefused, FinishRefused, medium
<1>8. CASE WriteFails
  BY <1>8 DEF WriteFails, medium
<1>9. CASE FinishFails
  BY <1>2, <1>9 DEF FinishFails
<1>10. CASE WriteFooter
  BY <1>10 DEF WriteFooter
<1>11. CASE Stop
  BY <1>2, <1>11 DEF Stop
<1> QED
  BY <1>3, <1>4, <1>5, <1>6, <1>7, <1>8, <1>9, <1>10, <1>11 DEF Next, Flush

LEMMA StepRecovers ==
    ASSUME SyncInv, SyncInv', Truncates, [Next]_vars, damages' = damages
    PROVE  IsPrefix(Recovered(Contents), Recovered(Contents'))
<1>1. CASE UNCHANGED vars
  <2>1. Contents' = Contents /\ Contents \in Seq(Cell)
    BY <1>1, ContentsType DEF SyncInv, vars, Contents
  <2> QED
    BY <2>1, PrefixOfItself
<1>2. CASE Next
  <2>1. /\ Contents = file /\ Contents' = file'
        /\ file \in Seq(Cell) /\ file' \in Seq(Cell)
        /\ \/ Create \/ CreateFails \/ Resume \/ Damage
           \/ file' = file
           \/ file' = Append(file, Torn)
           \/ file' = Append(file, Footer(writer.metadata))
           \/ file' = Append(file, Frame(NextBlock))
    BY <1>2, StepContents
  <2>2. CASE Create \/ CreateFails
    <3>1. ValidLen(file) = 0
      BY <2>2 DEF Create, CreateFails
    <3> QED
      BY <2>1, <3>1, NothingRecovered
  <2>3. CASE Resume
    <3>1. ValidLen(file) > 0 /\ file' = ValidPrefix(file)
      BY <2>3 DEF Resume
    <3>2. Recovered(file') = Recovered(file)
      BY <2>1, <3>1, ResumeRecovers
    <3> QED
      BY <2>1, <3>2, PrefixOfItself
  <2>4. CASE Damage
    BY <2>4 DEF Damage, SyncInv, TypeOK
  <2>5. CASE file' = file
    BY <2>1, <2>5, PrefixOfItself
  <2>6. Torn \in Cell /\ Footer(writer.metadata) \in Cell /\ Frame(NextBlock) \in Cell
    <3>1. writer \in WriterSet /\ writer.metadata \in Seq(EntrySet)
      BY DEF SyncInv, TypeOK, WriterSet
    <3> QED
      BY <3>1, CellTypes, NextBlockType
  <2>7. CASE \/ file' = Append(file, Torn)
             \/ file' = Append(file, Footer(writer.metadata))
             \/ file' = Append(file, Frame(NextBlock))
    BY <2>1, <2>6, <2>7, AppendRecovers
  <2> QED
    BY <2>1, <2>2, <2>3, <2>4, <2>5, <2>7
<1> QED
  BY <1>1, <1>2

(* No step of a writer takes a block away from recovery or changes one, not *)
(* even when a write is torn, refused or repeated by the caller.            *)
THEOREM WritersKeepRecoveredBlocks ==
    ASSUME Truncates PROVE Spec => RecoveredBlocksGrow
<1>1. SyncInv /\ SyncInv' /\ [Next]_vars =>
          [damages' = damages => IsPrefix(Recovered(Contents), Recovered(Contents'))]_vars
  BY StepRecovers
<1> QED
  BY <1>1, SyncAlways, PTL DEF Spec, RecoveredBlocksGrow

-----------------------------------------------------------------------------
(* The stream implements the log. *)

LEMMA NothingPending ==
    /\ NoWriter.current.rows = << >>
    /\ \A blocks, rows : NewWriter(blocks, rows).current.rows = << >>
BY DEF NoWriter, NewWriter, EmptyGroup

(* The file grows by one cell under a writer that is in sync. *)
LEMMA OneCellMore ==
    ASSUME SyncInv, IsOpen, ~failed
    PROVE  /\ Recovered(Append(file, Torn)) = Recovered(file)
           /\ Recovered(Append(file, Footer(writer.metadata))) = Recovered(file)
           /\ ~FlushRefuses => Recovered(Append(file, Frame(NextBlock)))
                                   = Append(Recovered(file), writer.current.rows)
<1>1. /\ file \in Seq(Cell) /\ file # << >>
      /\ IsValidLen(file, Len(file))
      /\ writer.blocks_written = Len(file) - 1
      /\ writer.rows_written = NextRow(file, Len(file))
      /\ writer \in WriterSet
  BY DEF SyncInv, TypeOK, SessionInSync
<1>2. Torn \in Cell /\ Footer(writer.metadata) \in Cell
  BY <1>1, CellTypes DEF WriterSet
<1>3. Torn.kind # "frame" /\ Footer(writer.metadata).kind # "frame"
  BY DEF Torn, Footer
<1>4. NextBlock \in Block
  BY <1>1, NextBlockType
<1>5. ASSUME ~FlushRefuses
      PROVE  /\ NextBlock.index = Len(file) - 1 /\ NextBlock.index < MaxStreamBlocks
             /\ NextBlock.first = NextRow(file, Len(file))
             /\ NextBlock.rows = writer.current.rows
  BY <1>1, <1>5 DEF NextBlock, FlushRefuses, WriterSet
<1>6. ~FlushRefuses => Recovered(Append(file, Frame(NextBlock)))
                          = Append(Recovered(file), writer.current.rows)
  BY <1>1, <1>4, <1>5, AppendedFrame
<1> QED
  BY <1>1, <1>2, <1>3, <1>6, AppendedOther

LEMMA LogInit == Init => Log!Init
<1> SUFFICES ASSUME Init PROVE Log!Init
  OBVIOUS
<1>1. TypeOK
  BY InitInv DEF SyncInv
<1>2. Contents = << >>
  BY <1>1, ContentsType DEF Init
<1>3. Contents \in Seq(Cell)
  BY <1>1, ContentsType
<1>4. Recovered(Contents) = << >>
  BY <1>2, <1>3, EmptyRecovers
<1> QED
  BY <1>4, NothingPending DEF Init, Log!Init, LogStatus, IsOpen

LEMMA LogStep ==
    ASSUME SyncInv, SyncInv', Truncates, ~Retries, Next
    PROVE  Log!Next \/ UNCHANGED Log!vars
<1> DEFINE r == Recovered(Contents)
           p == writer.current.rows
<1>1. /\ TypeOK /\ CallInProgress
      /\ file \in Seq(Cell) /\ file' \in Seq(Cell)
      /\ Contents = file /\ Contents' = file'
      /\ beyond = << >>
  BY StepContents DEF SyncInv, TypeOK, CallInProgress
<1>2. r = Recovered(file) /\ r' = Recovered(file')
  BY <1>1
<1>3. IsOpen /\ pc # "idle" => ~failed
  BY <1>1 DEF CallInProgress
<1> USE NothingPending
<1>4. CASE Create
  <2>1. ValidLen(file) = 0 /\ file' = <<Header>> /\ pc = "closed" /\ pc' = "idle"
    BY <1>4 DEF Create, Begin
  <2>2. p = << >> /\ p' = << >>
    BY <1>1, <1>4 DEF TypeOK, Create, Begin
  <2>3. Recovered(file) = << >>
    BY <1>1, <2>1, RecoveredIs, EmptySeq
  <2>4. ValidLen(file') = 1
    <3> DEFINE cells == file'
    <3>1. Len(file') = 1 /\ IsValidLen(file', 1)
      BY <2>1 DEF IsValidLen, FollowsOn
    <3>2. cells \in Seq(Cell) /\ 1 \in 0..Len(cells) /\ IsValidLen(cells, 1)
      BY <1>1, <3>1
    <3> HIDE DEF cells
    <3>3. ValidLen(cells) = 1
      BY ONLY <3>2, ValidLenUnique, Zenon
    <3> QED
      BY <3>3 DEF cells
  <2>5. Recovered(file') = << >>
    BY <1>1, <2>4, RecoveredIs, EmptySeq
  <2>6. LogStatus # "open" /\ LogStatus' = "open"
    BY <2>1 DEF LogStatus, IsOpen
  <2> QED
    BY <1>2, <2>2, <2>3, <2>5, <2>6 DEF Log!Next, Log!Open
<1>5. CASE CreateFails
  <2>1. ValidLen(file) = 0 /\ pc = "closed" /\ pc' = pc /\ result' = "failed"
        /\ writer' = writer /\ file' \in {<< >>, <<Torn>>}
    BY <1>5 DEF CreateFails
  <2>2. Recovered(file') = << >>
    <3>1. ValidLen(file') = 0
      <4>1. CASE file' = << >>
        BY <1>1, <4>1, EmptyRecovers
      <4>2. CASE file' = <<Torn>>
        <5>1. Len(file') = 1 /\ file'[1] # Header
          BY <4>2 DEF Torn, Header
        <5>2. IsValidLen(file', 0)
          BY <5>1 DEF IsValidLen, FollowsOn
        <5> QED
          BY <1>1, <5>1, <5>2, ValidLenUnique
      <4> QED
        BY <2>1, <4>1, <4>2
    <3> QED
      BY <1>1, <3>1, RecoveredIs, EmptySeq
  <2>3. IsPrefix(r', r)
    <3>1. ValidLen(file) = 0 /\ Recovered(file) = << >>
      BY <1>1, <2>1, RecoveredIs, EmptySeq
    <3> QED
      BY <1>1, <1>2, <2>2, <3>1, PrefixOfItself
  <2>4. LogStatus # "open" /\ LogStatus' = "closed"
    BY <2>1 DEF LogStatus, IsOpen
  <2> QED
    BY <2>1, <2>3, <2>4 DEF Log!Next, Log!Lose, Log!IsPrefix, IsPrefix
<1>6. CASE Resume
  <2>1. ValidLen(file) > 0 /\ file' = ValidPrefix(file) /\ pc = "closed" /\ pc' = "idle"
    BY <1>6 DEF Resume, Begin
  <2>2. p = << >> /\ p' = << >>
    BY <1>1, <1>6 DEF TypeOK, Resume, Begin
  <2>3. r' = r
    BY <1>1, <1>2, <2>1, ResumeRecovers
  <2>4. LogStatus # "open" /\ LogStatus' = "open"
    BY <2>1 DEF LogStatus, IsOpen
  <2> QED
    BY <2>2, <2>3, <2>4 DEF Log!Next, Log!Open
<1>7. CASE SkipLine \/ (\E line \in Lines : WriteRow(line)) \/ FlushBlockCall \/ Finish
  <2>1. /\ file' = file /\ writer' = writer /\ result' = result
        /\ pc = "idle" /\ pc' # "closed"
    BY <1>7 DEF SkipLine, WriteRow, FlushBlockCall, Finish, MayCall, medium
  <2>2. LogStatus' = LogStatus
    BY <2>1 DEF LogStatus, IsOpen
  <2> QED
    BY <1>2, <2>1, <2>2 DEF Log!vars
<1>8. CASE PushRow
  <2>1. /\ file' = file /\ pc = "push" /\ pc' # "closed"
        /\ p' = Append(p, held)
    BY <1>1, <1>8 DEF PushRow, medium, TypeOK, WriterSet, PushLine
  <2>2. held \in RowsOffered
    BY <1>1, <2>1 DEF TypeOK, CallInProgress
  <2>3. LogStatus = "open" /\ LogStatus' = "open"
    BY <2>1 DEF LogStatus, IsOpen
  <2> QED
    BY <1>2, <2>1, <2>2, <2>3 DEF Log!Next, Log!Accept
<1>9. CASE FlushInLine \/ FlushBeforeFooter \/ FlushAtEnd
  <2>1. /\ Flushing /\ ~FlushRefuses
        /\ pc \in {"room", "full", "flush", "finish"}
    BY <1>9 DEF FlushInLine, FlushBeforeFooter, FlushAtEnd, Flushing
  <2>2. IsOpen /\ ~failed /\ p # << >>
    BY <1>3, <2>1 DEF IsOpen, Flushing, IsEmptyGroup
  <2>3. file' = Append(file, Frame(NextBlock))
    <3>1. CASE FlushAtEnd
      <4>1. PICK left \in LeftBeyond(NextBlock) :
                  file' = Append(file, Frame(NextBlock)) \o left
        BY <3>1 DEF FlushAtEnd
      <4>2. left = << >> /\ Append(file, Frame(NextBlock)) \in Seq(Cell)
        BY <1>1, LeftType, FrameTypes
      <4> QED
        BY <4>1, <4>2, ConcatEmptySeq
    <3>2. CASE FlushInLine \/ FlushBeforeFooter
      BY <3>2 DEF FlushInLine, FlushBeforeFooter, WriteFrame
    <3> QED
      BY <1>9, <3>1, <3>2
  <2>4. r' = Append(r, p)
    BY <1>2, <2>1, <2>2, <2>3, OneCellMore
  <2>5. p' = << >>
    BY <1>9 DEF FlushInLine, FlushBeforeFooter, FlushAtEnd, WriteFrame, BlockDone,
                EmptyGroup, Close
  <2>6. LogStatus = "open" /\ LogStatus' \in {"open", "complete"}
    BY <1>9, <2>2 DEF LogStatus, IsOpen, FlushInLine, FlushBeforeFooter, FlushAtEnd, Close
  <2> QED
    BY <2>2, <2>4, <2>5, <2>6 DEF Log!Next, Log!Commit
<1>10. CASE NothingToFlush
  <2>1. pc = "finish" /\ p = << >>
    BY <1>10 DEF NothingToFlush, IsEmptyGroup
  <2>2. CASE sealing
    <3>1. pc' = "footer" /\ file' = file /\ writer' = writer
      BY <1>10, <2>2 DEF NothingToFlush, medium
    <3>2. LogStatus' = LogStatus
      BY <2>1, <3>1 DEF LogStatus, IsOpen
    <3> QED
      BY <1>2, <3>1, <3>2 DEF Log!vars
  <2>3. CASE ~sealing
    <3>1. file' = Contents /\ Close("ok")
      BY <1>10, <2>3, Zenon DEF NothingToFlush
    <3>2. p' = << >> /\ r' = r
      BY <1>1, <1>2, <3>1 DEF Close
    <3>3. LogStatus = "open" /\ LogStatus' = "complete"
      BY <2>1, <3>1 DEF LogStatus, IsOpen, Close
    <3> QED
      BY <2>1, <3>2, <3>3 DEF Log!Next, Log!Complete
  <2> QED
    BY <2>2, <2>3, Zenon
<1>11. CASE FlushRefused \/ WriteFails
  <2>1. /\ Flushing /\ pc \in {"room", "full", "flush", "finish"}
        /\ pc' = "idle" /\ writer' = writer
        /\ file' = file \/ file' = Append(file, Torn)
    BY <1>11 DEF FlushRefused, WriteFails, Flushing, medium
  <2>2. IsOpen /\ ~failed
    BY <1>3, <2>1 DEF IsOpen
  <2>3. r' = r
    BY <1>2, <2>1, <2>2, OneCellMore
  <2>4. LogStatus' = LogStatus
    BY <2>1 DEF LogStatus, IsOpen
  <2> QED
    BY <2>1, <2>3, <2>4 DEF Log!vars
<1>12. CASE FinishRefused \/ FinishFails \/ Stop
  <2>1. IsOpen /\ (file' = file \/ (file' = Append(file, Torn) /\ pc # "idle"))
    BY <1>1, <1>12 DEF FinishRefused, FinishFails, Stop, IsOpen, Flushing
  <2>2. r' = r
    BY <1>2, <1>3, <2>1, OneCellMore
  <2>3. pc' = "closed" /\ result' \in {"failed", "stopped"} /\ writer' = NoWriter
    BY <1>12 DEF FinishRefused, FinishFails, Stop, Close
  <2>4. LogStatus = "open" /\ LogStatus' = "closed" /\ p' = << >>
    BY <2>1, <2>3 DEF LogStatus, IsOpen
  <2> QED
    BY <2>2, <2>4 DEF Log!Next, Log!Abandon
<1>13. CASE WriteFooter
  <2>1. pc = "footer" /\ file' = Append(file, Footer(writer.metadata)) /\ Close("sealed")
    BY <1>13 DEF WriteFooter
  <2>2. IsOpen /\ ~failed /\ p = << >>
    BY <1>1, <1>3, <2>1 DEF IsOpen, CallInProgress, IsEmptyGroup
  <2>3. r' = r /\ p' = << >>
    BY <1>2, <2>1, <2>2, OneCellMore DEF Close
  <2>4. LogStatus = "open" /\ LogStatus' = "complete"
    BY <2>1 DEF LogStatus, IsOpen, Close
  <2> QED
    BY <2>2, <2>3, <2>4 DEF Log!Next, Log!Complete
<1>14. CASE Damage
  <2>1. /\ pc = "closed" /\ pc' = pc /\ result' = "none" /\ writer' = writer
    BY <1>14 DEF Damage
  <2>2. IsPrefix(r', r)
    BY <1>1, <1>2, <1>14, DamageRecovers
  <2>3. LogStatus # "open" /\ LogStatus' = "closed"
    BY <2>1 DEF LogStatus, IsOpen
  <2> QED
    BY <2>1, <2>2, <2>3 DEF Log!Next, Log!Lose, Log!IsPrefix, IsPrefix
<1>15. CASE Call
  BY <1>7, <1>8, <1>15 DEF Call
<1>16. CASE Flush
  BY <1>9, <1>10, <1>11, <1>12, <1>13, <1>16 DEF Flush
<1> QED
  BY <1>4, <1>5, <1>6, <1>12, <1>14, <1>15, <1>16 DEF Next

(* The append stream implements AppendLog, if its callers cut the file to   *)
(* resume and give up a writer that failed to write: a flush commits its    *)
(* whole group or nothing, and only damage to the medium loses a group.     *)
THEOREM StreamImplementsLog ==
    ASSUME Truncates, ~Retries PROVE Spec => LogSpec
<1>1. SyncInv /\ SyncInv' /\ [Next]_vars => [Log!Next]_(Log!vars)
  <2> SUFFICES ASSUME SyncInv, SyncInv', [Next]_vars PROVE Log!Next \/ UNCHANGED Log!vars
    OBVIOUS
  <2>1. CASE UNCHANGED vars
    BY <2>1 DEF vars, Log!vars, Contents, LogStatus, IsOpen
  <2> QED
    BY <2>1, LogStep
<1> QED
  BY <1>1, LogInit, SyncAlways, PTL DEF Spec, LogSpec, Log!Spec

-----------------------------------------------------------------------------
(* The blocks of a caller that writes the text the decoder renders. *)

LEMMA OfferedIsCanonical ==
    ASSUME CanonicalLines, NEW row \in RowsOffered
    PROVE  row.kind # "loose"
<1>1. PICK line \in Lines, i \in 1..MaxCalls : row = [line EXCEPT !.id = i]
  BY DEF RowsOffered
<1>2. line \in Line /\ line.kind # "loose"
  BY DEF CanonicalLines
<1> QED
  BY <1>1, <1>2 DEF Line

LEMMA NextBlockReadable ==
    ASSUME TypeOK, IsCanonical(writer.current.rows), ~FlushRefuses
    PROVE  /\ NextBlock \in Block /\ DecodesToRawSize(NextBlock)
           /\ Frame(NextBlock) \in Cell
           /\ Frame(NextBlock).block = NextBlock
<1>1. writer.current.rows \in Seq(Row)
  BY DEF TypeOK, WriterSet, Group
<1>2. \A i \in DOMAIN writer.current.rows :
          /\ writer.current.rows[i].kind \in {"row", "loose", "bad"}
          /\ writer.current.rows[i].kind # "loose"
          /\ writer.current.rows[i].kind # "bad"
  <2> TAKE i \in DOMAIN writer.current.rows
  <2>1. writer.current.rows[i] \in Row
    BY <1>1
  <2> QED
    BY <2>1 DEF Row, IsCanonical, FlushRefuses, IsEncodable
<1>3. NextBlock.rows = writer.current.rows
  BY DEF NextBlock
<1> QED
  BY <1>2, <1>3, NextBlockType, CellTypes DEF TypeOK, DecodesToRawSize, Frame

LEMMA ReadableLeft ==
    ASSUME TypeOK, IsReadable(beyond), NEW left \in LeftBeyond(NextBlock)
    PROVE  left \in Seq(Cell) /\ IsReadable(left)
<1>1. left = << >> \/ left = <<Torn>> \/ (beyond # << >> /\ left = Tail(beyond))
  <2>1. CASE beyond = << >>
    BY <2>1 DEF LeftBeyond
  <2>2. CASE beyond # << >>
    BY <2>2 DEF LeftBeyond
  <2> QED
    BY <2>1, <2>2
<1>2. IsReadable(<<Torn>>)
  BY ReadableCells DEF IsReadable, IsReadableCell
<1>3. beyond \in Seq(Cell) /\ left \in Seq(Cell)
  BY LeftType DEF TypeOK
<1> QED
  BY <1>1, <1>2, <1>3, ReadableCells, ReadableTail

(* One step. *)
LEMMA ReadableDamage ==
    ASSUME TypeOK, Damage, IsReadable(file)
    PROVE  IsReadable(file')
<1>1. file \in Seq(Cell)
  BY DEF TypeOK
<1>2. ASSUME NEW k \in 1..Len(file), file' = [file EXCEPT ![k] = Corrupt]
      PROVE  IsReadable(file')
  <2>1. \A i \in DOMAIN file' : i \in DOMAIN file /\ (file'[i] = file[i] \/ file'[i] = Corrupt)
    BY <1>1, <1>2
  <2>2. Corrupt.kind # "frame"
    BY DEF Corrupt
  <2> QED
    BY <2>1, <2>2 DEF IsReadable
<1>3. ASSUME NEW n \in 0..Len(file) - 1,
             file' \in {SubSeq(file, 1, n), Append(SubSeq(file, 1, n), Torn)}
      PROVE  IsReadable(file')
  <2> DEFINE part == SubSeq(file, 1, n)
  <2>1. part \in Seq(Cell) /\ IsReadable(part)
    <3>1. 1 \in 1..Len(file) + 1 /\ n \in 0..Len(file)
      BY <1>1
    <3> QED
      BY <1>1, <3>1, ReadablePart
  <2> HIDE DEF part
  <2>2. IsReadable(Append(part, Torn))
    BY <2>1, ReadableAppend, ReadableCells, CellTypes
  <2> QED
    BY <1>3, <2>1, <2>2 DEF part
<1> QED
  BY <1>2, <1>3 DEF Damage

LEMMA ReadableStep ==
    ASSUME SyncInv, CanonicalLines, ReadableInv, [Next]_vars
    PROVE  ReadableInv'
<1>1. /\ IsReadable(file) /\ IsReadable(beyond) /\ IsCanonical(writer.current.rows)
      /\ TypeOK /\ file \in Seq(Cell) /\ beyond \in Seq(Cell)
      /\ writer.current.rows \in Seq(Row)
  BY DEF ReadableInv, SyncInv, TypeOK, WriterSet, Group
<1> DEFINE Goal == IsReadable(file') /\ IsReadable(beyond') /\ IsCanonical(writer'.current.rows)
<1>2. IsCanonical(<< >>)
  BY DEF IsCanonical
<1>3. IsReadable(Contents)
  BY <1>1, ReadableJoin DEF Contents
<1>4. IsReadable(Append(file, Torn)) /\ IsReadable(Append(file, Footer(writer.metadata)))
  <2>1. writer.metadata \in Seq(EntrySet)
    BY <1>1 DEF TypeOK, WriterSet
  <2> QED
    BY <1>1, <2>1, ReadableAppend, ReadableCells, CellTypes
<1>5. ~FlushRefuses =>
          /\ Append(file, Frame(NextBlock)) \in Seq(Cell)
          /\ IsReadable(Append(file, Frame(NextBlock)))
  <2>1. SUFFICES ASSUME ~FlushRefuses
                 PROVE  /\ Append(file, Frame(NextBlock)) \in Seq(Cell)
                        /\ IsReadable(Append(file, Frame(NextBlock)))
    OBVIOUS
  <2>2. /\ DecodesToRawSize(NextBlock) /\ Frame(NextBlock) \in Cell
        /\ Frame(NextBlock).block = NextBlock
    BY <1>1, <2>1, NextBlockReadable
  <2>3. IsReadableCell(Frame(NextBlock))
    BY <2>2 DEF IsReadableCell
  <2> QED
    BY <1>1, <2>2, <2>3, ReadableAppend, FrameTypes
<1>6. ASSUME NEW how, Close(how) PROVE IsReadable(beyond') /\ IsCanonical(writer'.current.rows)
  BY <1>2, <1>6, ReadableCells, NothingPending DEF Close
<1>7. CASE UNCHANGED vars
  BY <1>1, <1>7 DEF vars, ReadableInv
<1>8. CASE Create
  <2>1. file' = <<Header>> /\ beyond' = << >> /\ writer' = NewWriter(0, 0)
    BY <1>8 DEF Create, Begin
  <2>2. IsReadable(<<Header>>)
    BY ReadableCells DEF IsReadable, IsReadableCell
  <2> QED
    BY <1>2, <2>1, <2>2, ReadableCells, NothingPending DEF ReadableInv
<1>9. CASE CreateFails
  <2>1. (file' = << >> \/ file' = <<Torn>>) /\ beyond' = beyond /\ writer' = writer
    BY <1>9 DEF CreateFails
  <2>2. IsReadable(<<Torn>>)
    BY ReadableCells DEF IsReadable, IsReadableCell
  <2> QED
    BY <1>1, <2>1, <2>2, ReadableCells DEF ReadableInv
<1>10. CASE Resume
  <2> DEFINE v == ValidLen(file)
  <2>1. v \in 0..Len(file) /\ 1 \in 1..Len(file) + 1 /\ v + 1 \in 1..Len(file) + 1
        /\ Len(file) \in 0..Len(file)
    BY <1>1, ValidLenIs
  <2>2. /\ file' = SubSeq(file, 1, v)
        /\ beyond' = << >> \/ beyond' = SubSeq(file, v + 1, Len(file))
        /\ writer'.current.rows = << >>
    BY <1>10, NothingPending DEF Resume, Begin, ValidPrefix
  <2> HIDE DEF v
  <2>3. IsReadable(SubSeq(file, 1, v)) /\ IsReadable(SubSeq(file, v + 1, Len(file)))
    BY <1>1, <2>1, ReadablePart
  <2> QED
    BY <1>2, <2>2, <2>3, ReadableCells DEF ReadableInv
<1>11. CASE PushRow
  <2> DEFINE rows == writer.current.rows
             more == Append(rows, held)
  <2>1. held \in RowsOffered
    BY <1>11 DEF PushRow, SyncInv, TypeOK, CallInProgress
  <2>2. UNCHANGED medium /\ writer'.current.rows = more
    BY <1>1, <1>11 DEF PushRow, PushLine, TypeOK, WriterSet
  <2>3. held.kind # "loose"
    BY <2>1, OfferedIsCanonical
  <2>4. IsCanonical(more)
    <3>1. \A i \in DOMAIN more : more[i] = held \/ (i \in DOMAIN rows /\ more[i] = rows[i])
      BY ONLY <1>1
    <3> HIDE DEF more, rows
    <3>2. \A i \in DOMAIN more : more[i].kind # "loose"
      BY <1>1, <2>3, <3>1 DEF IsCanonical, rows
    <3> QED
      BY <3>2 DEF IsCanonical
  <2> HIDE DEF more, rows
  <2> QED
    BY <1>1, <2>2, <2>4 DEF medium, ReadableInv
<1>12. CASE Call /\ ~PushRow
  <2>1. UNCHANGED <<file, beyond, writer>>
    BY <1>12 DEF Call, SkipLine, WriteRow, FlushBlockCall, Finish, medium
  <2> QED
    BY <1>1, <2>1 DEF ReadableInv
<1>13. CASE FlushInLine \/ FlushBeforeFooter
  <2>1. WriteFrame /\ ~FlushRefuses
    BY <1>13 DEF FlushInLine, FlushBeforeFooter
  <2>2. /\ file' = Append(file, Frame(NextBlock))
        /\ beyond' \in LeftBeyond(NextBlock)
        /\ writer'.current.rows = << >>
    BY <2>1 DEF WriteFrame, BlockDone, EmptyGroup
  <2> QED
    BY <1>1, <1>2, <1>5, <2>1, <2>2, ReadableLeft DEF ReadableInv
<1>14. CASE FlushAtEnd
  <2>1. PICK left \in LeftBeyond(NextBlock) : file' = Append(file, Frame(NextBlock)) \o left
    BY <1>14 DEF FlushAtEnd
  <2>2. IsReadable(left) /\ left \in Seq(Cell)
    BY <1>1, ReadableLeft
  <2>3. ~FlushRefuses /\ Close("ok")
    BY <1>14 DEF FlushAtEnd
  <2>4. IsReadable(file')
    BY <1>5, <2>1, <2>2, <2>3, ReadableJoin
  <2> QED
    BY <1>6, <2>3, <2>4 DEF ReadableInv
<1>15. CASE NothingToFlush \/ FlushRefused \/ WriteFails
  <2>1. \/ UNCHANGED <<file, beyond, writer>>
        \/ file' = Append(file, Torn) /\ beyond' = << >> /\ writer' = writer
        \/ file' = Contents /\ Close("ok")
    BY <1>15 DEF NothingToFlush, FlushRefused, WriteFails, medium
  <2> QED
    BY <1>1, <1>3, <1>4, <1>6, <2>1, ReadableCells DEF ReadableInv
<1>16. CASE FinishRefused \/ FinishFails \/ WriteFooter \/ Stop
  <2>1. /\ \E how : Close(how)
        /\ \/ file' = Contents
           \/ file' = Append(file, Torn)
           \/ file' = Append(file, Footer(writer.metadata))
    BY <1>16 DEF FinishRefused, FinishFails, WriteFooter, Stop
  <2> QED
    BY <1>3, <1>4, <1>6, <2>1 DEF ReadableInv
<1>17. CASE Damage
  <2>1. beyond' = beyond /\ writer' = writer
    BY <1>17 DEF Damage
  <2> QED
    BY <1>1, <1>17, <2>1, ReadableDamage DEF ReadableInv
<1> QED
  BY <1>7, <1>8, <1>9, <1>10, <1>11, <1>12, <1>13, <1>14, <1>15, <1>16, <1>17 DEF Next, Flush

-----------------------------------------------------------------------------
(* finish returned Ok: everything is in the file. *)

Committed ==
    /\ FlattenSeq(Recovered(file)) \o writer.current.rows = FlattenSeq(opened) \o accepted
    /\ sealing => opened = << >> /\ EntriesMatch

LEMMA SyncTypes ==
    ASSUME SyncInv
    PROVE  /\ file \in Seq(Cell) /\ writer \in WriterSet
           /\ writer.current.rows \in Seq(Row) /\ writer.metadata \in Seq(EntrySet)
           /\ opened \in Seq(Seq(Row)) /\ accepted \in Seq(Row)
           /\ Recovered(file) \in Seq(Seq(Row))
           /\ FlattenSeq(Recovered(file)) \in Seq(Row)
           /\ FlattenSeq(opened) \in Seq(Row)
<1>1. /\ file \in Seq(Cell) /\ writer \in WriterSet
      /\ writer.current.rows \in Seq(Row) /\ writer.metadata \in Seq(EntrySet)
      /\ opened \in Seq(Seq(Row)) /\ accepted \in Seq(Row)
  BY DEF SyncInv, TypeOK, WriterSet, Group
<1>2. Recovered(file) \in Seq(Seq(Row))
  BY <1>1, RecoveredIs
<1> QED
  BY <1>1, <1>2, FlattenUnfolds

LEMMA FrameCommits ==
    ASSUME SyncInv, IsOpen, ~failed, Committed, ~FlushRefuses
    PROVE  FlattenSeq(Recovered(Append(file, Frame(NextBlock)))) = FlattenSeq(opened) \o accepted
<1> DEFINE groups == Recovered(file)
           rows == writer.current.rows
<1>1. groups \in Seq(Seq(Row)) /\ rows \in Seq(Row)
  BY SyncTypes
<1>2. Recovered(Append(file, Frame(NextBlock))) = Append(groups, rows)
  BY OneCellMore
<1>4. FlattenSeq(Append(groups, rows)) = FlattenSeq(groups) \o rows
  BY <1>1, FlattenUnfolds
<1> QED
  BY <1>2, <1>4 DEF Committed

LEMMA FrameMatches ==
    ASSUME SyncInv, IsOpen, ~failed, EntriesMatch, WriteFrame
    PROVE  EntriesMatch'
<1> DEFINE n == Len(file)
           e == Entry(NextBlock, writer.bytes_written)
           cells == Append(file, Frame(NextBlock))
           entries == Append(writer.metadata, e)
<1>1. /\ file' = cells /\ writer'.metadata = entries
  BY DEF WriteFrame, BlockDone
<1>2. /\ file \in Seq(Cell) /\ writer.metadata \in Seq(EntrySet) /\ writer \in WriterSet
  BY SyncTypes
<1>3. /\ NextBlock \in Block /\ Frame(NextBlock) \in Cell
      /\ Frame(NextBlock).block = NextBlock
      /\ NextBlock.first = writer.rows_written
  <2>1. NextBlock \in Block /\ Frame(NextBlock) \in Cell
    BY <1>2, NextBlockType, CellTypes
  <2> QED
    BY <2>1 DEF Frame, NextBlock
<1>4. /\ Len(writer.metadata) = n - 1 /\ n \in Nat /\ n >= 1
      /\ \A k \in 1..n - 1 :
             writer.metadata[k] = Entry(file[k + 1].block,
                                        HeaderLen + (k - 1) + file[k + 1].block.first)
  BY <1>2 DEF EntriesMatch
<1>5. /\ writer.bytes_written = HeaderLen + writer.blocks_written + writer.rows_written
      /\ writer.blocks_written = n - 1
  BY DEF SyncInv, SessionInSync
<1>6. e \in EntrySet
  <2>1. writer'.metadata \in Seq(EntrySet)
    BY <1>2, NextBlockType DEF WriteFrame, WriterSet
  <2>2. writer.bytes_written \in Nat /\ Len(NextBlock.rows) \in Nat
        /\ FrameLen(NextBlock) \in Nat /\ NextBlock.index \in Nat
    <3>1. NextBlock.rows \in Seq(Row) /\ NextBlock.index \in Nat
      BY <1>3 DEF Block
    <3>2. Len(NextBlock.rows) \in Nat
      BY <3>1
    <3> QED
      BY <1>2, <3>1, <3>2 DEF FrameLen, WriterSet
  <2> QED
    BY <1>3, <2>2 DEF Entry, EntrySet
<1>7. /\ Len(cells) = n + 1 /\ cells[n + 1] = Frame(NextBlock)
      /\ \A i \in 1..n : cells[i] = file[i]
      /\ Len(entries) = n /\ entries[n] = e
      /\ \A k \in 1..n - 1 : entries[k] = writer.metadata[k]
  <2> HIDE DEF e
  <2> QED
    BY <1>2, <1>3, <1>4, <1>6
<1>8. e = Entry(cells[n + 1].block, HeaderLen + (n - 1) + cells[n + 1].block.first)
  BY <1>3, <1>5, <1>7
<1> HIDE DEF cells, entries, e, n
<1>9. \A k \in 1..n :
          entries[k] = Entry(cells[k + 1].block, HeaderLen + (k - 1) + cells[k + 1].block.first)
  <2> TAKE k \in 1..n
  <2>1. CASE k = n
    BY <1>7, <1>8, <2>1
  <2>2. CASE k # n
    <3>1. k \in 1..n - 1 /\ k + 1 \in 1..n
      BY <1>4, <2>2
    <3> QED
      BY <1>4, <1>7, <3>1
  <2> QED
    BY <2>1, <2>2
<1>10. /\ Len(entries) = Len(cells) - 1
       /\ \A k \in 1..Len(cells) - 1 :
             entries[k] = Entry(cells[k + 1].block,
                                HeaderLen + (k - 1) + cells[k + 1].block.first)
  <2>1. Len(cells) - 1 = n
    BY <1>4, <1>7
  <2> QED
    BY <1>7, <1>9, <2>1
<1> QED
  BY <1>1, <1>10 DEF EntriesMatch

LEMMA PushCommits ==
    ASSUME SyncInv, Committed, PushRow
    PROVE  Committed'
<1> DEFINE stored == FlattenSeq(Recovered(file))
           found == FlattenSeq(opened)
           rows == writer.current.rows
           more == Append(rows, held)
           all == Append(accepted, held)
<1>1. /\ stored \in Seq(Row) /\ found \in Seq(Row) /\ rows \in Seq(Row)
      /\ accepted \in Seq(Row)
  BY SyncTypes
<1>2. held \in Row
  BY DEF SyncInv, TypeOK, PushRow
<1>3. /\ file' = file /\ opened' = opened /\ sealing' = sealing
      /\ accepted' = all
      /\ writer'.current.rows = more
      /\ writer'.metadata = writer.metadata
  BY SyncTypes DEF PushRow, PushLine, medium, WriterSet
<1>4. stored \o rows = found \o accepted
  BY DEF Committed
<1>5. stored' = stored /\ found' = found
  BY <1>3
<1> HIDE DEF stored, found, rows
<1>6. stored \o more = Append(stored \o rows, held) /\ found \o all = Append(found \o accepted, held)
  BY <1>1, <1>2
<1>7. (sealing => opened = << >> /\ EntriesMatch)'
  BY <1>3 DEF Committed, EntriesMatch
<1>8. (FlattenSeq(Recovered(file)) \o writer.current.rows = FlattenSeq(opened) \o accepted)'
  <2>1. FlattenSeq(Recovered(file))' = stored /\ FlattenSeq(opened)' = found
    BY <1>5 DEF stored, found
  <2> QED
    BY <1>3, <1>4, <1>6, <2>1
<1> QED
  BY <1>7, <1>8 DEF Committed

LEMMA CommittedStep ==
    ASSUME SyncInv, SyncInv', Truncates, ~Retries, CommittedInv, [Next]_vars
    PROVE  CommittedInv'
<1> SUFFICES ASSUME IsOpen', ~failed'
             PROVE  Committed'
  BY DEF CommittedInv, Committed
<1>1. CASE UNCHANGED <<file, writer, opened, accepted, sealing, failed>> /\ IsOpen
  <2>1. Committed
    BY <1>1 DEF CommittedInv, Committed
  <2> QED
    BY <1>1, <2>1 DEF Committed, EntriesMatch
<1>2. CASE UNCHANGED vars
  BY <1>1, <1>2 DEF vars, IsOpen
<1>3. CASE Create
  <2>1. /\ file' = <<Header>> /\ opened' = << >> /\ accepted' = << >>
        /\ writer' = NewWriter(0, 0)
    BY <1>3 DEF Create, Begin
  <2>2. writer'.current.rows = << >> /\ writer'.metadata = << >>
    BY <2>1 DEF NewWriter, EmptyGroup
  <2>3. Recovered(file') = << >>
    BY <2>1, HeaderRecovers
  <2>4. EntriesMatch'
    BY <2>1, <2>2 DEF EntriesMatch
  <2> QED
    BY <2>1, <2>2, <2>3, <2>4 DEF Committed
<1>4. CASE Resume
  <2>1. /\ file' = ValidPrefix(file) /\ opened' = Recovered(file)
        /\ accepted' = << >> /\ writer'.current.rows = << >>
        /\ ~sealing' /\ ValidLen(file) > 0
    BY <1>4, NothingPending DEF Resume, Begin
  <2>2. Recovered(file') = opened'
    BY <2>1, SyncTypes, ResumeRecovers
  <2> QED
    BY <2>1, <2>2 DEF Committed
<1>5. CASE PushRow
  <2>1. IsOpen /\ failed' = failed
    BY <1>5 DEF PushRow, IsOpen
  <2> QED
    BY <1>5, <2>1, PushCommits DEF CommittedInv, Committed
<1>6. CASE Call /\ ~PushRow
  <2>1. UNCHANGED <<file, writer, opened, accepted, sealing, failed>> /\ IsOpen
    BY <1>6 DEF Call, SkipLine, WriteRow, FlushBlockCall, Finish, medium, history,
                MayCall, IsOpen
  <2> QED
    BY <1>1, <2>1
<1>7. CASE FlushInLine \/ FlushBeforeFooter
  <2>1. /\ WriteFrame /\ ~FlushRefuses /\ IsOpen
        /\ UNCHANGED <<sealing, failed, history>>
    BY <1>7 DEF FlushInLine, FlushBeforeFooter, Flushing, IsOpen
  <2>2. Committed
    BY <2>1 DEF CommittedInv, Committed
  <2>3. /\ FlattenSeq(Recovered(file')) = FlattenSeq(opened) \o accepted
        /\ FlattenSeq(Recovered(file')) \in Seq(Row)
    <3>1. file' = Append(file, Frame(NextBlock))
      BY <2>1 DEF WriteFrame
    <3>2. FlattenSeq(Recovered(file')) = FlattenSeq(opened) \o accepted
      BY <2>1, <2>2, <3>1, FrameCommits
    <3> QED
      BY <3>2, SyncTypes
  <2>4. writer'.current.rows = << >>
    BY <2>1 DEF WriteFrame, BlockDone, EmptyGroup
  <2>5. sealing' => opened' = << >> /\ EntriesMatch'
    BY <2>1, <2>2, FrameMatches DEF Committed, history
  <2>6. FlattenSeq(Recovered(file')) \o writer'.current.rows = FlattenSeq(opened') \o accepted'
    <3> DEFINE s == FlattenSeq(Recovered(file'))
    <3>1. opened' = opened /\ accepted' = accepted
      BY <2>1 DEF history
    <3>2. s \in Seq(Row) /\ s = FlattenSeq(opened) \o accepted
      BY <2>3
    <3> HIDE DEF s
    <3>3. s \o << >> = s
      BY <3>2
    <3> QED
      BY <2>4, <3>1, <3>2, <3>3 DEF s
  <2> QED
    BY <2>5, <2>6 DEF Committed
<1>8. CASE NothingToFlush \/ FlushRefused
  <2>1. IsOpen
    BY <1>8 DEF NothingToFlush, FlushRefused, Flushing, IsOpen
  <2>2. UNCHANGED <<file, writer, opened, accepted, sealing, failed>>
    BY <1>8 DEF NothingToFlush, FlushRefused, Close, medium, history, IsOpen
  <2> QED
    BY <1>1, <2>1, <2>2
<1>9. CASE FlushAtEnd \/ FinishRefused \/ FinishFails \/ WriteFooter \/ Stop
  <2>1. \E how : Close(how)
    BY <1>9 DEF FlushAtEnd, FinishRefused, FinishFails, WriteFooter, Stop
  <2> QED
    BY <2>1 DEF Close, IsOpen
<1>10. CASE CreateFails \/ WriteFails \/ Damage
  BY <1>10 DEF CreateFails, WriteFails, Damage, IsOpen
<1> QED
  BY <1>2, <1>3, <1>4, <1>5, <1>6, <1>7, <1>8, <1>9, <1>10 DEF Next, Flush

LEMMA ResultStep ==
    ASSUME NoResultYet, [Next]_vars
    PROVE  NoResultYet'
<1>1. CASE UNCHANGED vars
  BY <1>1 DEF vars, NoResultYet, IsOpen
<1>2. CASE Create \/ Resume
  BY <1>2 DEF Create, Resume, Begin, NoResultYet
<1>3. CASE CreateFails \/ Damage
  BY <1>3 DEF CreateFails, Damage, NoResultYet, IsOpen
<1>4. CASE Call
  BY <1>4 DEF Call, SkipLine, WriteRow, PushRow, FlushBlockCall, Finish, MayCall,
              NoResultYet, IsOpen
<1>5. CASE FlushAtEnd \/ FinishRefused \/ FinishFails \/ WriteFooter \/ Stop
  BY <1>5 DEF FlushAtEnd, FinishRefused, FinishFails, WriteFooter, Stop, Close,
              NoResultYet, IsOpen
<1>6. CASE FlushInLine \/ FlushBeforeFooter \/ FlushRefused \/ WriteFails
  BY <1>6 DEF FlushInLine, FlushBeforeFooter, FlushRefused, WriteFails, Flushing,
              NoResultYet, IsOpen
<1>7. CASE NothingToFlush
  BY <1>7 DEF NothingToFlush, Close, NoResultYet, IsOpen
<1> QED
  BY <1>1, <1>2, <1>3, <1>4, <1>5, <1>6, <1>7 DEF Next, Flush

LEMMA AllThere ==
    ASSUME SyncInv, Committed, IsEmptyGroup(writer.current)
    PROVE  FlattenSeq(Recovered(file)) = FlattenSeq(opened) \o accepted
<1> DEFINE stored == FlattenSeq(Recovered(file))
<1>1. stored \in Seq(Row)
  BY SyncTypes
<1>2. writer.current.rows = << >>
  BY DEF IsEmptyGroup
<1>3. stored \o writer.current.rows = FlattenSeq(opened) \o accepted
  BY DEF Committed
<1> HIDE DEF stored
<1>4. stored \o << >> = stored
  BY <1>1
<1> QED
  BY <1>2, <1>3, <1>4 DEF stored

(* The footer of a session that sealed makes the file decodable. *)
LEMMA SealedDecodes ==
    ASSUME SyncInv, IsOpen, ~failed, Committed, IsReadable(file), sealing,
           IsEmptyGroup(writer.current)
    PROVE  LET whole == Append(file, Footer(writer.metadata))
           IN  /\ whole \in Seq(Cell)
               /\ IsDecodable(whole)
               /\ SequentialDecode(whole).rows = accepted
<1> DEFINE n == Len(file)
           index == writer.metadata
           whole == Append(file, Footer(index))
           r == ReaderAfter(file, n)
<1>1. /\ file \in Seq(Cell) /\ index \in Seq(EntrySet) /\ accepted \in Seq(Row)
  BY SyncTypes
<1>2. file # << >> /\ IsValidLen(file, n)
  BY DEF SyncInv, SessionInSync
<1>3. n \in Nat /\ n >= 1
  BY <1>1, <1>2
<1>4. Footer(index) \in Cell
  BY <1>1, CellTypes
<1> DEFINE foot == Footer(index)
<1>5. /\ whole \in Seq(Cell) /\ Len(whole) = n + 1 /\ whole[n + 1] = foot
      /\ \A i \in 1..n : whole[i] = file[i]
  <2> HIDE DEF foot
  <2> QED
    BY <1>1, <1>4 DEF foot
<1>6. ReadsTo(file, n)
  BY <1>1, <1>2, ReadsValid
<1>7. /\ r \in Reader /\ r.status = "reading" /\ Len(r.entries) = n - 1
      /\ \A k \in 1..n - 1 : r.entries[k] = EntryAt(file, k)
      /\ r.rows = FlattenSeq(Groups(file, n))
      /\ r.entries \in Seq(EntrySet)
  BY <1>6 DEF ReadsTo, Reader
<1>8. /\ opened = << >>
      /\ Len(index) = n - 1
      /\ \A k \in 1..n - 1 : index[k] = EntryAt(file, k)
  BY DEF Committed, EntriesMatch, EntryAt
<1> HIDE DEF r, whole, index, n, foot
<1>9. r.entries = index
  <2> DEFINE es == r.entries
  <2>1. es \in Seq(EntrySet) /\ Len(es) = Len(index)
        /\ \A k \in 1..Len(es) : es[k] = index[k]
    BY <1>7, <1>8
  <2> HIDE DEF es
  <2>2. es = index
    BY <1>1, <2>1, SeqEqual
  <2> QED
    BY <2>2 DEF es
<1>10. Len(index) <= MaxStreamBlocks
  <2>1. CASE n = 1
    BY <1>8, <2>1
  <2>2. CASE n # 1
    <3>1. n \in 1..n /\ n \in Nat
      BY <1>3
    <3>2. FollowsOn(file, n)
      BY <1>2, <3>1 DEF IsValidLen
    <3>3. n - 2 < MaxStreamBlocks
      BY <2>2, <3>2 DEF FollowsOn
    <3> QED
      BY <1>3, <1>8, <3>3
  <2> QED
    BY <2>1, <2>2
<1>11. whole[1] = Header
  <2>1. 1 \in 1..n
    BY <1>3
  <2>2. FollowsOn(file, 1)
    BY <1>2, <2>1 DEF IsValidLen
  <2> QED
    BY <1>5, <2>1, <2>2 DEF FollowsOn
<1>12. ReaderAfter(whole, n) = r
  <2>1. SubSeq(whole, 2, n) = SubSeq(file, 2, n)
    <3>1. \A i \in 2..n : whole[i] = file[i]
      BY <1>3, <1>5
    <3>2. SubSeq(whole, 2, n) = [i \in 1..n - 1 |-> whole[2 + i - 1]]
          /\ SubSeq(file, 2, n) = [i \in 1..n - 1 |-> file[2 + i - 1]]
      BY <1>3
    <3>3. \A i \in 1..n - 1 : whole[2 + i - 1] = file[2 + i - 1]
      BY <1>3, <3>1
    <3> QED
      BY <3>2, <3>3
  <2> QED
    BY <2>1, Zenon DEF ReaderAfter, r
<1>13. n = Len(whole) - 1 /\ Len(whole) >= 2 /\ whole[Len(whole)] = Footer(index)
  BY <1>3, <1>5 DEF foot
<1>14. /\ ReaderAfter(whole, Len(whole) - 1).status = "reading"
       /\ ReaderAfter(whole, Len(whole) - 1).entries = index
       /\ ReaderAfter(whole, Len(whole) - 1).rows = r.rows
  BY <1>7, <1>9, <1>12, <1>13
<1>15. IsDecodable(whole) /\ SequentialDecode(whole).rows = r.rows
  BY <1>1, <1>5, <1>10, <1>11, <1>13, <1>14, ReadFooter
<1>16. r.rows = accepted
  <2>1. n \in 0..Len(file)
    BY <1>3 DEF n
  <2>2. ValidLen(file) = n
    BY <1>1, <1>2, <2>1, ValidLenUnique
  <2>3. Groups(file, n) = Recovered(file)
    BY <2>2 DEF Groups, Recovered
  <2>4. FlattenSeq(Recovered(file)) = FlattenSeq(opened) \o accepted
    BY AllThere
  <2>5. FlattenSeq(opened) = << >>
    BY <1>8, FlattenUnfolds, Zenon
  <2>6. << >> \o accepted = accepted
    BY <1>1
  <2> QED
    BY <1>7, <2>3, <2>4, <2>5, <2>6
<1> QED
  BY <1>5, <1>15, <1>16 DEF whole, index

LEMMA FinishedStep ==
    ASSUME SyncInv, SyncInv', RowsInv, FinishedIsAllThere,
           CanonicalLines, Truncates, ~Retries, [Next]_vars
    PROVE  FinishedIsAllThere'
<1>1. CASE UNCHANGED vars
  BY <1>1 DEF vars, FinishedIsAllThere
<1>2. CASE result' \notin {"ok", "sealed"}
  BY <1>2 DEF FinishedIsAllThere
<1>3. CASE Create \/ CreateFails \/ Resume \/ Damage \/ FinishRefused \/ FinishFails \/ Stop
  <2>1. result' \in {"none", "failed", "stopped"}
    BY <1>3 DEF Create, CreateFails, Resume, Begin, Damage, FinishRefused, FinishFails,
                Stop, Close
  <2> QED
    BY <1>2, <2>1
<1>4. CASE IsOpen /\ result' = result
  <2>1. result' = "none"
    BY <1>4 DEF RowsInv, NoResultYet
  <2> QED
    BY <1>2, <2>1
<1>5. CASE Call \/ FlushInLine \/ FlushBeforeFooter \/ FlushRefused \/ WriteFails
  <2>1. IsOpen /\ result' = result
    BY <1>5 DEF Call, SkipLine, WriteRow, PushRow, FlushBlockCall, Finish, MayCall,
                FlushInLine, FlushBeforeFooter, FlushRefused, WriteFails, Flushing, IsOpen
  <2> QED
    BY <1>4, <2>1
<1>6. ASSUME pc \in {"finish", "footer"}
      PROVE  Committed /\ ~failed /\ IsOpen /\ beyond = << >>
  BY <1>6 DEF SyncInv, CallInProgress, RowsInv, CommittedInv, Committed, IsOpen
<1>7. CASE FlushAtEnd
  <2>1. PICK left \in LeftBeyond(NextBlock) : file' = Append(file, Frame(NextBlock)) \o left
    BY <1>7 DEF FlushAtEnd
  <2>2. /\ pc = "finish" /\ ~FlushRefuses /\ result' = "ok"
        /\ opened' = opened /\ accepted' = accepted
    BY <1>7 DEF FlushAtEnd, Close, history
  <2>3. file' = Append(file, Frame(NextBlock))
    <3> DEFINE longer == Append(file, Frame(NextBlock))
    <3>1. left = << >>
      BY <1>6, <2>2, LeftType DEF SyncInv
    <3>2. longer \in Seq(Cell)
      BY FrameTypes DEF SyncInv
    <3> HIDE DEF longer
    <3>3. longer \o << >> = longer
      BY <3>2
    <3> QED
      BY <2>1, <3>1, <3>3 DEF longer
  <2>4. FlattenSeq(Recovered(file')) = FlattenSeq(opened') \o accepted'
    BY <1>6, <2>2, <2>3, FrameCommits
  <2> QED
    BY <2>2, <2>4 DEF FinishedIsAllThere
<1>8. CASE NothingToFlush
  <2>1. CASE sealing
    <3>1. pc = "finish" /\ result' = result
      BY <1>8, <2>1 DEF NothingToFlush
    <3> QED
      BY <1>4, <3>1 DEF IsOpen
  <2>2. CASE ~sealing
    <3>1. /\ pc = "finish" /\ file' = Contents /\ IsEmptyGroup(writer.current)
          /\ opened' = opened /\ accepted' = accepted /\ result' = "ok"
      BY <1>8, <2>2 DEF NothingToFlush, Close, history
    <3>2. file' = file
      BY <1>6, <3>1, ContentsType DEF SyncInv
    <3>3. FlattenSeq(Recovered(file')) = FlattenSeq(opened') \o accepted'
      BY <1>6, <3>1, <3>2, AllThere
    <3> QED
      BY <3>1, <3>3 DEF FinishedIsAllThere
  <2> QED
    BY <2>1, <2>2
<1>9. CASE WriteFooter
  <2>1. /\ pc = "footer" /\ file' = Append(file, Footer(writer.metadata))
        /\ opened' = opened /\ accepted' = accepted
    BY <1>9 DEF WriteFooter, history
  <2>2. sealing /\ IsEmptyGroup(writer.current)
    BY <2>1 DEF SyncInv, CallInProgress
  <2>3. IsReadable(file)
    BY DEF RowsInv, ReadableInv
  <2>4. IsDecodable(file') /\ SequentialDecode(file').rows = accepted'
    BY <1>6, <2>1, <2>2, <2>3, SealedDecodes
  <2>5. Recovered(file') = Recovered(file)
    BY <1>6, <2>1, OneCellMore
  <2>6. FlattenSeq(Recovered(file')) = FlattenSeq(opened') \o accepted'
    BY <1>6, <2>1, <2>2, <2>5, AllThere
  <2> QED
    BY <2>4, <2>6 DEF FinishedIsAllThere
<1> QED
  BY <1>1, <1>3, <1>5, <1>7, <1>8, <1>9 DEF Next, Flush

LEMMA RowsStep ==
    ASSUME SyncInv, SyncInv', RowsInv, [Next]_vars
    PROVE  RowsInv'
<1>1. ReadableInv'
  <2>1. CASE CanonicalLines
    BY <2>1, ReadableStep DEF RowsInv
  <2>2. CASE ~CanonicalLines
    BY <2>2 DEF ReadableInv
  <2> QED
    BY <2>1, <2>2
<1>2. CommittedInv'
  <2>1. CASE Truncates /\ ~Retries
    BY <2>1, CommittedStep DEF RowsInv
  <2>2. CASE ~(Truncates /\ ~Retries)
    BY <2>2 DEF CommittedInv
  <2> QED
    BY <2>1, <2>2
<1>3. NoResultYet'
  BY ResultStep DEF RowsInv
<1> QED
  BY <1>1, <1>2, <1>3 DEF RowsInv

LEMMA RowsInit == Init => RowsInv
<1>1. IsCanonical(<< >>) /\ IsReadable(<< >>)
  BY ReadableCells DEF IsCanonical
<1> QED
  BY <1>1, NothingPending DEF Init, RowsInv, ReadableInv, CommittedInv, NoResultYet, IsOpen

(* The whole inductive invariant: the writer in sync with recovery, blocks  *)
(* the reader can decode, no row and no index entry lost on the way.        *)
THEOREM AppendInvariant == Spec => []IInv
<1>1. SyncInv /\ SyncInv' /\ RowsInv /\ [Next]_vars => RowsInv'
  BY RowsStep
<1>2. IInv <=> SyncInv /\ RowsInv
  BY DEF IInv
<1> QED
  BY <1>1, <1>2, RowsInit, SyncAlways, PTL DEF Spec

(* finish and finish_without_footer: once Ok came back, recovery finds the  *)
(* rows found at the start and behind them, in order, every row pushed since*)
(* and a sealed file decodes to them.  A caller has to write rendered text, *)
(* cut the file at valid_len and drop a writer that failed to write.        *)
THEOREM FinishLosesNothing ==
    ASSUME CanonicalLines, Truncates, ~Retries PROVE Spec => []FinishedIsAllThere
<1>1. Init => FinishedIsAllThere
  BY DEF Init, FinishedIsAllThere
<1>2. SyncInv /\ SyncInv' /\ RowsInv /\ FinishedIsAllThere /\ [Next]_vars
          => FinishedIsAllThere'
  BY FinishedStep
<1>3. IInv <=> SyncInv /\ RowsInv
  BY DEF IInv
<1> QED
  BY <1>1, <1>2, <1>3, AppendInvariant, PTL DEF Spec

(* replay_jsonl_append_stream: whatever the sessions, the failures, the     *)
(* damages, the old bytes left behind a resumed writer, the reader gets     *)
(* through the recovered prefix and yields exactly the rows recovery counts;*)
(* it needs a caller that writes lines in the text the decoder renders.     *)
THEOREM ReplayReadsWhatRecoveryKeeps ==
    ASSUME CanonicalLines PROVE Spec => []ReplayReadsRecovered
<1>1. IInv => ReplayReadsRecovered
  <2> SUFFICES ASSUME IInv, ValidLen(Contents) > 0
               PROVE  /\ Replay(Contents).status = "reading"
                      /\ Replay(Contents).rows = FlattenSeq(Recovered(Contents))
    BY Zenon DEF ReplayReadsRecovered
  <2>1. IsReadable(file) /\ IsReadable(beyond) /\ file \in Seq(Cell) /\ beyond \in Seq(Cell)
    BY DEF IInv, RowsInv, ReadableInv, SyncInv, TypeOK
  <2>2. Contents \in Seq(Cell) /\ IsReadable(Contents)
    BY <2>1, ReadableJoin DEF Contents
  <2> QED
    BY <2>2, ReplayReads
<1> QED
  BY <1>1, AppendInvariant, PTL
=============================================================================
