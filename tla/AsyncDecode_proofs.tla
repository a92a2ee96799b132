------------------------- MODULE AsyncDecode_proofs --------------------------
(***************************************************************************)
(* The safety of the async decoder, for any batch size, any files, any sink *)
(* and any moment at which its future is dropped: it accepts what the       *)
(* sequential decoder accepts, a failure costs exactly the batch it is in,  *)
(* and it is a decoder in the sense of StreamDecoder.                       *)
(***************************************************************************)
EXTENDS AsyncDecode, Cmp2File_proofs

LEMMA FileType ==
    ASSUME TypeOK
    PROVE  /\ file \in Seq(Cell) /\ Len(file) \in Nat
           /\ scan.entries \in Seq(EntrySet) /\ Scanned \in Nat
           /\ batch \in Seq(Block) /\ Len(batch) \in Nat
           /\ scan \in Reader
BY FilesAssumption DEF TypeOK, Reader, Scanned

-----------------------------------------------------------------------------
(* Batches. *)

LEMMA FullBatches ==
    ASSUME NEW a \in Nat, a % Workers = 0
    PROVE  (a + Workers) % Workers = 0
<1> USE WorkersAssumption
<1>1. \A q \in Nat : (q * Workers) % Workers = 0
  OBVIOUS
<1>2. a = Workers * (a \div Workers) + (a % Workers) /\ (a \div Workers) \in Nat
  OBVIOUS
<1>3. a + Workers = ((a \div Workers) + 1) * Workers /\ (a \div Workers) + 1 \in Nat
  BY <1>2
<1> QED
  BY <1>1, <1>3

LEMMA NoBatches == 0 % Workers = 0
BY WorkersAssumption

-----------------------------------------------------------------------------
(* The initial state and the header. *)

LEMMA EmptyFileReads ==
    ASSUME NEW f \in Seq(Cell)
    PROVE  ReaderAfter(f, 0 + 1) = ReaderStart /\ ReaderStart \in Reader
<1>1. ReaderAfter(f, 1) = ReaderStart
  BY ReaderUnfolds
<1> QED
  BY <1>1 DEF ReaderStart, Reader, HeaderLen

(* Nothing scanned yet. *)
Untouched == scan = ReaderStart /\ batch = << >> /\ taken = 0 /\ output = << >>

LEMMA UntouchedIs ==
    ASSUME TypeOK, Untouched
    PROVE  /\ Scanned = 0 /\ Delivered = 0
           /\ ScansAlike
           /\ AllDecode(Delivered) /\ AllDecode(Scanned)
           /\ SinkInStep
<1>1. Scanned = 0 /\ Delivered = 0
  BY DEF Untouched, Scanned, Delivered, ReaderStart
<1>2. AllDecode(0)
  BY DEF AllDecode
<1>3. ReaderAfter(file, 0 + 1) = ReaderStart
  BY FileType, EmptyFileReads
<1>4. ReaderStart.status = "reading" /\ [ReaderStart EXCEPT !.status = "reading"] = ReaderStart
      /\ ReaderStart.rows = << >>
  BY DEF ReaderStart
<1>5. ScansAlike
  BY <1>1, <1>3, <1>4 DEF ScansAlike, Untouched
<1>6. Delivery = << >>
  BY <1>1, <1>3, <1>4 DEF Delivery, TakenRows, Untouched
<1> QED
  BY <1>1, <1>2, <1>5, <1>6 DEF SinkInStep, Untouched

NothingDone ==
    /\ Scanned = 0 /\ Delivered = 0
    /\ ScansAlike
    /\ AllDecode(Delivered) /\ AllDecode(Scanned)
    /\ SinkInStep

LEMMA UntouchedAfter == TypeOK' /\ Untouched' => NothingDone'
<1>1. TypeOK /\ Untouched => NothingDone
  BY UntouchedIs DEF NothingDone
<1> QED
  BY <1>1, PTL

LEMMA InitInv == Init => IInv
<1> SUFFICES ASSUME Init PROVE IInv
  OBVIOUS
<1>1. TypeOK
  <2>1. file \in Seq(Cell) /\ file \in Files
    BY FilesAssumption DEF Init
  <2>2. ReaderStart \in [status : {"reading", "sealed"}, entries : Seq(EntrySet),
                         nextRow : Nat, nextOffset : Nat, rows : Seq(Row)]
    BY DEF ReaderStart, HeaderLen
  <2> QED
    BY <2>1, <2>2, WorkersAssumption DEF Init, TypeOK
<1>2. Untouched
  BY DEF Init, Untouched
<1>3. Scanned = 0 /\ Delivered = 0
  BY <1>1, <1>2, UntouchedIs
<1>4. HeaderChecked /\ GoodFilesPass
  BY DEF Init, HeaderChecked, GoodFilesPass
<1>5. FramesScanned
  BY <1>3 DEF Init, FramesScanned, ReaderStart
<1>6. WholeBatches /\ BatchesJudged
  BY <1>1, <1>2, <1>3, NoBatches, UntouchedIs DEF Init, WholeBatches, BatchesJudged
<1> QED
  BY <1>1, <1>2, <1>4, <1>5, <1>6, UntouchedIs DEF IInv

LEMMA ReadHeaderKeeps == IInv /\ ReadHeader => IInv'
<1> SUFFICES ASSUME IInv, ReadHeader PROVE IInv'
  OBVIOUS
<1>1. /\ pc = "start" /\ outcome = "none"
      /\ UNCHANGED <<file, scan, batch, taken, output>>
      /\ position = 0 /\ scan = ReaderStart /\ batch = << >>
  BY DEF ReadHeader, IInv, HeaderChecked
<1>2. file \in Seq(Cell)
  BY FileType DEF IInv
<1>3. /\ outcome' # "none" <=> pc' = "returned"
      /\ \/ HasHeader /\ position' = 1 /\ pc' = "scanning" /\ outcome' = "none"
         \/ ~HasHeader /\ position' = 0 /\ pc' = "returned" /\ outcome' = "headerError"
  BY <1>1 DEF ReadHeader, Return, HasHeader
<1>4. TypeOK'
  <2>1. position' \in 0..Len(file)
    BY <1>1, <1>2, <1>3 DEF HasHeader
  <2> QED
    BY <1>1, <1>3, <2>1 DEF IInv, TypeOK, Errors
<1>5. taken = 0
  BY <1>1 DEF IInv, TypeOK, SinkInStep
<1>6. Untouched /\ Untouched'
  <2>1. Delivery = << >>
    BY <1>1, <1>2, EmptyFileReads
       DEF Delivery, TakenRows, Delivered, Scanned, ReaderStart
  <2>2. output = << >>
    BY <1>1, <2>1 DEF IInv, SinkInStep, SinkFailed
  <2> QED
    BY <1>1, <1>5, <2>2 DEF Untouched
<1>7. /\ Scanned' = 0 /\ Delivered' = 0
      /\ ScansAlike'
      /\ AllDecode(Delivered)' /\ AllDecode(Scanned)'
      /\ SinkInStep'
  BY <1>4, <1>6, UntouchedAfter DEF NothingDone
<1>8. HeaderChecked' /\ FramesScanned' /\ WholeBatches' /\ BatchesJudged' /\ GoodFilesPass'
  <2>1. HeaderChecked'
    BY <1>1, <1>3 DEF HeaderChecked, HasHeader
  <2>2. FramesScanned'
    BY <1>1, <1>3, <1>4, <1>6, <1>7, WorkersAssumption DEF FramesScanned, ReaderStart
  <2>3. WholeBatches' /\ BatchesJudged'
    BY <1>1, <1>3, <1>4, <1>6, <1>7, NoBatches DEF WholeBatches, BatchesJudged
  <2>4. GoodFilesPass'
    <3>1. IsDecodable(file) => HasHeader
      BY <1>2, DecodableFile DEF HasHeader
    <3> QED
      BY <1>1, <1>3, <3>1 DEF GoodFilesPass
  <2> QED
    BY <2>1, <2>2, <2>3, <2>4
<1> QED
  BY <1>4, <1>6, <1>7, <1>8 DEF IInv
-----------------------------------------------------------------------------
(* What a file that the sequential reader takes looks like to the scan. *)

LEMMA GoodBlocks ==
    ASSUME IInv, IsDecodable(file)
    PROVE  AllDecode(Scanned)
<1> SUFFICES ASSUME NEW k \in 1..Scanned
             PROVE  DecodesToRawSize(BlockAt(k))
  BY DEF AllDecode
<1>1. file \in Seq(Cell) /\ Scanned \in Nat
  BY FileType DEF IInv
<1>2. k + 1 \in DOMAIN file /\ file[k + 1].kind = "frame"
  BY DEF IInv, FramesScanned
<1>3. /\ Len(file) >= 2 /\ file[Len(file)].kind = "footer"
      /\ \A n \in 2..Len(file) - 1 : DecodesToRawSize(file[n].block)
  BY <1>1, DecodableFile
<1>4. k + 1 \in 2..Len(file) - 1
  <2>1. k \in Nat /\ k >= 1 /\ k + 1 <= Len(file) /\ k + 1 # Len(file)
    BY <1>1, <1>2, <1>3
  <2> QED
    BY <1>1, <2>1
<1> QED
  BY <1>3, <1>4 DEF BlockAt

LEMMA Scanning ==
    ASSUME IInv, pc = "scanning"
    PROVE  /\ file \in Seq(Cell) /\ HasHeader
           /\ position = Scanned + 1 /\ position <= Len(file) /\ Len(file) \in Nat
           /\ scan \in Reader /\ scan.status = "reading"
           /\ outcome = "none" /\ taken = 0
           /\ Scanned \in Nat /\ Len(batch) \in Nat /\ Len(batch) < Workers
           /\ Delivered \in Nat /\ Delivered + Len(batch) = Scanned
           /\ AllDecode(Scanned) => ReaderAfter(file, Scanned + 1) = scan
<1>1. TypeOK /\ HeaderChecked /\ FramesScanned /\ ScansAlike /\ SinkInStep
  BY DEF IInv
<1>2. outcome = "none"
  BY <1>1 DEF HeaderChecked
<1>3. /\ HasHeader /\ position = Scanned + 1 /\ scan.status = "reading"
      /\ Len(batch) < Workers /\ Len(batch) <= Scanned
  BY <1>1, <1>2 DEF HeaderChecked, FramesScanned
<1>4. taken = 0
  BY <1>1, <1>2 DEF SinkInStep, SinkFailed
<1>5. scan \in Reader => [scan EXCEPT !.status = "reading"] = scan
  BY <1>3 DEF Reader
<1> QED
  BY <1>1, <1>2, <1>3, <1>4, <1>5, FileType DEF TypeOK, Delivered, ScansAlike

LEMMA GoodCells ==
    ASSUME IInv, pc = "scanning", IsDecodable(file)
    PROVE  HasCell /\ (IsNextJob \/ IsSealed)
<1> DEFINE n == Scanned
           N == Len(file)
<1>1. /\ file \in Seq(Cell) /\ N \in Nat /\ n \in Nat
      /\ position = n + 1 /\ position <= N
      /\ ReaderAfter(file, n + 1) = scan /\ Len(scan.entries) = n
  BY GoodBlocks, Scanning DEF Scanned
<1>2. /\ N >= 2
      /\ \A m \in 1..N - 1 : Len(ReaderAfter(file, m).entries) = m - 1
      /\ \A m \in 2..N - 1 : file[m].kind = "frame"
                              /\ IsNextBlock(ReaderAfter(file, m - 1), file[m].block)
      /\ file[N].kind = "footer" /\ Len(file[N].index) <= MaxStreamBlocks
      /\ file[N].index = ReaderAfter(file, N - 1).entries
  BY <1>1, DecodableFile
<1>3. n + 1 < N
  <2>1. n # 0 => file[n + 1].kind = "frame"
    BY <1>1 DEF IInv, FramesScanned
  <2>2. n + 1 # N
    BY <1>1, <1>2, <2>1
  <2> QED
    BY <1>1, <2>2
<1>4. NextCell = file[n + 2] /\ HasCell
  BY <1>1, <1>3 DEF NextCell, HasCell
<1> HIDE DEF n
<1>5. CASE n + 2 = N
  <2>1. N - 1 = n + 1 /\ position + 1 = N
    BY <1>1, <1>5
  <2>2. NextCell.kind = "footer" /\ Len(NextCell.index) <= MaxStreamBlocks
        /\ NextCell.index = scan.entries
    BY <1>1, <1>2, <1>4, <1>5, <2>1
  <2> QED
    BY <1>4, <2>1, <2>2 DEF IsSealed
<1>6. CASE n + 2 # N
  <2>1. n + 2 \in 2..N - 1 /\ (n + 2) - 1 = n + 1 /\ N - 1 \in 1..N - 1 /\ n < N - 2
    BY <1>1, <1>3, <1>6
  <2>2. NextCell.kind = "frame" /\ IsNextBlock(scan, NextCell.block)
    BY <1>1, <1>2, <1>4, <2>1
  <2>3. n < MaxStreamBlocks
    <3>1. Len(ReaderAfter(file, N - 1).entries) = (N - 1) - 1
      BY <1>2, <2>1
    <3>2. (N - 1) - 1 <= MaxStreamBlocks
      BY <1>2, <3>1
    <3> QED
      BY <1>1, <2>1, <3>2, MaxStreamBlocksAssumption
  <2> QED
    BY <1>1, <1>4, <2>2, <2>3 DEF IsNextJob
<1> QED
  BY <1>5, <1>6

-----------------------------------------------------------------------------
(* Steps that neither scan nor write. *)

LEMMA QuietFacts ==
    ASSUME IInv, UNCHANGED <<file, position, scan, batch, taken>>
    PROVE  /\ Scanned' = Scanned /\ Delivered' = Delivered
           /\ ScansAlike'
           /\ AllDecode(Delivered)'
           /\ AllDecode(Scanned) => AllDecode(Scanned)'
           /\ Rest' = Rest /\ Delivery' = Delivery
           /\ IsDecodable(file)' = IsDecodable(file)
           /\ \A k \in 1..Scanned : k + 1 \in DOMAIN file' /\ file'[k + 1].kind = "frame"
           /\ \A i \in DOMAIN batch' : batch'[i] = BlockAt(Delivered + i)'
<1>1. Scanned' = Scanned /\ Delivered' = Delivered
  BY DEF Scanned, Delivered
<1>2. ScansAlike'
  BY <1>1 DEF IInv, ScansAlike, AllDecode, BlockAt
<1>3. AllDecode(Delivered)' /\ (AllDecode(Scanned) => AllDecode(Scanned)')
  BY <1>1 DEF IInv, BatchesJudged, AllDecode, BlockAt
<1>4. Rest' = Rest /\ Delivery' = Delivery
  BY <1>1 DEF Rest, Delivery, TakenRows
<1>5. IsDecodable(file)' = IsDecodable(file)
  BY DEF IsDecodable
<1>6. \A i \in DOMAIN batch' : batch'[i] = BlockAt(Delivered + i)'
  BY <1>1 DEF IInv, FramesScanned, BlockAt
<1> QED
  BY <1>1, <1>2, <1>3, <1>4, <1>5, <1>6 DEF IInv, FramesScanned

(* The future resolves or moves on, with nothing read or written. *)
Quiet == UNCHANGED <<file, position, scan, batch, taken, output>>

LEMMA QuietKeeps ==
    ASSUME IInv, Quiet, pc # "start", outcome # "headerError",
           pc' \in {"scanning", "decoding", "writing", "failing", "returned", "dropped"},
           outcome' \in Errors \cup {"none", "ok"},
           outcome' # "none" <=> pc' = "returned", outcome' # "headerError",
           pc' = "scanning" => scan.status = "reading" /\ Len(batch) < Workers,
           outcome' = "ok" => scan.status = "sealed" /\ batch = << >>,
           pc' \in {"scanning", "decoding"} \/ outcome' \in {"inputError", "blockError"} =>
               Delivered % Workers = 0,
           pc' \in {"decoding", "writing"} /\ scan.status = "reading" => Scanned % Workers = 0,
           pc' \in {"writing", "failing", "dropped"} \/ outcome' \in {"ok", "sinkError"} =>
               AllDecode(Scanned),
           taken # 0 => pc' \in {"writing", "dropped"} \/ SinkFailed',
           SinkFailed => SinkFailed',
           outcome' \in {"inputError", "blockError"} => ~IsDecodable(file)
    PROVE  IInv'
<1> USE DEF IInv, Quiet
<1>1. TypeOK'
  BY DEF TypeOK
<1>2. HeaderChecked'
  BY DEF HeaderChecked, HasHeader
<1>3. FramesScanned'
  <2>1. pc # "start" /\ outcome # "headerError"
    OBVIOUS
  <2> QED
    BY <2>1, QuietFacts DEF FramesScanned
<1>4. WholeBatches'
  BY QuietFacts DEF WholeBatches
<1>5. ScansAlike'
  BY QuietFacts
<1>6. BatchesJudged'
  BY QuietFacts DEF BatchesJudged
<1>7. SinkInStep'
  BY QuietFacts DEF SinkInStep
<1>8. GoodFilesPass'
  BY QuietFacts DEF GoodFilesPass
<1> QED
  BY <1>1, <1>2, <1>3, <1>4, <1>5, <1>6, <1>7, <1>8

LEMMA ScanFailsKeeps == IInv /\ ScanFails => IInv'
<1> SUFFICES ASSUME IInv, ScanFails PROVE IInv'
  OBVIOUS
<1>1. /\ pc = "scanning" /\ pc' = "returned" /\ outcome' = "inputError" /\ Quiet
      /\ ~IsDecodable(file)
  BY GoodCells DEF ScanFails, Return, Quiet
<1>2. outcome = "none" /\ taken = 0
  BY <1>1, Scanning
<1>3. Delivered % Workers = 0 /\ ~SinkFailed
  BY <1>1, <1>2 DEF IInv, WholeBatches, SinkFailed
<1> QED
  BY <1>1, <1>2, <1>3, QuietKeeps DEF Errors

LEMMA Decoding ==
    ASSUME IInv, pc = "decoding"
    PROVE  /\ outcome = "none" /\ taken = 0 /\ ~SinkFailed
           /\ Delivered % Workers = 0
           /\ scan.status = "reading" => Scanned % Workers = 0
BY DEF IInv, HeaderChecked, SinkInStep, SinkFailed, WholeBatches

(* The batch is what lies between the blocks delivered and those scanned. *)
LEMMA BatchIsRest ==
    ASSUME IInv
    PROVE  AllDecode(Scanned) <=> \A i \in DOMAIN batch : DecodesToRawSize(batch[i])
<1>1. /\ Scanned \in Nat /\ Len(batch) \in 0..Scanned /\ batch \in Seq(Block)
      /\ Delivered = Scanned - Len(batch)
  BY FileType DEF IInv, FramesScanned, Delivered
<1>2. \A i \in DOMAIN batch : batch[i] = BlockAt(Delivered + i)
  BY DEF IInv, FramesScanned
<1>3. \A k \in 1..Delivered : DecodesToRawSize(BlockAt(k))
  BY DEF IInv, BatchesJudged, AllDecode
<1>4. ASSUME NEW i \in DOMAIN batch, AllDecode(Scanned)
      PROVE  DecodesToRawSize(batch[i])
  <2>1. Delivered + i \in 1..Scanned
    BY <1>1
  <2> QED
    BY <1>2, <1>4, <2>1 DEF AllDecode
<1>5. ASSUME NEW k \in 1..Scanned, \A i \in DOMAIN batch : DecodesToRawSize(batch[i])
      PROVE  DecodesToRawSize(BlockAt(k))
  <2>1. CASE k <= Delivered
    BY <1>1, <1>3, <2>1
  <2>2. CASE k > Delivered
    <3>1. k - Delivered \in DOMAIN batch /\ Delivered + (k - Delivered) = k
      BY <1>1, <2>2
    <3> QED
      BY <1>2, <1>5, <3>1
  <2> QED
    BY <1>1, <2>1, <2>2
<1> QED
  BY <1>4, <1>5 DEF AllDecode

LEMMA DecodeBatchKeeps == IInv /\ (DecodeBatch \/ DecodeBatchFails) => IInv'
<1> SUFFICES ASSUME IInv, DecodeBatch \/ DecodeBatchFails PROVE IInv'
  OBVIOUS
<1>1. pc = "decoding" /\ Quiet
  BY DEF DecodeBatch, DecodeBatchFails, Quiet
<1>2. /\ outcome = "none" /\ taken = 0 /\ ~SinkFailed
      /\ Delivered % Workers = 0
      /\ scan.status = "reading" => Scanned % Workers = 0
  BY <1>1, Decoding
<1>3. \/ pc' = "writing" /\ outcome' = "none" /\ AllDecode(Scanned)
      \/ pc' = "returned" /\ outcome' = "blockError" /\ ~IsDecodable(file)
      \/ pc' = "returned" /\ outcome' \in {"panicked", "spawnError", "scopePanic"}
  <2>1. CASE DecodeBatch
    BY <1>2, <2>1, BatchIsRest, GoodBlocks DEF DecodeBatch, Return
  <2>2. CASE DecodeBatchFails
    BY <2>2 DEF DecodeBatchFails, Return
  <2> QED
    BY <2>1, <2>2
<1> QED
  BY <1>1, <1>2, <1>3, QuietKeeps DEF Errors

LEMMA Writing ==
    ASSUME IInv, pc \in {"writing", "failing"}
    PROVE  /\ outcome = "none" /\ AllDecode(Scanned)
           /\ pc = "writing" => ~SinkFailed /\ output = Delivery
BY DEF IInv, HeaderChecked, BatchesJudged, SinkInStep, SinkFailed

LEMMA EndKeeps == IInv /\ (SinkError \/ BatchWritten \/ DropFuture) => IInv'
<1> SUFFICES ASSUME IInv, SinkError \/ BatchWritten \/ DropFuture PROVE IInv'
  OBVIOUS
<1>1. pc \in {"writing", "failing"} /\ Quiet
  BY DEF SinkError, BatchWritten, DropFuture, Quiet
<1>2. outcome = "none" /\ AllDecode(Scanned)
  BY <1>1, Writing
<1>3. CASE SinkError
  BY <1>1, <1>2, <1>3, QuietKeeps DEF SinkError, Return, Errors, SinkFailed
<1>4. CASE DropFuture
  BY <1>1, <1>2, <1>4, QuietKeeps DEF DropFuture, SinkFailed
<1>5. CASE BatchWritten
  <2>1. pc = "writing" /\ batch = << >> /\ ~SinkFailed
    BY <1>5, Writing DEF BatchWritten
  <2>2. taken = 0 /\ Delivered = Scanned /\ Len(batch) < Workers
    BY <2>1, FileType, WorkersAssumption DEF IInv, TypeOK, SinkInStep, Delivered
  <2>3. scan.status = "reading" => Scanned % Workers = 0
    BY <2>1 DEF IInv, WholeBatches
  <2>4. scan.status \in {"reading", "sealed"}
    BY DEF IInv, TypeOK
  <2>5. CASE scan.status = "sealed"
    BY <1>1, <1>2, <1>5, <2>1, <2>2, <2>5, QuietKeeps DEF BatchWritten, Return
  <2>6. CASE scan.status = "reading"
    BY <1>1, <1>2, <1>5, <2>1, <2>2, <2>3, <2>6, QuietKeeps DEF BatchWritten, SinkFailed
  <2> QED
    BY <2>4, <2>5, <2>6
<1> QED
  BY <1>3, <1>4, <1>5

-----------------------------------------------------------------------------
(* A frame is scanned. *)

LEMMA FrameFacts ==
    ASSUME IInv, ScanFrame
    PROVE  /\ pc = "scanning" /\ outcome = "none" /\ taken = 0
           /\ NextCell.block \in Block /\ file[Scanned + 2] = Frame(NextCell.block)
           /\ file[Scanned + 2].kind = "frame" /\ BlockAt(Scanned + 1) = NextCell.block
           /\ position + 1 = Scanned + 2 /\ Scanned + 2 \in 2..Len(file)
           /\ scan' = TakeBlock(scan, NextCell.block)
           /\ scan' \in Reader /\ scan'.status = "reading"
           /\ Scanned' = Scanned + 1 /\ Delivered' = Delivered
           /\ batch' = Append(batch, NextCell.block) /\ Len(batch') = Len(batch) + 1
           /\ position' = position + 1
           /\ pc' \in {"scanning", "decoding"}
           /\ pc' = "scanning" => Len(batch') < Workers
           /\ pc' = "decoding" => Len(batch') = Workers
           /\ UNCHANGED <<file, taken, outcome, output>>
<1> DEFINE b == NextCell.block
<1>1. /\ pc = "scanning" /\ position < Len(file)
      /\ NextCell.kind = "frame"
      /\ scan' = TakeBlock(scan, b) /\ batch' = Append(batch, b)
      /\ position' = position + 1
      /\ UNCHANGED <<file, taken, outcome, output>>
      /\ pc' = IF Len(batch') = Workers THEN "decoding" ELSE "scanning"
  BY DEF ScanFrame, HasCell, IsNextJob
<1>2. /\ file \in Seq(Cell) /\ Len(file) \in Nat
      /\ position = Scanned + 1 /\ Scanned \in Nat
      /\ scan \in Reader /\ scan.status = "reading"
      /\ outcome = "none" /\ taken = 0
      /\ Len(batch) \in Nat /\ Len(batch) < Workers /\ batch \in Seq(Block)
      /\ Delivered \in Nat /\ Delivered + Len(batch) = Scanned
  BY <1>1, Scanning, FileType DEF IInv
<1>3. NextCell \in Cell /\ NextCell = file[Scanned + 2] /\ Scanned + 2 \in 2..Len(file)
  BY <1>1, <1>2 DEF NextCell
<1>4. b \in Block /\ NextCell = Frame(b)
  BY <1>1, <1>3, CellParts
<1> HIDE DEF b
<1>5. /\ scan' \in Reader /\ scan'.status = "reading"
      /\ scan'.entries = Append(scan.entries, Entry(b, scan.nextOffset))
  BY <1>1, <1>2, <1>4, TakeBlockIs
<1>6. scan.entries \in Seq(EntrySet) /\ Scanned' = Scanned + 1
  <2>1. scan.entries \in Seq(EntrySet) /\ scan'.entries \in Seq(EntrySet)
    BY <1>2, <1>5 DEF Reader
  <2> QED
    BY <1>5, <2>1 DEF Scanned
<1>7. Len(batch') = Len(batch) + 1
  BY <1>1, <1>2, <1>4
<1>8. Delivered' = Delivered
  BY <1>2, <1>6, <1>7 DEF Delivered
<1>9. BlockAt(Scanned + 1) = b
  <2>1. (Scanned + 1) + 1 = Scanned + 2
    BY <1>2
  <2> QED
    BY <1>3, <2>1 DEF BlockAt, b
<1>10. pc' = "scanning" => Len(batch') < Workers
  BY <1>1, <1>2, <1>7, WorkersAssumption
<1> QED
  BY <1>1, <1>2, <1>3, <1>4, <1>5, <1>6, <1>7, <1>8, <1>9, <1>10 DEF b

LEMMA ScanFrameKeeps == IInv /\ ScanFrame => IInv'
<1> SUFFICES ASSUME IInv, ScanFrame PROVE IInv'
  OBVIOUS
<1> DEFINE b == NextCell.block
           n == Scanned
<1>1. /\ pc = "scanning" /\ outcome = "none" /\ taken = 0
      /\ b \in Block /\ file[n + 2] = Frame(b)
      /\ file[n + 2].kind = "frame" /\ BlockAt(n + 1) = b
      /\ position + 1 = n + 2 /\ n + 2 \in 2..Len(file)
      /\ scan' = TakeBlock(scan, b) /\ scan' \in Reader /\ scan'.status = "reading"
      /\ Scanned' = n + 1 /\ Delivered' = Delivered
      /\ batch' = Append(batch, b) /\ Len(batch') = Len(batch) + 1
      /\ position' = position + 1
      /\ pc' \in {"scanning", "decoding"}
      /\ pc' = "scanning" => Len(batch') < Workers
      /\ pc' = "decoding" => Len(batch') = Workers
      /\ UNCHANGED <<file, taken, outcome, output>>
  BY FrameFacts
<1>2. /\ file \in Seq(Cell) /\ HasHeader
      /\ scan \in Reader /\ scan.status = "reading"
      /\ n \in Nat /\ Len(batch) \in Nat /\ Len(batch) < Workers
      /\ Delivered \in Nat /\ Delivered + Len(batch) = n
      /\ AllDecode(n) => ReaderAfter(file, n + 1) = scan
      /\ batch \in Seq(Block)
  BY <1>1, Scanning, FileType DEF IInv
<1> HIDE DEF b, n
<1>3. TypeOK'
  <2>1. position' \in 0..Len(file)
    BY <1>1
  <2>2. Len(batch') <= Workers /\ batch' \in Seq(Block)
    BY <1>1, <1>2, WorkersAssumption
  <2>3. scan' \in [status : {"reading", "sealed"}, entries : Seq(EntrySet),
                   nextRow : Nat, nextOffset : Nat, rows : Seq(Row)]
    BY <1>1 DEF Reader
  <2> QED
    BY <1>1, <2>1, <2>2, <2>3 DEF IInv, TypeOK
<1>4. HeaderChecked'
  BY <1>1, <1>2 DEF IInv, HeaderChecked, HasHeader
<1>5. FramesScanned'
  <2>1. \A k \in 1..Scanned' : k + 1 \in DOMAIN file' /\ file'[k + 1].kind = "frame"
    <3> SUFFICES ASSUME NEW k \in 1..n + 1
                 PROVE  k + 1 \in DOMAIN file /\ file[k + 1].kind = "frame"
      BY <1>1
    <3>1. CASE k = n + 1
      <4>1. k + 1 = n + 2
        BY <1>2, <3>1
      <4> QED
        BY <1>1, <1>2, <4>1
    <3>2. CASE k \in 1..n
      BY <3>2 DEF IInv, FramesScanned, n
    <3> QED
      BY <1>2, <3>1, <3>2
  <2>2. Len(batch') <= Scanned'
    BY <1>1, <1>2
  <2>3. \A i \in DOMAIN batch' : batch'[i] = BlockAt(Delivered + i)'
    <3> SUFFICES ASSUME NEW i \in DOMAIN batch'
                 PROVE  batch'[i] = BlockAt(Delivered + i)
      BY <1>1 DEF BlockAt
    <3>1. CASE i = Len(batch) + 1
      <4>1. Delivered + i = n + 1
        BY <1>2, <3>1
      <4> QED
        BY <1>1, <1>2, <3>1, <4>1
    <3>2. CASE i \in DOMAIN batch
      BY <1>1, <1>2, <3>2 DEF IInv, FramesScanned
    <3> QED
      BY <1>1, <1>2, <3>1, <3>2
  <2>4. position' = Scanned' + 1
    BY <1>1, <1>2
  <2> QED
    BY <1>1, <2>1, <2>2, <2>3, <2>4 DEF FramesScanned
<1>6. WholeBatches'
  <2>1. Delivered % Workers = 0
    BY <1>1 DEF IInv, WholeBatches
  <2>2. pc' = "decoding" => Scanned' = Delivered + Workers
    BY <1>1, <1>2
  <2>3. pc' = "decoding" => Scanned' % Workers = 0
    BY <1>2, <2>1, <2>2, FullBatches
  <2> QED
    BY <1>1, <2>1, <2>3 DEF WholeBatches
<1>7. \A m : AllDecode(m)' <=> AllDecode(m)
  BY <1>1 DEF AllDecode, BlockAt
<1>8. ScansAlike'
  <2>1. AllDecode(n + 1) => ReaderAfter(file, (n + 1) + 1) = scan'
    <3> SUFFICES ASSUME AllDecode(n + 1) PROVE ReaderAfter(file, (n + 1) + 1) = scan'
      OBVIOUS
    <3> DEFINE m == (n + 1) + 1
    <3>1. AllDecode(n) /\ DecodesToRawSize(b)
      <4>1. n + 1 \in 1..n + 1 /\ \A k \in 1..n : k \in 1..n + 1
        BY <1>2
      <4> QED
        BY <1>1, <4>1 DEF AllDecode
    <3>2. m \in 2..Len(file) /\ m - 1 = n + 1 /\ file[m] = Frame(b)
      <4>1. m = n + 2 /\ m - 1 = n + 1
        BY <1>2
      <4> QED
        BY <1>1, <4>1
    <3> HIDE DEF m
    <3>3. ReaderAfter(file, m - 1) = scan
      BY <1>2, <3>1, <3>2
    <3>4. IsNextBlock(scan, b)
      BY DEF ScanFrame, IsNextJob, b
    <3>5. ReaderAfter(file, m) = TakeBlock(scan, b)
      BY <1>1, <1>2, <3>1, <3>2, <3>3, <3>4, ReadFrame
    <3> QED
      BY <1>1, <3>5 DEF m
  <2>2. [scan' EXCEPT !.status = "reading"] = scan'
    BY <1>1 DEF Reader
  <2>3. ASSUME NEW m \in 0..n + 1, AllDecode(m)
        PROVE  ReaderAfter(file, m + 1).status = "reading"
    <3>1. CASE m \in 0..n
      BY <2>3, <3>1 DEF IInv, ScansAlike, n
    <3>2. CASE m = n + 1
      BY <1>1, <2>1, <2>3, <3>2
    <3> QED
      BY <1>2, <3>1, <3>2
  <2> QED
    BY <1>1, <1>7, <2>1, <2>2, <2>3 DEF ScansAlike
<1>9. BatchesJudged'
  BY <1>1, <1>7 DEF IInv, BatchesJudged
<1>10. SinkInStep'
  <2>1. output = Delivery /\ TakenRows = << >>
    <3>1. ~SinkFailed
      BY <1>1 DEF SinkFailed
    <3> QED
      BY <1>1, <1>2, <3>1, FileType DEF IInv, SinkInStep, TakenRows
  <2>2. TakenRows' = << >> /\ batch' # << >>
    BY <1>1, <1>2 DEF TakenRows
  <2>3. Delivery' = Delivery
    BY <1>1, <2>1, <2>2 DEF Delivery
  <2>4. 0 <= Len(Rest')
    <3>1. Head(batch') \in Block
      BY <1>1, <1>2
    <3> DEFINE rest == Rest'
    <3>2. rest \in Seq(Row)
      BY <3>1 DEF Rest, Block
    <3> HIDE DEF rest
    <3>3. 0 <= Len(rest)
      BY ONLY <3>2
    <3> QED
      BY <3>3 DEF rest
  <2> QED
    BY <1>1, <2>1, <2>2, <2>3, <2>4 DEF SinkInStep
<1>11. GoodFilesPass'
  BY <1>1 DEF GoodFilesPass
<1> QED
  BY <1>3, <1>4, <1>5, <1>6, <1>8, <1>9, <1>10, <1>11 DEF IInv

(* The footer is scanned. *)
LEMMA ScanFooterKeeps == IInv /\ ScanFooter => IInv'
<1> SUFFICES ASSUME IInv, ScanFooter PROVE IInv'
  OBVIOUS
<1> DEFINE n == Scanned
<1>1. /\ pc = "scanning" /\ pc' = "decoding" /\ position < Len(file)
      /\ NextCell.kind = "footer" /\ Len(NextCell.index) <= MaxStreamBlocks
      /\ NextCell.index = scan.entries /\ position + 1 = Len(file)
      /\ scan' = [scan EXCEPT !.status = "sealed"]
      /\ position' = position + 1
      /\ UNCHANGED <<file, batch, taken, outcome, output>>
  BY DEF ScanFooter, HasCell, IsSealed
<1>2. /\ file \in Seq(Cell) /\ HasHeader /\ Len(file) \in Nat
      /\ outcome = "none" /\ taken = 0
      /\ position = n + 1
      /\ scan \in Reader /\ scan.status = "reading"
      /\ n \in Nat /\ Len(batch) \in Nat /\ Len(batch) < Workers
      /\ Delivered \in Nat /\ Delivered + Len(batch) = n
      /\ AllDecode(n) => ReaderAfter(file, n + 1) = scan
  BY <1>1, Scanning
<1>3. /\ Scanned' = n /\ Delivered' = Delivered
      /\ scan'.entries = scan.entries /\ scan'.status = "sealed"
      /\ scan' \in [status : {"reading", "sealed"}, entries : Seq(EntrySet),
                    nextRow : Nat, nextOffset : Nat, rows : Seq(Row)]
      /\ [scan' EXCEPT !.status = "reading"] = scan
  BY <1>1, <1>2 DEF Scanned, Delivered, Reader
<1>4. position' = n + 2 /\ position' = Len(file) /\ position' \in 0..Len(file)
      /\ file[position'] = Footer(scan'.entries)
  <2>1. NextCell \in Cell /\ NextCell = file[position']
    BY <1>1, <1>2 DEF NextCell
  <2>2. NextCell = Footer(NextCell.index)
    BY <1>1, <2>1, CellParts
  <2> QED
    BY <1>1, <1>2, <1>3, <2>1, <2>2
<1>5. TypeOK'
  BY <1>1, <1>3, <1>4 DEF IInv, TypeOK
<1>6. HeaderChecked'
  BY <1>1, <1>2 DEF IInv, HeaderChecked, HasHeader
<1>7. FramesScanned'
  <2>1. \A i \in DOMAIN batch' : batch'[i] = BlockAt(Delivered + i)'
    BY <1>1, <1>3 DEF IInv, FramesScanned, BlockAt
  <2>2. n <= MaxStreamBlocks
    BY <1>1 DEF Scanned
  <2> QED
    BY <1>1, <1>2, <1>3, <1>4, <2>1, <2>2 DEF IInv, FramesScanned
<1>8. WholeBatches'
  BY <1>1, <1>2, <1>3 DEF IInv, WholeBatches
<1>9. \A m : AllDecode(m)' <=> AllDecode(m)
  BY <1>1 DEF AllDecode, BlockAt
<1>10. ScansAlike'
  BY <1>1, <1>2, <1>3, <1>9 DEF IInv, ScansAlike
<1>11. BatchesJudged'
  BY <1>1, <1>2, <1>3, <1>9 DEF IInv, BatchesJudged
<1>12. SinkInStep'
  <2>1. Delivery' = Delivery /\ Rest' = Rest
    BY <1>1, <1>3 DEF Delivery, TakenRows, Rest
  <2>2. ~SinkFailed
    BY <1>1, <1>2 DEF SinkFailed
  <2> QED
    BY <1>1, <1>2, <2>1, <2>2 DEF IInv, SinkInStep
<1>13. GoodFilesPass'
  BY <1>1, <1>2 DEF GoodFilesPass
<1> QED
  BY <1>5, <1>6, <1>7, <1>8, <1>10, <1>11, <1>12, <1>13 DEF IInv

-----------------------------------------------------------------------------
(* The sink takes rows. *)

(* The sequential reader takes a block scanned, if all up to it decode. *)
LEMMA BlockReads ==
    ASSUME IInv, NEW k \in 1..Scanned, AllDecode(k)
    PROVE  /\ k + 1 \in 2..Len(file)
           /\ BlockAt(k) \in Block
           /\ ReaderAfter(file, k) \in Reader
           /\ ReaderAfter(file, k + 1).rows = ReaderAfter(file, k).rows \o BlockAt(k).rows
<1> DEFINE r == ReaderAfter(file, k)
           m == k + 1
           b == BlockAt(k)
<1>1. file \in Seq(Cell) /\ Scanned \in Nat
  BY FileType DEF IInv
<1>2. m \in 2..Len(file) /\ m - 1 = k /\ file[m].kind = "frame" /\ file[m].block = b
  <2>1. m \in DOMAIN file /\ file[m].kind = "frame"
    BY DEF IInv, FramesScanned
  <2> QED
    BY <1>1, <2>1 DEF BlockAt
<1>3. ReaderAfter(file, m).status = "reading"
  BY <1>1 DEF IInv, ScansAlike
<1> HIDE DEF m, b
<1>4. ReaderAfter(file, m) = DecodeCell(r, file[m]) /\ r \in Reader /\ file[m] \in Cell
  BY <1>1, <1>2, ReaderStep
<1>5. ReaderAfter(file, m) = TakeBlock(r, b)
  BY <1>2, <1>3, <1>4, CellReads
<1>6. b \in Block
  BY <1>2, <1>4, CellParts
<1> HIDE DEF r
<1>7. TakeBlock(r, b).rows = r.rows \o b.rows
  BY <1>4, <1>6, TakeBlockIs
<1> QED
  BY <1>2, <1>4, <1>5, <1>6, <1>7 DEF r, m, b

(* The sequential reader goes on with the block that is being written. *)
LEMMA NextDelivery ==
    ASSUME IInv, pc \in {"writing", "failing"}, batch # << >>
    PROVE  /\ batch \in Seq(Block) /\ Rest \in Seq(Row) /\ Head(batch) \in Block
           /\ Delivered \in Nat /\ Delivered + 1 \in 1..Scanned /\ Scanned \in Nat
           /\ (Delivered + 1) + 1 \in 2..Len(file) /\ file \in Seq(Cell)
           /\ ReaderAfter(file, Delivered + 1).rows \in Seq(Row)
           /\ ReaderAfter(file, (Delivered + 1) + 1).rows
                  = ReaderAfter(file, Delivered + 1).rows \o Rest
           /\ taken \in 0..Len(Rest)
           /\ Delivery = ReaderAfter(file, Delivered + 1).rows \o SubSeq(Rest, 1, taken)
<1> DEFINE d == Delivered + 1
<1>1. /\ file \in Seq(Cell) /\ Scanned \in Nat /\ batch \in Seq(Block)
      /\ Len(batch) \in Nat /\ Len(batch) <= Scanned /\ Len(batch) >= 1
  BY FileType DEF IInv, FramesScanned
<1>2. Delivered \in Nat /\ d \in 1..Scanned
  BY <1>1 DEF Delivered
<1>3. batch[1] = BlockAt(d) /\ batch[1] \in Block /\ Head(batch) = batch[1]
  BY <1>1 DEF IInv, FramesScanned
<1>4. AllDecode(d)
  <2>1. AllDecode(Scanned)
    BY Writing
  <2> QED
    BY <1>1, <1>2, <2>1 DEF AllDecode
<1> HIDE DEF d
<1>5. /\ d + 1 \in 2..Len(file) /\ ReaderAfter(file, d) \in Reader
      /\ ReaderAfter(file, d + 1).rows = ReaderAfter(file, d).rows \o BlockAt(d).rows
  BY <1>2, <1>4, BlockReads
<1>6. Rest \in Seq(Row) /\ BlockAt(d).rows = Rest /\ ReaderAfter(file, d).rows \in Seq(Row)
  BY <1>3, <1>5 DEF Rest, Reader, Block
<1>7. taken \in 0..Len(Rest) /\ TakenRows = SubSeq(Rest, 1, taken)
  BY <1>1, <1>6 DEF IInv, TypeOK, SinkInStep, TakenRows
<1> QED
  BY <1>1, <1>2, <1>3, <1>5, <1>6, <1>7 DEF d, Delivery

LEMMA RowsAndTorn ==
    ASSUME NEW rows \in Seq(Row)
    PROVE  rows \in Seq(Row \cup {Torn}) /\ Append(rows, Torn) \in Seq(Row \cup {Torn})
<1>1. rows \in Seq(Row \cup {Torn})
  OBVIOUS
<1> QED
  BY <1>1

LEMMA SinkTakesSomeKeeps == IInv /\ SinkTakesSome => IInv'
<1> SUFFICES ASSUME IInv, SinkTakesSome PROVE IInv'
  OBVIOUS
<1> DEFINE front == ReaderAfter(file, Delivered + 1).rows
<1>1. /\ pc = "writing" /\ batch # << >>
      /\ UNCHANGED <<file, position, pc, scan, batch, outcome>>
  BY DEF SinkTakesSome
<1>2. PICK n \in taken + 1..Len(Rest) - 1 :
          output' = output \o SubSeq(Rest, taken + 1, n) /\ taken' = n
  BY DEF SinkTakesSome
<1>3. /\ Rest \in Seq(Row) /\ front \in Seq(Row) /\ taken \in 0..Len(Rest)
      /\ output = front \o SubSeq(Rest, 1, taken)
  BY <1>1, NextDelivery, Writing
<1> HIDE DEF front
<1>4. n \in taken..Len(Rest) /\ n \in Nat /\ n < Len(Rest) /\ n # 0
  BY <1>2, <1>3
<1>5. output' = front \o SubSeq(Rest, 1, n)
  BY <1>2, <1>3, <1>4, PiecesJoin
<1>6. Scanned' = Scanned /\ Delivered' = Delivered /\ Rest' = Rest
  BY <1>1 DEF Scanned, Delivered, Rest
<1>7. output' = Delivery'
  BY <1>1, <1>2, <1>5, <1>6 DEF Delivery, TakenRows, front
<1>8. TypeOK'
  <2>1. output' \in Seq(Row)
    <3>1. SubSeq(Rest, 1, n) \in Seq(Row)
      BY <1>3, <1>4
    <3> QED
      BY <1>3, <1>5, <3>1
  <2> QED
    BY <1>1, <1>2, <1>4, <2>1, RowsAndTorn DEF IInv, TypeOK
<1>9. HeaderChecked' /\ WholeBatches' /\ GoodFilesPass'
  BY <1>1, <1>6 DEF IInv, HeaderChecked, HasHeader, WholeBatches, GoodFilesPass
<1>10. FramesScanned' /\ ScansAlike' /\ BatchesJudged'
  <2>1. FramesScanned'
    BY <1>1, <1>6 DEF IInv, FramesScanned, BlockAt
  <2>2. ScansAlike'
    BY <1>1, <1>6 DEF IInv, ScansAlike, AllDecode, BlockAt
  <2>3. BatchesJudged'
    BY <1>1, <1>6 DEF IInv, BatchesJudged, AllDecode, BlockAt
  <2> QED
    BY <2>1, <2>2, <2>3
<1>11. SinkInStep'
  <2>1. taken' <= IF batch' = << >> THEN 0 ELSE Len(Rest')
    BY <1>1, <1>2, <1>4, <1>6
  <2>2. pc' = "writing"
    BY <1>1
  <2> QED
    BY <1>7, <2>1, <2>2, Zenon DEF SinkInStep
<1> QED
  BY <1>8, <1>9, <1>10, <1>11 DEF IInv

LEMMA SinkTakesBlockKeeps == IInv /\ SinkTakesBlock => IInv'
<1> SUFFICES ASSUME IInv, SinkTakesBlock PROVE IInv'
  OBVIOUS
<1> DEFINE front == ReaderAfter(file, Delivered + 1).rows
           back  == ReaderAfter(file, (Delivered + 1) + 1).rows
<1>1. /\ pc = "writing" /\ batch # << >>
      /\ output' = output \o SubSeq(Rest, taken + 1, Len(Rest))
      /\ taken' = 0 /\ batch' = Tail(batch)
      /\ UNCHANGED <<file, position, pc, scan, outcome>>
  BY DEF SinkTakesBlock
<1>2. /\ Rest \in Seq(Row) /\ front \in Seq(Row) /\ taken \in 0..Len(Rest)
      /\ output = front \o SubSeq(Rest, 1, taken)
      /\ back = front \o Rest
      /\ batch \in Seq(Block)
      /\ Delivered \in Nat /\ Delivered + 1 \in 1..Scanned /\ Scanned \in Nat
  BY <1>1, NextDelivery, Writing
<1>3. Scanned' = Scanned /\ Delivered' = Delivered + 1
      /\ Len(batch') = Len(batch) - 1 /\ batch' \in Seq(Block)
      /\ \A i \in DOMAIN batch' : i + 1 \in DOMAIN batch /\ batch'[i] = batch[i + 1]
  <2>1. Len(batch') = Len(batch) - 1 /\ batch' \in Seq(Block) /\ Len(batch) \in Nat
        /\ \A i \in DOMAIN batch' : i + 1 \in DOMAIN batch /\ batch'[i] = batch[i + 1]
    BY <1>1, <1>2
  <2> QED
    BY <1>1, <1>2, <2>1 DEF Scanned, Delivered
<1> HIDE DEF front
<1>4. output' = back /\ output' \in Seq(Row)
  <2>1. output' = front \o SubSeq(Rest, 1, Len(Rest))
    <3>1. Len(Rest) \in taken..Len(Rest)
      BY <1>2
    <3> QED
      BY <1>1, <1>2, <3>1, PiecesJoin
  <2>2. SubSeq(Rest, 1, Len(Rest)) = Rest
    BY <1>2
  <2> QED
    BY <1>2, <2>1, <2>2
<1>5. output' = Delivery'
  <2>1. TakenRows' = << >>
    BY <1>1 DEF TakenRows
  <2>2. Delivery' = back \o << >>
    BY <1>1, <1>3, <2>1 DEF Delivery
  <2> QED
    BY <1>4, <2>2
<1>6. TypeOK'
  <2>1. Len(batch) \in Nat /\ Len(batch) <= Workers
    BY FileType DEF IInv, TypeOK
  <2>2. Len(batch') <= Workers
    BY <1>3, <2>1, WorkersAssumption
  <2>3. output' \in Seq(Row \cup {Torn})
    BY <1>4, RowsAndTorn
  <2> QED
    BY <1>1, <1>3, <2>2, <2>3 DEF IInv, TypeOK
<1>7. \A m : AllDecode(m)' <=> AllDecode(m)
  BY <1>1 DEF AllDecode, BlockAt
<1>8. HeaderChecked' /\ GoodFilesPass'
  BY <1>1 DEF IInv, HeaderChecked, HasHeader, GoodFilesPass
<1>9. WholeBatches'
  BY <1>1, <1>3, Writing DEF IInv, WholeBatches
<1>10. FramesScanned'
  <2>1. outcome = "none"
    BY <1>1, Writing
  <2>2. \A i \in DOMAIN batch' : batch'[i] = BlockAt(Delivered + i)'
    <3> SUFFICES ASSUME NEW i \in DOMAIN batch'
                 PROVE  batch'[i] = BlockAt((Delivered + 1) + i)
      BY <1>1, <1>3 DEF BlockAt
    <3>1. batch'[i] = batch[i + 1] /\ i + 1 \in DOMAIN batch /\ i \in Nat
      BY <1>3
    <3>2. batch[i + 1] = BlockAt(Delivered + (i + 1))
      BY <3>1 DEF IInv, FramesScanned
    <3>3. Delivered + (i + 1) = (Delivered + 1) + i
      BY <1>2, <3>1
    <3> QED
      BY <3>1, <3>2, <3>3
  <2>3. Len(batch') <= Scanned'
    BY <1>2, <1>3 DEF IInv, FramesScanned
  <2> QED
    BY <1>1, <1>3, <2>1, <2>2, <2>3 DEF IInv, FramesScanned
<1>11. ScansAlike'
  BY <1>1, <1>3, <1>7 DEF IInv, ScansAlike
<1>12. BatchesJudged'
  <2>1. AllDecode(Scanned)
    BY <1>1, Writing
  <2>2. AllDecode(Delivered + 1)
    BY <1>2, <2>1 DEF AllDecode
  <2> QED
    BY <1>3, <1>7, <2>1, <2>2 DEF BatchesJudged
<1>13. SinkInStep'
  <2>1. 0 <= IF batch' = << >> THEN 0 ELSE Len(Rest')
    <3>1. batch' # << >> => Len(Rest') \in Nat
      BY <1>3 DEF Rest, Block
    <3> QED
      BY <3>1
  <2> QED
    BY <1>1, <1>5, <2>1 DEF SinkInStep
<1> QED
  BY <1>6, <1>8, <1>9, <1>10, <1>11, <1>12, <1>13 DEF IInv

LEMMA SinkFailsKeeps == IInv /\ SinkFails => IInv'
<1> SUFFICES ASSUME IInv, SinkFails PROVE IInv'
  OBVIOUS
<1>1. /\ pc = "writing" /\ batch # << >> /\ pc' = "failing"
      /\ output' = output \/ (taken < Len(Rest) /\ output' = Append(output, Torn))
      /\ UNCHANGED <<file, position, scan, batch, taken, outcome>>
  BY DEF SinkFails
<1>2. outcome = "none" /\ AllDecode(Scanned) /\ output = Delivery
  BY <1>1, Writing
<1>3. TypeOK'
  <2>1. output \in Seq(Row \cup {Torn})
    BY DEF IInv, TypeOK
  <2>2. output' \in Seq(Row \cup {Torn})
    BY <1>1, <2>1
  <2> QED
    BY <1>1, <2>2 DEF IInv, TypeOK
<1>4. HeaderChecked' /\ FramesScanned' /\ GoodFilesPass' /\ WholeBatches'
  <2>1. FramesScanned'
    BY <1>1, <1>2, QuietFacts DEF IInv, FramesScanned
  <2> QED
    BY <1>1, <1>2, <2>1 DEF IInv, HeaderChecked, HasHeader, GoodFilesPass, WholeBatches
<1>5. ScansAlike' /\ BatchesJudged'
  BY <1>1, <1>2, QuietFacts DEF BatchesJudged
<1>6. SinkInStep'
  <2>1. SinkFailed'
    BY <1>1 DEF SinkFailed
  <2> QED
    BY <1>1, <1>2, <2>1, QuietFacts DEF IInv, SinkInStep
<1> QED
  BY <1>3, <1>4, <1>5, <1>6 DEF IInv

-----------------------------------------------------------------------------
LEMMA StutterKeeps == IInv /\ UNCHANGED vars => IInv'
<1> SUFFICES ASSUME IInv, UNCHANGED vars PROVE IInv'
  OBVIOUS
<1>1. UNCHANGED <<file, position, pc, scan, batch, taken, outcome, output>>
  BY DEF vars
<1>2. TypeOK' /\ HeaderChecked' /\ WholeBatches' /\ GoodFilesPass'
  BY <1>1 DEF IInv, TypeOK, HeaderChecked, HasHeader, WholeBatches, Delivered, Scanned,
              GoodFilesPass
<1>3. FramesScanned'
  BY <1>1, QuietFacts DEF IInv, FramesScanned
<1>4. ScansAlike' /\ BatchesJudged'
  BY <1>1, QuietFacts DEF IInv, BatchesJudged
<1>5. SinkInStep'
  BY <1>1, QuietFacts DEF IInv, SinkInStep, SinkFailed
<1> QED
  BY <1>2, <1>3, <1>4, <1>5 DEF IInv

(* The inductive invariant: the scan and the sequential reader know the     *)
(* same of the cells read, and the sink has what the reader has of the      *)
(* blocks delivered.                                                        *)
THEOREM AsyncInvariant == Spec => []IInv
<1>1. IInv /\ [Next]_vars => IInv'
  BY ReadHeaderKeeps, ScanFrameKeeps, ScanFooterKeeps, ScanFailsKeeps, DecodeBatchKeeps,
     SinkTakesSomeKeeps, SinkTakesBlockKeeps, SinkFailsKeeps, EndKeeps, StutterKeeps
     DEF Next, Done
<1> QED
  BY <1>1, InitInv, PTL DEF Spec

(* The variables keep their types (decode_jsonl_stream_parallel_async_writer*)
(* and what it keeps between two awaits).                                   *)
THEOREM AsyncTypes == Spec => []TypeOK
<1>1. IInv => TypeOK
  BY DEF IInv
<1> QED
  BY <1>1, AsyncInvariant, PTL

-----------------------------------------------------------------------------
(* The file the call was given, and what is in the sink. *)

(* The whole file is scanned, decoded and written. *)
LEMMA AllWritten ==
    ASSUME IInv, scan.status = "sealed", batch = << >>, AllDecode(Scanned), ~SinkFailed
    PROVE  /\ IsDecodable(file)
           /\ output = SequentialDecode(file).rows
<1> DEFINE n == Scanned
           N == Len(file)
<1>1. /\ file \in Seq(Cell) /\ n \in Nat /\ scan \in Reader
  BY FileType DEF IInv
<1>2. pc # "start" /\ outcome # "headerError"
  BY DEF IInv, HeaderChecked, ReaderStart
<1>3. HasHeader /\ N = n + 2 /\ file[N] = Footer(scan.entries) /\ n <= MaxStreamBlocks
  BY <1>2 DEF IInv, HeaderChecked, FramesScanned
<1>4. /\ ReaderAfter(file, n + 1).status = "reading"
      /\ ReaderAfter(file, n + 1).entries = scan.entries
  BY <1>1 DEF IInv, ScansAlike, Reader
<1>5. N >= 2 /\ N - 1 = n + 1 /\ scan.entries \in Seq(EntrySet) /\ Len(scan.entries) = n
  BY <1>1, <1>3 DEF Reader, Scanned
<1>6. /\ IsDecodable(file)
      /\ SequentialDecode(file).rows = ReaderAfter(file, N - 1).rows
  BY <1>1, <1>3, <1>4, <1>5, ReadFooter DEF HasHeader
<1>7. output = ReaderAfter(file, n + 1).rows
  <2>1. output = Delivery /\ TakenRows = << >> /\ Delivered = n
    BY <1>1 DEF IInv, SinkInStep, TakenRows, Delivered
  <2>2. n + 1 \in 1..N
    BY <1>1, <1>3
  <2>3. ReaderAfter(file, n + 1) \in Reader
    BY <1>1, <2>2, ReaderType
  <2>4. ReaderAfter(file, n + 1).rows \in Seq(Row)
    BY <2>3 DEF Reader
  <2> QED
    BY <2>1, <2>4 DEF Delivery
<1> QED
  BY <1>5, <1>6, <1>7

(* Unless the sink, a thread or the caller gives up, the async decoder      *)
(* accepts exactly the files decode_jsonl_stream accepts.                   *)
THEOREM AsyncAcceptsTheSame == Spec => []AgreesWithSequential
<1>1. IInv => AgreesWithSequential
  <2> SUFFICES ASSUME IInv, pc \in {"returned", "dropped"}, ~EnvironmentFailed
               PROVE  (outcome = "ok") <=> IsDecodable(file)
    BY DEF AgreesWithSequential
  <2>1. ASSUME outcome = "ok" PROVE IsDecodable(file)
    <3>1. /\ scan.status = "sealed" /\ batch = << >>
          /\ AllDecode(Scanned) /\ ~SinkFailed
      BY <2>1 DEF IInv, FramesScanned, BatchesJudged, SinkFailed, EnvironmentFailed
    <3> QED
      BY <3>1, AllWritten
  <2>2. pc = "returned" /\ outcome \in {"headerError", "inputError", "blockError", "ok"}
    BY DEF EnvironmentFailed, IInv, HeaderChecked, TypeOK, Errors
  <2>3. IsDecodable(file) => outcome = "ok"
    BY <2>2 DEF IInv, GoodFilesPass
  <2> QED
    BY <2>1, <2>3
<1> QED
  BY <1>1, AsyncInvariant, PTL

(* The rows of the blocks are what the sequential reader makes of them. *)
LEMMA RowsReadAre ==
    ASSUME IInv, NEW n \in 0..Scanned, AllDecode(n)
    PROVE  RowsOfBlocks(n) = ReaderAfter(file, n + 1).rows
<1> DEFINE seqs == [k \in 1..n |-> file[k + 1].block.rows]
           f == [i \in 1..n |-> ReaderAfter(file, i + 1).rows]
<1>1. file \in Seq(Cell) /\ Scanned \in Nat /\ n \in Nat
  BY FileType DEF IInv
<1>2. ReaderAfter(file, 1).rows = << >>
  BY <1>1, EmptyFileReads DEF ReaderStart
<1>3. Len(seqs) = n
  BY <1>1
<1>4. CASE n = 0
  <2>1. FlattenSeq(seqs) = seqs
    BY <1>3, <1>4, Zenon DEF FlattenSeq
  <2>2. seqs = << >>
    BY <1>4
  <2> QED
    BY <1>2, <1>4, <2>1, <2>2 DEF RowsOfBlocks
<1>5. CASE n # 0
  <2>1. ASSUME NEW i \in 1..n
        PROVE  /\ seqs[i] \in Seq(Row)
               /\ ReaderAfter(file, i + 1).rows = ReaderAfter(file, i).rows \o seqs[i]
    <3>1. i \in 1..Scanned /\ AllDecode(i)
      BY <1>1 DEF AllDecode
    <3>2. seqs[i] = BlockAt(i).rows
      BY DEF BlockAt
    <3> HIDE DEF seqs
    <3> QED
      BY <3>1, <3>2, BlockReads DEF Block
  <2>2. f = [i \in 1..n |-> IF i = 1 THEN seqs[i] ELSE f[i - 1] \o seqs[i]]
    <3>1. ASSUME NEW i \in 1..n
          PROVE  f[i] = IF i = 1 THEN seqs[i] ELSE f[i - 1] \o seqs[i]
      <4>1. CASE i = 1
        <5>1. f[i] = << >> \o seqs[i] /\ seqs[i] \in Seq(Row)
          BY <1>2, <2>1, <4>1
        <5> HIDE DEF f, seqs
        <5> QED
          BY <4>1, <5>1
      <4>2. CASE i # 1
        <5>1. i - 1 \in 1..n /\ (i - 1) + 1 = i
          BY <1>1, <4>2
        <5>2. f[i - 1] = ReaderAfter(file, i).rows
          BY <5>1
        <5>3. f[i] = ReaderAfter(file, i).rows \o seqs[i]
          BY <2>1
        <5> QED
          BY <4>2, <5>2, <5>3
      <4> QED
        BY <4>1, <4>2
    <3>2. f = [i \in 1..n |-> f[i]]
      OBVIOUS
    <3> HIDE DEF f, seqs
    <3> QED
      BY <3>1, <3>2
  <2>3. f[n] = ReaderAfter(file, n + 1).rows
    BY <1>1, <1>5
  <2> HIDE DEF f, seqs
  <2>4. FlattenSeq(seqs) = f[n]
    <3>1. n \in Nat /\ n # 0 /\ Len(seqs) = n /\ Flattens(f, seqs, n)
      BY <1>1, <1>3, <1>5, <2>2 DEF Flattens
    <3> QED
      BY ONLY <3>1, FlattenIs, Zenon
  <2> QED
    BY <2>3, <2>4 DEF RowsOfBlocks, seqs
<1> QED
  BY <1>4, <1>5

(* When a record or a block fails, the sink has the rows of the full batches*)
(* in front of it, each once and in order, and nothing of the batch the     *)
(* failure is in.                                                           *)
THEOREM FailuresCostTheirBatch == Spec => []FailureKeepsWholeBatches
<1>1. IInv => FailureKeepsWholeBatches
  <2> SUFFICES ASSUME IInv, outcome \in {"inputError", "blockError"}
               PROVE  output = RowsOfBlocks(Delivered) /\ Delivered % Workers = 0
    BY DEF FailureKeepsWholeBatches, Delivered, Scanned
  <2>1. Delivered % Workers = 0
    BY DEF IInv, WholeBatches
  <2>2. pc = "returned" /\ ~SinkFailed /\ taken = 0 /\ output = Delivery
    BY DEF IInv, HeaderChecked, SinkInStep, SinkFailed
  <2>3. TakenRows = << >>
    BY <2>2, FileType DEF IInv, TakenRows
  <2>4. Delivered \in 0..Scanned /\ AllDecode(Delivered)
    BY FileType DEF IInv, FramesScanned, BatchesJudged, Delivered
  <2>5. RowsOfBlocks(Delivered) = ReaderAfter(file, Delivered + 1).rows
    BY <2>4, RowsReadAre
  <2>6. ReaderAfter(file, Delivered + 1).rows \in Seq(Row)
    <3>1. CASE Delivered = 0
      BY <3>1, FileType, EmptyFileReads DEF IInv, Reader
    <3>2. CASE Delivered # 0
      <4>1. Delivered \in 1..Scanned
        BY <2>4, <3>2
      <4>2. Delivered + 1 \in 1..Len(file)
        <5>1. Delivered + 1 \in 2..Len(file)
          BY <2>4, <4>1, BlockReads
        <5> QED
          BY <5>1, FileType DEF IInv
      <4>3. ReaderAfter(file, Delivered + 1) \in Reader
        BY <4>2, FileType, ReaderType DEF IInv
      <4> QED
        BY <4>3 DEF Reader
    <3> QED
      BY <3>1, <3>2
  <2> QED
    BY <2>1, <2>2, <2>3, <2>5, <2>6 DEF Delivery
<1> QED
  BY <1>1, AsyncInvariant, PTL

(* The sink holds reading back: what is scanned and not yet in the sink is  *)
(* never more than a batch, also when the sink fails or the future is       *)
(* dropped in the middle of one.                                            *)
THEOREM NoReadAhead == Spec => []ReadAheadIsOneBatch
<1>1. IInv => ReadAheadIsOneBatch
  <2> DEFINE n == Scanned - Workers
  <2> SUFFICES ASSUME IInv, Scanned > Workers
               PROVE  Len(output) >= Len(RowsOfBlocks(n))
    BY DEF ReadAheadIsOneBatch, Scanned
  <2>1. /\ Scanned \in Nat /\ Len(batch) \in Nat /\ Len(batch) <= Workers
        /\ Len(batch) <= Scanned /\ file \in Seq(Cell)
    BY FileType DEF IInv, TypeOK, FramesScanned
  <2>2. n \in 1..Delivered /\ Delivered \in 1..Scanned /\ n \in 0..Scanned
    BY <2>1, WorkersAssumption DEF Delivered
  <2>3. AllDecode(Delivered) /\ AllDecode(n)
    BY <2>2 DEF IInv, BatchesJudged, AllDecode
  <2> HIDE DEF n
  <2>4. RowsOfBlocks(n) = ReaderAfter(file, n + 1).rows
    BY <2>2, <2>3, RowsReadAre
  <2>5. n + 1 \in 1..Len(file) /\ Delivered + 1 \in n + 1..Len(file)
    <3>1. Delivered + 1 \in 2..Len(file)
      BY <2>2, <2>3, BlockReads
    <3> QED
      BY <2>1, <2>2, <3>1
  <2>6. Len(ReaderAfter(file, n + 1).rows) <= Len(ReaderAfter(file, Delivered + 1).rows)
    <3> DEFINE a == n + 1
               z == Delivered + 1
    <3>1. a \in 1..Len(file) /\ z \in a..Len(file)
      BY <2>5
    <3> HIDE DEF a, z
    <3>2. Len(ReaderAfter(file, a).rows) <= Len(ReaderAfter(file, z).rows)
      BY <2>1, <3>1, RowsOnlyGrow
    <3> QED
      BY <3>2 DEF a, z
  <2>7. /\ ReaderAfter(file, Delivered + 1).rows \in Seq(Row)
        /\ ReaderAfter(file, n + 1).rows \in Seq(Row)
    <3>1. Delivered + 1 \in 1..Len(file)
      BY <2>1, <2>2, <2>5
    <3>2. ReaderAfter(file, Delivered + 1) \in Reader /\ ReaderAfter(file, n + 1) \in Reader
      BY <2>1, <2>5, <3>1, ReaderType
    <3> QED
      BY <3>2 DEF Reader
  <2>8. TakenRows \in Seq(Row)
    <3>1. CASE batch = << >>
      BY <3>1 DEF TakenRows
    <3>2. CASE batch # << >>
      <4>1. Rest \in Seq(Row) /\ taken \in 0..Len(Rest)
        <5>1. Head(batch) \in Block
          BY <3>2, FileType DEF IInv
        <5>2. Rest \in Seq(Row)
          BY <5>1 DEF Rest, Block
        <5>3. taken \in Nat /\ taken <= Len(Rest)
          BY <3>2 DEF IInv, TypeOK, SinkInStep
        <5> QED
          BY <5>2, <5>3
      <4> QED
        BY <3>2, <4>1 DEF TakenRows
    <3> QED
      BY <3>1, <3>2
  <2>9. Delivery \in Seq(Row) /\ Len(Delivery) >= Len(ReaderAfter(file, Delivered + 1).rows)
    BY <2>7, <2>8 DEF Delivery
  <2>10. Len(output) >= Len(Delivery)
    <3>1. output = Delivery \/ output = Append(Delivery, Torn)
      BY DEF IInv, SinkInStep
    <3>2. Delivery \in Seq(Row \cup {Torn})
      BY <2>9, RowsAndTorn
    <3> QED
      BY <3>1, <3>2
  <2>11. Len(output) \in Nat
    BY DEF IInv, TypeOK
  <2> QED
    BY <2>4, <2>6, <2>7, <2>9, <2>10, <2>11
<1> QED
  BY <1>1, AsyncInvariant, PTL

-----------------------------------------------------------------------------
(* The async decoder is a decoder: refinement of StreamDecoder. *)

(* The sequential reader is the one StreamDecoder means. *)
LEMMA SameReader ==
    ASSUME NEW f, NEW n
    PROVE  Decoder!ReaderAfter(f, n) = ReaderAfter(f, n)
BY Zenon
   DEF Decoder!ReaderAfter, ReaderAfter, Decoder!FoldLeft, FoldLeft,
       Decoder!MapThenFoldSet, MapThenFoldSet, Decoder!Max, Max,
       Decoder!DecodeCell, DecodeCell, Decoder!ReaderFails, ReaderFails,
       Decoder!IsNextBlock, IsNextBlock, Decoder!TakeBlock, TakeBlock,
       Decoder!Entry, Entry, Decoder!FrameLen, FrameLen,
       Decoder!DecodesToRawSize, DecodesToRawSize,
       Decoder!ReaderStart, ReaderStart, Decoder!HeaderLen, HeaderLen

LEMMA SameDecode ==
    ASSUME NEW f
    PROVE  /\ Decoder!Rows(f) = SequentialDecode(f).rows
           /\ Decoder!IsDecodable(f) = IsDecodable(f)
<1>1. Decoder!SequentialDecode(f) = SequentialDecode(f)
  BY SameReader, Zenon
     DEF Decoder!SequentialDecode, SequentialDecode, Decoder!Header, Header,
         Decoder!ReaderFails, ReaderFails, Decoder!ReaderStart, ReaderStart,
         Decoder!HeaderLen, HeaderLen
<1> QED
  BY <1>1, Zenon DEF Decoder!Rows, Decoder!IsDecodable, IsDecodable

(* What the sink has taken of a block goes on as the reader's rows do. *)
LEMMA DeliveryIsPrefix ==
    ASSUME IInv, pc = "writing", batch # << >>
    PROVE  LET rows == SequentialDecode(file).rows
               front == ReaderAfter(file, Delivered + 1).rows
           IN  /\ front \in Seq(Row) /\ Rest \in Seq(Row) /\ rows \in Seq(Row)
               /\ taken \in 0..Len(Rest)
               /\ output = front \o SubSeq(Rest, 1, taken)
               /\ Len(front) + Len(Rest) <= Len(rows)
               /\ \A n \in 0..Len(Rest) :
                      front \o SubSeq(Rest, 1, n) = SubSeq(rows, 1, Len(front) + n)
<1> DEFINE rows == SequentialDecode(file).rows
           front == ReaderAfter(file, Delivered + 1).rows
           m == (Delivered + 1) + 1
           more == Rest
<1>1. /\ more \in Seq(Row) /\ front \in Seq(Row)
      /\ m \in 2..Len(file) /\ file \in Seq(Cell)
      /\ ReaderAfter(file, m).rows = front \o more
      /\ taken \in 0..Len(more) /\ output = front \o SubSeq(more, 1, taken)
  BY NextDelivery, Writing
<1>2. file # << >> /\ file[1] = Header
  <2>1. outcome = "none"
    BY Writing
  <2> QED
    BY <2>1 DEF IInv, HeaderChecked, HasHeader
<1>3. m \in 1..Len(file) /\ Len(file) \in m..Len(file) /\ Len(file) \in 1..Len(file)
  BY <1>1
<1>4. rows = ReaderAfter(file, Len(file)).rows
  BY <1>1, <1>2, RowsOfFile
<1> HIDE DEF m
<1>5. /\ Len(front \o more) <= Len(rows)
      /\ \A i \in 1..Len(front \o more) : rows[i] = (front \o more)[i]
  BY <1>1, <1>3, <1>4, RowsOnlyGrow
<1>6. rows \in Seq(Row)
  <2>1. ReaderAfter(file, Len(file)) \in Reader
    BY <1>1, <1>3, ReaderType
  <2> QED
    BY <1>4, <2>1 DEF Reader
<1> HIDE DEF rows, front, more
<1>7. \A n \in 0..Len(more) :
          front \o SubSeq(more, 1, n) = SubSeq(rows, 1, Len(front) + n)
  BY <1>1, <1>5, <1>6, PrefixGoesOn
<1>8. Len(front) + Len(more) <= Len(rows)
  BY <1>1, <1>5, <1>6
<1> QED
  BY <1>1, <1>6, <1>7, <1>8 DEF rows, front, more

Status == IF outcome = "ok" THEN "ok"
          ELSE IF pc \in {"returned", "dropped"} THEN "failed" ELSE "running"

LEMMA AsyncInit == Init => Decoder!Init
BY DEF Init, Decoder!Init

LEMMA SinkStep ==
    ASSUME IInv, SinkTakesSome \/ SinkTakesBlock \/ SinkFails
    PROVE  Decoder!Next \/ UNCHANGED Decoder!vars
<1> DEFINE rows == SequentialDecode(file).rows
           front == ReaderAfter(file, Delivered + 1).rows
           more == Rest
<1>1. /\ pc = "writing" /\ batch # << >> /\ file' = file
      /\ outcome' = outcome /\ pc' \in {"writing", "failing"}
      /\ \/ \E n \in taken + 1..Len(more) - 1 : output' = output \o SubSeq(more, taken + 1, n)
         \/ output' = output \o SubSeq(more, taken + 1, Len(more))
         \/ output' = output
         \/ taken < Len(more) /\ output' = Append(output, Torn)
  BY DEF SinkTakesSome, SinkTakesBlock, SinkFails
<1>2. /\ front \in Seq(Row) /\ more \in Seq(Row) /\ rows \in Seq(Row)
      /\ taken \in 0..Len(more)
      /\ output = front \o SubSeq(more, 1, taken)
      /\ Len(front) + Len(more) <= Len(rows)
      /\ \A n \in 0..Len(more) :
             front \o SubSeq(more, 1, n) = SubSeq(rows, 1, Len(front) + n)
  BY <1>1, DeliveryIsPrefix
<1>3. outcome = "none"
  BY <1>1, Writing
<1>4. Status = "running" /\ Status' = "running"
  BY <1>1, <1>3 DEF Status
<1>5. Decoder!Rows(file) = rows
  BY SameDecode
<1> HIDE DEF rows, front, more
<1>6. output = SubSeq(rows, 1, Len(front) + taken) /\ output \in Seq(Row)
      /\ Len(output) = Len(front) + taken
  <2>1. output = SubSeq(rows, 1, Len(front) + taken)
    BY <1>2
  <2> QED
    BY <1>2, <2>1
<1>7. ~Decoder!IsTorn
  <2>1. output # << >> => output[Len(output)] \in Row
    BY <1>6
  <2>2. Decoder!Torn \notin Row
    BY TornIsNoRow DEF Torn, Decoder!Torn
  <2> QED
    BY <2>1, <2>2 DEF Decoder!IsTorn, Decoder!Last
<1>8. CASE output' = output
  BY <1>1, <1>4, <1>8 DEF Decoder!vars, Status
<1>9. CASE taken < Len(more) /\ output' = Append(output, Torn)
  <2>1. Len(output) \in Len(output)..Len(rows) - 1
    BY <1>2, <1>6, <1>9
  <2>2. output = SubSeq(rows, 1, Len(output))
    BY <1>6
  <2>3. output' = Append(SubSeq(rows, 1, Len(output)), Decoder!Torn)
    BY <1>9, <2>2 DEF Torn, Decoder!Torn
  <2> QED
    BY <1>1, <1>4, <1>5, <1>7, <2>1, <2>3 DEF Decoder!Next, Decoder!Tear, Status
<1>10. ASSUME NEW n \in taken..Len(more), output' = output \o SubSeq(more, taken + 1, n)
       PROVE  Decoder!Next \/ UNCHANGED Decoder!vars
  <2>1. output' = front \o SubSeq(more, 1, n)
    BY <1>2, <1>10, PiecesJoin
  <2>2. n \in 0..Len(more)
    BY <1>2
  <2>3. output' = SubSeq(rows, 1, Len(front) + n)
    BY <1>2, <2>1, <2>2
  <2>4. CASE n = taken
    BY <1>6, <1>8, <2>3, <2>4
  <2>5. CASE n # taken
    <3>1. Len(front) + n \in Len(output) + 1..Len(rows)
      BY <1>2, <1>6, <2>5
    <3> QED
      BY <1>1, <1>4, <1>5, <1>7, <2>3, <3>1 DEF Decoder!Next, Decoder!Write, Status
  <2> QED
    BY <2>4, <2>5
<1>11. CASE \E n \in taken + 1..Len(more) - 1 : output' = output \o SubSeq(more, taken + 1, n)
  <2>1. \A n \in taken + 1..Len(more) - 1 : n \in taken..Len(more)
    BY <1>2
  <2> QED
    BY <1>10, <1>11, <2>1
<1>12. CASE output' = output \o SubSeq(more, taken + 1, Len(more))
  <2>1. Len(more) \in taken..Len(more)
    BY <1>2
  <2> QED
    BY <1>10, <1>12, <2>1
<1> QED
  BY <1>1, <1>8, <1>9, <1>11, <1>12 DEF more

LEMMA AsyncStep ==
    ASSUME IInv, Next
    PROVE  Decoder!Next \/ UNCHANGED Decoder!vars
<1> USE DEF Status
<1>1. ASSUME UNCHANGED <<file, output>>, Status' = Status
      PROVE  UNCHANGED Decoder!vars
  BY <1>1 DEF Decoder!vars
<1>2. ASSUME UNCHANGED <<file, output>>, Status = "running", Status' = "failed"
      PROVE  Decoder!Next
  BY <1>2 DEF Decoder!Next, Decoder!Fail
<1>3. outcome # "none" <=> pc = "returned"
  BY DEF IInv, HeaderChecked
<1>4. CASE ScanFrame \/ ScanFooter \/ Done
  BY <1>1, <1>4 DEF ScanFrame, ScanFooter, HasCell, Done, vars
<1>5. CASE ReadHeader
  <2>1. pc = "start" /\ outcome = "none" /\ UNCHANGED <<file, output>>
        /\ \/ pc' = "scanning" /\ outcome' = outcome
           \/ pc' = "returned" /\ outcome' = "headerError"
    BY <1>3, <1>5 DEF ReadHeader, Return
  <2> QED
    BY <1>1, <1>2, <2>1
<1>6. CASE ScanFails \/ DecodeBatchFails \/ SinkError \/ DropFuture
  <2>1. pc \notin {"returned", "dropped"} /\ UNCHANGED <<file, output>>
        /\ \/ pc' = "returned" /\ outcome' # "ok"
           \/ pc' = "dropped" /\ outcome' = outcome
    BY <1>6 DEF ScanFails, DecodeBatchFails, SinkError, DropFuture, Return
  <2> QED
    BY <1>2, <1>3, <2>1
<1>7. CASE DecodeBatch
  <2>1. pc = "decoding" /\ UNCHANGED <<file, output>>
        /\ \/ pc' = "writing" /\ outcome' = outcome
           \/ pc' = "returned" /\ outcome' = "blockError"
    BY <1>7 DEF DecodeBatch, Return
  <2> QED
    BY <1>1, <1>2, <1>3, <2>1
<1>8. CASE SinkTakesSome \/ SinkTakesBlock \/ SinkFails
  BY <1>8, SinkStep
<1>9. CASE BatchWritten
  <2>1. pc = "writing" /\ batch = << >> /\ UNCHANGED <<file, output>>
    BY <1>9 DEF BatchWritten
  <2>2. outcome = "none" /\ AllDecode(Scanned) /\ ~SinkFailed
    BY <2>1, Writing
  <2>3. CASE scan.status = "sealed"
    <3>1. IsDecodable(file) /\ output = SequentialDecode(file).rows
      BY <2>1, <2>2, <2>3, AllWritten
    <3>2. Decoder!IsDecodable(file) /\ output = Decoder!Rows(file)
      BY <3>1, SameDecode
    <3>3. Status = "running" /\ Status' = "ok"
      BY <1>9, <2>1, <2>2, <2>3 DEF BatchWritten, Return
    <3> QED
      BY <2>1, <3>2, <3>3 DEF Decoder!Next, Decoder!Succeed
  <2>4. CASE scan.status # "sealed"
    BY <1>1, <1>9, <2>1, <2>2, <2>4 DEF BatchWritten
  <2> QED
    BY <2>3, <2>4
<1> QED
  BY <1>4, <1>5, <1>6, <1>7, <1>8, <1>9 DEF Next

(* The async decoder is a decoder of the stream: at every await, at every   *)
(* error and when its future is dropped, the sink has the first rows of     *)
(* those decode_jsonl_stream finds, with at most a torn one at the end; it  *)
(* succeeds only when they are all there and the file is sealed.            *)
THEOREM AsyncImplementsStreamDecoder == Spec => DecoderSpec
<1>1. IInv /\ [Next]_vars => [Decoder!Next]_(Decoder!vars)
  <2> SUFFICES ASSUME IInv, [Next]_vars PROVE Decoder!Next \/ UNCHANGED Decoder!vars
    OBVIOUS
  <2>1. CASE UNCHANGED vars
    BY <2>1 DEF vars, Decoder!vars
  <2> QED
    BY <2>1, AsyncStep
<1> QED
  BY <1>1, AsyncInit, AsyncInvariant, PTL DEF Spec, DecoderSpec, Decoder!Spec
=============================================================================
