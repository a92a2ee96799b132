------------------------------ MODULE Cmp2File -------------------------------
(***************************************************************************)
(* The bytes of a CMP2 stream, as the writers lay them down and the readers *)
(* cut them up again: a sequence of cells.                                  *)
(*                                                                          *)
(*   header   the ten bytes of write_stream_header                          *)
(*   frame    a CMP1 frame that holds one block: its index, the index of    *)
(*            its first row, its rows                                       *)
(*   footer   the IDX1 index: one entry per block                           *)
(*   torn     some, not all, of the bytes of a cell (a failed write_all, a  *)
(*            crash in the middle of a write)                               *)
(*   corrupt  a frame of the right length whose checksum does not match     *)
(*                                                                          *)
(* Lengths are abstract: a header is 1 long, a frame 1 and one more per row,*)
(* so that blocks of different rows have different offsets and lengths.  A  *)
(* checksum is the payload itself: it tells any two payloads apart.         *)
(***************************************************************************)
EXTENDS RowGroups, FiniteSets

CONSTANT MaxStreamBlocks   \* limits::MAX_STREAM_BLOCKS

ASSUME MaxStreamBlocksAssumption == MaxStreamBlocks \in Nat \ {0}

Block == [index : Nat, first : Nat, rows : Seq(Row)]

Header        == [kind |-> "header"]
Torn          == [kind |-> "torn"]
Corrupt       == [kind |-> "corrupt"]
Frame(block)  == [kind |-> "frame", block |-> block]
Footer(index) == [kind |-> "footer", index |-> index]

(* BlockMetadata: one line of the index. *)
EntrySet == [block_index : Nat, encoded_offset : Nat, row_count : Nat,
             compressed_size : Nat, checksum : Block]

Cell == [kind : {"header", "torn", "corrupt"}]
            \cup [kind : {"frame"}, block : Block]
            \cup [kind : {"footer"}, index : Seq(EntrySet)]

HeaderLen       == 1
FrameLen(block) == 1 + Len(block.rows)

(* One BlockMetadata: where a block starts, how long it is, what it holds. *)
Entry(block, offset) ==
    [block_index     |-> block.index,
     encoded_offset  |-> offset,
     row_count       |-> Len(block.rows),
     compressed_size |-> FrameLen(block),
     checksum        |-> block]


-----------------------------------------------------------------------------
(* Readers.  A reader that has looked at some cells knows the entries of    *)
(* the blocks it scanned, the next row index and the next offset; `status`  *)
(* is "reading", "sealed" once it met a good footer, or "error".            *)

ReaderStart == [status |-> "reading", entries |-> << >>, nextRow |-> 0,
                nextOffset |-> HeaderLen, rows |-> << >>]

ReaderFails(r) == [r EXCEPT !.status = "error"]

IsNextBlock(r, block) ==
    /\ block.index = Len(r.entries)
    /\ block.first = r.nextRow

TakeBlock(r, block) ==
    [status     |-> r.status,
     entries    |-> Append(r.entries, Entry(block, r.nextOffset)),
     nextRow    |-> r.nextRow + Len(block.rows),
     nextOffset |-> r.nextOffset + FrameLen(block),
     rows       |-> r.rows \o block.rows]

(* decode_jsonl renders exactly the bytes the block's raw size counts. *)
DecodesToRawSize(block) == \A i \in DOMAIN block.rows : block.rows[i].kind = "row"

(* Every block of some cells can be decoded; rows written in rendered text. *)
IsReadable(cells) ==
    \A i \in DOMAIN cells : cells[i].kind = "frame" => DecodesToRawSize(cells[i].block)

IsCanonical(rows) == \A i \in DOMAIN rows : rows[i].kind # "loose"

(* JsonlBlockReader::next_block on one more cell. *)
DecodeCell(r, cell) ==
    IF r.status # "reading" THEN ReaderFails(r)
    ELSE CASE cell.kind = "frame" ->
                  IF IsNextBlock(r, cell.block) /\ DecodesToRawSize(cell.block)
                  THEN TakeBlock(r, cell.block) ELSE ReaderFails(r)
           [] cell.kind = "footer" ->
                  IF Len(cell.index) <= MaxStreamBlocks /\ cell.index = r.entries
                  THEN [r EXCEPT !.status = "sealed"] ELSE ReaderFails(r)
           [] OTHER -> ReaderFails(r)

(* The reader once it has read the header and the cells up to the n-th. *)
ReaderAfter(file, n) == FoldLeft(DecodeCell, ReaderStart, SubSeq(file, 2, n))

(* decode_jsonl_stream: what the sequential reader makes of a whole file. *)
SequentialDecode(file) ==
    IF file = << >> \/ file[1] # Header THEN ReaderFails(ReaderStart)
    ELSE LET end == ReaderAfter(file, Len(file))
         IN  IF end.status = "reading" THEN ReaderFails(end) ELSE end

IsDecodable(file) == SequentialDecode(file).status = "sealed"

(* inspect_jsonl_stream scans the frames without decoding their columns, and*)
(* does not ask for a footer; but a footer there is must be right.          *)
InspectCell(r, cell) ==
    IF r.status # "reading" THEN ReaderFails(r)
    ELSE CASE cell.kind = "frame" ->
                  IF IsNextBlock(r, cell.block)
                  THEN TakeBlock(r, cell.block) ELSE ReaderFails(r)
           [] cell.kind = "footer" ->
                  IF Len(cell.index) <= MaxStreamBlocks /\ cell.index = r.entries
                  THEN [r EXCEPT !.status = "sealed"] ELSE ReaderFails(r)
           [] OTHER -> ReaderFails(r)

Inspect(file) ==
    IF file = << >> \/ file[1] # Header THEN ReaderFails(ReaderStart)
    ELSE FoldLeft(InspectCell, ReaderStart, Tail(file))

IsInspectable(file) == Inspect(file).status # "error"
=============================================================================
