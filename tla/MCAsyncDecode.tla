--------------------------- MODULE MCAsyncDecode -----------------------------
(* Small files for TLC: a sealed stream of blocks of one or two rows, with  *)
(* one cell dropped or corrupt, one row that does not decode to its         *)
(* announced size, the end cut off, bytes behind it, or a block too many.   *)
EXTENDS AsyncDecode

CONSTANT Sizes   \* the row counts of the blocks

FirstRow(sizes, k) == FoldLeft(LAMBDA n, m : n + m, 0, SubSeq(sizes, 1, k - 1))

(* The blocks; the row with number `spoiled` is the one that fails. *)
MCBlocks(sizes, spoiled) ==
    [k \in DOMAIN sizes |->
        LET first == FirstRow(sizes, k)
        IN  [index |-> k - 1, first |-> first,
             rows |-> [j \in 1..sizes[k] |->
                          [id |-> first + j, size |-> 1,
                           kind |-> IF first + j = spoiled THEN "loose" ELSE "row"]]]]

MCFile(blocks) ==
    LET frames == [k \in DOMAIN blocks |-> Frame(blocks[k])]
    IN  <<Header>> \o frames \o
        <<Footer(FoldLeft(LAMBDA r, b : TakeBlock(r, b), ReaderStart, blocks).entries)>>

Good == MCFile(MCBlocks(Sizes, 0))

MCFiles ==
    {Good, Append(Good, Torn), MCFile(MCBlocks(Append(Sizes, 1), 0))}
        \cup {MCFile(MCBlocks(Sizes, i)) : i \in 1..FirstRow(Sizes, Len(Sizes) + 1)}
        \cup {RemoveAt(Good, i) : i \in DOMAIN Good}
        \cup {[Good EXCEPT ![i] = Corrupt] : i \in DOMAIN Good}
        \cup {SubSeq(Good, 1, i) : i \in DOMAIN Good}

MCSizes == <<1, 2, 1, 1, 2>>
=============================================================================
