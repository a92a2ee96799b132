-------------------------- MODULE MCParallelDecode ---------------------------
(* Small files for TLC: a sealed stream of three blocks of one, two and one *)
(* rows, and what damage can make of it: a cell dropped, doubled, swapped   *)
(* with the next, corrupt or torn (and the file cut there), bytes behind    *)
(* the footer, a block whose rows do not decode to their announced size,    *)
(* blocks that announce a wrong first row, one block more than there may be.*)
EXTENDS ParallelDecode

CONSTANT Damages   \* the kinds of damage a run considers

MCRow(i, kind) == [id |-> i, size |-> 1, kind |-> kind]

(* The blocks, with one row of the given kind in the place of a good one. *)
MCBlocks(spoiled, kind) ==
    LET row(i) == MCRow(i, IF i = spoiled THEN kind ELSE "row")
    IN  << [index |-> 0, first |-> 0, rows |-> <<row(1)>>],
           [index |-> 1, first |-> 1, rows |-> <<row(2), row(3)>>],
           [index |-> 2, first |-> 3, rows |-> <<row(4)>>] >>

MCFile(blocks) ==
    LET frames == [k \in DOMAIN blocks |-> Frame(blocks[k])]
        entries == FoldLeft(LAMBDA r, c : TakeBlock(r, c.block), ReaderStart,
                            frames).entries
    IN  <<Header>> \o frames \o <<Footer(entries)>>

(* From block k on, the first rows are one too high. *)
Shifted(k) ==
    [i \in DOMAIN MCBlocks(0, "row") |->
        IF i < k THEN MCBlocks(0, "row")[i]
        ELSE [MCBlocks(0, "row")[i] EXCEPT !.first = @ + 1]]

OneMore == Append(MCBlocks(0, "row"),
                  [index |-> 3, first |-> 4, rows |-> <<MCRow(5, "row")>>])

Good == MCFile(MCBlocks(0, "row"))

Cut(s, i) == SubSeq(s, 1, i - 1)

Damaged(kind) ==
    CASE kind = "none"    -> {Good}
      [] kind = "loose"   -> {MCFile(MCBlocks(i, "loose")) : i \in 1..4}
      [] kind = "drop"    -> {RemoveAt(Good, i) : i \in DOMAIN Good}
      [] kind = "double"  -> {InsertAt(Good, i, Good[i]) : i \in DOMAIN Good}
      [] kind = "swap"    -> {[Good EXCEPT ![i] = Good[i + 1], ![i + 1] = Good[i]] :
                                 i \in 1..Len(Good) - 1}
      [] kind = "corrupt" -> {[Good EXCEPT ![i] = Corrupt] : i \in DOMAIN Good}
      [] kind = "cut"     -> {Cut(Good, i) : i \in DOMAIN Good}
      [] kind = "torn"    -> {Append(Cut(Good, i), Torn) : i \in DOMAIN Good}
      [] kind = "shift"   -> {MCFile(Shifted(k)) : k \in 1..3}
      [] kind = "long"    -> {MCFile(OneMore)}
      [] kind = "tail"    -> {Append(Good, Torn)}

MCFiles == UNION {Damaged(kind) : kind \in Damages}
=============================================================================
