----------------------------- MODULE MCFileStore -----------------------------
(* Small commands, logs and tables for TLC.                                  *)
EXTENDS FileStore

Row1(id) == [id |-> id, kind |-> "row", size |-> 1]
Blank    == [id |-> 0, kind |-> "blank", size |-> 0]
Bad      == [id |-> 9, kind |-> "bad", size |-> 1]

AppendOf(lines)  == [kind |-> "append", lines |-> lines]
RollOf(lines)    == [kind |-> "roll", lines |-> lines]
RepairOf(source) == [kind |-> "repair", source |-> source]
ReviewOf(source) == [kind |-> "reviewed", source |-> source]

A == AppendOf(<<Row1(1)>>)
B == AppendOf(<<Row1(2)>>)
C == AppendOf(<<Row1(3), Blank, Row1(4), Row1(5)>>)

(* Five rows and three; blocks of two. *)
X == RollOf([i \in 1..5 |-> Row1(10 + i)])
Y == RollOf(<<Row1(21), Blank, Row1(22), Row1(23)>>)
Z == RollOf(<<Row1(31), Bad>>)

MCCommands == {<<A, B, C>>, <<A, B, ReviewOf("log")>>, <<C, RepairOf("log"), ReviewOf("log")>>,
               <<RepairOf("table"), ReviewOf("table"), RepairOf("log")>>,
               <<X, Y, RepairOf("table")>>, <<Y, X, Z>>}

(* No log; one with a block; the same with a torn end, damaged, or sealed.   *)
Old == AppendFile(<<<<Row1(7)>>>>)
MCLogs == {Absent, Old, Append(Old, Torn), <<Header, Corrupt>>,
           Append(Old, Footer(BlocksOf(Old)))}

Schema == <<[name |-> "a", type |-> "u64", codec |-> "stored", nullable |-> FALSE]>>
TableOf(n) == V4!EncodeFile(Schema, [i \in 1..n |-> [a |-> i]], 2)
Table      == TableOf(3)

(* Whole; without its footer; with a spoilt group; of three groups, where a  *)
(* reader takes two; foreign.                                                *)
MCTables == {Table, SubSeq(Table, 1, 3), [Table EXCEPT ![2] = Corrupt], TableOf(5), <<V4!Header3>>}

MCStarts ==
    {[log |-> l, table |-> Table, out |-> Absent] : l \in MCLogs}
        \cup {[log |-> Old, table |-> t, out |-> o] : t \in MCTables, o \in {Absent, <<Torn>>}}
=============================================================================
