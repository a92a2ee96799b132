------------------------------ MODULE MCFormats ------------------------------
(* Inputs for TLC: bytes of four bits, words of eight; an RLE run is at most *)
(* 15 long, a varint carries three bits a byte.  The decoders take three     *)
(* values, three entries and 20 bytes behind run lengths, and there are      *)
(* inputs with one more.                                                     *)
EXTENDS FormatsTables

SeqsUpTo(n, set) == UNION {[1..k -> set] : k \in 0..n}

Constantly(v, n) == [i \in 1..n |-> v]

MCNumberLists == SeqsUpTo(3, {0, 1, 7, 8, 64, 255}) \cup {Constantly(v, 4) : v \in {0, 8}}

(* A run that a count just holds, one too many, and twice that. *)
MCByteLists == SeqsUpTo(3, {0, 1, 7, 8, 9, 15}) \cup {Constantly(1, n) : n \in {15, 16, 31}}

Words4 == {<< >>, <<1>>, <<1, 2>>, <<1, 1>>}
MCStringLists == SeqsUpTo(3, Words4) \cup {<<Constantly(1, 16), <<1>>, Constantly(1, 16)>>}

Column(name, type, codec, nullable) ==
    [name |-> name, type |-> type, codec |-> codec, nullable |-> nullable]

CellLists(type, lists) ==
    {[column |-> Column("c", type, codec, nullable), cells |-> cells] :
        codec \in Range(Candidates(type)) \cup {"auto"}, nullable \in BOOLEAN, cells \in lists}

MCNumberColumns == CellLists("u64", SeqsUpTo(3, {0, 3, 200, Null}) \cup {<<Wrong>>, <<3, Wrong>>}
                                      \cup {Constantly(v, 4) : v \in {0, 3, Null}})
MCStringColumns == CellLists("string", SeqsUpTo(3, {<< >>, <<1>>, <<1, 2>>, Null})
                                         \cup {<<Constantly(1, n), <<1>>>> : n \in {16, 17}}
                                         \cup {<<<<1>>, Wrong>>, Constantly(<<1>>, 4)})
MCFlagColumns   == CellLists("bool", SeqsUpTo(3, {TRUE, FALSE, Null})
                                       \cup {Constantly(TRUE, 5), <<Wrong>>})

(* A number that may be absent and a string; groups of two rows.  Then four  *)
(* groups, four rows in one, and four columns.                               *)
Plain == <<Column("a", "u64", "auto", TRUE), Column("b", "string", "prefix", FALSE)>>

MCTables ==
    {[schema |-> Plain, rows |-> rows, limit |-> 2] :
        rows \in SeqsUpTo(4, {[a |-> 1, b |-> <<1>>], [a |-> 3, b |-> <<1, 2>>], [b |-> << >>]})}
    \cup {[schema |-> Plain, rows |-> <<[a |-> 1]>>, limit |-> 2],
          [schema |-> Plain, rows |-> << >>, limit |-> 0]}
    \cup {[schema |-> Plain, rows |-> Constantly([a |-> 3, b |-> <<1>>], 4), limit |-> n] :
             n \in {1, 4}}
    \cup {[schema |-> Plain \o <<Column("c", "bool", "auto", TRUE), Column("d", "u64", "auto", TRUE)>>,
           rows |-> <<[a |-> 1, b |-> <<1>>, c |-> TRUE]>>, limit |-> 1]}

Comparisons == {[kind |-> "u64", column |-> "a", op |-> op, value |-> v] :
                   op \in {"eq", "lt", "le", "gt", "ge"}, v \in {0, 1, 2, 3, 4}}

MCQueries ==
    {[projection |-> <<"b">>, predicate |-> p] :
        p \in Comparisons \cup {All, [kind |-> "null", column |-> "a"]}}
    \cup {[projection |-> names, predicate |-> p] :
             names \in {<< >>, <<"b", "b">>, <<"x">>},
             p \in {All, [kind |-> "null", column |-> "x"],
                    [kind |-> "u64", column |-> "b", op |-> "eq", value |-> 1]}}

(* Revisions: identities 1 and 2 under the names a and b, either way round;  *)
(* a third column with, without and with a null default.                     *)
Evolved(id, column, default) ==
    column @@ [stable_id |-> id, aliases |-> {}, default |-> default]

Revision(n, columns) == [revision |-> n, columns |-> columns]

FirstColumns ==
    {Evolved(id, Column(name, "u64", "stored", nullable), << >>) :
        id \in {1, 2}, name \in {"a", "b"}, nullable \in BOOLEAN}

Extras == {<< >>} \cup
    {<<Evolved(3, Column("c", type, "auto", nullable), default)>> :
        type \in {"u64"}, nullable \in BOOLEAN, default \in {<< >>, <<7>>, <<Null>>}}
    \cup {<<Evolved(2, Column("c", "string", "stored", TRUE), << >>)>>}
    \cup {<<[Evolved(3, Column("c", "u64", "delta_varint", FALSE), << >>) EXCEPT !.aliases = {"a"}]>>}

MCEvolutions ==
    {[writer |-> Revision(2, <<w1, w2>>), reader |-> Revision(n, <<r>> \o extra),
      rows |-> <<[a |-> 1, b |-> 2], [a |-> 3, b |-> 4]>>] :
        w1, w2, r \in FirstColumns, extra \in Extras, n \in {1, 2}}
    \cup {[writer |-> Revision(1, <<Evolved(1, Column("a", "u64", "delta_varint", FALSE), << >>)>>),
           reader |-> Revision(2, <<Evolved(1, Column("z", "u64", "stored", n), << >>)>>),
           rows |-> <<[a |-> 1], [a |-> 3]>>] : n \in BOOLEAN}

MCMigrations ==
    LET columns == {<<a, b>> : a, b \in {Column(n, "u64", c, FALSE) @@ [aliases |-> {}, default |-> << >>] :
                                             n \in {"a", "b"}, c \in {"stored", "bitmap"}}}
    IN  {[document |-> [metadata_version |-> 1, revision |-> r, columns |-> c], ids |-> ids] :
            r \in {0, 1}, c \in columns, ids \in [{"a", "b"} -> 0..2] \cup {[a |-> 1]}}
        \cup {[document |-> [metadata_version |-> 2, revision |-> 1,
                             columns |-> <<Evolved(1, Column("a", "u64", "stored", FALSE), << >>)>>],
               ids |-> ids] : ids \in {<< >>, [a |-> 2]}}

(* Two terms over documents 1, 3, 4 and 9, of no, one or two positions, and  *)
(* of three and four; then four terms.                                       *)
Places == {<< >>, <<0>>, <<1>>, <<0, 8>>}
ListsOf(docs) == {[i \in DOMAIN docs |-> [doc_id |-> docs[i], positions |-> places[i]]] :
                     places \in [DOMAIN docs -> Places]}

LongList(n) == <<[doc_id |-> 1, positions |-> <<0>>],
                 [doc_id |-> 3, positions |-> [i \in 1..n |-> i]], [doc_id |-> 4, positions |-> <<1>>]>>

MCIndexes ==
    {[step |-> step, entries |-> <<[term |-> 1, postings |-> p], [term |-> 2, postings |-> q]>>] :
        step \in 1..3,
        p \in ListsOf(<<1, 3, 9>>) \cup ListsOf(<<0>>) \cup {<< >>, LongList(3), LongList(4)},
        q \in {[i \in 1..n |-> [doc_id |-> <<1, 3, 4, 9>>[i], positions |-> <<i \div 2, 9>>]] :
                  n \in {0, 3, 4}}}
    \cup {[step |-> 1, entries |-> [e \in 1..n |-> [term |-> e, postings |-> LongList(1)]]] :
             n \in {3, 4}}

-----------------------------------------------------------------------------
(* The hypotheses of the proofs: these inputs meet them. *)

ASSUME InputsAssumption == InputsAreTyped /\ IndexesAreTyped

ASSUME CellMarksAssumption == CellMarksAreApart
=============================================================================
