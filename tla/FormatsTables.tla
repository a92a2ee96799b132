---------------------------- MODULE FormatsTables ----------------------------
(***************************************************************************)
(* The words in which the proofs about Formats speak: the tables that the   *)
(* folds and the loops of the model run through, state by state; what codecs*)
(* and lists hold, said without a loop; and what the inputs have to be.     *)
(* Nothing here models code, and no specification uses it.                  *)
(***************************************************************************)
EXTENDS Formats

-----------------------------------------------------------------------------
(* Induction over the numbers up to a bound, for a set of numbers; the folds *)
(* of the community modules, unfolded.                                       *)

(* One value more for a dictionary. *)
Added(d, v) == IF v \in Range(d) THEN d ELSE Append(d, v)

(* A step of the folds of the model, by name. *)
FoldStep(fold, x, v) ==
    CASE fold = "sum"        -> x + v
      [] fold = "dictionary" -> Added(x, v)
      [] fold = "score"      -> AddScore(x, v)

(* f is the function the fold over the first n places is chosen to be. *)
IsFold(f, fold, base, seq, n) ==
    f = [s \in SUBSET (1..n) |->
            IF s = {} THEN base ELSE FoldStep(fold, f[s \ {Max(s)}], seq[Max(s)])]

(* t holds what the fold comes to at each place. *)
FoldSteps(t, fold, base, seq, n) ==
    /\ t = [k \in 0..n |-> t[k]] /\ t[0] = base
    /\ \A k \in 1..n : t[k] = FoldStep(fold, t[k - 1], seq[k])

(* f holds what the first sequences come to, one after another. *)
Flattens(f, seqs, n) ==
    f = [i \in 1..n |-> IF i = 1 THEN seqs[i] ELSE f[i - 1] \o seqs[i]]

(* f is a sequence of n members of X. *)
IsArray(f, n, X) == f = [i \in 1..n |-> f[i]] /\ \A i \in 1..n : f[i] \in X

-----------------------------------------------------------------------------
(* Powers of two. *)

LastPower == WordBits + ByteBits + 1

-----------------------------------------------------------------------------
(* Sums. *)

(* t holds the sums of the first terms. *)
SumSteps(t, terms, n) ==
    /\ t[0] = 0
    /\ \A k \in 1..n : t[k] = t[k - 1] + terms[k]

-----------------------------------------------------------------------------
(* Digits. *)

(* U holds the powers of M, the units of a positional system. *)
Units(U, M, n) ==
    /\ M \in Nat /\ M > 0 /\ n \in Nat
    /\ U[0] = 1
    /\ \A k \in 1..n : U[k] = M * U[k - 1]

Digit(v, u, M) == (v \div u) % M

-----------------------------------------------------------------------------
(* Digits of a sum of digits. *)

(* Digits times their units. *)
Terms(d, U, n) == [i \in 1..n |-> d[i] * U[i - 1]]

AreTerms(s, d, U, M, n) ==
    /\ Units(U, M, n)
    /\ \A i \in 1..n : d[i] \in 0..M - 1
    /\ s \in Seq(Int) /\ Len(s) = n
    /\ \A i \in 1..n : s[i] = d[i] * U[i - 1]

(* What is assumed of the mark for an error: it is no function, and so no   *)
(* sequence and no record.                                                  *)
ErrIsApart == \A x : Err # [i \in DOMAIN x |-> x[i]]

-----------------------------------------------------------------------------
(* Bits and bytes. *)

Bit == {0, 1}

-----------------------------------------------------------------------------
(* Bits packed into bytes, and back. *)

(* The n-th bit of some bytes, from 1. *)
BitAt(data, n) == BitOf(data[((n - 1) \div ByteBits) + 1], (n - 1) % ByteBits)

(* What UnpackBits refuses: another length, or padding that is not zero. *)
Refused(data, count) ==
    \/ Len(data) # CeilDiv(count, ByteBits)
    \/ \E n \in count + 1..Len(data) * ByteBits : BitAt(data, n) # 0

-----------------------------------------------------------------------------
(* Flags and packed values. *)

(* A flag as a bit. *)
Flag(flags, i) == IF flags[i] THEN 1 ELSE 0

(* The n-th bit of values packed at some width. *)
PackedAt(values, width, n) == BitOf(values[((n - 1) \div width) + 1], (n - 1) % width)

(* The i-th value of bits unpacked at some width. *)
UnpackedAt(bits, width, i) == SumOf([b \in 1..width |-> bits[(i - 1) * width + b] * 2^(b - 1)])

-----------------------------------------------------------------------------
(* Differences and zigzag. *)

(* Values that never go down. *)
Rises(values) == \A i \in 1..Len(values) - 1 : values[i] <= values[i + 1]

-----------------------------------------------------------------------------
(* Varints. *)

(* The unit of each group of a varint. *)
VU == [k \in 0..LongestVarint |-> 2^(GroupBits * k)]

(* v takes n groups and no fewer. *)
Fits(v, n) == n \in 1..LongestVarint /\ v < VU[n] /\ (n = 1 \/ v >= VU[n - 1])

-----------------------------------------------------------------------------
(* The bytes of a varint. *)

(* A group with the bit that says whether more follow. *)
Continued(x, i, n) == x + (IF i < n THEN More ELSE 0)

(* A group times its unit. *)
GroupOf(bytes, i) == (bytes[i] % More) * 2^(GroupBits * (i - 1))

-----------------------------------------------------------------------------
(* A varint that is somewhere in the data is read there. *)

IsAt(data, from, piece) ==
    /\ from + Len(piece) <= Len(data) + 1
    /\ \A i \in 1..Len(piece) : data[from + i - 1] = piece[i]

-----------------------------------------------------------------------------
(* Varints one after another. *)

(* The varints of a list, one by one. *)
Pieces(values) == [i \in DOMAIN values |-> EncodeVarint(values[i])]

(* What reading a list yields: its values, and the offset behind them. *)
ReadOf(values, next) == [values |-> values, next |-> next]

(* One varint more, behind those that were read. *)
NextRead(data, before) ==
    IF before = Err THEN Err
    ELSE IF ReadVarint(data, before.next) = Err THEN Err
    ELSE [values |-> Append(before.values, ReadVarint(data, before.next).value),
          next   |-> ReadVarint(data, before.next).next]

(* f is the function ReadVarints is chosen to be. *)
ReadsSo(f, data, from, n) ==
    f = [k \in 0..n |-> IF k = 0 THEN [values |-> << >>, next |-> from]
                        ELSE NextRead(data, f[k - 1])]

(* f holds what was read after each varint. *)
VarintReads(f, data, from, count) ==
    /\ f[0] = [values |-> << >>, next |-> from]
    /\ \A k \in 1..count : f[k] = NextRead(data, f[k - 1])
    /\ ReadVarints(data, from, count) = f[count]

-----------------------------------------------------------------------------
(* Lists of varints, there and back. *)

(* The first k values. *)
Part(values, k) == SubSeq(values, 1, k)

(* What was read is these values, and they are there in the data. *)
IsRead(data, from, read, values, n) ==
    /\ values \in Seq(Word) /\ Len(values) = n
    /\ read = [values |-> values, next |-> from + Len(EncodeVarints(values))]
    /\ IsAt(data, from, EncodeVarints(values))

(* The bytes that end a varint. *)
Ends(data) == {i \in DOMAIN data : data[i] < More}

-----------------------------------------------------------------------------
(* Run lengths. *)

(* The end of the run that begins at i, as EncodeRle chooses it. *)
RunLast(data, i) ==
    CHOOSE j \in i..Len(data) :
        /\ j - i < MaxRun /\ \A k \in i..j : data[k] = data[i]
        /\ j - i = MaxRun - 1 \/ j = Len(data) \/ data[j + 1] # data[i]

(* l ends a run at i: as long as the bytes stay the same and a count holds. *)
IsRun(data, i, j) == j \in i..Len(data) /\ j - i < MaxRun /\ \A k \in i..j : data[k] = data[i]

RunStep(data, f, i) ==
    IF i > Len(data) THEN << >>
    ELSE <<RunLast(data, i) - i + 1, data[i]>> \o f[RunLast(data, i) + 1]

RunsSo(f, data, low) ==
    f = [i \in low..Len(data) + 1 |-> RunStep(data, f, i)]

(* m pairs, the counts in them and the pieces they stand for. *)
IsRuns(r, m, counts, pieces) ==
    /\ r \in Seq(Byte) /\ m \in Nat /\ Len(r) = 2 * m
    /\ counts \in Seq(Int) /\ Len(counts) = m
    /\ pieces \in Seq(Seq(Byte)) /\ Len(pieces) = m
    /\ \A k \in 1..m : counts[k] \in 1..MaxRun /\ counts[k] = r[2 * k - 1]
    /\ \A k \in 1..m : pieces[k] = [j \in 1..counts[k] |-> r[2 * k]]

(* One byte, c times. *)
Repeated(x, c) == [j \in 1..c |-> x]

(* The rest of the data from a place on, in runs. *)
Covers(r, data, i) ==
    \E m, counts, pieces :
        /\ IsRuns(r, m, counts, pieces)
        /\ SumOf(counts) = Len(data) + 1 - i
        /\ FlattenSeq(pieces) = SubSeq(data, i, Len(data))

-----------------------------------------------------------------------------
(* Strings behind their lengths. *)

(* Strings: their length is a word, as a usize is. *)
String == {s \in Seq(Byte) : Len(s) \in Word}

(* What ReadString takes behind a length it has read. *)
Taken(data, len) ==
    IF len.next + len.value > Len(data) + 1 THEN Err
    ELSE [value |-> SubSeq(data, len.next, len.next + len.value - 1),
          next  |-> len.next + len.value]

-----------------------------------------------------------------------------
(* Strings one after another. *)

(* One step of ReadStrings, to the n-th string. *)
OneString(codec, data, n, before) ==
    IF codec = "prefix"
    THEN ReadSuffix(data, before.next, IF n = 1 THEN << >> ELSE Last(before.values))
    ELSE ReadString(data, before.next)

NextString(codec, data, n, before) ==
    IF before = Err THEN Err
    ELSE IF OneString(codec, data, n, before) = Err THEN Err
    ELSE [values |-> Append(before.values, OneString(codec, data, n, before).value),
          next   |-> OneString(codec, data, n, before).next]

(* f is the function ReadStrings is chosen to be. *)
StringsSo(f, codec, data, from, n) ==
    f = [k \in 0..n |-> IF k = 0 THEN [values |-> << >>, next |-> from]
                        ELSE NextString(codec, data, k, f[k - 1])]

(* f holds what was read after each string. *)
StringReads(f, codec, data, from, count) ==
    /\ f[0] = [values |-> << >>, next |-> from]
    /\ \A k \in 1..count : f[k] = NextString(codec, data, k, f[k - 1])
    /\ ReadStrings(codec, data, from, count) = f[count]

(* Wherever the k-th piece is, the k-th value is read from it. *)
Readable(codec, data, values, pieces) ==
    \A k \in 1..Len(values), at \in Nat :
        at > 0 /\ IsAt(data, at, pieces[k]) =>
            NextString(codec, data, k, [values |-> SubSeq(values, 1, k - 1), next |-> at])
                = [values |-> SubSeq(values, 1, k), next |-> at + Len(pieces[k])]

(* What one call of the reader has to find for Readable. *)
ReadsOne(codec, data, values, pieces) ==
    \A k \in 1..Len(values), at \in Nat :
        at > 0 /\ IsAt(data, at, pieces[k]) =>
            OneString(codec, data, k, [values |-> SubSeq(values, 1, k - 1), next |-> at])
                = [value |-> values[k], next |-> at + Len(pieces[k])]

(* The stored strings of a list, one by one. *)
StoredPieces(values) == [i \in DOMAIN values |-> StoredString(values[i])]

-----------------------------------------------------------------------------
(* Strings behind what they share with the one before. *)

(* What the i-th string shares with the one before. *)
SharedAt(values, i) == IF i = 1 THEN 0 ELSE SharedPrefix(values[i - 1], values[i])

(* What is left of the i-th string behind that. *)
SuffixAt(values, i) == SubSeq(values[i], SharedAt(values, i) + 1, Len(values[i]))

(* The i-th string as EncodePrefix writes it. *)
PrefixPiece(values, i) == EncodeVarint(SharedAt(values, i)) \o StoredString(SuffixAt(values, i))
PrefixPieces(values) == [i \in DOMAIN values |-> PrefixPiece(values, i)]

-----------------------------------------------------------------------------
(* Dictionaries. *)

(* d holds what the first k values are, each once. *)
IsDictionary(d, X, values, k) ==
    /\ d \in Seq(X) /\ Len(d) <= k
    /\ \A i, j \in 1..Len(d) : d[i] = d[j] => i = j
    /\ Range(d) = {values[i] : i \in 1..k}
    /\ IsFiniteSet(Range(d)) /\ Cardinality(Range(d)) = Len(d)

(* Where the words of values are in a dictionary, from zero. *)
DictionaryIds(values, d) == [i \in DOMAIN values |-> (CHOOSE j \in DOMAIN d : d[j] = values[i]) - 1]

(* A dictionary and the places of the values in it. *)
DictionaryBytes(values, d) ==
    EncodeVarint(Len(d)) \o StoredStrings(d) \o EncodeVarints(DictionaryIds(values, d))

DecodedIds(ids, size, words, count) ==
    IF ids = Err THEN Err
    ELSE IF Len(ids) # count \/ \E i \in DOMAIN ids : ids[i] >= size.value THEN Err
    ELSE [i \in DOMAIN ids |-> words.values[ids[i] + 1]]

DecodedWords(words, size, data, count) ==
    IF words = Err THEN Err
    ELSE DecodedIds(DecodeVarints(SubSeq(data, words.next, Len(data))), size, words, count)

(* DecodeDictionary step by step: the size, the words, the places. *)
DecodedSize(size, data, count) ==
    IF size = Err THEN Err
    ELSE DecodedWords(IF size.value > MaxDictionary THEN Err
                      ELSE ReadStrings("stored", data, size.next, size.value), size, data, count)

-----------------------------------------------------------------------------
(* Chosen elements. *)

(* f is the function Chosen is defined by. *)
ChosenSo(f, seq, places, n) ==
    f = [k \in 0..n |-> IF k = 0 THEN << >>
                        ELSE IF k \in places THEN Append(f[k - 1], seq[k]) ELSE f[k - 1]]

(* One place more. *)
Taking(seq, places, k, before) == IF k \in places THEN Append(before, seq[k]) ELSE before

(* One posting more, unless one before has failed. *)
NextCursor(list, before) == IF before = Err THEN Err ELSE NextPosting(list, before)

(* A step of the loops of the model, by name, and what a loop goes through. *)
LoopStep(loop, data, more, k, before) ==
    CASE loop = "varints" -> NextRead(data, before)
      [] loop = "strings" -> NextString(more, data, k, before)
      [] loop = "chosen"  -> Taking(data, more, k, before)
      [] loop = "cursors" -> NextCursor(data, before)

IsLoop(f, loop, data, more, base, n) ==
    f = [k \in 0..n |-> IF k = 0 THEN base ELSE LoopStep(loop, data, more, k, f[k - 1])]

(* f holds what was taken up to each place. *)
Choosing(f, seq, places, n) ==
    /\ f[0] = << >>
    /\ \A k \in 1..n : f[k] = Taking(seq, places, k, f[k - 1])
    /\ Chosen(seq, places) = f[n]

(* The places up to k. *)
Up(places, k) == {j \in 1..k : j \in places}

(* How many of the first k places are among them. *)
Rank(places, k) == Cardinality(Up(places, k))

(* c holds the elements at the places up to k, each at its rank. *)
IsChosen(c, X, seq, places, k) ==
    /\ c \in Seq(X) /\ Len(c) = Rank(places, k)
    /\ \A i \in 1..k : i \in places =>
           Rank(places, i) \in 1..Len(c) /\ c[Rank(places, i)] = seq[i]

-----------------------------------------------------------------------------
(* Numbers in a column. *)

(* The differences of delta_bitpack before their range is checked. *)
StepSeq(values) == [i \in DOMAIN values |-> IF i = 1 THEN 0 ELSE values[i] - values[i - 1]]

NumberCodecs == {"bitpack", "delta_bitpack", "delta_varint", "stored"}

(* What the metadata of a chunk of numbers keeps for its decoder. *)
NumbersMeta(meta, codec, values) ==
    /\ meta.codec = codec
    /\ meta.width = EncodeNumbers(codec, values).width
    /\ meta.base = IF codec = "delta_bitpack" THEN Base(values) ELSE 0

(* More values than a decoder takes. *)
TooLong(values) == Len(values) > MaxDecodedValues

(* A codec of numbers gives these values back, if they are not too many. *)
NumbersBack(codec, values) ==
    /\ EncodeNumbers(codec, values) # Err
    /\ EncodeNumbers(codec, values).bytes \in Seq(Byte)
    /\ \A meta : ~ TooLong(values) /\ NumbersMeta(meta, codec, values) =>
           DecodeNumbers(meta, EncodeNumbers(codec, values).bytes, Len(values)) = values

-----------------------------------------------------------------------------
(* How long encoded strings are. *)

(* Pieces that are not empty, each at most `more` longer than a number of its own. *)
Bounded(pieces, sizes, more) ==
    \A i \in 1..Len(pieces) : Len(pieces[i]) >= 1 /\ Len(pieces[i]) <= sizes[i] + more

(* The lengths of strings. *)
Lengths(values) == [i \in DOMAIN values |-> Len(values[i])]

-----------------------------------------------------------------------------
(* Strings in a column. *)

(* The bytes of a codec of strings. *)
StringBytes(codec, values) ==
    CASE codec = "stored"     -> StoredStrings(values)
      [] codec = "rle"        -> EncodeRle(StoredStrings(values))
      [] codec = "prefix"     -> EncodePrefix(values)
      [] codec = "dictionary" -> EncodeDictionary(values)

(* What the metadata of a chunk of strings keeps for its decoder. *)
StringsMeta(meta, codec, values) ==
    meta.codec = codec /\ meta.raw_size = SumOf(Lengths(values))

(* Run lengths of more bytes than their decoder takes. *)
Bloats(codec, values) == codec = "rle" /\ Len(StoredStrings(values)) > MaxDecodedBytes

(* What the decoder makes of these values. *)
Kept(codec, values) == IF Bloats(codec, values) THEN Err ELSE values

(* A codec of strings gives these values back, or its decoder refuses them.  *)
TextBack(codec, values) ==
    /\ EncodeStrings(codec, values) # Err
    /\ EncodeStrings(codec, values).bytes \in Seq(Byte)
    /\ \A meta : StringsMeta(meta, codec, values) =>
           DecodeStrings(meta, EncodeStrings(codec, values).bytes, Len(values))
               = Kept(codec, values)

TextDecodes(codec, values, bytes) ==
    \A meta : StringsMeta(meta, codec, values) =>
        DecodeStrings(meta, bytes, Len(values)) = Kept(codec, values)

-----------------------------------------------------------------------------
(* What the codec of a column can hold comes back. *)

Types == {"bool", "u64", "string"}

(* The values of a type. *)
ValuesOf(type) ==
    CASE type = "bool"   -> BOOLEAN
      [] type = "u64"    -> Word
      [] type = "string" -> String

(* What a codec cannot hold. *)
Cannot(codec, values) ==
    \/ codec \in {"delta_bitpack", "delta_varint"} /\ ~ Rises(values)
    \/ codec = "dictionary" /\ Cardinality(Range(values)) > MaxDictionary

(* What the metadata of a chunk keeps for the decoder of its values. *)
ValuesMeta(meta, type, codec, values) ==
    /\ meta.type = type /\ meta.codec = codec
    /\ meta.raw_size = RawSize(type, values)
    /\ meta.width = EncodeValues(type, codec, values).width
    /\ meta.base = IF codec = "delta_bitpack" THEN Base(values) ELSE 0

(* A codec gives these values of a type back, within the limits. *)
ValuesBack(type, codec, values) ==
    /\ EncodeValues(type, codec, values) # Err
    /\ EncodeValues(type, codec, values).bytes \in Seq(Byte)
    /\ \A meta : ~ TooLong(values) /\ ValuesMeta(meta, type, codec, values) =>
           DecodeValues(meta, EncodeValues(type, codec, values).bytes, Len(values))
               = Kept(codec, values)

-----------------------------------------------------------------------------
(* Statistics. *)

(* The counts and statistics in the metadata are those of the values. *)
CountsFit(meta, type, values) ==
    /\ meta.type = type
    /\ meta.value_count - meta.null_count = Len(values)
    /\ meta.statistics = Statistics(type, values)

-----------------------------------------------------------------------------
(* Cells, the values in them, and the chunk they make. *)

(* The cells that are not null, and the bitmap that says so. *)
Full(cells) == {i \in DOMAIN cells : cells[i] # Null}
Validity(cells) == [i \in DOMAIN cells |-> cells[i] # Null]

(* What an encoder makes of the cells, whatever rows they come from. *)
FlagBytes(column, cells) == IF column.nullable THEN EncodeBitmap(Validity(cells)) ELSE << >>

MetaOf(column, codec, cells, body) ==
    [name        |-> column.name,  type     |-> column.type,
     nullable    |-> column.nullable, codec |-> codec,
     value_count |-> Len(cells),
     null_count  |-> Len(cells) - Len(Present(cells)),
     raw_size    |-> RawSize(column.type, Present(cells)),
     width       |-> body.width,
     base        |-> IF codec = "delta_bitpack" THEN Base(Present(cells)) ELSE 0,
     statistics  |-> Statistics(column.type, Present(cells))]

ChunkOf(column, codec, cells, body) ==
    [meta |-> MetaOf(column, codec, cells, body), payload |-> FlagBytes(column, cells) \o body.bytes]

-----------------------------------------------------------------------------
(* A chunk read back. *)

(* The bitmap of a chunk, and how long it is. *)
FlagsLen(meta) == IF meta.nullable THEN CeilDiv(meta.value_count, ByteBits) ELSE 0

FlagsRead(meta, payload) ==
    IF meta.nullable
    THEN DecodeBitmap(SubSeq(payload, 1, Min({FlagsLen(meta), Len(payload)})), meta.value_count)
    ELSE [i \in 1..meta.value_count |-> TRUE]

(* The cells a column of a type may be given. *)
CellsOf(type) == ValuesOf(type) \cup {Null, Wrong}

(* The marks for a missing cell and for a value of another type are neither  *)
(* of them values.                                                           *)
CellMarksAreApart ==
    Null # Wrong /\ \A type \in Types : Null \notin ValuesOf(type) /\ Wrong \notin ValuesOf(type)

(* A chunk of some cells in a codec that can hold them. *)
ChunkBack(column, codec, cells, chunk) ==
    /\ chunk # Err
    /\ DecodeColumn(chunk.meta, chunk.payload) = IF IsOverLimit(chunk, cells) THEN Err ELSE cells
    /\ chunk.meta.codec = codec
    /\ chunk.meta.name = column.name /\ chunk.meta.type = column.type
    /\ chunk.meta.nullable = column.nullable /\ chunk.meta.value_count = Len(cells)
    /\ chunk.payload \in Seq(Byte)

-----------------------------------------------------------------------------
(* The chunk of a codec, and the least of several. *)

(* Every chunk there is has a size. *)
Sized(chunks, n) ==
    /\ DOMAIN chunks = 1..n
    /\ \A i \in 1..n : chunks[i] # Err => SizeOf(chunks[i]) \in Nat

-----------------------------------------------------------------------------
(* The choice of a codec. *)

(* No candidate makes a smaller chunk. *)
NoLarger(chunk, column, rows) ==
    \A codec \in Range(Candidates(column.type)) :
        LET other == EncodeWith(column, codec, rows)
        IN  other # Err => SizeOf(chunk) <= SizeOf(other)

(* A column a schema can have: a type, and a codec of that type or "auto".   *)
IsColumn(column) ==
    /\ column.type \in Types
    /\ column.codec \in Range(Candidates(column.type)) \cup {"auto"}

-----------------------------------------------------------------------------
(* Every codec, in a behaviour. *)

(* What is written is what the program can be given: lists of words, of      *)
(* bytes and of strings, and cells of columns a schema can have.             *)
InputsAreTyped ==
    /\ NumberLists \subseteq Seq(Word) /\ ByteLists \subseteq Seq(Byte)
    /\ StringLists \subseteq Seq(String)
    /\ \A c \in NumberColumns \cup StringColumns \cup FlagColumns :
           IsColumn(c.column) /\ c.cells \in Seq(CellsOf(c.column.type))

(* What was written is what the action that wrote it had to write. *)
InputInv ==
    /\ subject = "numbers" => input \in NumberLists
    /\ subject = "bytes"   => input \in ByteLists
    /\ subject = "strings" => input \in StringLists
    /\ subject = "column"  => input \in NumberColumns \cup StringColumns \cup FlagColumns
    /\ subject = "index"   => input \in Indexes

-----------------------------------------------------------------------------
(* The sections of a posting list. *)

(* How far the first k of several pieces reach. *)
Before(groups, k) == Len(FlattenSeq(SubSeq(groups, 1, k)))

(* A posting of words. *)
Posting == [doc_id : Word, positions : Seq(Word)]

(* Postings the encoder is given: documents and positions are words, both   *)
(* strictly increasing, and there are no more positions than words.         *)
PostingsOk(postings) ==
    /\ postings \in Seq(Posting) /\ ArePostings(postings)
    /\ \A i \in 1..Len(postings) : Len(postings[i].positions) \in Word

IdsOf(postings)   == [i \in DOMAIN postings |-> postings[i].doc_id]

(* The position gaps of a posting. *)
PlacesOf(posting) == Differences(posting.positions)

(* The three sections of a list, piece by piece. *)
DocPieces(postings) ==
    [i \in DOMAIN postings |-> EncodeVarint(Differences(IdsOf(postings))[i])]
FreqPieces(postings) ==
    [i \in DOMAIN postings |-> EncodeVarint(Len(postings[i].positions))]
PlacePieces(postings) ==
    [i \in DOMAIN postings |-> EncodeVarints(PlacesOf(postings[i]))]

-----------------------------------------------------------------------------
(* A cursor in a list. *)

(* A list that has these postings in its sections. *)
Holds(list, postings) ==
    /\ list.doc_ids = FlattenSeq(DocPieces(postings))
    /\ list.frequencies = FlattenSeq(FreqPieces(postings))
    /\ list.positions = FlattenSeq(PlacePieces(postings))

(* The document a gap is counted from. *)
IdBefore(postings, k) == IF k = 0 THEN 0 ELSE postings[k].doc_id

(* A cursor behind the first k postings, whatever it has found there. *)
Stands(cursor, postings, k) ==
    /\ cursor.found.doc_id = IdBefore(postings, k)
    /\ cursor.doc = Before(DocPieces(postings), k) + 1
    /\ cursor.freq = Before(FreqPieces(postings), k) + 1
    /\ cursor.pos = Before(PlacePieces(postings), k) + 1

(* The cursor that has found the k-th. *)
CursorAt(postings, k) ==
    [found |-> postings[k],
     doc   |-> Before(DocPieces(postings), k) + 1,
     freq  |-> Before(FreqPieces(postings), k) + 1,
     pos   |-> Before(PlacePieces(postings), k) + 1]

-----------------------------------------------------------------------------
(* From cursor to cursor. *)

(* A posting with more positions than a decoder takes; the cursor that m     *)
(* steps from behind k postings come to.                                     *)
HasMany(posting) == Len(posting.positions) > MaxCollectionEntries

Reached(postings, k, m) ==
    IF \E i \in k + 1..k + m : HasMany(postings[i]) THEN Err ELSE CursorAt(postings, k + m)

(* f is the function CursorsFrom is defined by. *)
CursorsSo(f, list, cursor, count) ==
    f = [m \in 0..count |-> IF m = 0 THEN cursor ELSE NextCursor(list, f[m - 1])]

(* A list as the encoder makes it. *)
IsList(list, postings, step) ==
    list = [doc_count    |-> Len(postings), skip_step |-> step,
            doc_ids      |-> FlattenSeq(DocPieces(postings)),
            frequencies  |-> FlattenSeq(FreqPieces(postings)),
            positions    |-> FlattenSeq(PlacePieces(postings)),
            skip_entries |-> [s \in 1..CeilDiv(Len(postings), step) |->
                SkipEntry(postings, (s - 1) * step, DocPieces(postings),
                          FreqPieces(postings), PlacePieces(postings))]]

(* The s-th entry of a skip table. *)
IsSkip(e, postings, ordinal) ==
    /\ ordinal \in 0..Len(postings) - 1 /\ e.ordinal = ordinal
    /\ e.first_doc_id = postings[ordinal + 1].doc_id
    /\ e.previous_doc_id = IdBefore(postings, ordinal)
    /\ e.doc_ids_offset = Before(DocPieces(postings), ordinal)
    /\ e.frequencies_offset = Before(FreqPieces(postings), ordinal)
    /\ e.positions_offset = Before(PlacePieces(postings), ordinal)

-----------------------------------------------------------------------------
(* A search from a skip entry on. *)

(* The answer to a search for a document is its posting, if it has one. *)
IsSought(answer, postings, target) ==
    /\ \A i \in 1..Len(postings) : postings[i].doc_id = target => answer = postings[i]
    /\ (\A i \in 1..Len(postings) : postings[i].doc_id # target) => answer = NotFound

-----------------------------------------------------------------------------
(* The dictionary. *)

(* A term and its postings. *)
Entry == [term : Nat, postings : Seq(Posting)]

(* What the dictionary is built from: terms in strictly increasing order,    *)
(* each with postings of its own.                                            *)
EntriesOk(entries) ==
    /\ entries \in Seq(Entry)
    /\ IsIncreasing([e \in DOMAIN entries |-> entries[e].term])
    /\ \A e \in 1..Len(entries) : PostingsOk(entries[e].postings)

-----------------------------------------------------------------------------
(* Scores, added up. *)

(* A document and its score. *)
Score == [doc_id : Word, score : Nat]

(* t holds the scores after each posting mentioned. *)
ScoreSteps(t, mentioned, n) ==
    /\ t[0] = << >>
    /\ \A k \in 1..n : t[k] = AddScore(t[k - 1], mentioned[k])

(* How often each posting mentions a document. *)
Counts(mentioned, d) ==
    [i \in DOMAIN mentioned |->
        IF mentioned[i].doc_id = d THEN Len(mentioned[i].positions) ELSE 0]

(* How often the first k postings mention a document. *)
Total(mentioned, d, k) == SumOf(SubSeq(Counts(mentioned, d), 1, k))

(* The scores after the first k postings: one for each document they       *)
(* mention, which is how often they do.                                    *)
Tallied(scores, mentioned, k) ==
    /\ scores \in Seq(Score)
    /\ \A i \in 1..Len(scores) :
           scores[i].score > 0 /\ scores[i].score = Total(mentioned, scores[i].doc_id, k)
    /\ \A i, j \in 1..Len(scores) : scores[i].doc_id = scores[j].doc_id => i = j
    /\ \A d : Total(mentioned, d, k) > 0 => \E i \in 1..Len(scores) : scores[i].doc_id = d

-----------------------------------------------------------------------------
(* Scores in their order. *)

(* The scores in front of one. *)
InFront(all, s) == {t \in all : Ranks(t, s)}

(* How many outrank a score. *)
Place(all, s) == Cardinality(InFront(all, s))

(* Scores of different documents, n of them. *)
AreScores(all, n) ==
    /\ all \subseteq Score /\ IsFiniteSet(all) /\ Cardinality(all) = n /\ n \in Nat
    /\ \A a, b \in all : a.doc_id = b.doc_id => a = b

(* The scores in rank order: all of them, each once. *)
InOrder(r, scores) ==
    /\ r \in [1..Len(scores) -> Range(scores)]
    /\ \A e \in Range(scores) : \E i \in 1..Len(scores) : r[i] = e
    /\ \A i, j \in 1..Len(scores) : i < j => Ranks(r[i], r[j])

(* The score of a document: how often the postings mention it. *)
Mentions(mentioned, d) == Total(mentioned, d, Len(mentioned))

(* The best k of the documents that are mentioned, by their scores. *)
AreBest(hits, mentioned, ranked, k) ==
    /\ Len(hits) = Min({k, Cardinality(ranked)})
    /\ \A i \in DOMAIN hits : hits[i].score = Mentions(mentioned, hits[i].doc_id)
    /\ \A i \in DOMAIN hits, d \in ranked :
           \/ \E j \in 1..i : hits[j].doc_id = d
           \/ Ranks(hits[i], [doc_id |-> d, score |-> Mentions(mentioned, d)])

-----------------------------------------------------------------------------
(* The index, in a behaviour. *)

(* An index is built from terms in strictly increasing order, each with the  *)
(* documents and positions that have it in strictly increasing order, and    *)
(* with a positive distance between its skip entries.                        *)
IndexesAreTyped ==
    \A x \in Indexes : EntriesOk(x.entries) /\ x.step \in Nat /\ x.step > 0
=============================================================================
