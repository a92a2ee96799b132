------------------------------- MODULE Columns -------------------------------
(***************************************************************************)
(* Column chunks of CMP3 and CMP4: the cells of one column of a row group,  *)
(* encoded by one of the codecs of its type, with the counts and statistics *)
(* that later stand in for the values; and the choice an "auto" column      *)
(* makes among the codecs.                                                  *)
(*                                                                          *)
(* A row is a function from some column names to values: a word, a Boolean, *)
(* a sequence of bytes for a string, Null, or Wrong, which is any value of  *)
(* another type.                                                            *)
(***************************************************************************)
EXTENDS Primitives

CONSTANTS Null, Wrong,
          MaxDictionary   \* MAX_DICTIONARY_ENTRIES

ASSUME DictionaryAssumption == MaxDictionary \in Word

(* The codecs of a type, in the order select_auto_column tries them. *)
Candidates(type) ==
    CASE type = "bool"   -> <<"bitmap">>
      [] type = "u64"    -> <<"delta_bitpack", "bitpack", "delta_varint", "stored">>
      [] type = "string" -> <<"prefix", "dictionary", "rle", "stored">>

IsImplemented(column) == column.codec \in Range(Candidates(column.type)) \cup {"auto"}

-----------------------------------------------------------------------------
(* The cells of a column: a missing field reads as null. *)

Cells(column, rows) ==
    [i \in DOMAIN rows |->
        IF column.name \in DOMAIN rows[i] THEN rows[i][column.name] ELSE Null]

IsCollectable(column, cells) ==
    \A i \in DOMAIN cells :
        cells[i] # Wrong /\ (cells[i] = Null => column.nullable)

Present(cells) == Chosen(cells, {i \in DOMAIN cells : cells[i] # Null})

(* The values put back at the places that are not null. *)
Spread(validity, values) ==
    [i \in DOMAIN validity |->
        IF validity[i]
        THEN values[Cardinality({j \in 1..i : validity[j]})] ELSE Null]

NoStatistics == [kind |-> "none"]

Statistics(type, values) ==
    CASE type = "u64" /\ values = << >> -> NoStatistics
      [] type = "u64" /\ values # << >> ->
             [kind |-> "u64", min |-> Min(Range(values)), max |-> Max(Range(values))]
      [] type = "bool" ->
             [kind |-> "bool", true_count |-> Cardinality({i \in DOMAIN values : values[i]})]
      [] type = "string" ->
             [kind |-> "string", distinct_count |-> Cardinality(Range(values))]

-----------------------------------------------------------------------------
(* Numbers.  The codec metadata holds the width of the packed values and,   *)
(* for delta_bitpack, the first value; "stored" is the full width.          *)

WidthOf(values) == CHOOSE w \in 0..WordBits :
                       /\ \A i \in DOMAIN values : values[i] < 2^w
                       /\ w = 0 \/ \E i \in DOMAIN values : values[i] >= 2^(w - 1)

Base(values) == IF values = << >> THEN 0 ELSE values[1]

(* encode_delta_bitpack: the first difference is zero. *)
Steps(values) ==
    InType(Word, [i \in DOMAIN values |-> IF i = 1 THEN 0 ELSE values[i] - values[i - 1]])

PackTight(values) ==
    [width |-> WidthOf(values), bytes |-> EncodeBitpack(values, WidthOf(values))]

EncodeNumbers(codec, values) ==
    CASE codec = "bitpack"       -> PackTight(values)
      [] codec = "delta_bitpack" -> Try(Steps(values), PackTight)
      [] codec = "delta_varint"  -> Try(EncodeDeltaVarint(values), LAMBDA bytes :
                                        [width |-> 0, bytes |-> bytes])
      [] codec = "stored"        -> [width |-> WordBits,
                                     bytes |-> EncodeBitpack(values, WordBits)]

DecodeNumbers(meta, bytes, count) ==
    CASE meta.codec \in {"bitpack", "stored"} -> DecodeBitpack(bytes, meta.width, count)
      [] meta.codec = "delta_bitpack" ->
             Try(DecodeBitpack(bytes, meta.width, count), LAMBDA steps :
                 InType(Word, [i \in 1..count |-> meta.base + SumOf(SubSeq(steps, 1, i))]))
      [] meta.codec = "delta_varint" -> DecodeDeltaVarint(bytes)

-----------------------------------------------------------------------------
(* Strings. *)

StoredString(s) == EncodeVarint(Len(s)) \o s
StoredStrings(values) == FlattenSeq([i \in DOMAIN values |-> StoredString(values[i])])

(* read_exact behind a varint that says how much. *)
ReadString(data, from) ==
    Try(ReadVarint(data, from), LAMBDA len :
        IF len.next + len.value > Len(data) + 1 THEN Err
        ELSE [value |-> SubSeq(data, len.next, len.next + len.value - 1),
              next  |-> len.next + len.value])

(* decode_prefix: what is shared with the string before, and the suffix.    *)
ReadSuffix(data, from, previous) ==
    Try(ReadVarint(data, from), LAMBDA shared :
    Try(ReadString(data, shared.next), LAMBDA suffix :
        IF shared.value > Len(previous) THEN Err
        ELSE [value |-> SubSeq(previous, 1, shared.value) \o suffix.value,
              next  |-> suffix.next]))

(* `count` strings from a cursor on. *)
ReadStrings(codec, data, from, count) ==
    LET read[n \in 0..count] ==
            IF n = 0 THEN [values |-> << >>, next |-> from]
            ELSE Try(read[n - 1], LAMBDA before :
                 Try(IF codec = "prefix"
                     THEN ReadSuffix(data, before.next,
                                     IF n = 1 THEN << >> ELSE Last(before.values))
                     ELSE ReadString(data, before.next), LAMBDA s :
                     [values |-> Append(before.values, s.value), next |-> s.next]))
    IN  read[count]

(* All of the data, and nothing behind it. *)
DecodeAll(codec, data, count) ==
    Try(ReadStrings(codec, data, 1, count),
        LAMBDA read : IF read.next # Len(data) + 1 THEN Err ELSE read.values)

DecodeStored(data, count) == DecodeAll("stored", data, count)
DecodePrefix(data, count) == DecodeAll("prefix", data, count)

SharedPrefix(a, b) ==
    Max({n \in 0..Min({Len(a), Len(b)}) : SubSeq(a, 1, n) = SubSeq(b, 1, n)})

EncodePrefix(values) ==
    FlattenSeq([i \in DOMAIN values |->
        LET shared == IF i = 1 THEN 0 ELSE SharedPrefix(values[i - 1], values[i])
        IN  EncodeVarint(shared)
                \o StoredString(SubSeq(values[i], shared + 1, Len(values[i])))])

(* The distinct values, in the order of their first appearance. *)
DictionaryOf(values) ==
    FoldLeft(LAMBDA d, v : IF v \in Range(d) THEN d ELSE Append(d, v), << >>, values)

EncodeDictionary(values) ==
    LET dictionary == DictionaryOf(values)
        Id(v) == CHOOSE i \in DOMAIN dictionary : dictionary[i] = v
    IN  IF Len(dictionary) > MaxDictionary THEN Err
        ELSE EncodeVarint(Len(dictionary)) \o StoredStrings(dictionary)
                 \o EncodeVarints([i \in DOMAIN values |-> Id(values[i]) - 1])

DecodeDictionary(data, count) ==
    Try(ReadVarint(data, 1), LAMBDA size :
    Try(IF size.value > MaxDictionary THEN Err
        ELSE ReadStrings("stored", data, size.next, size.value), LAMBDA words :
    Try(DecodeVarints(SubSeq(data, words.next, Len(data))), LAMBDA ids :
        IF Len(ids) # count \/ \E i \in DOMAIN ids : ids[i] >= size.value THEN Err
        ELSE [i \in DOMAIN ids |-> words.values[ids[i] + 1]])))

EncodeStrings(codec, values) ==
    Try(CASE codec = "stored"     -> StoredStrings(values)
          [] codec = "rle"        -> EncodeRle(StoredStrings(values))
          [] codec = "prefix"     -> EncodePrefix(values)
          [] codec = "dictionary" -> EncodeDictionary(values),
        LAMBDA bytes : [width |-> 0, bytes |-> bytes])

DecodeStrings(meta, bytes, count) ==
    CASE meta.codec # "rle" /\ count > Len(bytes) -> Err
      [] meta.codec = "rle" ->
             Try(DecodeRle(bytes, Min({meta.raw_size + count * LongestVarint, MaxDecodedBytes})),
                 LAMBDA stored : DecodeStored(stored, count))
      [] meta.codec = "stored" /\ count <= Len(bytes) -> DecodeStored(bytes, count)
      [] meta.codec = "prefix" /\ count <= Len(bytes) -> DecodePrefix(bytes, count)
      [] meta.codec = "dictionary" /\ count <= Len(bytes) -> DecodeDictionary(bytes, count)

-----------------------------------------------------------------------------
(* A chunk: encode_column and decode_column. *)

EncodeValues(type, codec, values) ==
    CASE type = "u64"    -> EncodeNumbers(codec, values)
      [] type = "string" -> EncodeStrings(codec, values)
      [] type = "bool"   -> [width |-> 0, bytes |-> EncodeBitmap(values)]

RawSize(type, values) ==
    CASE type = "u64"    -> Len(values) * (WordBits \div ByteBits)
      [] type = "string" -> SumOf([i \in DOMAIN values |-> Len(values[i])])
      [] type = "bool"   -> Len(values)

EncodeWith(column, codec, rows) ==
    LET cells  == Cells(column, rows)
        values == Present(cells)
        flags  == IF column.nullable
                  THEN EncodeBitmap([i \in DOMAIN cells |-> cells[i] # Null]) ELSE << >>
    IN  Try(IF IsCollectable(column, cells)
            THEN EncodeValues(column.type, codec, values) ELSE Err, LAMBDA body :
            [meta |-> [name        |-> column.name,  type     |-> column.type,
                       nullable    |-> column.nullable, codec |-> codec,
                       value_count |-> Len(cells),
                       null_count  |-> Len(cells) - Len(values),
                       raw_size    |-> RawSize(column.type, values),
                       width       |-> body.width,
                       base        |-> IF codec = "delta_bitpack" THEN Base(values) ELSE 0,
                       statistics  |-> Statistics(column.type, values)],
             payload |-> flags \o body.bytes])

(* What the codec adds to the metadata, which counts in the choice. *)
CodecMetadataLen(codec) ==
    LET word == WordBits \div ByteBits
    IN  word + CASE codec = "bitpack"       -> 1
                 [] codec = "delta_bitpack" -> 1 + word
                 [] OTHER                   -> 0

SizeOf(chunk) == CodecMetadataLen(chunk.meta.codec) + Len(chunk.payload)

(* The smallest chunk of those there are, the first of equals.              *)
Smallest(chunks) ==
    LET made == {i \in DOMAIN chunks : chunks[i] # Err}
        best == CHOOSE i \in made : \A j \in made :
                    \/ SizeOf(chunks[i]) < SizeOf(chunks[j])
                    \/ SizeOf(chunks[i]) = SizeOf(chunks[j]) /\ i <= j
    IN  IF made = {} THEN Err ELSE chunks[best]

(* select_auto_column *)
SelectAuto(column, rows) ==
    Smallest([i \in DOMAIN Candidates(column.type) |->
                 EncodeWith(column, Candidates(column.type)[i], rows)])

EncodeColumn(column, rows) ==
    IF column.codec = "auto" THEN SelectAuto(column, rows)
    ELSE EncodeWith(column, column.codec, rows)

(* validate_statistics: what must hold before the values are decoded. *)
StatisticsFit(meta) ==
    LET present == meta.value_count - meta.null_count
    IN  CASE meta.statistics.kind = "none" -> meta.type = "u64" /\ present = 0
          [] meta.statistics.kind = "u64"  -> meta.type = "u64"
          [] meta.statistics.kind = "bool" ->
                 meta.type = "bool" /\ meta.statistics.true_count <= present
          [] meta.statistics.kind = "string" ->
                 meta.type = "string" /\ meta.statistics.distinct_count <= present

(* validate_decoded_statistics: the statistics are those of the values.      *)
StatisticsAgree(meta, values) == Statistics(meta.type, values) = meta.statistics

DecodeValues(meta, bytes, count) ==
    CASE meta.type = "u64"    -> DecodeNumbers(meta, bytes, count)
      [] meta.type = "string" -> DecodeStrings(meta, bytes, count)
      [] meta.type = "bool"   -> DecodeBitmap(bytes, count)

(* The cells of a chunk, if counts, bitmap and statistics agree with them.  *)
DecodeColumn(meta, payload) ==
    LET count    == meta.value_count - meta.null_count
        flagsLen == IF meta.nullable THEN CeilDiv(meta.value_count, ByteBits) ELSE 0
    IN  Try(IF meta.value_count > MaxDecodedValues \/ ~StatisticsFit(meta) THEN Err
            ELSE IF meta.nullable
            THEN DecodeBitmap(SubSeq(payload, 1, Min({flagsLen, Len(payload)})),
                              meta.value_count)
            ELSE [i \in 1..meta.value_count |-> TRUE], LAMBDA validity :
        Try(IF Cardinality({i \in DOMAIN validity : validity[i]}) # count THEN Err
            ELSE DecodeValues(meta, SubSeq(payload, flagsLen + 1, Len(payload)), count),
            LAMBDA values :
            IF Len(values) # count \/ ~StatisticsAgree(meta, values) THEN Err
            ELSE Spread(validity, values)))

(* validate_metadata_against_schema *)
FitsSchema(meta, column, rowCount) ==
    /\ meta.name = column.name /\ meta.type = column.type
    /\ meta.nullable = column.nullable
    /\ column.codec # "auto" => meta.codec = column.codec
    /\ meta.value_count = rowCount
=============================================================================
