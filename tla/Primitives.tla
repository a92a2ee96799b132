----------------------------- MODULE Primitives ------------------------------
(***************************************************************************)
(* The integer and byte primitives under the column codecs and the search   *)
(* lists: varint, zigzag, delta, run lengths, bit packing and bitmaps, over *)
(* words of WordBits and bytes of ByteBits (64 and 8 in the code).  A       *)
(* sequence of bytes is a sequence of Byte; a decoder or an encoder that    *)
(* refuses its input yields Err.                                            *)
(***************************************************************************)
EXTENDS Integers, Sequences, SequencesExt

CONSTANTS WordBits, ByteBits,
          Err,                   \* the result of an operation that refuses its input
          MaxDecodedBytes,       \* MAX_DECODED_BYTES
          MaxDecodedValues,      \* MAX_DECODED_VALUES
          MaxCollectionEntries   \* MAX_COLLECTION_ENTRIES

ASSUME WidthAssumption ==
    /\ ByteBits \in Nat /\ ByteBits > 1
    /\ WordBits \in Nat /\ WordBits > 0 /\ WordBits % ByteBits = 0

(* Limits of the decoders; no encoder has them. *)
ASSUME LimitsAssumption ==
    MaxDecodedBytes \in Nat /\ MaxDecodedValues \in Nat /\ MaxCollectionEntries \in Nat

(* What a power of two is, as far as the widths go: the prover has no laws   *)
(* of exponents of its own.                                                  *)
ASSUME PowersAssumption == \A n \in 0..WordBits + ByteBits : 2^(n + 1) = 2 * 2^n

Byte   == 0..2^ByteBits - 1
Word   == 0..2^WordBits - 1
Signed == -(2^(WordBits - 1))..2^(WordBits - 1) - 1

CeilDiv(a, b) == (a + b - 1) \div b

(* What follows a step that may have refused its input, or one of many.     *)
Try(result, Then(_))      == IF result = Err THEN Err ELSE Then(result)
TryAll(results, Then(_))  == IF Err \in Range(results) THEN Err ELSE Then(results)

SumOf(seq) == FoldLeft(LAMBDA a, b : a + b, 0, seq)

(* The elements at some of the places of a sequence, in their order. *)
Chosen(seq, places) ==
    LET upTo[n \in 0..Len(seq)] ==
            IF n = 0 THEN << >>
            ELSE IF n \in places THEN Append(upTo[n - 1], seq[n]) ELSE upTo[n - 1]
    IN  upTo[Len(seq)]

-----------------------------------------------------------------------------
(* Varints: ByteBits - 1 bits of payload a byte, least significant first; a *)
(* set high bit says that more follow.                                      *)

GroupBits == ByteBits - 1
More      == 2^GroupBits

(* The bytes of the largest word: 10 of 7 bits in the code. *)
LongestVarint == CeilDiv(WordBits, GroupBits)

(* encoded_len *)
VarintLen(value) ==
    CHOOSE n \in 1..LongestVarint :
        value < 2^(GroupBits * n) /\ (n = 1 \/ value >= 2^(GroupBits * (n - 1)))

EncodeVarint(value) ==
    [i \in 1..VarintLen(value) |->
        ((value \div 2^(GroupBits * (i - 1))) % More)
            + (IF i < VarintLen(value) THEN More ELSE 0)]

EncodeVarints(values) == FlattenSeq([i \in DOMAIN values |-> EncodeVarint(values[i])])

(* The last group starts at LastShift (63 in the code), and only the bits   *)
(* left in the word fit there.                                              *)
LastShift == GroupBits * ((WordBits - 1) \div GroupBits)

FitsWord(bytes) ==
    LET shift == GroupBits * (Len(bytes) - 1)
    IN  \/ shift < LastShift
        \/ shift = LastShift /\ Last(bytes) < 2^(WordBits - LastShift)

ValueOf(bytes) ==
    SumOf([i \in DOMAIN bytes |-> (bytes[i] % More) * 2^(GroupBits * (i - 1))])

(* read_u64 at a cursor: the value and the place behind it.  A value has    *)
(* one encoding only: an overlong one is refused.                           *)
ReadVarint(data, from) ==
    LET ends  == {i \in from..Len(data) : data[i] < More}
        end   == Min(ends)
        bytes == SubSeq(data, from, end)
    IN  IF ends = {} \/ ~FitsWord(bytes) \/ VarintLen(ValueOf(bytes)) # Len(bytes)
        THEN Err
        ELSE [value |-> ValueOf(bytes), next |-> end + 1]

(* `count` varints from a cursor on.                                        *)
ReadVarints(data, from, count) ==
    LET read[n \in 0..count] ==
            IF n = 0 THEN [values |-> << >>, next |-> from]
            ELSE Try(read[n - 1], LAMBDA before :
                 Try(ReadVarint(data, before.next), LAMBDA v :
                     [values |-> Append(before.values, v.value), next |-> v.next]))
    IN  read[count]

(* decode_u64: as many varints as end in the data, and nothing behind them. *)
DecodeVarints(data) ==
    Try(ReadVarints(data, 1, Cardinality({i \in DOMAIN data : data[i] < More})),
        LAMBDA read : IF read.next # Len(data) + 1 THEN Err ELSE read.values)

-----------------------------------------------------------------------------
(* Zigzag: (v << 1) ^ (v >> 63), and back (u >> 1) ^ -(u & 1).              *)

ZigZag(v) ==
    LET shifted == (2 * (v % 2^WordBits)) % 2^WordBits
    IN  IF v < 0 THEN 2^WordBits - 1 - shifted ELSE shifted

UnZigZag(u) == IF u % 2 = 0 THEN u \div 2 ELSE -(u \div 2) - 1

-----------------------------------------------------------------------------
(* Deltas: the first value and then the differences, each within the type,  *)
(* which is Word for the unsigned and Signed for the signed pair; those of  *)
(* bytes wrap around.                                                       *)

Differences(values) ==
    [i \in DOMAIN values |-> IF i = 1 THEN values[1] ELSE values[i] - values[i - 1]]

InType(type, values) == IF \A i \in DOMAIN values : values[i] \in type THEN values ELSE Err

EncodeDelta(type, values) == InType(type, Differences(values))

DecodeDelta(type, deltas) ==
    InType(type, [i \in DOMAIN deltas |-> SumOf(SubSeq(deltas, 1, i))])

Wrapped(values) == [i \in DOMAIN values |-> values[i] % 2^ByteBits]

EncodeDeltaBytes(data)   == Wrapped(Differences(data))
DecodeDeltaBytes(deltas) == Wrapped([i \in DOMAIN deltas |-> SumOf(SubSeq(deltas, 1, i))])

(* pipeline::delta_varint *)
EncodeDeltaVarint(values) == Try(EncodeDelta(Word, values), EncodeVarints)

DecodeDeltaVarint(data) ==
    Try(DecodeVarints(data), LAMBDA deltas : DecodeDelta(Word, deltas))

-----------------------------------------------------------------------------
(* Run lengths: pairs of a count, which is one byte, and the byte repeated. *)

MaxRun == 2^ByteBits - 1

(* Bug: a run longer than a byte counts is not split. *)
EncodeRleUnsplit(data) ==
    LET last(i) == CHOOSE j \in i..Len(data) :
                       /\ \A k \in i..j : data[k] = data[i]
                       /\ j = Len(data) \/ data[j + 1] # data[i]
        from[i \in 1..Len(data) + 1] ==
            IF i > Len(data) THEN << >>
            ELSE <<(last(i) - i + 1) % 2^ByteBits, data[i]>> \o from[last(i) + 1]
    IN  from[1]

EncodeRle(data) ==
    LET last(i) == CHOOSE j \in i..Len(data) :
                       /\ j - i < MaxRun /\ \A k \in i..j : data[k] = data[i]
                       /\ j - i = MaxRun - 1 \/ j = Len(data) \/ data[j + 1] # data[i]
        from[i \in 1..Len(data) + 1] ==
            IF i > Len(data) THEN << >>
            ELSE <<last(i) - i + 1, data[i]>> \o from[last(i) + 1]
    IN  from[1]

(* decode_rle_bounded *)
DecodeRle(data, max) ==
    LET runs   == Len(data) \div 2
        counts == [k \in 1..runs |-> data[2 * k - 1]]
    IN  IF Len(data) % 2 # 0 \/ (\E k \in 1..runs : counts[k] = 0) \/ SumOf(counts) > max
        THEN Err
        ELSE FlattenSeq([k \in 1..runs |-> [j \in 1..counts[k] |-> data[2 * k]]])

-----------------------------------------------------------------------------
(* Bits, least significant first, in as few bytes as they need; the bits    *)
(* behind the last one are zero, and a decoder insists on it.               *)

BitOf(value, i) == (value \div 2^i) % 2

PackBits(bits) ==
    [k \in 1..CeilDiv(Len(bits), ByteBits) |->
        SumOf([i \in 1..ByteBits |->
            LET at == (k - 1) * ByteBits + i
            IN  IF at <= Len(bits) THEN bits[at] * 2^(i - 1) ELSE 0])]

UnpackBits(data, count) ==
    LET bit(n) == BitOf(data[(n - 1) \div ByteBits + 1], (n - 1) % ByteBits)
    IN  IF \/ Len(data) # CeilDiv(count, ByteBits)
           \/ \E n \in count + 1..Len(data) * ByteBits : bit(n) # 0
        THEN Err
        ELSE [n \in 1..count |-> bit(n)]

(* bitpack::encode_u64, which refuses a value wider than width bits.        *)
EncodeBitpack(values, width) ==
    IF \E i \in DOMAIN values : values[i] >= 2^width THEN Err
    ELSE PackBits([n \in 1..Len(values) * width |->
                      BitOf(values[(n - 1) \div width + 1], (n - 1) % width)])

(* bitpack::decode_u64 of `count` values. *)
DecodeBitpack(data, width, count) ==
    IF width > WordBits \/ count > MaxDecodedValues THEN Err
    ELSE Try(UnpackBits(data, count * width), LAMBDA bits :
             [i \in 1..count |->
                 SumOf([b \in 1..width |-> bits[(i - 1) * width + b] * 2^(b - 1)])])

EncodeBitmap(flags) == PackBits([i \in DOMAIN flags |-> IF flags[i] THEN 1 ELSE 0])

DecodeBitmap(data, count) ==
    Try(UnpackBits(data, count), LAMBDA bits : [i \in 1..count |-> bits[i] = 1])
=============================================================================
