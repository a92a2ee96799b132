------------------------------- MODULE Formats -------------------------------
(***************************************************************************)
(* What is written and read back, in the formats that are not a stream: byte*)
(* and column codecs, CMP3 and CMP4 files, schema revisions, and the search *)
(* index.  A behaviour takes one thing to write, and for a CMP4 file one    *)
(* damage to it; the properties compare everything that can be read from it *)
(* with what was put in.                                                    *)
(***************************************************************************)
EXTENDS SchemaEvolution, PostingList

CONSTANTS NumberLists, ByteLists, StringLists,   \* for the primitives
          NumberColumns, StringColumns, FlagColumns,   \* cells for the codecs
          Tables,      \* [schema, rows, limit] for files
          Queries,     \* [projection, predicate] for scans
          Evolutions,  \* [writer, reader, rows] for revisions
          Migrations,  \* [document, ids] for the metadata migration
          Indexes      \* [entries, step] for the search index

VARIABLES subject,   \* what was written: "none" at first
          input,     \* what it was written from
          written,   \* the CMP4 file as written
          file       \* the CMP4 file as it is now

vars == <<subject, input, written, file>>

Init == subject = "none" /\ input = << >> /\ written = << >> /\ file = << >>

Put(what, inputs) == /\ subject = "none"
                     /\ subject' = what
                     /\ input' \in inputs
                     /\ UNCHANGED <<written, file>>

PackNumbers  == Put("numbers", NumberLists)
PackBytes    == Put("bytes", ByteLists)
PackStrings  == Put("strings", StringLists)
EncodeCells  == \/ Put("column", NumberColumns)
                \/ Put("column", StringColumns)
                \/ Put("column", FlagColumns)
Evolve       == Put("revision", Evolutions)
Migrate      == Put("document", Migrations)
BuildIndex   == Put("index", Indexes)

WriteFile == /\ subject = "none"
             /\ subject' = "file"
             /\ input' \in Tables
             /\ written' = EncodeFile(input'.schema, input'.rows, input'.limit)
             /\ file' = written'

(* A cell is lost, doubled, spoilt or out of place, or the end is missing. *)
Damaged(cells) ==
    {RemoveAt(cells, i) : i \in DOMAIN cells}
        \cup {InsertAt(cells, i, cells[i]) : i \in DOMAIN cells}
        \cup {[cells EXCEPT ![i] = Corrupt] : i \in DOMAIN cells}
        \cup {[cells EXCEPT ![i] = cells[i + 1], ![i + 1] = cells[i]] : i \in 1..Len(cells) - 1}
        \cup {SubSeq(cells, 1, n) : n \in 0..Len(cells) - 1}
        \cup {Append(SubSeq(cells, 1, n), Torn) : n \in 0..Len(cells)}

DamageFile == /\ subject = "file" /\ file # Err
              /\ subject' = "damaged"
              /\ file' \in Damaged(file)
              /\ UNCHANGED <<input, written>>

(* There is nothing else to do with what was written but to read it. *)
Read == subject # "none" /\ UNCHANGED vars

Next == \/ PackNumbers \/ PackBytes \/ PackStrings \/ EncodeCells
        \/ Evolve \/ Migrate \/ BuildIndex \/ WriteFile \/ DamageFile \/ Read

Spec == Init /\ [][Next]_vars

-----------------------------------------------------------------------------
(* Codecs. *)

IsAscending(values) == \A i \in 1..Len(values) - 1 : values[i] <= values[i + 1]

NumbersRoundTrip(values) ==
    LET signed == [i \in DOMAIN values |-> values[i] - 2^(WordBits - 1)]
        deltas == EncodeDelta(Signed, signed)
        packed == EncodeDeltaVarint(values)
        width  == WidthOf(values)
    IN  /\ DecodeVarints(EncodeVarints(values)) = values
        /\ DecodeBitpack(EncodeBitpack(values, width), width, Len(values))
               = IF Len(values) > MaxDecodedValues THEN Err ELSE values
        /\ IF IsAscending(values) THEN DecodeDeltaVarint(packed) = values ELSE packed = Err
        /\ deltas = Err \/ DecodeDelta(Signed, deltas) = signed
        /\ \A i \in DOMAIN signed :
               /\ ZigZag(signed[i]) \in Word
               /\ UnZigZag(ZigZag(signed[i])) = signed[i]

(* Besides the round trips: bytes that a decoder of numbers, bits or        *)
(* differences accepts are the bytes its encoder makes.                     *)
BytesRoundTrip(data) ==
    LET runs == EncodeRle(data)
    IN  /\ DecodeRle(runs, Len(data)) = data
        /\ data # << >> => DecodeRle(runs, Len(data) - 1) = Err
        /\ DecodeDeltaBytes(EncodeDeltaBytes(data)) = data
        /\ DecodeVarints(data) # Err => EncodeVarints(DecodeVarints(data)) = data
        /\ DecodeDeltaVarint(data) # Err =>
               EncodeDeltaVarint(DecodeDeltaVarint(data)) = data
        /\ \A n \in 0..Len(data) * ByteBits :
               LET flags == DecodeBitmap(data, n)
               IN  flags # Err => EncodeBitmap(flags) = data
        /\ \A width \in 1..ByteBits, count \in 0..3 :
               LET values == DecodeBitpack(data, width, count)
               IN  values # Err => EncodeBitpack(values, width) = data

StringsRoundTrip(values) ==
    /\ DecodeStored(StoredStrings(values), Len(values)) = values
    /\ DecodePrefix(EncodePrefix(values), Len(values)) = values
    /\ LET bytes == EncodeDictionary(values)
       IN  IF Cardinality(Range(values)) > MaxDictionary THEN bytes = Err
           ELSE DecodeDictionary(bytes, Len(values)) = values

(* What a codec cannot take: values out of order, or too many of them.      *)
Refuses(column, cells) ==
    \/ ~IsCollectable(column, cells)
    \/ column.codec \in {"delta_bitpack", "delta_varint"} /\ ~IsAscending(Present(cells))
    \/ column.codec = "dictionary" /\ Cardinality(Range(Present(cells))) > MaxDictionary

(* What a decoder of a chunk does not take: too many cells, or too many     *)
(* bytes behind run lengths.                                                *)
IsOverLimit(chunk, cells) ==
    \/ Len(cells) > MaxDecodedValues
    \/ chunk.meta.codec = "rle" /\ Len(StoredStrings(Present(cells))) > MaxDecodedBytes

(* The rows of a table whose only column has these cells. *)
RowsOf(column, cells) == [i \in DOMAIN cells |-> [name \in {column.name} |-> cells[i]]]

ColumnRoundTrips(column, cells) ==
    LET rows  == RowsOf(column, cells)
        chunk == EncodeColumn(column, rows)
    IN  IF Refuses(column, cells) THEN chunk = Err
        ELSE /\ chunk # Err
             /\ DecodeColumn(chunk.meta, chunk.payload)
                    = IF IsOverLimit(chunk, cells) THEN Err ELSE cells
             /\ FitsSchema(chunk.meta, column, Len(cells))
             /\ column.codec = "auto" => \A codec \in Range(Candidates(column.type)) :
                    LET other == EncodeWith(column, codec, rows)
                    IN  other # Err => SizeOf(chunk) <= SizeOf(other)

(* primitives, codecs/v3, encode_column, select_auto_column: what an encoder *)
(* takes comes back, nulls in their places, up to the limits of the decoder, *)
(* and is refused beyond them; an encoder refuses what the codec cannot hold *)
(* and nothing else; "auto" is never larger than a codec that works and      *)
(* fails only when none does; and no two byte strings stand for the same     *)
(* numbers or flags.                                                         *)
CodecsRoundTrip ==
    CASE subject = "numbers" -> NumbersRoundTrip(input)
      [] subject = "bytes"   -> BytesRoundTrip(input)
      [] subject = "strings" -> StringsRoundTrip(input)
      [] subject = "column"  -> ColumnRoundTrips(input.column, input.cells)
      [] OTHER               -> TRUE

-----------------------------------------------------------------------------
(* Files. *)

(* What the readers take of a file of these rows: so many groups and columns,*)
(* and the cells of each group.                                              *)
IsWithinLimits(cells, schema, rows) ==
    LET groups == {g \in Range(cells) : g.kind = "group"}
    IN  /\ Cardinality(groups) <= MaxCollectionEntries
        /\ Len(schema) <= MaxCollectionEntries
        /\ \A g \in groups, c \in DOMAIN schema :
               ~IsOverLimit(g.chunks[c],
                            Cells(schema[c], SubSeq(rows, g.first + 1, g.first + g.count)))

(* The rows as a reader sees them: every column, absent fields as null. *)
FullRows(schema, rows) ==
    [i \in DOMAIN rows |-> [n \in Range(Names(schema)) |->
                               IF n \in DOMAIN rows[i] THEN rows[i][n] ELSE Null]]

Selected(schema, rows, query) ==
    LET names == IF query.projection = << >> THEN Range(Names(schema))
                 ELSE Range(query.projection)
        all   == FullRows(schema, rows)
        found == Chosen(all, {i \in DOMAIN all : RowMatches(all[i], query.predicate)})
    IN  [i \in DOMAIN found |-> [n \in names |-> found[i][n]]]

IsQuery(schema, query) ==
    /\ SelectProjection(schema, query.projection) # Err
    /\ IsPredicate(schema, query.predicate)

(* scan_jsonl, row_group_may_match: a scan finds the rows that match, in     *)
(* their order and with the columns asked for, whichever groups it skipped;  *)
(* of a damaged file, or of one beyond the limits of the readers, it finds   *)
(* just these, or is refused.  A CMP3 file of the same rows holds them too.  *)
ScanIsRightOrRefused ==
    /\ subject \in {"file", "damaged"} /\ written # Err => \A query \in Queries :
           LET found == Scan(file, input.schema, query.projection, query.predicate)
           IN  IF ~IsQuery(input.schema, query) THEN found = Err
               ELSE \/ found = Selected(input.schema, input.rows, query)
                    \/ found = Err /\ subject = "damaged"
                    \/ found = Err /\ ~IsWithinLimits(written, input.schema, input.rows)
    /\ subject = "file" =>
           LET cmp3  == EncodeCmp3(input.schema, input.rows)
               found == DecodeCmp3(cmp3, input.schema)
               seen  == InspectCmp3(cmp3)
           IN  cmp3 # Err =>
                   /\ IF IsWithinLimits(cmp3, input.schema, input.rows)
                      THEN found = FullRows(input.schema, input.rows)
                      ELSE found \in {FullRows(input.schema, input.rows), Err}
                   /\ IF Len(input.schema) <= MaxCollectionEntries
                      THEN seen.row_count = Len(input.rows) ELSE seen = Err

(* The groups in front of the first difference from the file as written.     *)
UnharmedGroups ==
    LET same(n) == n + 1 <= Len(file) /\ \A k \in 1..n + 1 : file[k] = written[k]
    IN  Max({n \in 0..Len(written) - 2 : same(n)})

(* recover_file_prefix, append_footer, validate_file: the groups in front of *)
(* the damage make a file again that is valid, holds their rows and finds    *)
(* each of them; no group behind the damage comes back.  This is so up to    *)
(* the limits of the readers; more groups than they take make a file that    *)
(* is not valid.                                                             *)
RecoveryKeepsPrefix ==
    subject = "damaged" /\ Len(input.schema) <= MaxCollectionEntries =>
        LET recovered == RecoverPrefix(file)
            sealed    == AppendFooter(recovered.valid, recovered.footer)
            kept      == Min({UnharmedGroups * input.limit, Len(input.rows)})
        IN  IF file = << >> THEN recovered = Err
            ELSE IF file[1] # Header THEN recovered = Err
            ELSE /\ sealed # Err
                 /\ ValidateFile(sealed)
                        = IF Len(recovered.footer.row_groups) > MaxCollectionEntries THEN Err
                          ELSE recovered.footer
                 /\ IsWithinLimits(sealed, input.schema, input.rows) =>
                        Scan(sealed, input.schema, << >>, All)
                            = FullRows(input.schema, SubSeq(input.rows, 1, kept))
                 /\ \A row \in 0..Len(input.rows) :
                        LET group == FindRowGroup(recovered.footer, row)
                        IN  IF row >= kept THEN group = Err
                            ELSE group.row_group_index = row \div input.limit

-----------------------------------------------------------------------------
(* Revisions. *)

(* What a reader should find in a column: the value of the column with the   *)
(* same identity, whatever it was called.                                    *)
Meant(writer, column, row) ==
    LET same == {w \in Range(writer.columns) : w.stable_id = column.stable_id}
        name == (CHOOSE w \in same : TRUE).name
    IN  IF same # {} THEN IF name \in DOMAIN row THEN row[name] ELSE Null
        ELSE IF column.default # << >> THEN column.default[1] ELSE Null

EvolvesRows(writer, reader, rows) ==
    LET schema     == PhysicalSchema(writer)
        assessment == Assess(writer, reader)
        wanted     == [i \in DOMAIN rows |->
            [n \in {c.name : c \in Range(reader.columns)} |->
                Meant(writer, CHOOSE c \in Range(reader.columns) : c.name = n, rows[i])]]
        files      == {EncodeFile(schema, rows, 2), EncodeCmp3(schema, rows)} \cup
                      (IF IsSupportedCmp2(schema) THEN {<<Header2, FullRows(schema, rows)>>}
                       ELSE {})
        readable(f) == f[1] = Header2 \/ IsWithinLimits(f, schema, rows)
    IN  \A f \in {f \in files \ {Err} : readable(f)} :
            IF assessment.issues # {} THEN EvolvedDecode(f, writer, reader) = Err
            ELSE /\ EvolvedDecode(f, writer, reader) = wanted
                 /\ \A i \in DOMAIN wanted, c \in DOMAIN reader.columns :
                        LET column == reader.columns[c]
                            value  == wanted[i][column.name]
                        IN  IF value = Null THEN column.nullable
                            ELSE IsOfType(column.type, value)

(* A migrated document is a revision with the identities assigned, in the    *)
(* order of its columns; migrating it again changes nothing; and a plan does *)
(* not apply to another document.                                            *)
MigratesOnce(document, ids) ==
    LET plan  == PlanMigration(document, ids)
        again == PlanMigration(plan.migrated, << >>)
    IN  plan # Err =>
            /\ IsRevision(plan.migrated)
            /\ PhysicalSchema(plan.migrated) = PhysicalSchema(document)
            /\ document.metadata_version = 1 => \A c \in DOMAIN document.columns :
                   plan.migrated.columns[c].stable_id = ids[document.columns[c].name]
            /\ again.migrated = plan.migrated
            /\ ExecuteMigration(document, plan) = plan.migrated
            /\ document # plan.migrated => ExecuteMigration(plan.migrated, plan) = Err

(* assess, apply_actions, evolution::decode_jsonl: whatever columns were     *)
(* renamed, swapped, dropped or added, a reader finds in each column the     *)
(* values of that identity, or the default, or null, and only values its own *)
(* schema allows; what cannot be read so is refused.  The files are within   *)
(* the limits of their readers.  The identities are the ones the metadata    *)
(* migration assigned.                                                       *)
EvolutionKeepsIdentity ==
    CASE subject = "revision" ->
             LET w == input.writer  r == input.reader
             IN  IF ~IsRevision(w) \/ ~IsRevision(r) THEN Assess(w, r) = Err
                 ELSE EvolvesRows(w, r, input.rows)
      [] subject = "document" -> MigratesOnce(input.document, input.ids)
      [] OTHER                -> TRUE

-----------------------------------------------------------------------------
(* The search index. *)

PostingsOf(entries, term) ==
    LET found == {e \in Range(entries) : e.term = term}
    IN  IF found = {} THEN << >> ELSE (CHOOSE e \in found : TRUE).postings

DocsOf(postings) == {p.doc_id : p \in Range(postings)}

(* What the decoder of a list takes: so many documents, and so many         *)
(* positions in each; a seek is only held to the second.                    *)
HasFewPositions(postings) ==
    \A i \in DOMAIN postings : Len(postings[i].positions) <= MaxCollectionEntries

IsReadable(postings) == Len(postings) <= MaxCollectionEntries /\ HasFewPositions(postings)

AnswersAreRight(entries, step) ==
    LET dictionary == EncodeTerms(entries, step)
        terms      == {e.term : e \in Range(entries)}
        docs       == UNION {DocsOf(e.postings) : e \in Range(entries)}
        P(t)       == PostingsOf(entries, t)
        readable   == {t \in terms \cup {0} : IsReadable(P(t))}
        score(d, ts) == SumOf([i \in DOMAIN ts |->
                            SumOf([j \in DOMAIN P(ts[i]) |->
                                IF P(ts[i])[j].doc_id = d THEN Len(P(ts[i])[j].positions)
                                ELSE 0])])
        behind     == IF docs = {} THEN 0 ELSE Max(docs) + 1
    IN  /\ \A t \in terms \cup {0} :
               /\ LookupTerm(dictionary, t) = IF t \in readable THEN P(t) ELSE Err
               /\ HasFewPositions(P(t)) => \A d \in 0..behind :
                      /\ SeekTermDoc(dictionary, t, d) =
                             (IF PostingOf(P(t), d) = {} THEN NotFound
                              ELSE CHOOSE p \in PostingOf(P(t), d) : TRUE)
                      /\ TermContainsDoc(dictionary, t, d) <=> d \in DocsOf(P(t))
        /\ \A s, t \in readable :
               LET both == AndDocIds(dictionary, <<s, t>>)
                   hits == TopK(dictionary, <<s, t>>, 2)
                   ranked == {d \in docs : score(d, <<s, t>>) > 0}
               IN  /\ IsIncreasing(both)
                   /\ Range(both) = DocsOf(P(s)) \cap DocsOf(P(t))
                   /\ Len(hits) = Min({2, Cardinality(ranked)})
                   /\ \A i \in DOMAIN hits : hits[i].score = score(hits[i].doc_id, <<s, t>>)
                   /\ \A i \in DOMAIN hits, d \in ranked :
                          \/ \E j \in 1..i : hits[j].doc_id = d
                          \/ Ranks(hits[i], [doc_id |-> d, score |-> score(d, <<s, t>>)])
                   /\ \A d \in docs : HasAdjacentPhrase(dictionary, s, t, d) <=>
                          \E p \in PostingOf(P(s), d), q \in PostingOf(P(t), d) :
                              \E i \in DOMAIN p.positions, j \in DOMAIN q.positions :
                                  p.positions[i] + 1 = q.positions[j]

(* seek_doc, decode_postings, lookup_term and the queries: through the skip  *)
(* table or without it, an index answers what the postings say it should,    *)
(* for documents at, between, before and behind the skip entries.  A lookup  *)
(* is refused beyond the limits of the decoder, and a query is right where   *)
(* its lookups are not; a seek is right however many documents there are.    *)
(* Of too large a dictionary nothing is answered.                            *)
SeeksAgree ==
    subject = "index" =>
        LET dictionary == EncodeTerms(input.entries, input.step)
        IN  IF Len(input.entries) <= MaxCollectionEntries
            THEN AnswersAreRight(input.entries, input.step)
            ELSE \A e \in Range(input.entries) :
                     /\ LookupTerm(dictionary, e.term) = Err
                     /\ \A p \in Range(e.postings) :
                            SeekTermDoc(dictionary, e.term, p.doc_id) = Err
=============================================================================
