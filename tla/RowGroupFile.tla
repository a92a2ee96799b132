---------------------------- MODULE RowGroupFile -----------------------------
(***************************************************************************)
(* CMP3 and CMP4 files: row groups of column chunks.  A CMP3 file is one    *)
(* group.  A CMP4 file is a header, groups, and a footer that lists where   *)
(* each group is, the rows it holds and the statistics of its columns; a    *)
(* scan reads the footer first, skips the groups that cannot match, and     *)
(* decodes only the columns it needs.                                       *)
(*                                                                          *)
(* A file is a sequence of cells; an offset is the number of cells in front.*)
(* A corrupt cell is a group or a footer whose checksum does not match, a   *)
(* torn one some of its bytes.  A schema is a sequence of columns.          *)
(***************************************************************************)
EXTENDS Columns

Header  == [kind |-> "header4"]
Corrupt == [kind |-> "corrupt"]
Torn    == [kind |-> "torn"]

Names(columns) == [i \in DOMAIN columns |-> columns[i].name]

ColumnNamed(columns, name) ==
    columns[CHOOSE i \in DOMAIN columns : columns[i].name = name]

(* supported_columns_v3; a stored Boolean is planned, not implemented. *)
IsSupported(schema) ==
    /\ schema # << >>
    /\ IsInjective(Names(schema))
    /\ \A column \in Range(schema) :
           IsImplemented(column) \/ (column.type = "bool" /\ column.codec = "stored")

(* validate_implemented_schema *)
IsReady(schema) == IsSupported(schema) /\ \A column \in Range(schema) : IsImplemented(column)

-----------------------------------------------------------------------------
(* encode_row_group: a chunk of each column, over the same rows. *)
RowGroup(schema, rows, index, first) ==
    TryAll([c \in DOMAIN schema |-> EncodeColumn(schema[c], rows)], LAMBDA chunks :
           [kind |-> "group", index |-> index, first |-> first,
            count |-> Len(rows), chunks |-> chunks])

(* One line of the footer index for a group at an offset. *)
IndexEntry(group, offset) ==
    [row_group_index  |-> group.index,
     first_row_index  |-> group.first,
     row_count        |-> group.count,
     row_group_offset |-> offset,
     columns          |-> [c \in DOMAIN group.chunks |->
         LET meta == group.chunks[c].meta
         IN  [name       |-> meta.name,       value_count |-> meta.value_count,
              null_count |-> meta.null_count, statistics  |-> meta.statistics]]]

IndexOf(groups) ==
    [total_row_count |-> SumOf([k \in DOMAIN groups |-> groups[k].count]),
     row_groups      |-> [k \in DOMAIN groups |-> IndexEntry(groups[k], k)]]

(* validate_footer_index: groups in order, without a gap in their rows, in  *)
(* front of the footer.                                                     *)
IsFooterIndex(index, footerOffset) ==
    LET groups == index.row_groups
        rowsBefore(k) == SumOf([j \in 1..k - 1 |-> groups[j].row_count])
    IN  /\ \A k \in DOMAIN groups :
               /\ groups[k].row_group_index = k - 1
               /\ groups[k].row_count > 0
               /\ groups[k].first_row_index = rowsBefore(k)
               /\ groups[k].row_group_offset < footerOffset
               /\ IsInjective(Names(groups[k].columns))
               /\ \A c \in Range(groups[k].columns) : c.null_count <= c.value_count
        /\ index.total_row_count = rowsBefore(Len(groups) + 1)

AppendFooter(cells, index) ==
    IF ~IsFooterIndex(index, Len(cells)) THEN Err
    ELSE Append(cells, [kind |-> "footer", offset |-> Len(cells), index |-> index])

(* encode_jsonl of CMP4: groups of `limit` rows. *)
EncodeFile(schema, rows, limit) ==
    LET part(k) == SubSeq(rows, (k - 1) * limit + 1, Min({k * limit, Len(rows)}))
    IN  IF limit = 0 \/ ~IsReady(schema) THEN Err
        ELSE TryAll([k \in 1..CeilDiv(Len(rows), limit) |->
                        RowGroup(schema, part(k), k - 1, (k - 1) * limit)],
                    LAMBDA groups : AppendFooter(<<Header>> \o groups, IndexOf(groups)))

-----------------------------------------------------------------------------
(* What the reader of a footer takes: so many groups, of so many columns. *)
IsReadableIndex(index) ==
    /\ Len(index.row_groups) <= MaxCollectionEntries
    /\ \A entry \in Range(index.row_groups) : Len(entry.columns) <= MaxCollectionEntries

(* decode_footer: the last cell is a footer that knows its own offset. *)
DecodeFooter(file) ==
    IF file = << >> THEN Err
    ELSE IF Last(file).kind # "footer" THEN Err
    ELSE IF ~IsReadableIndex(Last(file).index) THEN Err
    ELSE IF Last(file).offset # Len(file) - 1 \/ ~IsFooterIndex(Last(file).index, Len(file) - 1)
    THEN Err
    ELSE Last(file).index

(* inspect_footer *)
InspectFooter(file) ==
    IF file = << >> \/ file[1] # Header THEN Err ELSE DecodeFooter(file)

(* verify_row_group: the group the footer announces. *)
IsVerified(file, entry) ==
    LET cell == file[entry.row_group_offset + 1]
    IN  /\ cell.kind = "group"
        /\ cell.index = entry.row_group_index
        /\ cell.first = entry.first_row_index
        /\ cell.count = entry.row_count
        /\ Len(cell.chunks) = Len(entry.columns)

(* validate_file: the groups of the index are all there is in the body. *)
ValidateFile(file) ==
    Try(InspectFooter(file), LAMBDA index :
        IF /\ \A k \in DOMAIN index.row_groups :
                 /\ index.row_groups[k].row_group_offset = k
                 /\ IsVerified(file, index.row_groups[k])
           /\ Len(file) = Len(index.row_groups) + 2
        THEN index ELSE Err)

(* find_row_group_by_row: the last group that starts at or before the row,  *)
(* if it reaches that far.                                                  *)
FindRowGroup(index, row) ==
    LET before == {k \in DOMAIN index.row_groups :
                      index.row_groups[k].first_row_index <= row}
        group  == index.row_groups[Max(before)]
    IN  IF before = {} THEN Err
        ELSE IF row < group.first_row_index + group.row_count THEN group ELSE Err

-----------------------------------------------------------------------------
(* Scans.  A predicate compares a u64 column with a word or asks for nulls; *)
(* kind "all" is no predicate.                                              *)

Compare(op, a, b) ==
    CASE op = "eq" -> a = b
      [] op = "lt" -> a < b
      [] op = "le" -> a <= b
      [] op = "gt" -> a > b
      [] op = "ge" -> a >= b

RowMatches(row, predicate) ==
    CASE predicate.kind = "all"  -> TRUE
      [] predicate.kind = "null" -> row[predicate.column] = Null
      [] predicate.kind = "u64"  ->
             /\ row[predicate.column] # Null
             /\ Compare(predicate.op, row[predicate.column], predicate.value)

(* Bug: the upper bound itself is taken to be out of reach. *)
MayMatchBelowMax(entry, predicate) ==
    LET column == ColumnNamed(entry.columns, predicate.column)
        range  == column.statistics
    IN  CASE predicate.kind = "all"  -> TRUE
          [] predicate.kind = "null" -> column.null_count > 0
          [] predicate.kind = "u64" /\ range.kind # "u64" -> TRUE
          [] predicate.kind = "u64" /\ range.kind = "u64" ->
                 CASE predicate.op = "eq" ->
                          range.min <= predicate.value /\ predicate.value < range.max
                   [] predicate.op \in {"lt", "le"} ->
                          Compare(predicate.op, range.min, predicate.value)
                   [] predicate.op \in {"gt", "ge"} ->
                          Compare(predicate.op, range.max, predicate.value)

(* row_group_may_match, from the statistics in the footer. *)
MayMatch(entry, predicate) ==
    LET column == ColumnNamed(entry.columns, predicate.column)
        range  == column.statistics
    IN  CASE predicate.kind = "all"  -> TRUE
          [] predicate.kind = "null" -> column.null_count > 0
          [] predicate.kind = "u64" /\ range.kind # "u64" -> TRUE
          [] predicate.kind = "u64" /\ range.kind = "u64" ->
                 CASE predicate.op = "eq" -> predicate.value \in range.min..range.max
                   [] predicate.op \in {"lt", "le"} ->
                          Compare(predicate.op, range.min, predicate.value)
                   [] predicate.op \in {"gt", "ge"} ->
                          Compare(predicate.op, range.max, predicate.value)

(* select_projection: no names means all columns. *)
SelectProjection(schema, projection) ==
    IF projection = << >> THEN Names(schema)
    ELSE IF IsInjective(projection) /\ Range(projection) \subseteq Range(Names(schema))
    THEN projection ELSE Err

(* validate_predicate *)
IsPredicate(schema, predicate) ==
    predicate.kind # "all" =>
        /\ predicate.column \in Range(Names(schema))
        /\ predicate.kind = "u64" => ColumnNamed(schema, predicate.column).type = "u64"

(* decode_footer_column: the chunk, if schema and footer agree with it. *)
DecodeFooterColumn(group, entry, column) ==
    LET listed == {c \in Range(entry.columns) : c.name = column.name}
        chunks == {c \in Range(group.chunks) : c.meta.name = column.name}
        chunk  == CHOOSE c \in chunks : TRUE
        shown  == [name       |-> column.name,
                   value_count |-> chunk.meta.value_count,
                   null_count |-> chunk.meta.null_count,
                   statistics |-> chunk.meta.statistics]
    IN  IF listed = {} \/ chunks = {} THEN Err
        ELSE IF listed # {shown} \/ ~FitsSchema(chunk.meta, column, entry.row_count)
        THEN Err
        ELSE DecodeColumn(chunk.meta, chunk.payload)

(* decode_row_group_projection and render_filtered_rows: the rows that      *)
(* match, with the columns asked for.                                       *)
ScanGroup(file, entry, schema, names, predicate) ==
    LET required == Range(names) \cup
                    (IF predicate.kind = "all" THEN {} ELSE {predicate.column})
    IN  IF ~IsVerified(file, entry) THEN Err
        ELSE TryAll([n \in required |->
                        DecodeFooterColumn(file[entry.row_group_offset + 1], entry,
                                           ColumnNamed(schema, n))], LAMBDA cells :
            LET rows  == [i \in 1..entry.row_count |-> [n \in required |-> cells[n][i]]]
                found == Chosen(rows, {i \in DOMAIN rows : RowMatches(rows[i], predicate)})
            IN  [i \in DOMAIN found |-> [n \in Range(names) |-> found[i][n]]])

(* scan_jsonl *)
Scan(file, schema, projection, predicate) ==
    IF ~IsReady(schema) THEN Err
    ELSE Try(InspectFooter(file), LAMBDA index :
         Try(SelectProjection(schema, projection), LAMBDA names :
         IF ~IsPredicate(schema, predicate) THEN Err
         ELSE LET groups == index.row_groups
                  kept   == Chosen(groups, {k \in DOMAIN groups : MayMatch(groups[k], predicate)})
              IN  TryAll([k \in DOMAIN kept |->
                             ScanGroup(file, kept[k], schema, names, predicate)],
                         FlattenSeq)))

-----------------------------------------------------------------------------
(* recover_file_prefix: the groups that follow on from the header. *)

ExpectedRow(file, n) == SumOf([k \in 2..n |-> file[k].count])

(* Bug: a group is taken wherever it comes from. *)
FollowsAnyRow(file, n) == file[n].kind = "group"

(* recover_row_group *)
Follows(file, n) ==
    /\ file[n].kind = "group"
    /\ file[n].index = n - 2
    /\ file[n].first = ExpectedRow(file, n - 1)
    /\ file[n].count > 0
    /\ Len(file[n].chunks) <= MaxCollectionEntries
    /\ \A c \in Range(file[n].chunks) : c.meta.value_count = file[n].count
    /\ IsInjective([c \in DOMAIN file[n].chunks |-> file[n].chunks[c].meta.name])

RecoverPrefix(file) ==
    LET good == {n \in 1..Len(file) : \A k \in 2..n : Follows(file, k)}
        kept == SubSeq(file, 1, Max(good))
    IN  IF file = << >> \/ file[1] # Header THEN Err
        ELSE [valid          |-> kept,
              footer         |-> IndexOf(Tail(kept)),
              discarded_tail |-> Len(kept) < Len(file)]

-----------------------------------------------------------------------------
(* CMP3: a header of its own and one group. *)

Header3 == [kind |-> "header3"]

EncodeCmp3(schema, rows) ==
    IF ~IsReady(schema) THEN Err
    ELSE Try(RowGroup(schema, rows, 0, 0), LAMBDA group : <<Header3, group>>)

HoldsOneGroup(file) ==
    IF Len(file) # 2 THEN FALSE ELSE file[1] = Header3 /\ file[2].kind = "group"

DecodeCmp3(file, schema) ==
    LET group == file[2]
    IN  IF ~IsReady(schema) \/ ~HoldsOneGroup(file) THEN Err
        ELSE IF \/ group.index # 0 \/ group.first # 0
                \/ Len(group.chunks) # Len(schema)
        THEN Err
        ELSE IF \E c \in DOMAIN schema :
                    ~FitsSchema(group.chunks[c].meta, schema[c], group.count)
        THEN Err
        ELSE TryAll([c \in DOMAIN schema |->
                        DecodeColumn(group.chunks[c].meta, group.chunks[c].payload)],
                    LAMBDA cells :
                        [i \in 1..group.count |->
                            [n \in Range(Names(schema)) |->
                                cells[CHOOSE c \in DOMAIN schema : schema[c].name = n][i]]])

(* inspect_jsonl: metadata and statistics, no values. *)
InspectCmp3(file) ==
    IF ~HoldsOneGroup(file) THEN Err
    ELSE IF Len(file[2].chunks) > MaxCollectionEntries THEN Err
    ELSE IF \E c \in Range(file[2].chunks) :
                c.meta.value_count # file[2].count \/ ~StatisticsFit(c.meta)
    THEN Err
    ELSE [row_count |-> file[2].count,
          columns   |-> [c \in DOMAIN file[2].chunks |-> file[2].chunks[c].meta]]
=============================================================================
