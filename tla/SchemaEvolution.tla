--------------------------- MODULE SchemaEvolution ---------------------------
(***************************************************************************)
(* Schema revisions.  A column of a revision is a column with a stable_id,  *)
(* the set of its aliases and a default: << >>, or the one value of the     *)
(* tuple.  A file written under one revision is read under another: columns *)
(* are matched by stable_id, whatever their names, and what cannot be read  *)
(* safely is an issue.  The metadata migration gives the columns of a       *)
(* document without identities theirs.                                      *)
(***************************************************************************)
EXTENDS RowGroupFile

IsOfType(type, value) ==
    CASE value = Null     -> FALSE
      [] value = Wrong    -> FALSE
      [] type = "bool"    -> value \in BOOLEAN
      [] type = "u64"     -> value \in Word
      [] type = "string"  -> value \in Seq(Byte)

(* validate_default *)
IsDefault(column) ==
    \A i \in DOMAIN column.default :
        IF column.default[i] = Null THEN column.nullable
        ELSE IsOfType(column.type, column.default[i])

PhysicalSchema(revision) ==
    [c \in DOMAIN revision.columns |->
        [name  |-> revision.columns[c].name,  type     |-> revision.columns[c].type,
         codec |-> revision.columns[c].codec, nullable |-> revision.columns[c].nullable]]

(* SchemaRevision::validate *)
IsRevision(r) ==
    LET columns == r.columns
    IN  /\ r.revision > 0
        /\ IsInjective([c \in DOMAIN columns |-> columns[c].stable_id])
        /\ \A c \in DOMAIN columns :
               /\ columns[c].stable_id > 0
               /\ columns[c].name \notin columns[c].aliases
               /\ IsDefault(columns[c])
        /\ \A c, d \in DOMAIN columns : c # d =>
               ({columns[c].name} \cup columns[c].aliases)
                   \cap ({columns[d].name} \cup columns[d].aliases) = {}
        /\ IsSupported(PhysicalSchema(r))

-----------------------------------------------------------------------------
(* assess *)

(* Bug: a column is looked for under its name. *)
WrittenAsName(writer, column) ==
    {w \in Range(writer.columns) : w.name = column.name}

(* The writer's column of this identity, if it has one. *)
WrittenAs(writer, column) ==
    {w \in Range(writer.columns) : w.stable_id = column.stable_id}

(* What the reader does for one of its columns: an action or an issue. *)
Reads(writer, column) ==
    LET found == WrittenAs(writer, column)
        w     == CHOOSE c \in found : TRUE
    IN  IF found = {}
        THEN CASE column.default # << >> ->
                      [kind |-> "fill_default", target |-> column.name,
                       value |-> column.default[1]]
               [] column.default = << >> /\ column.nullable ->
                      [kind |-> "fill_null", target |-> column.name]
               [] column.default = << >> /\ ~column.nullable ->
                      [kind |-> "required_column_added"]
        ELSE IF w.type # column.type THEN [kind |-> "value_type_changed"]
        ELSE IF w.nullable /\ ~column.nullable THEN [kind |-> "nullability_tightened"]
        ELSE [kind |-> "read", source |-> w.name, target |-> column.name]

Drops(writer, reader) ==
    {[kind |-> "drop", source |-> w.name] : w \in
        {c \in Range(writer.columns) : WrittenAs(reader, c) = {}}}

Assess(writer, reader) ==
    LET all == {Reads(writer, reader.columns[c]) : c \in DOMAIN reader.columns}
        fit == {a \in all : a.kind \in {"read", "fill_default", "fill_null"}}
    IN  IF ~IsRevision(writer) \/ ~IsRevision(reader) THEN Err
        ELSE [actions |-> fit \cup Drops(writer, reader),
              issues  |-> (all \ fit) \cup
                          (IF reader.revision < writer.revision
                           THEN {[kind |-> "reader_revision_is_older"]} ELSE {})]

(* apply_actions on one row: a function on the target names. *)
ApplyActions(row, actions) ==
    LET targets == {a \in actions : a.kind # "drop"}
        For(name) == CHOOSE a \in targets : a.target = name
    IN  [name \in {a.target : a \in targets} |->
            CASE For(name).kind = "read"         -> row[For(name).source]
              [] For(name).kind = "fill_default" -> For(name).value
              [] For(name).kind = "fill_null"    -> Null]

-----------------------------------------------------------------------------
(* detect and the decoder of the format, on the writer's physical schema.   *)

All == [kind |-> "all"]

(* supported_columns, which CMP2 asks of a schema. *)
IsSupportedCmp2(schema) ==
    /\ schema # << >>
    /\ IsInjective(Names(schema))
    /\ \A column \in Range(schema) :
           /\ ~column.nullable
           /\ <<column.type, column.codec>> \in
                  {<<"u64", "delta_varint">>, <<"string", "dictionary">>, <<"string", "rle">>}

(* A CMP2 stream is its header and its blocks of rows; how a reader gets    *)
(* through them is in Cmp2File.                                             *)
Header2 == [kind |-> "header2"]

DecodeCmp2(file, schema) ==
    IF ~IsSupportedCmp2(schema) THEN Err ELSE FlattenSeq([b \in 1..Len(file) - 1 |-> file[b + 1]])

DecodePhysical(file, schema) ==
    CASE file[1] = Header2 -> DecodeCmp2(file, schema)
      [] file[1] = Header3 -> DecodeCmp3(file, schema)
      [] file[1] = Header  -> Scan(file, schema, << >>, All)
      [] OTHER             -> Err

EvolvedDecode(file, writer, reader) ==
    Try(Assess(writer, reader), LAMBDA assessment :
    Try(IF assessment.issues # {} THEN Err
        ELSE DecodePhysical(file, PhysicalSchema(writer)), LAMBDA rows :
        [i \in DOMAIN rows |-> ApplyActions(rows[i], assessment.actions)]))

-----------------------------------------------------------------------------
(* The metadata migration: a document of version 1 has columns without      *)
(* identity, and a plan gives each the stable_id assigned to its name; one  *)
(* of version 2 stays.  A plan is bound to the document it was made from.   *)

(* validate_assignments *)
AreAssignments(columns, ids) ==
    /\ DOMAIN ids = {columns[c].name : c \in DOMAIN columns}
    /\ \A n \in DOMAIN ids : ids[n] > 0
    /\ IsInjective(ids)

AddStableIds(document, ids) ==
    [metadata_version |-> 2, revision |-> document.revision,
     columns |-> [c \in DOMAIN document.columns |->
                     [stable_id |-> ids[document.columns[c].name]] @@ document.columns[c]]]

PlanMigration(document, ids) ==
    LET migrated == IF document.metadata_version = 1 THEN AddStableIds(document, ids)
                    ELSE document
    IN  IF IF document.metadata_version = 1
           THEN ~IsSupported(document.columns) \/ ~AreAssignments(document.columns, ids)
           ELSE DOMAIN ids # {}
        THEN Err
        ELSE IF ~IsRevision(migrated) THEN Err
        ELSE [source |-> document, migrated |-> migrated]

ExecuteMigration(document, plan) ==
    IF document # plan.source THEN Err ELSE plan.migrated
=============================================================================
