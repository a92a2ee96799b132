---------------------------- MODULE StorageRepair ----------------------------
(***************************************************************************)
(* storage: which format a file is, whether its structure holds, and how it *)
(* is repaired.  A plan says what a repair would keep and is bound to the   *)
(* bytes it was made from; executing it makes a new file of them, the       *)
(* recovered prefix and a footer.  A CMP2 file is made of the cells of      *)
(* Cmp2File, a CMP4 file of those of RowGroupFile.                          *)
(***************************************************************************)
EXTENDS RollingSegments

CONSTANTS WordBits, ByteBits, Null, Wrong, MaxDictionary,
          MaxDecodedBytes, MaxDecodedValues, MaxCollectionEntries   \* of RowGroupFile

V4 == INSTANCE RowGroupFile

(* detect, by the magic of the first cell: CMP1 is a single frame. *)
Detect(file) ==
    CASE file = << >>           -> Err
      [] file # << >> /\ file[1] = Header     -> "V2"
      [] file # << >> /\ file[1] = V4!Header3 -> "V3"
      [] file # << >> /\ file[1] = V4!Header  -> "V4"
      [] file # << >> /\ file[1].kind = "frame" -> "V1"
      [] OTHER                  -> Err

(* negotiate, over the versions a reader is ready for. *)
VersionOf == [V1 |-> 1, V2 |-> 2, V3 |-> 3, V4 |-> 4]

Negotiate(file, minimum, maximum) ==
    LET format == Detect(file)
    IN  IF format = Err THEN Err
        ELSE IF VersionOf[format] \in minimum..maximum THEN format ELSE Err

(* validate: storage units and rows, Null where the format has none. *)
Validate(file) ==
    LET format == Negotiate(file, 1, 4)
        seen   == Inspect(file)
        cmp3   == V4!InspectCmp3(file)
        cmp4   == V4!ValidateFile(file)
    IN  CASE format = Err  -> Err
          [] format = "V1" -> IF Len(file) # 1 THEN Err
                              ELSE [units |-> 1, rows |-> Null, sealed |-> Null]
          [] format = "V2" -> IF seen.status = "error" THEN Err
                              ELSE [units |-> Len(seen.entries), rows |-> seen.nextRow,
                                    sealed |-> seen.status = "sealed"]
          [] format = "V3" -> IF cmp3 = Err THEN Err
                              ELSE [units |-> 1, rows |-> cmp3.row_count, sealed |-> Null]
          [] format = "V4" -> IF cmp4 = Err THEN Err
                              ELSE [units |-> Len(cmp4.row_groups),
                                    rows |-> cmp4.total_row_count, sealed |-> TRUE]

-----------------------------------------------------------------------------
NoOpPlan(format, file, units, rows) ==
    [format |-> format, action |-> "none", source |-> file,
     recoverable_len |-> Len(file), units |-> units, rows |-> rows]

RepairPlan(format, file, len, units, rows) ==
    [format |-> format,
     action |-> IF len = Len(file) THEN "rebuild_footer" ELSE "truncate_tail_and_rebuild_footer",
     source |-> file, recoverable_len |-> len, units |-> units, rows |-> rows]

PlanCmp2(file) ==
    LET seen == Inspect(file)
        n    == ValidLen(file)
    IN  IF seen.status = "sealed"
        THEN NoOpPlan("V2", file, Len(seen.entries), seen.nextRow)
        ELSE IF n = 0 THEN Err
        ELSE RepairPlan("V2", file, n, n - 1, NextRow(file, n))

PlanCmp4(file) ==
    LET whole == V4!ValidateFile(file)
        found == V4!RecoverPrefix(file)
    IN  IF whole # Err
        THEN NoOpPlan("V4", file, Len(whole.row_groups), whole.total_row_count)
        ELSE IF found = Err THEN Err
        ELSE RepairPlan("V4", file, Len(found.valid), Len(found.footer.row_groups),
                        found.footer.total_row_count)

Plan(file) ==
    CASE Detect(file) = "V2" -> PlanCmp2(file)
      [] Detect(file) = "V4" -> PlanCmp4(file)
      [] OTHER               -> Err

(* The index of the blocks in a prefix, as recovery lists them. *)
BlocksOf(prefix) == FoldLeft(InspectCell, ReaderStart, Tail(prefix)).entries

(* The prefix as planned and a footer for it; the result has to validate. *)
RebuildCmp2(file, plan) ==
    LET n      == ValidLen(file)
        output == Append(SubSeq(file, 1, n), Footer(BlocksOf(SubSeq(file, 1, n))))
    IN  IF <<n, n - 1, NextRow(file, n)>> # <<plan.recoverable_len, plan.units, plan.rows>>
        THEN Err
        ELSE IF Inspect(output).status # "sealed" THEN Err ELSE output

RebuildCmp4(file, plan) ==
    LET found  == V4!RecoverPrefix(file)
        output == V4!AppendFooter(found.valid, found.footer)
    IN  IF found = Err THEN Err
        ELSE IF <<Len(found.valid), Len(found.footer.row_groups), found.footer.total_row_count>>
                    # <<plan.recoverable_len, plan.units, plan.rows>>
        THEN Err
        ELSE IF output = Err THEN Err
        ELSE IF V4!ValidateFile(output) = Err THEN Err ELSE output

(* Bug: the plan is not bound to the bytes. *)
ExecuteAnyhow(file, plan) ==
    CASE Detect(file) # plan.format -> Err
      [] plan.action = "none" -> file
      [] plan.action # "none" /\ plan.format = "V2" -> RebuildCmp2(file, plan)
      [] plan.action # "none" /\ plan.format = "V4" -> RebuildCmp4(file, plan)

(* execute.  Length and digest of the source are the source itself. *)
Execute(file, plan) ==
    CASE file # plan.source \/ Detect(file) # plan.format -> Err
      [] file = plan.source /\ plan.action = "none" -> file
      [] file = plan.source /\ plan.action # "none" /\ plan.format = "V2" ->
             RebuildCmp2(file, plan)
      [] file = plan.source /\ plan.action # "none" /\ plan.format = "V4" ->
             RebuildCmp4(file, plan)
=============================================================================
