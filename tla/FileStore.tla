------------------------------ MODULE FileStore ------------------------------
(***************************************************************************)
(* The commands of the CLI that change files others may be using, as        *)
(* processes on one file system:                                            *)
(*   append    stream-append to the log: read it, append in memory, write a *)
(*             temporary sibling, rename it over the log                    *)
(*   repair    plan and execute on the bytes read, written to a new file    *)
(*   reviewed  the same through the library: the plan is made first, and    *)
(*             executed later on the bytes read again                       *)
(*   roll      stream-roll: its segments, one file after the other          *)
(* A process may be killed between any two steps and in the middle of a     *)
(* write; a write may fail; the machine may lose its power.  An error before*)
(* anything is written ends a command as if it had not run.                 *)
(***************************************************************************)
EXTENDS StorageRepair

CONSTANTS Absent,     \* no such file
          Procs,      \* the commands given, by number
          Commands,   \* what they may be: sets of [Procs -> command]
          Starts,     \* what the files may be at first: [log, table, out]
          MaxSegments,     \* bound: lines of a roll, and so the segments of one
          MaxPowerLosses   \* bound

(* A CMP3 or CMP4 file, whatever is behind its header. *)
IsColumnFile(file) == /\ file \in Seq(Range(file))
                      /\ file # << >>
                      /\ file[1] \in {V4!Header3, V4!Header}

(* What the programs meet: a file is absent, or made of cells, or of columns;*)
(* a line longer than a block may be never gets as far as a row group, it is *)
(* rejected.                                                                 *)
ASSUME FileStoreAssumption ==
    /\ Absent \notin Seq(Cell) /\ Err \notin Seq(Cell) /\ Err \notin {"V1", "V2", "V3", "V4"}
    /\ \A start \in Starts :
           /\ start.log \in Seq(Cell) \cup {Absent}
           /\ start.table \in Seq(Cell) \cup {Absent} \/ IsColumnFile(start.table)
    /\ IsFiniteSet(Procs)
    /\ \A commands \in Commands, p \in Procs :
           /\ commands[p].kind \in {"append", "roll"} =>
                  /\ commands[p].lines \in Seq(Line)
                  /\ \A line \in Range(commands[p].lines) :
                         line \in Row => line.size \in 1..MaxBytesPerBlock
           /\ commands[p].kind = "roll" => Len(commands[p].lines) <= MaxSegments
    /\ MaxSegments \in Nat
    /\ MaxPowerLosses \in Nat

VARIABLES log, table, out,   \* files: the log, another source, the output of repairs
          segments,   \* segment-00000 and so on
          temps,      \* the temporary sibling of each process
          stable,     \* what of the log survives a loss of power
          command, pc,
          hand,       \* what a process holds in memory
          original,   \* history: the log at first
          applied,    \* history: the appends in the log, in order
          stableApplied,
          base,       \* history: how many of them a process had read
          powerLosses

vars == <<log, table, out, segments, temps, stable, command, pc, hand,
          original, applied, stableApplied, base, powerLosses>>
files   == <<log, table, out, segments, temps>>
history == <<original, applied, stableApplied, base, powerLosses>>

Init == /\ \E start \in Starts : log = start.log /\ table = start.table /\ out = start.out
        /\ segments = [i \in 1..MaxSegments |-> Absent]
        /\ temps = [p \in Procs |-> Absent]
        /\ stable = log
        /\ command \in Commands
        /\ pc = [p \in Procs |-> "idle"]
        /\ hand = [p \in Procs |-> Absent]
        /\ original = log
        /\ applied = << >> /\ stableApplied = << >>
        /\ base = [p \in Procs |-> 0]
        /\ powerLosses = 0

Is(p, kind, place) == command[p].kind = kind /\ pc[p] = place

Go(p, place) == pc' = [pc EXCEPT ![p] = place]

Bytes(file) == IF file = Absent THEN << >> ELSE file

-----------------------------------------------------------------------------
(* stream-append *)

ReadLog(p) ==
    LET result == AppendLines(Bytes(log), command[p].lines)
    IN  /\ Is(p, "append", "idle")
        /\ hand' = [hand EXCEPT ![p] = result]
        /\ Go(p, IF result = Err THEN "failed" ELSE "encoded")
        /\ base' = [base EXCEPT ![p] = Len(applied)]
        /\ UNCHANGED <<files, stable, command, original, applied, stableApplied, powerLosses>>

(* create_temporary_sibling: the name is the process's own. *)
CreateTemporary(p) ==
    /\ Is(p, "append", "encoded")
    /\ temps[p] = Absent
    /\ temps' = [temps EXCEPT ![p] = << >>]
    /\ Go(p, "temporary")
    /\ UNCHANGED <<log, table, out, segments, stable, command, hand, history>>

(* write_all, flush and sync_all, or an error and the file removed again.    *)
WriteTemporary(p) ==
    /\ Is(p, "append", "temporary")
    /\ \/ temps' = [temps EXCEPT ![p] = hand[p]] /\ Go(p, "synced")
       \/ temps' = [temps EXCEPT ![p] = Absent]  /\ Go(p, "failed")
    /\ UNCHANGED <<log, table, out, segments, stable, command, hand, history>>

RenameFrom(p, place) ==
    /\ Is(p, "append", place)
    /\ log' = temps[p]
    /\ temps' = [temps EXCEPT ![p] = Absent]
    /\ Go(p, "done")
    /\ applied' = Append(applied, p)
    /\ UNCHANGED <<table, out, segments, stable, command, hand,
                   original, stableApplied, base, powerLosses>>

(* Bug: the file is renamed before it is written. *)
RenameUnwritten(p) == RenameFrom(p, "temporary")

Rename(p) == RenameFrom(p, "synced")

RenameFails(p) ==
    /\ Is(p, "append", "synced")
    /\ temps' = [temps EXCEPT ![p] = Absent]
    /\ Go(p, "failed")
    /\ UNCHANGED <<log, table, out, segments, stable, command, hand, history>>

-----------------------------------------------------------------------------
(* repair *)

SourceOf(p) == Bytes(IF command[p].source = "log" THEN log ELSE table)

PlanRepair(p) ==
    /\ pc[p] = "idle" /\ command[p].kind \in {"repair", "reviewed"}
    /\ hand' = [hand EXCEPT ![p] = Plan(SourceOf(p))]
    /\ Go(p, IF hand'[p] = Err THEN "failed" ELSE "planned")
    /\ UNCHANGED <<files, stable, command, history>>

(* The bytes a plan is executed on: those it was made from, or the file as   *)
(* it is by then.                                                            *)
ExecutedOn(p) == IF command[p].kind = "repair" THEN hand[p].source ELSE SourceOf(p)

(* Bug: a file that is there is opened and emptied. *)
CreateOutputAnyhow(p) ==
    LET result == Execute(ExecutedOn(p), hand[p])
    IN  /\ pc[p] = "planned"
        /\ out' = IF result # Err THEN << >> ELSE out
        /\ Go(p, IF result # Err THEN "creating" ELSE "failed")
        /\ hand' = [hand EXCEPT ![p] = [plan |-> @, result |-> result]]
        /\ UNCHANGED <<log, table, segments, temps, stable, command, history>>

(* execute, and write_new_file up to its create_new. *)
CreateOutput(p) ==
    LET result == Execute(ExecutedOn(p), hand[p])
        made   == result # Err /\ out = Absent
    IN  /\ pc[p] = "planned"
        /\ out' = IF made THEN << >> ELSE out
        /\ Go(p, IF made THEN "creating" ELSE "failed")
        /\ hand' = [hand EXCEPT ![p] = [plan |-> @, result |-> result]]
        /\ UNCHANGED <<log, table, segments, temps, stable, command, history>>

(* write_new_file: all of it, or the file removed again. *)
WriteOutput(p) ==
    /\ pc[p] = "creating"
    /\ \/ out' = hand[p].result /\ Go(p, "done")
       \/ out' = Absent /\ Go(p, "failed")
    /\ UNCHANGED <<log, table, segments, temps, stable, command, hand, history>>

-----------------------------------------------------------------------------
(* stream-roll.  Two rolls into one directory do not run at the same time.   *)

Roll(p) ==
    LET result == RollSegments(command[p].lines)
    IN  /\ Is(p, "roll", "idle")
        /\ \A q \in Procs : ~(Is(q, "roll", "rolling") \/ Is(q, "roll", "opened"))
        /\ hand' = [hand EXCEPT ![p] = IF result = Err THEN Err
                                       ELSE [left |-> result, all |-> result, old |-> segments,
                                             before |-> {q \in Procs : pc[q] # "idle"}]]
        /\ Go(p, CASE result = Err -> "failed" [] result = << >> -> "done" [] OTHER -> "rolling")
        /\ UNCHANGED <<files, stable, command, history>>

NextSegment(p) == Len(hand[p].all) - Len(hand[p].left) + 1

(* fs::write empties the file it finds, and then writes. *)
OpenSegment(p) ==
    /\ Is(p, "roll", "rolling")
    /\ segments' = [segments EXCEPT ![NextSegment(p)] = << >>]
    /\ Go(p, "opened")
    /\ UNCHANGED <<log, table, out, temps, stable, command, hand, history>>

WriteSegment(p) ==
    /\ Is(p, "roll", "opened")
    /\ \/ /\ segments' = [segments EXCEPT ![NextSegment(p)] = Head(hand[p].left)]
          /\ hand' = [hand EXCEPT ![p].left = Tail(@)]
          /\ Go(p, IF Len(hand[p].left) = 1 THEN "done" ELSE "rolling")
       \/ /\ segments' \in {[segments EXCEPT ![NextSegment(p)] = torn] :
                                torn \in {<< >>, <<Torn>>}}
          /\ hand' = hand
          /\ Go(p, "failed")
    /\ UNCHANGED <<log, table, out, temps, stable, command, history>>

-----------------------------------------------------------------------------
Running == {"encoded", "temporary", "synced", "planned", "creating", "rolling", "opened"}

(* What a write that is cut short leaves of a file that was empty before it. *)
Cuts == {<< >>, <<Torn>>}

(* A process is killed; a file it was writing stays as it is. *)
Crash(p) ==
    /\ pc[p] \in Running
    /\ temps' \in IF pc[p] = "temporary" THEN {[temps EXCEPT ![p] = c] : c \in Cuts} ELSE {temps}
    /\ out' \in IF pc[p] = "creating" THEN Cuts ELSE {out}
    /\ segments' \in IF pc[p] = "opened"
                     THEN {[segments EXCEPT ![NextSegment(p)] = c] : c \in Cuts} ELSE {segments}
    /\ Go(p, "crashed")
    /\ UNCHANGED <<log, table, stable, command, hand, history>>

(* The system writes the directory of the log, when it likes. *)
SyncDirectory ==
    /\ stable # log
    /\ stable' = log
    /\ stableApplied' = applied
    /\ UNCHANGED <<files, command, pc, hand, original, applied, base, powerLosses>>

(* All processes are gone, and renames, new names and bytes that nobody      *)
(* synced may be gone too.                                                   *)
PowerLoss ==
    /\ powerLosses < MaxPowerLosses
    /\ powerLosses' = powerLosses + 1
    /\ pc' = [p \in Procs |-> IF pc[p] \in Running THEN "crashed" ELSE pc[p]]
    /\ log' = stable
    /\ applied' = stableApplied
    /\ out' \in {Absent, out} \cup
                (IF \E p \in Procs : pc[p] = "creating" THEN Cuts ELSE {})
    /\ \E lost \in SUBSET {i \in DOMAIN segments : segments[i] # Absent} :
          segments' = [i \in DOMAIN segments |-> IF i \in lost THEN <<Torn>> ELSE segments[i]]
    /\ UNCHANGED <<table, temps, stable, command, hand, original, stableApplied, base>>

(* Every command has ended. *)
Ended == /\ \A p \in Procs : pc[p] \notin Running \cup {"idle"}
         /\ UNCHANGED vars

Step(p) == \/ ReadLog(p) \/ CreateTemporary(p) \/ WriteTemporary(p)
           \/ Rename(p) \/ RenameFails(p)
           \/ PlanRepair(p) \/ CreateOutput(p) \/ WriteOutput(p)
           \/ Roll(p) \/ OpenSegment(p) \/ WriteSegment(p)
           \/ Crash(p)

Next == (\E p \in Procs : Step(p)) \/ SyncDirectory \/ PowerLoss \/ Ended

Spec == Init /\ [][Next]_vars

-----------------------------------------------------------------------------
RowsIn(file) == FlattenSeq(Recovered(Bytes(file)))

(* atomic_write_with, append_jsonl_stream: whatever is killed, fails or      *)
(* overlaps, the log is as it was at first or a stream that recovery keeps to*)
(* its last byte; and the rows it had at first stay in front.                *)
LogIsWhole ==
    /\ IsPrefix(RowsIn(original), RowsIn(log))
    /\ log # original => IsValidLen(log, Len(log)) /\ Replay(log).status = "reading"

AppendedBy(p) == RowsOf(command[p].lines)

IsIn(rows, all) == \E i \in 0..Len(all) - Len(rows) : SubSeq(all, i + 1, i + Len(rows)) = rows

(* The rows of a log, by the appends that got into it. *)
IsExplainedBy(file, appends) ==
    /\ \A i \in DOMAIN appends :
           \/ IsIn(AppendedBy(appends[i]), RowsIn(file))
           \/ \E j \in i + 1..Len(appends) : base[appends[j]] < i
    /\ Range(RowsIn(file)) \subseteq
           Range(RowsIn(original)) \cup UNION {Range(AppendedBy(p)) : p \in Range(appends)}

(* stream-append: the rows of an append that ended well are missing only if  *)
(* another append, which had read the log before, replaced it after; and the *)
(* log holds no rows but those of appends that got as far as their rename.   *)
LostRowsMeanOverlap == IsExplainedBy(log, applied)

(* What the repair of a source should be, whatever way it was made.          *)
IsRepaired(output, source) ==
    LET seen == Inspect(output)
    IN  /\ Validate(output) # Err /\ Validate(output).sealed
        /\ Plan(output).action = "none"
        /\ Detect(output) = Detect(source)
        /\ IF Detect(output) = "V2"
           THEN seen.rows = FlattenSeq(Recovered(source))
           ELSE \E n \in 1..Len(source) :
                    /\ SubSeq(output, 1, Len(output) - 1) = SubSeq(source, 1, n)
                    /\ n < Len(source) => ~V4!Follows(source, n + 1)

(* repair::plan, execute, write_new_file: when a repair has ended well, the  *)
(* output is sealed, valid, needs no repair, and holds every row that was    *)
(* recoverable from the bytes its plan was made from, though the file may    *)
(* have changed since.                                                       *)
RepairedIsWhole ==
    \A p \in Procs :
        command[p].kind \in {"repair", "reviewed"} /\ pc[p] = "done" /\ powerLosses = 0 =>
            IsRepaired(out, hand[p].plan.source)

(* write_new_file: no repair touches a file that was there before it, not    *)
(* one of an earlier repair either, and none removes it again when it fails. *)
OutputsStay ==
    [][out # Absent /\ powerLosses' = powerLosses
           /\ (\A p \in Procs : pc[p] # "creating") => out' = out]_vars

IsSegment(file) == IsValidLen(file, Len(file)) /\ file # << >>

IsLastRoll(p) ==
    \A q \in Procs : command[q].kind = "roll" =>
        q = p \/ pc[q] = "idle" \/ q \in hand[p].before

(* roll_jsonl_append_segments, stream-roll: after a roll its segments hold   *)
(* the rows of its input, in order, each segment a whole stream of at most   *)
(* one block more than the limit and only the last below both limits; the    *)
(* files of a longer roll before it are still behind them.  A roll that      *)
(* failed or was killed leaves at most one segment that is not whole.        *)
SegmentsConserveRows ==
    powerLosses = 0 =>
        /\ \A p \in Procs :
              Is(p, "roll", "done") /\ IsLastRoll(p) =>
                    LET n == Len(hand[p].all)
                    IN  /\ FlattenSeq([i \in 1..n |-> RowsIn(segments[i])])
                               = RowsOf(command[p].lines)
                        /\ \A i \in 1..n :
                              /\ IsSegment(segments[i])
                              /\ Len(segments[i]) - 1 <= MaxBlocksPerSegment + 1
                              /\ i < n => \/ Len(segments[i]) - 1 >= MaxBlocksPerSegment
                                          \/ Len(segments[i]) + Len(RowsIn(segments[i]))
                                                 >= MaxSegmentBytes
                        /\ \A i \in n + 1..MaxSegments : segments[i] = hand[p].old[i]
        /\ Cardinality({i \in DOMAIN segments : segments[i] # Absent /\ ~IsSegment(segments[i])})
               <= Cardinality({p \in Procs : command[p].kind = "roll"
                                  /\ pc[p] \in {"opened", "failed", "crashed"}})
-----------------------------------------------------------------------------
(* Why the log is whole and its rows are explained: what is in the log, what *)
(* a loss of power would leave of it and what an append is about to put in   *)
(* its place are all made of the first log and of whole appends.             *)

InHand == {"encoded", "temporary", "synced"}

IsAppending(p) == command[p].kind = "append" /\ pc[p] \in InHand

ReadableLogs == \A start \in Starts : IsReadable(Bytes(start.log))

CanonicalCommands ==
    \A commands \in Commands, p \in Procs :
        commands[p].kind = "append" => IsCanonical(RowsOf(commands[p].lines))

IsGoodLog(file) ==
    /\ file \in Seq(Cell) \cup {Absent}
    /\ IsPrefix(RowsIn(original), RowsIn(file))
    /\ file # original =>
           file \in Seq(Cell) /\ file # << >> /\ IsValidLen(file, Len(file))
    /\ ReadableLogs /\ CanonicalCommands => IsReadable(Bytes(file))

(* Who is where: appends in the log have ended, those under way read it when *)
(* a part of what is in it now was in it.                                    *)
AppendsTypeOK ==
    /\ command \in Commands
    /\ pc = [p \in Procs |-> pc[p]] /\ hand = [p \in Procs |-> hand[p]]
    /\ temps = [p \in Procs |-> temps[p]]
    /\ base \in [Procs -> Nat]
    /\ applied \in Seq(Procs) /\ stableApplied \in Seq(Procs)
    /\ \A p \in Range(applied) \cup Range(stableApplied) :
           pc[p] = "done" /\ command[p].kind = "append"
    /\ \A p \in Procs : IsAppending(p) => base[p] <= Len(applied)
    /\ powerLosses \in Nat

LogsInv ==
    /\ IsGoodLog(original) /\ IsGoodLog(log) /\ IsGoodLog(stable)
    /\ IsExplainedBy(log, applied) /\ IsExplainedBy(stable, stableApplied)

(* An append holds what the log would be had it been the only one since.     *)
HandsInv ==
    \A p \in Procs : IsAppending(p) =>
        /\ IsGoodLog(hand[p])
        /\ hand[p] \in Seq(Cell) /\ hand[p] # << >>
        /\ IsValidLen(hand[p], Len(hand[p]))
        /\ IsExplainedBy(hand[p], Append(SubSeq(applied, 1, base[p]), p))
        /\ pc[p] = "synced" => temps[p] = hand[p]

AppendsInv == AppendsTypeOK /\ LogsInv /\ HandsInv

-----------------------------------------------------------------------------
(* Why segments conserve their rows: one roll runs at a time, and puts down  *)
(* the segments it has in memory from the first on, over those that were     *)
(* there; whatever is not whole was left by the process that opened it last. *)

IsRolling(p) == command[p].kind = "roll" /\ pc[p] \in {"rolling", "opened"}

HasRolled(p) == command[p].kind = "roll" /\ pc[p] \in {"rolling", "opened", "done"}

RollHand(p) ==
    LET all == RollSegments(command[p].lines)
    IN  /\ all # Err
        /\ hand[p] = [left |-> hand[p].left, all |-> all, old |-> hand[p].old,
                      before |-> hand[p].before]
        /\ NextSegment(p) \in 1..Len(all) + 1
        /\ hand[p].left = SubSeq(all, NextSegment(p), Len(all))
        /\ pc[p] = "done" <=> NextSegment(p) = Len(all) + 1
        /\ \A q \in hand[p].before \cap Procs :
               command[q].kind = "roll" => pc[q] \in {"done", "failed", "crashed"}

RolledSoFar(p) ==
    /\ \A i \in 1..NextSegment(p) - 1 : segments[i] = hand[p].all[i]
    /\ \A i \in NextSegment(p)..MaxSegments :
           (i = NextSegment(p) => pc[p] # "opened") => segments[i] = hand[p].old[i]

IsCulprit(p, i) == /\ command[p].kind = "roll"
                   /\ pc[p] \in {"opened", "failed", "crashed"}
                   /\ NextSegment(p) = i

SegmentsInv ==
    /\ segments = [i \in 1..MaxSegments |-> segments[i]]
    /\ \A p \in Procs :
           IF command[p].kind = "roll"
           THEN pc[p] \in {"idle", "rolling", "opened", "done", "failed", "crashed"}
           ELSE pc[p] \notin {"rolling", "opened"}
    /\ \A p, q \in Procs : IsRolling(p) /\ IsRolling(q) => p = q
    /\ \A p \in Procs : HasRolled(p) => RollHand(p)
    /\ \A p \in Procs : HasRolled(p) /\ IsLastRoll(p) => RolledSoFar(p)
    /\ \A i \in 1..MaxSegments :
           \/ segments[i] = Absent \/ IsSegment(segments[i])
           \/ \E p \in Procs : IsCulprit(p, i)

RollsInv == powerLosses = 0 => SegmentsInv

(* Why a repair is whole: a plan is that of the bytes it names, and the one  *)
(* process that has made the output holds what goes into it.                 *)

IsSource(file) == file \in Seq(Cell) \/ IsColumnFile(file)

IsPlanOf(plan, file) == IsSource(file) /\ plan = Plan(file) /\ plan # Err

IsRepairing(p) == command[p].kind \in {"repair", "reviewed"} /\ pc[p] \in {"creating", "done"}

RepairsInv ==
    /\ table = Absent \/ IsSource(table)
    /\ \A p \in Procs :
           /\ pc[p] \in {"planned", "creating"} => command[p].kind \in {"repair", "reviewed"}
           /\ pc[p] = "planned" => IsPlanOf(hand[p], hand[p].source)
           /\ IsRepairing(p) =>
                  /\ IsPlanOf(hand[p].plan, hand[p].plan.source)
                  /\ hand[p].result = Execute(hand[p].plan.source, hand[p].plan)
                  /\ hand[p].result # Err
    /\ powerLosses = 0 =>
           /\ \A p, q \in Procs : IsRepairing(p) /\ IsRepairing(q) => p = q
           /\ \A p \in Procs : IsRepairing(p) =>
                  out = IF pc[p] = "creating" THEN << >> ELSE hand[p].result
=============================================================================
