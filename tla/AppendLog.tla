------------------------------ MODULE AppendLog ------------------------------
(***************************************************************************)
(* What an append stream promises to whoever recovers it: a log of row      *)
(* groups that survives, and the rows a writer has accepted but not yet     *)
(* made part of the log.  A flush commits all pending rows at once, as one  *)
(* group, or none of them; a session that ends well has none left; what is  *)
(* committed is never changed by a writer, and damage to the bytes loses    *)
(* groups from the end only.                                                *)
(***************************************************************************)
EXTENDS Sequences, SequencesExt

CONSTANT Rows   \* the rows writers may be given

VARIABLES log,       \* the committed row groups
          pending,   \* the rows accepted since
          status     \* "closed", "open" or "complete"

vars == <<log, pending, status>>

Init == log = << >> /\ pending = << >> /\ status = "closed"

Open == /\ status # "open"
        /\ status' = "open"
        /\ UNCHANGED <<log, pending>>

Accept == /\ status = "open"
          /\ \E row \in Rows : pending' = Append(pending, row)
          /\ UNCHANGED <<log, status>>

(* The pending rows become the last group; a closing flush ends the session.*)
Commit == /\ status = "open"
          /\ pending # << >>
          /\ log' = Append(log, pending)
          /\ pending' = << >>
          /\ status' \in {"open", "complete"}

Complete == /\ status = "open"
            /\ pending = << >>
            /\ status' = "complete"
            /\ UNCHANGED <<log, pending>>

(* A crash, an error at the end, a session given up: pending rows are lost. *)
Abandon == /\ status = "open"
           /\ pending' = << >>
           /\ status' = "closed"
           /\ UNCHANGED log

(* Between sessions the medium may lose or damage bytes. *)
Lose == /\ status # "open"
        /\ IsPrefix(log', log)
        /\ status' = "closed"
        /\ UNCHANGED pending

Next == Open \/ Accept \/ Commit \/ Complete \/ Abandon \/ Lose

Spec == Init /\ [][Next]_vars
=============================================================================
