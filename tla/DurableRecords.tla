--------------------------- MODULE DurableRecords ---------------------------
(***************************************************************************)
(* What persistent storage promises, without bytes: it consists of cells   *)
(* (one per profile slot, and the calibration), each read as a value.  A   *)
(* completed write leaves the value written.  A cell changes only while it *)
(* is the one being written, whatever becomes of the write: in particular  *)
(* an interrupted write harms no other cell.  What the interrupted cell    *)
(* itself reads as is left open here.                                      *)
(***************************************************************************)
CONSTANTS Cells, NoCell

VARIABLES
  content,      \* what each cell reads as
  writing,      \* the cell being written, or NoCell
  wanted,       \* the value being written
  outcome       \* of the last write: "done", or "lost" by a reset

vars == <<content, writing, wanted, outcome>>

Init == writing = NoCell /\ outcome = "none"

Begin(cell) ==
  /\ writing = NoCell
  /\ writing' = cell
  /\ UNCHANGED <<content, outcome>>

Disturb ==
  /\ writing \in Cells
  /\ \A cell \in Cells \ {writing} : content'[cell] = content[cell]
  /\ UNCHANGED <<writing, wanted, outcome>>

Complete ==
  /\ writing \in Cells
  /\ content[writing] = wanted
  /\ writing' = NoCell /\ outcome' = "done"
  /\ UNCHANGED content

Reset ==
  /\ writing' = NoCell /\ outcome' = "lost"
  /\ UNCHANGED content

Next == (\E cell \in Cells : Begin(cell)) \/ Disturb \/ Complete \/ Reset

Spec == Init /\ [][Next]_vars
==============================================================================
