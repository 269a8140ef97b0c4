---------------------- MODULE NtcCalibrationController ----------------------
(***************************************************************************)
(* ui/NtcCalibrationController.h: the screen on which the user tunes the   *)
(* offset and the scale of the thermistor.                                 *)
(***************************************************************************)
EXTENDS Integers, Sequences

CONSTANTS
  DefaultCalibration,                     \* config::CALIBRATION
  OFFSET_STEP_CENTI_C, MIN_OFFSET_CENTI_C, MAX_OFFSET_CENTI_C,
  SCALE_STEP_PPM, MIN_SCALE_PPM, MAX_SCALE_PPM

VARIABLES
  selectedIndex,      \* selectedField_ is the field at this index
  editing,
  dirty,
  shown,              \* offsetCentiC_, scalePpm_
  saved               \* savedOffsetCentiC_, savedScalePpm_

vars == <<selectedIndex, editing, dirty, shown, saved>>

Fields == <<"Offset", "Scale", "Save", "Restore", "Back">>
FIELD_COUNT == Len(Fields)
SelectedField == Fields[selectedIndex + 1]

Init ==
  /\ selectedIndex = 0 /\ editing = FALSE /\ dirty = FALSE
  /\ shown = DefaultCalibration /\ saved = DefaultCalibration

LoadFromCalibration(calibration) ==
  /\ selectedIndex' = 0 /\ editing' = FALSE /\ dirty' = FALSE
  /\ shown' = calibration /\ saved' = calibration

MarkSaved ==
  /\ saved' = shown /\ dirty' = FALSE
  /\ UNCHANGED <<selectedIndex, editing, shown>>

\* Where the selection, and a value being edited, would be one step on.
OnNavigate(delta) ==
  /\ ~editing
  /\ selectedIndex + delta \in 0..FIELD_COUNT - 1
  /\ selectedIndex' = selectedIndex + delta
  /\ UNCHANGED <<editing, dirty, shown, saved>>

EditSelectedField(delta) ==
  /\ editing
  /\ \/ /\ SelectedField = "Offset"
        /\ shown' = [shown EXCEPT !.offsetCentiC = @ + delta * OFFSET_STEP_CENTI_C]
        /\ shown'.offsetCentiC \in MIN_OFFSET_CENTI_C..MAX_OFFSET_CENTI_C
     \/ /\ SelectedField = "Scale"
        /\ shown' = [shown EXCEPT !.scalePpm = @ + delta * SCALE_STEP_PPM]
        /\ shown'.scalePpm \in MIN_SCALE_PPM..MAX_SCALE_PPM
  /\ dirty' = (shown' # saved)
  /\ UNCHANGED <<selectedIndex, editing, saved>>

OnRotate(delta) == OnNavigate(delta) \/ EditSelectedField(delta)

Toggle ==
  /\ SelectedField \in {"Offset", "Scale"}
  /\ editing' = ~editing
  /\ UNCHANGED <<selectedIndex, dirty, shown, saved>>

\* Mutant: restoring the defaults does not compare them with what is saved.
RestoreUnmarked ==
  /\ SelectedField = "Restore"
  /\ shown' = DefaultCalibration
  /\ UNCHANGED <<selectedIndex, editing, dirty, saved>>

Restore ==
  /\ SelectedField = "Restore"
  /\ shown' = DefaultCalibration
  /\ dirty' = (shown' # saved)
  /\ UNCHANGED <<selectedIndex, editing, saved>>

\* Leaving the screen discards what was not saved.
Back ==
  /\ SelectedField = "Back"
  /\ selectedIndex' = 0 /\ editing' = FALSE /\ dirty' = FALSE
  /\ shown' = saved
  /\ UNCHANGED saved
==============================================================================
