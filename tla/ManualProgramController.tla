----------------------- MODULE ManualProgramController -----------------------
(***************************************************************************)
(* ui/ManualProgramController.h: the editor of a manual program.  A draft  *)
(* holds the values of all three modes at once; the mode selects which of  *)
(* them make up the profile that is started or saved.                      *)
(*                                                                         *)
(* An edit the editor refuses changes nothing and is a stuttering step, as *)
(* is a press on Start or Save, which only tells the caller.               *)
(***************************************************************************)
EXTENDS ProfileEngine, Sequences

CONSTANTS
  DefaultDraft,
  DURATION_STEP_MINUTES,
  BOOST_DELTA_STEP_C, MAX_BOOST_DELTA_C, BOOST_DURATION_STEP_MINUTES,
  MAX_FLUCT_OFFSET_C,
  FLUCT_DURATION_STEP_MINUTES,
  MIN_FLUCT_DURATION_MINUTES, MAX_FLUCT_DURATION_MINUTES,
  NoSlot,               \* the editor is associated with no slot
  EditorSlots,
  SavedProfiles,        \* profiles found in slots
  MAX_EDITS             \* bound: values changed since a profile was opened

VARIABLES
  draft,                \* mode_, targetTempC_, ... lowerDurationMinutes_
  selectedIndex,        \* selectedField_ is the field at this index
  editing,
  dirty,
  associatedSlot,
  baseline,             \* baselineProfile_, baselineAssociatedSlot_
  edits

vars == <<draft, selectedIndex, editing, dirty, associatedSlot, baseline, edits>>

ManualProgramMode == <<"Constant", "Boost", "Fluctuating">>

ManualProgramDraft ==
  [mode : {"Constant", "Boost", "Fluctuating"},
   targetTempC : Int, durationMinutes : Nat,
   boostDeltaC : Int, boostDurationMinutes : Nat,
   upperTempC : Int, lowerTempC : Int,
   upperDurationMinutes : Nat, lowerDurationMinutes : Nat]

FieldsOf(mode) ==
  <<"Mode", "Temperature", "Duration">>
    \o CASE mode = "Constant"    -> <<>>
         [] mode = "Boost"       -> <<"BoostDelta", "BoostDuration">>
         [] mode = "Fluctuating" ->
              <<"UpperTemp", "LowerTemp", "UpperDuration", "LowerDuration">>
    \o <<"Start", "Save", "Back">>

SelectedField == FieldsOf(draft.mode)[selectedIndex + 1]

IsEditable(field) == field \notin {"Start", "Save", "Back"}

\* profile() of a draft.
ProfileOf(d) ==
  CASE d.mode = "Constant" ->
         [EmptyProfile EXCEPT !.targetTempC = d.targetTempC,
                              !.durationMinutes = d.durationMinutes]
    [] d.mode = "Boost" ->
         [EmptyProfile EXCEPT !.mode = "Boost", !.targetTempC = d.targetTempC,
                              !.highTempC = d.targetTempC + d.boostDeltaC,
                              !.durationMinutes = d.durationMinutes,
                              !.highPhaseMinutes = d.boostDurationMinutes]
    [] d.mode = "Fluctuating" ->
         [mode |-> "Fluctuating", targetTempC |-> d.targetTempC,
          lowTempC |-> d.lowerTempC, highTempC |-> d.upperTempC,
          durationMinutes |-> d.durationMinutes,
          highPhaseMinutes |-> d.upperDurationMinutes,
          lowPhaseMinutes |-> d.lowerDurationMinutes]

Profile == ProfileOf(draft)

\* The defaults make a valid program in constant mode, a slot holds no invalid
\* one, and a phase of a fluctuation takes some time.
ASSUME EditorAssumption ==
  /\ DefaultDraft \in ManualProgramDraft /\ DefaultDraft.mode = "Constant"
  /\ IsValid(ProfileOf(DefaultDraft))
  /\ SavedProfiles \subseteq ProfileConfig /\ \A p \in SavedProfiles : IsValid(p)
  /\ {DURATION_STEP_MINUTES, BOOST_DELTA_STEP_C, BOOST_DURATION_STEP_MINUTES,
       FLUCT_DURATION_STEP_MINUTES, MAX_BOOST_DELTA_C, MAX_FLUCT_OFFSET_C,
       MAX_FLUCT_DURATION_MINUTES} \subseteq Int
  /\ {MIN_FLUCT_DURATION_MINUTES, MAX_EDITS} \subseteq Nat \ {0}

\* Mutant: the high temperature of a boost is taken for the delta.
DraftOfBoostAbsolute(p) ==
  LET d == [DefaultDraft EXCEPT !.targetTempC = p.targetTempC,
                                !.durationMinutes = p.durationMinutes]
  IN  CASE p.mode = "Fixed" -> d
        [] p.mode = "Boost" -> [d EXCEPT !.mode = "Boost",
                                         !.boostDeltaC = p.highTempC,
                                         !.boostDurationMinutes = p.highPhaseMinutes]
        [] OTHER -> [d EXCEPT !.mode = "Fluctuating", !.upperTempC = p.highTempC,
                              !.lowerTempC = p.lowTempC,
                              !.upperDurationMinutes = p.highPhaseMinutes,
                              !.lowerDurationMinutes = p.lowPhaseMinutes]

\* The draft loadProfile() makes of a profile; values of the other modes
\* start from the defaults.
DraftOf(p) ==
  LET d == [DefaultDraft EXCEPT !.targetTempC = p.targetTempC,
                                !.durationMinutes = p.durationMinutes]
  IN  CASE p.mode = "Fixed" -> d
        [] p.mode = "Boost" -> [d EXCEPT !.mode = "Boost",
                                         !.boostDeltaC = p.highTempC - p.targetTempC,
                                         !.boostDurationMinutes = p.highPhaseMinutes]
        [] OTHER -> [d EXCEPT !.mode = "Fluctuating", !.upperTempC = p.highTempC,
                              !.lowerTempC = p.lowTempC,
                              !.upperDurationMinutes = p.highPhaseMinutes,
                              !.lowerDurationMinutes = p.lowPhaseMinutes]

Init ==
  /\ draft = DefaultDraft
  /\ selectedIndex = 0 /\ editing = FALSE /\ dirty = FALSE
  /\ associatedSlot = NoSlot
  /\ baseline = [profile |-> ProfileOf(DefaultDraft), slot |-> NoSlot]
  /\ edits = 0

------------------------------------------------------------------------------
ResetSelection == selectedIndex' = 0 /\ editing' = FALSE

Load(d, slot) ==
  /\ draft' = d
  /\ associatedSlot' = slot
  /\ baseline' = [profile |-> ProfileOf(d), slot |-> slot]
  /\ dirty' = FALSE
  /\ ResetSelection

ResetToDefaults == Load(DefaultDraft, NoSlot) /\ edits' = 0
LoadProfile(p, slot) == Load(DraftOf(p), slot) /\ edits' = 0
DiscardChanges ==
  Load(DraftOf(baseline.profile), baseline.slot) /\ UNCHANGED edits

\* The store has accepted the profile.
MarkSaved(slot) ==
  /\ IsValid(Profile)
  /\ associatedSlot' = slot
  /\ baseline' = [profile |-> Profile, slot |-> slot]
  /\ dirty' = FALSE
  /\ UNCHANGED <<draft, selectedIndex, editing, edits>>

OnNavigate(delta) ==
  /\ ~editing
  /\ selectedIndex + delta \in 0..Len(FieldsOf(draft.mode)) - 1
  /\ selectedIndex' = selectedIndex + delta
  /\ UNCHANGED <<draft, editing, dirty, associatedSlot, baseline, edits>>

\* What every edit of a value does.
Edit(field, d) ==
  /\ editing /\ SelectedField = field
  /\ edits < MAX_EDITS /\ edits' = edits + 1
  /\ draft' = d
  /\ UNCHANGED <<editing, associatedSlot, baseline>>

\* changedValue()
Change(field, d) == Edit(field, d) /\ dirty' = TRUE /\ UNCHANGED selectedIndex

\* A change of the mode does not count as a change of the program.
EditMode(delta) ==
  LET at == CHOOSE i \in 1..3 : ManualProgramMode[i] = draft.mode
  IN  /\ at + delta \in 1..3
      /\ Edit("Mode", [draft EXCEPT !.mode = ManualProgramMode[at + delta]])
      /\ selectedIndex' = 0
      /\ UNCHANGED dirty

IsUpperTempValidForReference(tempC, reference) ==
  tempC - reference \in 0..MAX_FLUCT_OFFSET_C

IsLowerTempValidForReference(tempC, reference) ==
  reference - tempC \in 0..MAX_FLUCT_OFFSET_C

\* Mutant: the boost delta is not added.
EditTemperatureBlind(delta) ==
  LET next == draft.targetTempC + delta
  IN  /\ IsAllowedTemp(next)
      /\ Change("Temperature", [draft EXCEPT !.targetTempC = next])

EditTemperature(delta) ==
  LET next == draft.targetTempC + delta
  IN  /\ IsAllowedTemp(next)
      /\ draft.mode = "Boost" => next + draft.boostDeltaC <= MAX_TARGET_TEMP_C
      /\ draft.mode = "Fluctuating" =>
           /\ IsUpperTempValidForReference(draft.upperTempC, next)
           /\ IsLowerTempValidForReference(draft.lowerTempC, next)
      /\ Change("Temperature", [draft EXCEPT !.targetTempC = next])

EditDuration(delta) ==
  LET next == draft.durationMinutes + delta * DURATION_STEP_MINUTES
  IN  /\ next \in 1..MAX_DURATION_MINUTES
      /\ draft.mode = "Boost" =>
           (draft.boostDurationMinutes * 2) % UINT_RANGE <= next
      /\ Change("Duration", [draft EXCEPT !.durationMinutes = next])

EditBoostDelta(delta) ==
  LET next == draft.boostDeltaC + delta * BOOST_DELTA_STEP_C
  IN  /\ next \in 0..MAX_BOOST_DELTA_C
      /\ draft.targetTempC + next <= MAX_TARGET_TEMP_C
      /\ Change("BoostDelta", [draft EXCEPT !.boostDeltaC = next])

EditBoostDuration(delta) ==
  LET next == draft.boostDurationMinutes + delta * BOOST_DURATION_STEP_MINUTES
  IN  /\ next > 0 /\ next * 2 <= draft.durationMinutes
      /\ Change("BoostDuration", [draft EXCEPT !.boostDurationMinutes = next])

EditUpperTemp(delta) ==
  LET next == draft.upperTempC + delta
  IN  /\ next >= draft.lowerTempC /\ IsAllowedTemp(next)
      /\ IsUpperTempValidForReference(next, draft.targetTempC)
      /\ Change("UpperTemp", [draft EXCEPT !.upperTempC = next])

EditLowerTemp(delta) ==
  LET next == draft.lowerTempC + delta
  IN  /\ next <= draft.upperTempC /\ IsAllowedTemp(next)
      /\ IsLowerTempValidForReference(next, draft.targetTempC)
      /\ Change("LowerTemp", [draft EXCEPT !.lowerTempC = next])

PhaseDurations == MIN_FLUCT_DURATION_MINUTES..MAX_FLUCT_DURATION_MINUTES

EditUpperDuration(delta) ==
  LET next == draft.upperDurationMinutes + delta * FLUCT_DURATION_STEP_MINUTES
  IN  /\ next \in PhaseDurations
      /\ Change("UpperDuration", [draft EXCEPT !.upperDurationMinutes = next])

\* Mutant: the change is not remembered.
EditLowerDurationUnmarked(delta) ==
  LET next == draft.lowerDurationMinutes + delta * FLUCT_DURATION_STEP_MINUTES
  IN  /\ next \in PhaseDurations
      /\ Edit("LowerDuration", [draft EXCEPT !.lowerDurationMinutes = next])
      /\ UNCHANGED <<dirty, selectedIndex>>

EditLowerDuration(delta) ==
  LET next == draft.lowerDurationMinutes + delta * FLUCT_DURATION_STEP_MINUTES
  IN  /\ next \in PhaseDurations
      /\ Change("LowerDuration", [draft EXCEPT !.lowerDurationMinutes = next])

EditSelectedField(delta) ==
  \/ EditMode(delta) \/ EditTemperature(delta) \/ EditDuration(delta)
  \/ EditBoostDelta(delta) \/ EditBoostDuration(delta)
  \/ EditUpperTemp(delta) \/ EditLowerTemp(delta)
  \/ EditUpperDuration(delta) \/ EditLowerDuration(delta)

OnRotate(delta) == OnNavigate(delta) \/ EditSelectedField(delta)

ToggleEditing ==
  /\ IsEditable(SelectedField)
  /\ editing' = ~editing
  /\ UNCHANGED <<draft, selectedIndex, dirty, associatedSlot, baseline, edits>>

PressBack ==
  /\ SelectedField = "Back"
  /\ ResetSelection
  /\ UNCHANGED <<draft, dirty, associatedSlot, baseline, edits>>

OnShortPress == ToggleEditing \/ PressBack

Next ==
  \/ ResetToDefaults
  \/ \E p \in SavedProfiles, slot \in EditorSlots : LoadProfile(p, slot)
  \/ \E slot \in EditorSlots : MarkSaved(slot)
  \/ DiscardChanges
  \/ \E delta \in {-1, 1} : OnRotate(delta)
  \/ OnShortPress

Spec == Init /\ [][Next]_vars

------------------------------------------------------------------------------
(* Properties *)

\* A fluctuating draft keeps both temperatures on their side of the reference
\* and near it (REQ-FUNC-020).
WithinReach(d) ==
  d.mode = "Fluctuating" =>
    /\ IsUpperTempValidForReference(d.upperTempC, d.targetTempC)
    /\ IsLowerTempValidForReference(d.lowerTempC, d.targetTempC)

\* REQ-FUNC-018 to REQ-FUNC-020: within a mode no sequence of edits leads
\* from a program the evaluator accepts to one it refuses, or takes the
\* temperatures of a fluctuating program out of reach of its reference: every
\* edit checks the values it depends on, not only its own.  Only a change of
\* the mode may do that, because it looks at no value.
EditsKeepProgramValid ==
  [][draft'.mode = draft.mode =>
       /\ IsValid(Profile) => IsValid(Profile')
       /\ edits' > edits /\ WithinReach(draft) => WithinReach(draft)']_vars

\* REQ-FUNC-023, "Nu": discarding returns to exactly the profile last loaded
\* or saved, through the conversion from a draft to a profile and back, which
\* does not keep all values; and that profile is one the store accepts.
DiscardRestoresBaseline ==
  [][DiscardChanges =>
       /\ Profile' = baseline.profile /\ IsValid(Profile')
       /\ associatedSlot' = baseline.slot]_vars

\* While the editor says that nothing is unsaved, the values of the saved
\* mode are the saved ones, whatever was edited, saved and loaded before: at
\* most the mode differs.
CleanUpToMode ==
  ~dirty => \E mode \in {"Constant", "Boost", "Fluctuating"} :
              ProfileOf([draft EXCEPT !.mode = mode]) = baseline.profile

==============================================================================
