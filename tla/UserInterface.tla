---------------------------- MODULE UserInterface ----------------------------
(***************************************************************************)
(* The screens of the firmware and what a short press does on each:        *)
(* updateInputTask() of main.cpp with the small controllers of ui/.        *)
(*                                                                         *)
(* The screens share state: one Yes/No selection serves every prompt, one  *)
(* pending slot, one pending start, one origin of the save flow, and the   *)
(* main menu keeps a screen of its own next to currentScreen.              *)
(*                                                                         *)
(* A list is modelled by the entries one can select, not by its cursor;    *)
(* the selection of a Yes/No prompt is exact.  A program is a value that   *)
(* the evaluator accepts or refuses (ProfileEngine), the editor is reduced *)
(* to what the screens ask of it (ManualProgramController), the run to its *)
(* state (RunStateMachine).                                                *)
(***************************************************************************)
EXTENDS Naturals, FiniteSets

CONSTANTS
  Slots,
  NoSlot,               \* the editor is associated with no slot
  Programs,
  ValidPrograms,        \* those startProfile() and the store accept
  DefaultProgram,
  Preset,               \* a preset, which is always valid
  Nothing               \* no program: a vacant slot, nothing pending

ASSUME ProgramsAssumption ==
  /\ ValidPrograms \subseteq Programs /\ DefaultProgram \in ValidPrograms
  /\ Preset \notin Programs /\ Nothing \notin Programs \cup {Preset}
  /\ 0 \in Slots /\ NoSlot \notin Slots

VARIABLES
  currentScreen,
  menuScreen,           \* menuController.screen_
  run,                  \* presetRunController.snapshot().state
  pendingStart,         \* pendingPresetSelection or pendingManualProgramProfile
  replaceRunCancelScreen,
  confirmSelected,      \* confirmReplaceRunController
  binaryConfirmPurpose, \* "None" also for ReplaceRun, which is stored, never tested
  manualSaveFlowOrigin,
  userProfileSlotScreenPurpose,
  pendingProfileSlot,
  userProfileSlots,     \* the store and its directory (PersistentSettings)
  activeProfileDetailSlot,
  occupied,             \* userProfileActionController.occupied_
  editor,               \* manualProgramController
  asked,                \* history: what the user asked for in the editor
  declined,             \* history: the program the user chose not to save
  turned                \* history: the encoder was turned since the prompt opened

runVars    == <<run, pendingStart, replaceRunCancelScreen>>
promptVars == <<confirmSelected, binaryConfirmPurpose>>
flowVars   == <<manualSaveFlowOrigin, userProfileSlotScreenPurpose, asked>>
slotVars   == <<pendingProfileSlot, userProfileSlots, activeProfileDetailSlot,
                occupied>>
editorVars == <<editor, declined>>
vars == <<currentScreen, menuScreen, turned,
          runVars, promptVars, flowVars, slotVars, editorVars>>

Prompts == {"BinaryConfirm", "ConfirmReplaceRun"}

TypeOK ==
  /\ currentScreen \in Prompts \cup
       {"Status", "Menu", "Test", "NtcCalibration", "ManualProgram", "Preset",
        "SettingsMenu", "SavePrompt", "UserProfileSlots", "UserProfileDetail"}
  /\ menuScreen \in {"Status", "Menu"}
  /\ run \in {"Idle", "Running", "Paused", "FinishCooldown", "FinishedAlarm"}
  /\ pendingStart \in Programs \cup {Preset, Nothing}
  /\ replaceRunCancelScreen \in
       {"Status", "Preset", "ManualProgram", "UserProfileDetail"}
  /\ binaryConfirmPurpose \in
       {"None", "StopProgram", "OverwriteSlot", "DeleteSlot"}
  /\ manualSaveFlowOrigin \in {"None", "ExplicitSave", "StartRequest", "BackRequest"}
  /\ userProfileSlotScreenPurpose \in {"Browse", "Save"}
  /\ pendingProfileSlot \in Slots /\ activeProfileDetailSlot \in Slots
  /\ userProfileSlots \in [Slots -> ValidPrograms \cup {Nothing}]
  /\ editor \in [program : Programs, dirty : BOOLEAN, slot : Slots \cup {NoSlot},
                 baseline : Programs]
  /\ asked \in {"None", "Save", "Start", "Back"}
  /\ declined \in Programs \cup {Nothing}
  /\ confirmSelected \in BOOLEAN /\ occupied \in BOOLEAN /\ turned \in BOOLEAN

Loaded(program, slot) ==
  [program |-> program, dirty |-> FALSE, slot |-> slot, baseline |-> program]

Init ==
  /\ currentScreen = "Status" /\ menuScreen = "Status"
  /\ run = "Idle" /\ pendingStart = Nothing /\ replaceRunCancelScreen = "Status"
  /\ confirmSelected = FALSE /\ binaryConfirmPurpose = "None"
  /\ manualSaveFlowOrigin = "None" /\ userProfileSlotScreenPurpose = "Browse"
  /\ userProfileSlots \in [Slots -> ValidPrograms \cup {Nothing}]
  /\ pendingProfileSlot = 0 /\ activeProfileDetailSlot = 0 /\ occupied = FALSE
  /\ editor = Loaded(DefaultProgram, NoSlot)
  /\ asked = "None" /\ declined = Nothing /\ turned = FALSE

------------------------------------------------------------------------------
(* Steps several handlers share. *)

Enter(screen) == currentScreen' = screen /\ turned' = FALSE
Stay          == UNCHANGED <<currentScreen, turned>>
EnterMenu      == menuScreen' = "Menu" /\ Enter("Menu")
ReturnToStatus == menuScreen' = "Status"

HasStoppableProgram == run # "Idle"
HasPausableProgram  == run = "Running"
HasResumableProgram == run = "Paused"

OpenUserProfileSlots(purpose) ==
  userProfileSlotScreenPurpose' = purpose /\ Enter("UserProfileSlots")

\* slots: the directory as this step leaves it.
OpenUserProfileDetail(slot, slots) ==
  /\ activeProfileDetailSlot' = slot
  /\ occupied' = (slots[slot] # Nothing)
  /\ Enter("UserProfileDetail")

AskToReplaceRun(program, cancelScreen) ==
  /\ run # "Idle"
  /\ pendingStart' = program /\ replaceRunCancelScreen' = cancelScreen
  /\ confirmSelected' = FALSE
  /\ Enter("ConfirmReplaceRun")
  /\ UNCHANGED <<run, menuScreen>>

StartProgram(program) ==
  /\ run = "Idle" /\ program \in ValidPrograms \cup {Preset}
  /\ run' = "Running" /\ ReturnToStatus /\ Enter("Status")
  /\ UNCHANGED <<pendingStart, replaceRunCancelScreen, confirmSelected>>

RefuseProgram(program) ==
  /\ run = "Idle" /\ program \notin ValidPrograms \cup {Preset}
  /\ Stay
  /\ UNCHANGED <<menuScreen, runVars, confirmSelected>>

StartManualProfile ==
  \/ StartProgram(editor.program)
  \/ RefuseProgram(editor.program)
  \/ AskToReplaceRun(editor.program, "ManualProgram")

\* When the store refuses the program, nothing changes but the prompt it was
\* confirmed in.  After a save the flow goes on to what the user asked for.
SaveManualProfileToSlot(slot) ==
  \/ /\ editor.program \notin ValidPrograms
     /\ Stay
     /\ UNCHANGED <<menuScreen, runVars, confirmSelected, manualSaveFlowOrigin,
                    userProfileSlots, editorVars>>
  \/ /\ editor.program \in ValidPrograms
     /\ userProfileSlots' = [userProfileSlots EXCEPT ![slot] = editor.program]
     /\ editor' = Loaded(editor.program, slot) /\ declined' = Nothing
     /\ manualSaveFlowOrigin' = "None"
     /\ \/ manualSaveFlowOrigin = "StartRequest" /\ StartManualProfile
        \/ /\ manualSaveFlowOrigin = "BackRequest"
           /\ EnterMenu /\ UNCHANGED <<runVars, confirmSelected>>
        \/ /\ manualSaveFlowOrigin \notin {"StartRequest", "BackRequest"}
           /\ Enter("ManualProgram") /\ UNCHANGED <<menuScreen, runVars, confirmSelected>>

------------------------------------------------------------------------------
(* The status screen and the main menu share a handler, which goes by the     *)
(* screen the menu controller is on.                                          *)

OnMenuController(screen) ==
  currentScreen \in {"Status", "Menu"} /\ menuScreen = screen

AcknowledgeFinished ==
  /\ OnMenuController("Status") /\ currentScreen = "Status" /\ run = "FinishedAlarm"
  /\ run' = "Idle" /\ Stay
  /\ UNCHANGED <<menuScreen, pendingStart, replaceRunCancelScreen, promptVars,
                 flowVars, slotVars, editorVars>>

OpenMenu ==
  /\ OnMenuController("Status") /\ ~(currentScreen = "Status" /\ run = "FinishedAlarm")
  /\ EnterMenu
  /\ UNCHANGED <<runVars, promptVars, flowVars, slotVars, editorVars>>

\* An entry of the menu that only opens a screen.
OpenFromMenu(screen) ==
  /\ OnMenuController("Menu")
  /\ ReturnToStatus /\ Enter(screen)
  /\ UNCHANGED <<runVars, promptVars, flowVars, slotVars, editorVars>>

CloseMenu  == OpenFromMenu("Status")
OpenPreset == OpenFromMenu("Preset")

\* Mutant: the menu controller is left on its menu.
OpenManualLeavingMenu ==
  /\ OnMenuController("Menu")
  /\ Enter("ManualProgram")
  /\ UNCHANGED <<menuScreen, runVars, promptVars, flowVars, slotVars, editorVars>>

OpenManual == OpenFromMenu("ManualProgram")

OpenUserProfiles ==
  /\ OnMenuController("Menu")
  /\ ReturnToStatus /\ OpenUserProfileSlots("Browse")
  /\ UNCHANGED <<runVars, promptVars, manualSaveFlowOrigin, asked, slotVars,
                 editorVars>>

OpenSettings ==
  /\ OnMenuController("Menu")
  /\ Enter("SettingsMenu")
  /\ UNCHANGED <<menuScreen, runVars, promptVars, flowVars, slotVars, editorVars>>

PauseOrResume ==
  /\ OnMenuController("Menu")
  /\ \/ HasPausableProgram /\ run' = "Paused"
     \/ HasResumableProgram /\ run' = "Running"
  /\ ReturnToStatus /\ Enter("Status")
  /\ UNCHANGED <<pendingStart, replaceRunCancelScreen, promptVars, flowVars,
                 slotVars, editorVars>>

AskToStop ==
  /\ OnMenuController("Menu") /\ HasStoppableProgram
  /\ binaryConfirmPurpose' = "StopProgram" /\ confirmSelected' = FALSE
  /\ Enter("BinaryConfirm")
  /\ UNCHANGED <<menuScreen, runVars, flowVars, slotVars, editorVars>>

PressOnSettingsMenu ==
  /\ currentScreen = "SettingsMenu"
  /\ \/ \E screen \in {"NtcCalibration", "Test"} : Enter(screen) /\ UNCHANGED menuScreen
     \/ EnterMenu
  /\ UNCHANGED <<runVars, promptVars, flowVars, slotVars, editorVars>>

\* Back of the two screens below the settings.
BackToSettings ==
  /\ currentScreen \in {"NtcCalibration", "Test"}
  /\ Enter("SettingsMenu")
  /\ UNCHANGED <<menuScreen, runVars, promptVars, flowVars, slotVars, editorVars>>

PressOnPreset ==
  /\ currentScreen = "Preset"
  /\ \/ EnterMenu /\ UNCHANGED <<runVars, confirmSelected>>
     \/ StartProgram(Preset)
     \/ AskToReplaceRun(Preset, "Preset")
  /\ UNCHANGED <<binaryConfirmPurpose, flowVars, slotVars, editorVars>>

------------------------------------------------------------------------------
(* The editor and the save flow *)

\* A value is changed, or the mode, which leaves dirty as it is.
EditProgram ==
  /\ currentScreen = "ManualProgram"
  /\ \E program \in Programs, dirty \in {editor.dirty, TRUE} :
       editor' = [editor EXCEPT !.program = program, !.dirty = dirty]
  /\ declined' = Nothing
  /\ Stay
  /\ UNCHANGED <<menuScreen, runVars, promptVars, flowVars, slotVars>>

AskToSave(origin) ==
  /\ editor.dirty
  /\ manualSaveFlowOrigin' = origin
  /\ Enter("SavePrompt")
  /\ UNCHANGED <<menuScreen, runVars, confirmSelected>>

PressStart ==
  /\ currentScreen = "ManualProgram" /\ asked' = "Start"
  /\ \/ AskToSave("StartRequest")
     \/ ~editor.dirty /\ StartManualProfile /\ UNCHANGED manualSaveFlowOrigin
  /\ UNCHANGED <<binaryConfirmPurpose, userProfileSlotScreenPurpose, slotVars, editorVars>>

\* Mutant: an explicit save does not record where it came from.
PressSaveForgetsOrigin ==
  /\ currentScreen = "ManualProgram" /\ asked' = "Save"
  /\ OpenUserProfileSlots("Save")
  /\ UNCHANGED <<menuScreen, manualSaveFlowOrigin, runVars, promptVars, slotVars,
                 editorVars>>

PressSave ==
  /\ currentScreen = "ManualProgram" /\ asked' = "Save"
  /\ manualSaveFlowOrigin' = "ExplicitSave"
  /\ OpenUserProfileSlots("Save")
  /\ UNCHANGED <<menuScreen, runVars, promptVars, slotVars, editorVars>>

PressBack ==
  /\ currentScreen = "ManualProgram" /\ asked' = "Back"
  /\ \/ AskToSave("BackRequest")
     \/ /\ ~editor.dirty /\ EnterMenu
        /\ UNCHANGED <<manualSaveFlowOrigin, runVars, confirmSelected>>
  /\ UNCHANGED <<binaryConfirmPurpose, userProfileSlotScreenPurpose, slotVars, editorVars>>

ChooseYes ==
  /\ currentScreen = "SavePrompt"
  /\ OpenUserProfileSlots("Save")
  /\ UNCHANGED <<menuScreen, manualSaveFlowOrigin, asked, runVars, promptVars,
                 slotVars, editorVars>>

\* Mutant: the changes stay in the editor.
DiscardNothing == UNCHANGED editorVars

DiscardChanges ==
  editor' = Loaded(editor.baseline, editor.slot) /\ declined' = Nothing

ChooseNo ==
  /\ currentScreen = "SavePrompt"
  /\ manualSaveFlowOrigin' = "None"
  /\ \/ /\ manualSaveFlowOrigin = "StartRequest"
        /\ StartManualProfile
        /\ declined' = editor.program /\ UNCHANGED editor
     \/ /\ manualSaveFlowOrigin = "BackRequest"
        /\ DiscardChanges
        /\ EnterMenu /\ UNCHANGED <<runVars, confirmSelected>>
     \/ /\ manualSaveFlowOrigin \notin {"StartRequest", "BackRequest"}
        /\ Enter("ManualProgram")
        /\ UNCHANGED <<menuScreen, runVars, confirmSelected, editorVars>>
  /\ UNCHANGED <<binaryConfirmPurpose, userProfileSlotScreenPurpose, asked, slotVars>>

ChooseCancel ==
  /\ currentScreen = "SavePrompt"
  /\ manualSaveFlowOrigin' = "None" /\ Enter("ManualProgram")
  /\ UNCHANGED <<menuScreen, userProfileSlotScreenPurpose, asked, runVars,
                 promptVars, slotVars, editorVars>>

------------------------------------------------------------------------------
(* The slots of the user *)

LeaveSlots ==
  /\ currentScreen = "UserProfileSlots"
  /\ \/ /\ userProfileSlotScreenPurpose = "Save"
        /\ Enter("ManualProgram") /\ UNCHANGED menuScreen
     \/ userProfileSlotScreenPurpose = "Browse" /\ EnterMenu
  /\ UNCHANGED <<runVars, promptVars, flowVars, slotVars, editorVars>>

BrowseSlot(slot) ==
  /\ currentScreen = "UserProfileSlots" /\ userProfileSlotScreenPurpose = "Browse"
  /\ pendingProfileSlot' = slot
  /\ OpenUserProfileDetail(slot, userProfileSlots)
  /\ UNCHANGED <<menuScreen, userProfileSlots, runVars, promptVars, flowVars,
                 editorVars>>

\* Mutant: the prompt keeps the answer last given to a prompt.
SelectSlotToSaveUnreset(slot) ==
  /\ currentScreen = "UserProfileSlots" /\ userProfileSlotScreenPurpose = "Save"
  /\ pendingProfileSlot' = slot
  /\ \/ /\ userProfileSlots[slot] # Nothing
        /\ binaryConfirmPurpose' = "OverwriteSlot"
        /\ Enter("BinaryConfirm")
        /\ UNCHANGED <<confirmSelected, menuScreen, manualSaveFlowOrigin, runVars,
                       userProfileSlots, editorVars>>
     \/ /\ userProfileSlots[slot] = Nothing
        /\ SaveManualProfileToSlot(slot) /\ UNCHANGED binaryConfirmPurpose
  /\ UNCHANGED <<userProfileSlotScreenPurpose, asked, activeProfileDetailSlot,
                 occupied>>

SelectSlotToSave(slot) ==
  /\ currentScreen = "UserProfileSlots" /\ userProfileSlotScreenPurpose = "Save"
  /\ pendingProfileSlot' = slot
  /\ \/ /\ userProfileSlots[slot] # Nothing
        /\ binaryConfirmPurpose' = "OverwriteSlot" /\ confirmSelected' = FALSE
        /\ Enter("BinaryConfirm")
        /\ UNCHANGED <<menuScreen, manualSaveFlowOrigin, runVars, userProfileSlots,
                       editorVars>>
     \/ /\ userProfileSlots[slot] = Nothing
        /\ SaveManualProfileToSlot(slot) /\ UNCHANGED binaryConfirmPurpose
  /\ UNCHANGED <<userProfileSlotScreenPurpose, asked, activeProfileDetailSlot,
                 occupied>>

StartFromSlot ==
  /\ currentScreen = "UserProfileDetail" /\ occupied
  /\ LET program == userProfileSlots[activeProfileDetailSlot]
     IN  \/ program # Nothing /\ StartProgram(program)
         \/ program # Nothing /\ AskToReplaceRun(program, "UserProfileDetail")
  /\ UNCHANGED <<binaryConfirmPurpose, flowVars, slotVars, editorVars>>

EditSlot ==
  /\ currentScreen = "UserProfileDetail"
  /\ LET program == userProfileSlots[activeProfileDetailSlot]
     IN  editor' = IF program # Nothing THEN Loaded(program, activeProfileDetailSlot)
                                        ELSE Loaded(DefaultProgram, NoSlot)
  /\ declined' = Nothing
  /\ Enter("ManualProgram")
  /\ UNCHANGED <<menuScreen, runVars, promptVars, flowVars, slotVars>>

AskToDelete ==
  /\ currentScreen = "UserProfileDetail" /\ occupied
  /\ userProfileSlots[activeProfileDetailSlot] # Nothing
  /\ pendingProfileSlot' = activeProfileDetailSlot
  /\ binaryConfirmPurpose' = "DeleteSlot" /\ confirmSelected' = FALSE
  /\ Enter("BinaryConfirm")
  /\ UNCHANGED <<menuScreen, runVars, flowVars, userProfileSlots,
                 activeProfileDetailSlot, occupied, editorVars>>

LeaveDetail ==
  /\ currentScreen = "UserProfileDetail"
  /\ Enter("UserProfileSlots")
  /\ UNCHANGED <<menuScreen, runVars, promptVars, flowVars, slotVars, editorVars>>

------------------------------------------------------------------------------
(* The prompts *)

TurnPrompt ==
  /\ currentScreen \in Prompts
  /\ confirmSelected' \in BOOLEAN /\ turned' = TRUE
  /\ UNCHANGED <<currentScreen, menuScreen, binaryConfirmPurpose, runVars, flowVars,
                 slotVars, editorVars>>

AnswerOverwrite ==
  /\ binaryConfirmPurpose = "OverwriteSlot"
  /\ \/ confirmSelected /\ SaveManualProfileToSlot(pendingProfileSlot)
     \/ /\ ~confirmSelected /\ Enter("UserProfileSlots")
        /\ UNCHANGED <<menuScreen, manualSaveFlowOrigin, runVars, confirmSelected,
                       userProfileSlots, editorVars>>
  /\ UNCHANGED <<activeProfileDetailSlot, occupied>>

AnswerStop ==
  /\ binaryConfirmPurpose = "StopProgram"
  /\ \/ confirmSelected /\ run' = "Idle" /\ ReturnToStatus /\ Enter("Status")
     \/ ~confirmSelected /\ EnterMenu /\ UNCHANGED run
  /\ UNCHANGED <<pendingStart, replaceRunCancelScreen, confirmSelected,
                 manualSaveFlowOrigin, userProfileSlots, activeProfileDetailSlot,
                 occupied, editorVars>>

AnswerDelete ==
  /\ binaryConfirmPurpose = "DeleteSlot"
  /\ userProfileSlots' =
       IF confirmSelected THEN [userProfileSlots EXCEPT ![pendingProfileSlot] = Nothing]
                          ELSE userProfileSlots
  /\ OpenUserProfileDetail(pendingProfileSlot, userProfileSlots')
  /\ UNCHANGED <<menuScreen, manualSaveFlowOrigin, runVars, confirmSelected, editorVars>>

\* The prompt is still open after the store has refused the program.
AnswerNone ==
  /\ binaryConfirmPurpose = "None"
  /\ Enter("ManualProgram")
  /\ UNCHANGED <<menuScreen, manualSaveFlowOrigin, runVars, confirmSelected,
                 userProfileSlots, activeProfileDetailSlot, occupied, editorVars>>

AnswerBinaryConfirm ==
  /\ currentScreen = "BinaryConfirm"
  /\ AnswerOverwrite \/ AnswerStop \/ AnswerDelete \/ AnswerNone
  /\ binaryConfirmPurpose' = "None"
  /\ UNCHANGED <<userProfileSlotScreenPurpose, asked, pendingProfileSlot>>

\* The old run is stopped before the evaluator sees the new program.
AnswerReplaceRun ==
  /\ currentScreen = "ConfirmReplaceRun"
  /\ pendingStart' = Nothing
  /\ \/ /\ confirmSelected /\ pendingStart # Nothing
        /\ run' = IF pendingStart \in ValidPrograms \cup {Preset} THEN "Running"
                                                                 ELSE "Idle"
        /\ replaceRunCancelScreen' = "Status" /\ Enter("Status")
     \/ /\ ~(confirmSelected /\ pendingStart # Nothing)
        /\ Enter(replaceRunCancelScreen) /\ UNCHANGED <<run, replaceRunCancelScreen>>
  /\ UNCHANGED <<menuScreen, promptVars, flowVars, slotVars, editorVars>>

------------------------------------------------------------------------------
\* The control task ends the run and its cooldown behind whatever is shown.
RunTick ==
  /\ \/ run = "Running" /\ run' = "FinishCooldown"
     \/ run = "FinishCooldown" /\ run' = "FinishedAlarm"
  /\ UNCHANGED <<currentScreen, menuScreen, turned, pendingStart,
                 replaceRunCancelScreen, promptVars, flowVars, slotVars, editorVars>>

PressOnMenu ==
  \/ AcknowledgeFinished \/ OpenMenu \/ CloseMenu \/ OpenPreset \/ OpenManual
  \/ OpenUserProfiles \/ OpenSettings \/ PauseOrResume \/ AskToStop

PressInEditor ==
  \/ PressStart \/ PressSave \/ PressBack
  \/ ChooseYes \/ ChooseNo \/ ChooseCancel

PressOnSlots ==
  \/ LeaveSlots \/ LeaveDetail \/ StartFromSlot \/ EditSlot \/ AskToDelete
  \/ \E slot \in Slots : BrowseSlot(slot) \/ SelectSlotToSave(slot)

Next ==
  \/ RunTick \/ EditProgram \/ TurnPrompt
  \/ PressOnMenu \/ PressOnSettingsMenu \/ BackToSettings \/ PressOnPreset
  \/ PressInEditor \/ PressOnSlots
  \/ AnswerBinaryConfirm \/ AnswerReplaceRun

Spec == Init /\ [][Next]_vars

------------------------------------------------------------------------------
(* Properties *)

\* The menu controller keeps a screen of its own, set and reset at more than
\* ten places.  On the two screens it handles it must agree with the screen
\* shown: otherwise a press on the status screen selects an entry of a menu
\* nobody sees, or one in the menu opens it again.
ScreensAgree ==
  currentScreen \in {"Status", "Menu"} => menuScreen = currentScreen

\* The selections of a save flow: the slot list and what it asks.
InSaveFlow ==
  \/ currentScreen = "UserProfileSlots" /\ userProfileSlotScreenPurpose = "Save"
  \/ currentScreen = "BinaryConfirm" /\ binaryConfirmPurpose \in {"OverwriteSlot", "None"}

\* REQ-FUNC-022, REQ-FUNC-023 and REQ-UI-021: once saved, the flow goes on to
\* what the user asked for before the prompt, the slot list and the overwrite
\* prompt: the saved program starts or asks to replace the run, the menu
\* opens, or the editor is back.
SaveFlowReturnsToItsOrigin ==
  [][InSaveFlow /\ ~InSaveFlow' /\ ~editor'.dirty =>
       CASE asked = "Start" -> \/ currentScreen' = "Status" /\ run = "Idle" /\ run' = "Running"
                               \/ /\ currentScreen' = "ConfirmReplaceRun"
                                  /\ pendingStart' = editor'.program
         [] asked = "Back"  -> currentScreen' = "Menu"
         [] asked = "Save"  -> currentScreen' = "ManualProgram"]_vars

\* REQ-FUNC-022 and REQ-FUNC-023: wherever the user is outside the editor and
\* its save flow, a program with unsaved changes is one the user has chosen
\* not to save; it is lost only when another is loaded over it.
UnsavedWorkWasDeclined ==
  /\ editor.dirty /\ ~InSaveFlow
  /\ currentScreen \notin {"ManualProgram", "SavePrompt"}
  => declined = editor.program

\* REQ-UI-019, REQ-UI-020, REQ-UI-026: one Yes/No selection serves all
\* prompts.  A saved program is changed or deleted, a run stopped or
\* replaced, only by a press after a turn of the encoder in this very prompt:
\* a press too many never does it, whatever was answered before.  (The
\* acknowledgement of the alarm ends a run that is already over.)
DestructiveNeedsTurn ==
  [][\/ \E slot \in Slots : /\ userProfileSlots[slot] # Nothing
                            /\ userProfileSlots'[slot] # userProfileSlots[slot]
     \/ run # "Idle" /\ run' = "Idle" /\ ~(run = "FinishedAlarm" /\ currentScreen = "Status")
     \/ currentScreen = "ConfirmReplaceRun" /\ currentScreen' = "Status"
     => turned]_vars

==============================================================================
