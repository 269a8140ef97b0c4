------------------------- MODULE UserInterface_proofs -------------------------
(***************************************************************************)
(* Proofs about the screens, for every set of slots and of programs and    *)
(* every part of the programs that the evaluator accepts.                  *)
(*                                                                         *)
(* The screens share their state, so that what a press does depends on how *)
(* its screen was reached.  The invariant writes that down: for each group *)
(* of screens what the menu controller, the purposes of the prompt and of  *)
(* the slot list, the origin of the save flow, the unsaved changes and the *)
(* Yes/No selection may be while it is shown.                              *)
(***************************************************************************)
EXTENDS UserInterface, TLAPS

\* The menu controller is on its menu wherever the menu is shown, and off it
\* on every screen from which one can get to the status screen.
MenuFollowsScreen ==
  /\ currentScreen = "Menu" => menuScreen = "Menu"
  /\ \/ currentScreen \in {"Status", "ManualProgram", "Preset", "SavePrompt",
                           "UserProfileSlots", "UserProfileDetail", "ConfirmReplaceRun"}
     \/ currentScreen = "BinaryConfirm" /\ binaryConfirmPurpose # "StopProgram"
     => menuScreen = "Status"

\* A prompt of the save flow goes back to the list of slots to save in.
OverwriteReturnsToSave ==
  currentScreen = "BinaryConfirm" /\ binaryConfirmPurpose \in {"OverwriteSlot", "None"}
  => userProfileSlotScreenPurpose = "Save"

\* The details of a slot, and the prompts opened from them, go back to the list
\* of slots to browse.
DetailReturnsToBrowse ==
  \/ currentScreen = "UserProfileDetail"
  \/ currentScreen = "BinaryConfirm" /\ binaryConfirmPurpose = "DeleteSlot"
  \/ currentScreen = "ConfirmReplaceRun" /\ replaceRunCancelScreen = "UserProfileDetail"
  => userProfileSlotScreenPurpose = "Browse"

\* The origin of the save flow is what the user asked for in the editor, but
\* for a program that was to be started without being saved and was refused:
\* the prompt then has no origin left, and that program cannot be saved.
OriginIsWhatWasAsked ==
  InSaveFlow \/ currentScreen = "SavePrompt" =>
    \/ asked = "Save" /\ manualSaveFlowOrigin = "ExplicitSave" /\ currentScreen # "SavePrompt"
    \/ /\ asked = "Start" /\ editor.dirty
       /\ \/ manualSaveFlowOrigin = "StartRequest"
          \/ manualSaveFlowOrigin = "None" /\ editor.program \notin ValidPrograms
    \/ asked = "Back" /\ manualSaveFlowOrigin = "BackRequest" /\ editor.dirty

\* A prompt opens on No: Yes is selected only after a turn of the encoder.
YesNeedsTurn == currentScreen \in Prompts /\ confirmSelected => turned

\* Declining to replace a run leads back to where the program was chosen.
ReplaceReturnsToChoice ==
  currentScreen = "ConfirmReplaceRun" => replaceRunCancelScreen # "Status"

\* The conjuncts that relate what the screens share.
Related ==
  /\ MenuFollowsScreen /\ OverwriteReturnsToSave /\ DetailReturnsToBrowse
  /\ OriginIsWhatWasAsked /\ UnsavedWorkWasDeclined /\ YesNeedsTurn /\ ReplaceReturnsToChoice

IInv == TypeOK /\ Related

\* A step that resets a flag of the prompts leaves it a truth value.
LEMMA FlagsReset ==
  /\ turned' = FALSE => turned' \in BOOLEAN
  /\ confirmSelected' = FALSE => confirmSelected' \in BOOLEAN
OBVIOUS

USE DEF Enter, Stay, EnterMenu, ReturnToStatus, OnMenuController,
        runVars, promptVars, flowVars, slotVars, editorVars

------------------------------------------------------------------------------
(* The types                                                                  *)

\* Loading a program gives an editor without unsaved changes.
LEMMA LoadedType ==
  ASSUME NEW program \in Programs, NEW slot \in Slots \cup {NoSlot}
  PROVE  /\ Loaded(program, slot) \in [program : Programs, dirty : BOOLEAN,
                                       slot : Slots \cup {NoSlot}, baseline : Programs]
         /\ Loaded(program, slot).program = program
         /\ Loaded(program, slot).dirty = FALSE
BY DEF Loaded

\* The start of the edited program, or the question whether it replaces the
\* run, keeps the types it touches.
LEMMA StartManualProfileType ==
  ASSUME TypeOK, StartManualProfile
  PROVE  /\ currentScreen' \in {currentScreen, "Status", "ConfirmReplaceRun"}
         /\ menuScreen' \in {"Status", "Menu"}
         /\ run' \in {"Idle", "Running", "Paused", "FinishCooldown", "FinishedAlarm"}
         /\ pendingStart' \in Programs \cup {Preset, Nothing}
         /\ replaceRunCancelScreen' \in
              {"Status", "Preset", "ManualProgram", "UserProfileDetail"}
         /\ confirmSelected' \in BOOLEAN /\ turned' \in BOOLEAN
<1>1. editor.program \in Programs
  BY DEF TypeOK
<1>2. CASE StartProgram(editor.program)
  BY <1>2 DEF TypeOK, StartProgram
<1>3. CASE RefuseProgram(editor.program)
  BY <1>3 DEF TypeOK, RefuseProgram
<1>4. CASE AskToReplaceRun(editor.program, "ManualProgram")
  BY <1>1, <1>4 DEF TypeOK, AskToReplaceRun
<1> QED BY <1>2, <1>3, <1>4 DEF StartManualProfile

\* Saving the edited program keeps the types it touches.
LEMMA SaveManualProfileType ==
  ASSUME TypeOK, NEW slot \in Slots, SaveManualProfileToSlot(slot)
  PROVE  /\ currentScreen' \in {currentScreen, "Status", "ConfirmReplaceRun", "Menu",
                                "ManualProgram"}
         /\ menuScreen' \in {"Status", "Menu"}
         /\ run' \in {"Idle", "Running", "Paused", "FinishCooldown", "FinishedAlarm"}
         /\ pendingStart' \in Programs \cup {Preset, Nothing}
         /\ replaceRunCancelScreen' \in
              {"Status", "Preset", "ManualProgram", "UserProfileDetail"}
         /\ confirmSelected' \in BOOLEAN /\ turned' \in BOOLEAN
         /\ manualSaveFlowOrigin' \in {"None", "ExplicitSave", "StartRequest", "BackRequest"}
         /\ userProfileSlots' \in [Slots -> ValidPrograms \cup {Nothing}]
         /\ editor' \in [program : Programs, dirty : BOOLEAN,
                         slot : Slots \cup {NoSlot}, baseline : Programs]
         /\ declined' \in Programs \cup {Nothing}
<1>1. CASE editor.program \notin ValidPrograms
  BY <1>1 DEF TypeOK, SaveManualProfileToSlot
<1>2. CASE editor.program \in ValidPrograms
  <2>1. /\ userProfileSlots' = [userProfileSlots EXCEPT ![slot] = editor.program]
        /\ editor' = Loaded(editor.program, slot) /\ declined' = Nothing
        /\ manualSaveFlowOrigin' = "None"
        /\ \/ StartManualProfile
           \/ EnterMenu /\ UNCHANGED <<runVars, confirmSelected>>
           \/ Enter("ManualProgram") /\ UNCHANGED <<menuScreen, runVars, confirmSelected>>
    BY <1>2 DEF SaveManualProfileToSlot
  <2>2. /\ userProfileSlots' \in [Slots -> ValidPrograms \cup {Nothing}]
        /\ editor' \in [program : Programs, dirty : BOOLEAN,
                        slot : Slots \cup {NoSlot}, baseline : Programs]
    <3>1. editor.program \in Programs
      BY DEF TypeOK
    <3> QED BY <1>2, <2>1, <3>1, LoadedType DEF TypeOK
  <2>3. CASE StartManualProfile
    BY <2>1, <2>2, <2>3, StartManualProfileType
  <2>4. CASE EnterMenu /\ UNCHANGED <<runVars, confirmSelected>>
    BY <2>1, <2>2, <2>4 DEF TypeOK
  <2>5. CASE Enter("ManualProgram") /\ UNCHANGED <<menuScreen, runVars, confirmSelected>>
    BY <2>1, <2>2, <2>5 DEF TypeOK
  <2> QED BY <2>1, <2>3, <2>4, <2>5
<1> QED BY <1>1, <1>2

\* A press on the status screen, the menu, the settings or the presets keeps
\* the types, and so does what happens in the background.
LEMMA MenuKeepsTypes ==
  ASSUME TypeOK,
         \/ RunTick \/ TurnPrompt
         \/ PressOnMenu \/ PressOnSettingsMenu \/ BackToSettings \/ PressOnPreset
  PROVE  TypeOK'
<1> USE FlagsReset DEF TypeOK, Prompts
<1>1. CASE RunTick
  BY <1>1 DEF RunTick
<1>2. CASE TurnPrompt
  BY <1>2 DEF TurnPrompt
<1>3. CASE PressOnMenu
  <2>1. CASE AcknowledgeFinished
    BY <2>1 DEF AcknowledgeFinished
  <2>2. CASE OpenMenu
    BY <2>2 DEF OpenMenu
  <2>3. ASSUME NEW screen \in {"Status", "Preset", "ManualProgram"}, OpenFromMenu(screen)
        PROVE  TypeOK'
    BY <2>3 DEF OpenFromMenu
  <2>4. CASE OpenUserProfiles
    BY <2>4 DEF OpenUserProfiles, OpenUserProfileSlots
  <2>5. CASE OpenSettings
    BY <2>5 DEF OpenSettings
  <2>6. CASE PauseOrResume
    BY <2>6 DEF PauseOrResume
  <2>7. CASE AskToStop
    BY <2>7 DEF AskToStop
  <2> QED BY <1>3, <2>1, <2>2, <2>3, <2>4, <2>5, <2>6, <2>7
          DEF PressOnMenu, CloseMenu, OpenPreset, OpenManual
<1>4. CASE PressOnSettingsMenu
  BY <1>4 DEF PressOnSettingsMenu
<1>5. CASE BackToSettings
  BY <1>5 DEF BackToSettings
<1>6. CASE PressOnPreset
  BY <1>6 DEF PressOnPreset, StartProgram, AskToReplaceRun
<1> QED BY <1>1, <1>2, <1>3, <1>4, <1>5, <1>6

\* A press in the editor or on its prompt, and an edit, keep the types.
LEMMA EditorKeepsTypes ==
  ASSUME TypeOK, EditProgram \/ PressInEditor
  PROVE  TypeOK'
<1>1. CASE EditProgram
  <2>1. editor' \in [program : Programs, dirty : BOOLEAN, slot : Slots \cup {NoSlot},
                     baseline : Programs]
    BY <1>1 DEF EditProgram, TypeOK
  <2>2. declined' = Nothing /\ UNCHANGED <<currentScreen, turned, menuScreen, runVars,
                                          promptVars, flowVars, slotVars>>
    BY <1>1 DEF EditProgram
  <2> QED BY <2>1, <2>2 DEF TypeOK, Prompts
<1>2. ASSUME NEW origin \in {"StartRequest", "BackRequest"}, AskToSave(origin),
             UNCHANGED <<binaryConfirmPurpose, userProfileSlotScreenPurpose, slotVars,
                         editorVars>>,
             asked' \in {"Start", "Back"}
      PROVE  TypeOK'
  BY <1>2, FlagsReset DEF AskToSave, TypeOK, Prompts
<1>3. CASE PressStart
  <2>1. CASE ~editor.dirty /\ StartManualProfile /\ UNCHANGED manualSaveFlowOrigin
    BY <1>3, <2>1, StartManualProfileType, FlagsReset DEF PressStart, TypeOK, Prompts
  <2> QED BY <1>2, <1>3, <2>1 DEF PressStart
<1>4. CASE PressSave
  BY <1>4, FlagsReset DEF PressSave, OpenUserProfileSlots, TypeOK, Prompts
<1>5. CASE PressBack
  <2>1. CASE ~editor.dirty /\ EnterMenu
             /\ UNCHANGED <<manualSaveFlowOrigin, runVars, confirmSelected>>
    BY <1>5, <2>1, FlagsReset DEF PressBack, TypeOK, Prompts
  <2> QED BY <1>2, <1>5, <2>1 DEF PressBack
<1>6. CASE ChooseYes
  BY <1>6, FlagsReset DEF ChooseYes, OpenUserProfileSlots, TypeOK, Prompts
<1>7. CASE ChooseNo
  <2>1. CASE StartManualProfile /\ declined' = editor.program /\ UNCHANGED editor
    BY <1>7, <2>1, StartManualProfileType, FlagsReset DEF ChooseNo, TypeOK, Prompts
  <2>2. CASE DiscardChanges /\ EnterMenu /\ UNCHANGED <<runVars, confirmSelected>>
    <3>1. editor' = Loaded(editor.baseline, editor.slot) /\ declined' = Nothing
      BY <2>2 DEF DiscardChanges
    <3>2. editor.baseline \in Programs /\ editor.slot \in Slots \cup {NoSlot}
      BY DEF TypeOK
    <3>3. /\ editor' \in [program : Programs, dirty : BOOLEAN, slot : Slots \cup {NoSlot},
                           baseline : Programs]
          /\ declined' \in Programs \cup {Nothing}
      BY <3>1, <3>2, LoadedType
    <3> QED BY <1>7, <2>2, <3>3, FlagsReset DEF ChooseNo, TypeOK, Prompts
  <2>3. CASE /\ Enter("ManualProgram")
             /\ UNCHANGED <<menuScreen, runVars, confirmSelected, editorVars>>
    BY <1>7, <2>3, FlagsReset DEF ChooseNo, TypeOK, Prompts
  <2> QED BY <1>7, <2>1, <2>2, <2>3 DEF ChooseNo
<1>8. CASE ChooseCancel
  BY <1>8, FlagsReset DEF ChooseCancel, TypeOK, Prompts
<1> QED BY <1>1, <1>3, <1>4, <1>5, <1>6, <1>7, <1>8 DEF PressInEditor

\* A press on the slots of the user keeps the types.
LEMMA SlotsKeepTypes ==
  ASSUME TypeOK, PressOnSlots
  PROVE  TypeOK'
<1>1. CASE LeaveSlots
  BY <1>1, FlagsReset DEF LeaveSlots, TypeOK, Prompts
<1>2. CASE LeaveDetail
  BY <1>2, FlagsReset DEF LeaveDetail, TypeOK, Prompts
<1>3. CASE StartFromSlot
  BY <1>3, ProgramsAssumption, FlagsReset
  DEF StartFromSlot, StartProgram, AskToReplaceRun, TypeOK, Prompts
<1>4. CASE EditSlot
  <2> DEFINE program == userProfileSlots[activeProfileDetailSlot]
  <2>1. program \in ValidPrograms \cup {Nothing} /\ activeProfileDetailSlot \in Slots
    BY DEF TypeOK
  <2>2. editor' = IF program # Nothing THEN Loaded(program, activeProfileDetailSlot)
                                       ELSE Loaded(DefaultProgram, NoSlot)
    BY <1>4 DEF EditSlot
  <2> HIDE DEF program
  <2>3. editor' \in [program : Programs, dirty : BOOLEAN, slot : Slots \cup {NoSlot},
                     baseline : Programs]
    BY <2>1, <2>2, LoadedType, ProgramsAssumption
  <2> QED BY <1>4, <2>3, FlagsReset DEF EditSlot, TypeOK, Prompts
<1>5. CASE AskToDelete
  BY <1>5, FlagsReset DEF AskToDelete, TypeOK, Prompts
<1>6. ASSUME NEW slot \in Slots, BrowseSlot(slot) PROVE TypeOK'
  BY <1>6, FlagsReset DEF BrowseSlot, OpenUserProfileDetail, TypeOK, Prompts
<1>7. ASSUME NEW slot \in Slots, SelectSlotToSave(slot) PROVE TypeOK'
  <2>1. CASE userProfileSlots[slot] # Nothing
    BY <1>7, <2>1, FlagsReset DEF SelectSlotToSave, TypeOK, Prompts
  <2>2. CASE userProfileSlots[slot] = Nothing
    BY <1>7, <2>2, SaveManualProfileType, FlagsReset DEF SelectSlotToSave, TypeOK, Prompts
  <2> QED BY <2>1, <2>2
<1> QED BY <1>1, <1>2, <1>3, <1>4, <1>5, <1>6, <1>7 DEF PressOnSlots

\* An answer to a prompt keeps the types.
LEMMA AnswersKeepTypes ==
  ASSUME TypeOK, AnswerBinaryConfirm \/ AnswerReplaceRun
  PROVE  TypeOK'
<1>1. CASE AnswerReplaceRun
  BY <1>1, FlagsReset DEF AnswerReplaceRun, TypeOK, Prompts
<1>2. CASE AnswerBinaryConfirm
  <2>1. /\ binaryConfirmPurpose' = "None"
        /\ UNCHANGED <<userProfileSlotScreenPurpose, asked, pendingProfileSlot>>
    BY <1>2 DEF AnswerBinaryConfirm
  <2>2. CASE AnswerOverwrite
    <3>1. CASE confirmSelected /\ SaveManualProfileToSlot(pendingProfileSlot)
      <4>1. pendingProfileSlot \in Slots
        BY DEF TypeOK
      <4> QED BY <2>1, <2>2, <3>1, <4>1, SaveManualProfileType, FlagsReset
              DEF AnswerOverwrite, TypeOK, Prompts
    <3>2. CASE ~confirmSelected /\ Enter("UserProfileSlots")
               /\ UNCHANGED <<menuScreen, manualSaveFlowOrigin, runVars, confirmSelected,
                              userProfileSlots, editorVars>>
      BY <2>1, <2>2, <3>2, FlagsReset DEF AnswerOverwrite, TypeOK, Prompts
    <3> QED BY <2>2, <3>1, <3>2 DEF AnswerOverwrite
  <2>3. CASE AnswerStop
    BY <2>1, <2>3, FlagsReset DEF AnswerStop, TypeOK, Prompts
  <2>4. CASE AnswerDelete
    <3>1. userProfileSlots' \in [Slots -> ValidPrograms \cup {Nothing}]
      BY <2>4 DEF AnswerDelete, TypeOK
    <3>2. occupied' \in BOOLEAN /\ activeProfileDetailSlot' \in Slots
          /\ currentScreen' = "UserProfileDetail" /\ turned' = FALSE
      BY <2>4 DEF AnswerDelete, OpenUserProfileDetail, TypeOK
    <3> QED BY <2>1, <2>4, <3>1, <3>2, FlagsReset DEF AnswerDelete, TypeOK, Prompts
  <2>5. CASE AnswerNone
    BY <2>1, <2>5, FlagsReset DEF AnswerNone, TypeOK, Prompts
  <2> QED BY <1>2, <2>2, <2>3, <2>4, <2>5 DEF AnswerBinaryConfirm
<1> QED BY <1>1, <1>2

\* Every step keeps the types.
LEMMA NextKeepsTypes == TypeOK /\ [Next]_vars => TypeOK'
<1>1. TypeOK /\ UNCHANGED vars => TypeOK'
  BY DEF TypeOK, vars, Prompts
<1> QED BY <1>1, MenuKeepsTypes, EditorKeepsTypes, SlotsKeepTypes, AnswersKeepTypes
        DEF Next

------------------------------------------------------------------------------
(* The relations between what the screens share                               *)

\* The menu, the settings and the presets are outside the save flow: they
\* leave the editor and what the user has declined as they are.
LEMMA MenuKeepsRelated ==
  ASSUME TypeOK, Related,
         \/ RunTick \/ TurnPrompt
         \/ PressOnMenu \/ PressOnSettingsMenu \/ BackToSettings \/ PressOnPreset
  PROVE  Related'
<1> USE DEF Related, MenuFollowsScreen, OverwriteReturnsToSave,
            DetailReturnsToBrowse, OriginIsWhatWasAsked,
            UnsavedWorkWasDeclined, YesNeedsTurn, ReplaceReturnsToChoice, InSaveFlow, Prompts
<1>1. CASE RunTick
  BY <1>1 DEF RunTick
<1>2. CASE TurnPrompt
  BY <1>2 DEF TurnPrompt
<1>3. CASE PressOnMenu
  <2>1. CASE AcknowledgeFinished
    BY <2>1 DEF AcknowledgeFinished
  <2>2. CASE OpenMenu
    BY <2>2 DEF OpenMenu
  <2>3. ASSUME NEW screen \in {"Status", "Preset", "ManualProgram"}, OpenFromMenu(screen)
        PROVE  Related'
    BY <2>3 DEF OpenFromMenu
  <2>4. CASE OpenUserProfiles
    BY <2>4 DEF OpenUserProfiles, OpenUserProfileSlots
  <2>5. CASE OpenSettings
    BY <2>5 DEF OpenSettings
  <2>6. CASE PauseOrResume
    BY <2>6 DEF PauseOrResume
  <2>7. CASE AskToStop
    BY <2>7 DEF AskToStop
  <2> QED BY <1>3, <2>1, <2>2, <2>3, <2>4, <2>5, <2>6, <2>7
          DEF PressOnMenu, CloseMenu, OpenPreset, OpenManual
<1>4. CASE PressOnSettingsMenu
  BY <1>4 DEF PressOnSettingsMenu
<1>5. CASE BackToSettings
  BY <1>5 DEF BackToSettings
<1>6. CASE PressOnPreset
  BY <1>6 DEF PressOnPreset, StartProgram, AskToReplaceRun
<1> QED BY <1>1, <1>2, <1>3, <1>4, <1>5, <1>6

\* In the editor every flow that leaves with unsaved changes asks first; what
\* is started without being saved is declined.
LEMMA EditorKeepsRelated ==
  ASSUME TypeOK, Related, EditProgram \/ PressInEditor
  PROVE  Related'
<1> USE DEF Related, MenuFollowsScreen, OverwriteReturnsToSave,
            DetailReturnsToBrowse, OriginIsWhatWasAsked,
            UnsavedWorkWasDeclined, YesNeedsTurn, ReplaceReturnsToChoice, InSaveFlow, Prompts
<1>1. CASE EditProgram
  BY <1>1 DEF EditProgram
<1>2. CASE PressStart
  BY <1>2 DEF PressStart, AskToSave, StartManualProfile, StartProgram, RefuseProgram,
              AskToReplaceRun
<1>3. CASE PressSave
  BY <1>3 DEF PressSave, OpenUserProfileSlots
<1>4. CASE PressBack
  BY <1>4 DEF PressBack, AskToSave
<1>5. CASE ChooseYes
  BY <1>5 DEF ChooseYes, OpenUserProfileSlots
<1>6. CASE ChooseNo
  <2>1. CASE /\ manualSaveFlowOrigin = "StartRequest" /\ StartManualProfile
             /\ declined' = editor.program /\ UNCHANGED editor
    <3>1. /\ manualSaveFlowOrigin' = "None" /\ UNCHANGED <<asked, binaryConfirmPurpose,
                                                           userProfileSlotScreenPurpose>>
          /\ currentScreen = "SavePrompt" /\ asked = "Start" /\ editor.dirty
      BY <1>6, <2>1 DEF ChooseNo
    <3>2. CASE StartProgram(editor.program)
      BY <2>1, <3>1, <3>2 DEF StartProgram
    <3>3. CASE RefuseProgram(editor.program)
      <4>1. editor.program \notin ValidPrograms
        BY <3>3 DEF RefuseProgram
      <4> QED BY <2>1, <3>1, <3>3, <4>1 DEF RefuseProgram
    <3>4. CASE AskToReplaceRun(editor.program, "ManualProgram")
      BY <2>1, <3>1, <3>4 DEF AskToReplaceRun
    <3> QED BY <2>1, <3>2, <3>3, <3>4 DEF StartManualProfile
  <2>2. CASE DiscardChanges /\ EnterMenu /\ UNCHANGED <<runVars, confirmSelected>>
    <3>1. ~editor'.dirty
      BY <2>2, LoadedType DEF DiscardChanges, TypeOK
    <3> QED BY <1>6, <2>2, <3>1 DEF ChooseNo
  <2>3. CASE /\ Enter("ManualProgram")
             /\ UNCHANGED <<menuScreen, runVars, confirmSelected, editorVars>>
    BY <1>6, <2>3 DEF ChooseNo
  <2> QED BY <1>6, <2>1, <2>2, <2>3 DEF ChooseNo
<1>7. CASE ChooseCancel
  BY <1>7 DEF ChooseCancel
<1> QED BY <1>1, <1>2, <1>3, <1>4, <1>5, <1>6, <1>7 DEF PressInEditor

\* Saving to a slot leads on to what was asked for, without unsaved changes;
\* a refused program stays where it is.
LEMMA SaveLeadsOn ==
  ASSUME TypeOK, NEW slot \in Slots, SaveManualProfileToSlot(slot)
  PROVE  \/ /\ editor.program \notin ValidPrograms
            /\ UNCHANGED <<currentScreen, turned, menuScreen, runVars, confirmSelected,
                           manualSaveFlowOrigin, userProfileSlots, editorVars>>
         \/ /\ editor.program \in ValidPrograms /\ editor'.program = editor.program
            /\ ~editor'.dirty /\ turned' = FALSE
            /\ manualSaveFlowOrigin' = "None"
            /\ \/ /\ manualSaveFlowOrigin = "StartRequest"
                  /\ \/ /\ currentScreen' = "Status" /\ run = "Idle" /\ run' = "Running"
                        /\ menuScreen' = "Status" /\ UNCHANGED replaceRunCancelScreen
                     \/ /\ currentScreen' = "ConfirmReplaceRun" /\ run # "Idle"
                        /\ pendingStart' = editor.program
                        /\ replaceRunCancelScreen' = "ManualProgram"
                        /\ confirmSelected' = FALSE /\ UNCHANGED <<run, menuScreen>>
               \/ /\ manualSaveFlowOrigin = "BackRequest"
                  /\ currentScreen' = "Menu" /\ menuScreen' = "Menu"
                  /\ UNCHANGED <<runVars, confirmSelected>>
               \/ /\ manualSaveFlowOrigin \notin {"StartRequest", "BackRequest"}
                  /\ currentScreen' = "ManualProgram"
                  /\ UNCHANGED <<menuScreen, runVars, confirmSelected>>
<1>1. CASE editor.program \notin ValidPrograms
  BY <1>1 DEF SaveManualProfileToSlot
<1>2. CASE editor.program \in ValidPrograms
  <2>1. editor.program \in Programs
    BY DEF TypeOK
  <2>2. editor' = Loaded(editor.program, slot)
    BY <1>2 DEF SaveManualProfileToSlot
  <2>3. editor'.program = editor.program /\ ~editor'.dirty
    BY <2>1, <2>2, LoadedType
  <2> QED BY <1>2, <2>3
          DEF SaveManualProfileToSlot, StartManualProfile, StartProgram, RefuseProgram,
              AskToReplaceRun
<1> QED BY <1>1, <1>2

\* From the list of slots the save flow leads to the editor or to a prompt,
\* and whoever browses has no changes but those declined.
LEMMA SlotsKeepRelated ==
  ASSUME TypeOK, Related, PressOnSlots
  PROVE  Related'
<1> USE DEF Related, MenuFollowsScreen, OverwriteReturnsToSave,
            DetailReturnsToBrowse, OriginIsWhatWasAsked,
            UnsavedWorkWasDeclined, YesNeedsTurn, ReplaceReturnsToChoice, InSaveFlow, Prompts
<1>1. CASE LeaveSlots
  BY <1>1 DEF LeaveSlots
<1>2. CASE LeaveDetail
  BY <1>2 DEF LeaveDetail
<1>3. CASE StartFromSlot
  BY <1>3 DEF StartFromSlot, StartProgram, AskToReplaceRun
<1>4. CASE EditSlot
  BY <1>4 DEF EditSlot
<1>5. CASE AskToDelete
  BY <1>5 DEF AskToDelete
<1>6. ASSUME NEW slot \in Slots, BrowseSlot(slot) PROVE Related'
  BY <1>6 DEF BrowseSlot, OpenUserProfileDetail
<1>7. ASSUME NEW slot \in Slots, SelectSlotToSave(slot) PROVE Related'
  <2>1. CASE userProfileSlots[slot] # Nothing
    BY <1>7, <2>1 DEF SelectSlotToSave
  <2>2. CASE userProfileSlots[slot] = Nothing
    <3>1. /\ SaveManualProfileToSlot(slot)
          /\ UNCHANGED <<binaryConfirmPurpose, userProfileSlotScreenPurpose, asked>>
          /\ currentScreen = "UserProfileSlots" /\ userProfileSlotScreenPurpose = "Save"
      BY <1>7, <2>2 DEF SelectSlotToSave
    <3> QED BY <3>1, SaveLeadsOn
  <2> QED BY <2>1, <2>2
<1> QED BY <1>1, <1>2, <1>3, <1>4, <1>5, <1>6, <1>7 DEF PressOnSlots

\* An answer leads back into the flow its prompt was opened from.
LEMMA AnswersKeepRelated ==
  ASSUME TypeOK, Related, AnswerBinaryConfirm \/ AnswerReplaceRun
  PROVE  Related'
<1> USE DEF Related, MenuFollowsScreen, OverwriteReturnsToSave,
            DetailReturnsToBrowse, OriginIsWhatWasAsked,
            UnsavedWorkWasDeclined, YesNeedsTurn, ReplaceReturnsToChoice, InSaveFlow, Prompts
<1>1. CASE AnswerReplaceRun
  BY <1>1 DEF AnswerReplaceRun, TypeOK
<1>2. CASE AnswerBinaryConfirm
  <2>1. /\ binaryConfirmPurpose' = "None" /\ currentScreen = "BinaryConfirm"
        /\ UNCHANGED <<userProfileSlotScreenPurpose, asked, pendingProfileSlot>>
    BY <1>2 DEF AnswerBinaryConfirm
  <2>2. CASE AnswerOverwrite
    <3>1. CASE confirmSelected /\ SaveManualProfileToSlot(pendingProfileSlot)
      <4>1. pendingProfileSlot \in Slots
        BY DEF TypeOK
      <4> QED BY <2>1, <2>2, <3>1, <4>1, SaveLeadsOn DEF AnswerOverwrite
    <3>2. CASE ~confirmSelected /\ Enter("UserProfileSlots")
               /\ UNCHANGED <<menuScreen, manualSaveFlowOrigin, runVars, confirmSelected,
                              userProfileSlots, editorVars>>
      BY <2>1, <2>2, <3>2 DEF AnswerOverwrite
    <3> QED BY <2>2, <3>1, <3>2 DEF AnswerOverwrite
  <2>3. CASE AnswerStop
    BY <2>1, <2>3 DEF AnswerStop
  <2>4. CASE AnswerDelete
    BY <2>1, <2>4 DEF AnswerDelete, OpenUserProfileDetail
  <2>5. CASE AnswerNone
    BY <2>1, <2>5 DEF AnswerNone
  <2> QED BY <1>2, <2>2, <2>3, <2>4, <2>5 DEF AnswerBinaryConfirm
<1> QED BY <1>1, <1>2

------------------------------------------------------------------------------
(* The invariant and the properties                                           *)

\* The firmware starts on the status screen with nothing asked or declined.
LEMMA InitIInv == Init => IInv
<1> SUFFICES ASSUME Init PROVE IInv
  OBVIOUS
<1>1. editor \in [program : Programs, dirty : BOOLEAN, slot : Slots \cup {NoSlot},
                  baseline : Programs] /\ ~editor.dirty
  BY ProgramsAssumption, LoadedType DEF Init
<1>2. TypeOK
  BY <1>1, ProgramsAssumption DEF Init, TypeOK, Prompts
<1> QED BY <1>1, <1>2
        DEF Init, IInv, Related, MenuFollowsScreen, OverwriteReturnsToSave,
            DetailReturnsToBrowse, OriginIsWhatWasAsked,
            UnsavedWorkWasDeclined, YesNeedsTurn, ReplaceReturnsToChoice, InSaveFlow, Prompts

\* The invariant survives every press, turn, edit and tick.
LEMMA NextKeepsIInv == IInv /\ [Next]_vars => IInv'
<1>1. Related /\ UNCHANGED vars => Related'
  BY DEF Related, MenuFollowsScreen, OverwriteReturnsToSave,
         DetailReturnsToBrowse, OriginIsWhatWasAsked,
         UnsavedWorkWasDeclined, YesNeedsTurn, ReplaceReturnsToChoice, InSaveFlow, Prompts,
         vars
<1>2. TypeOK /\ Related /\ [Next]_vars => Related'
  BY <1>1, MenuKeepsRelated, EditorKeepsRelated, SlotsKeepRelated, AnswersKeepRelated
  DEF Next
<1> QED BY <1>2, NextKeepsTypes DEF IInv

\* The invariant holds in every state of the screens.
THEOREM SpecIInv == Spec => []IInv
<1> QED BY InitIInv, NextKeepsIInv, PTL DEF Spec

\* On the two screens the menu controller handles it agrees with the screen
\* that is shown.
THEOREM MenuAgrees == Spec => []ScreensAgree
<1>1. IInv => ScreensAgree
  BY DEF IInv, Related, MenuFollowsScreen, ScreensAgree
<1> QED BY <1>1, SpecIInv, PTL

\* Outside the editor and its save flow, unsaved changes are changes the user
\* has chosen not to save.
THEOREM UnsavedIsDeclined == Spec => []UnsavedWorkWasDeclined
<1>1. IInv => UnsavedWorkWasDeclined
  BY DEF IInv, Related
<1> QED BY <1>1, SpecIInv, PTL

\* What a press must not do without a turn of the encoder in the prompt.
Destructive ==
  \/ \E slot \in Slots : /\ userProfileSlots[slot] # Nothing
                         /\ userProfileSlots'[slot] # userProfileSlots[slot]
  \/ run # "Idle" /\ run' = "Idle" /\ ~(run = "FinishedAlarm" /\ currentScreen = "Status")
  \/ currentScreen = "ConfirmReplaceRun" /\ currentScreen' = "Status"

\* Starting the edited program ends no run and changes no slot.
LEMMA StartEndsNoRun ==
  ASSUME StartManualProfile
  PROVE  ~(run # "Idle" /\ run' = "Idle")
BY DEF StartManualProfile, StartProgram, RefuseProgram, AskToReplaceRun

\* Saving ends no run and changes no slot but its own.
LEMMA SaveChangesOnlyItsSlot ==
  ASSUME TypeOK, NEW slot \in Slots, SaveManualProfileToSlot(slot)
  PROVE  /\ ~(run # "Idle" /\ run' = "Idle")
         /\ \A other \in Slots \ {slot} : userProfileSlots'[other] = userProfileSlots[other]
<1>1. ~(run # "Idle" /\ run' = "Idle")
  BY SaveLeadsOn
<1>2. \/ UNCHANGED userProfileSlots
      \/ userProfileSlots' = [userProfileSlots EXCEPT ![slot] = editor.program]
  BY DEF SaveManualProfileToSlot
<1> QED BY <1>1, <1>2 DEF TypeOK

\* Whatever destroys a program or ends a run is an answer Yes, and so needs
\* a turn.
LEMMA DestructionNeedsTurn ==
  ASSUME TypeOK, YesNeedsTurn, ReplaceReturnsToChoice, Next, Destructive
  PROVE  turned
<1>1. CASE RunTick \/ EditProgram \/ TurnPrompt \/ PressOnSettingsMenu \/ BackToSettings
  BY <1>1 DEF RunTick, EditProgram, TurnPrompt, PressOnSettingsMenu, BackToSettings,
              Destructive, Prompts
<1>2. CASE PressOnMenu
  BY <1>2 DEF PressOnMenu, AcknowledgeFinished, OpenMenu, OpenFromMenu, CloseMenu,
              OpenPreset, OpenManual, OpenUserProfiles, OpenUserProfileSlots, OpenSettings,
              PauseOrResume, AskToStop, Destructive
<1>3. CASE PressOnPreset
  BY <1>3 DEF PressOnPreset, StartProgram, AskToReplaceRun, Destructive
<1>4. CASE PressInEditor
  <2>1. UNCHANGED userProfileSlots /\ currentScreen \in {"ManualProgram", "SavePrompt"}
    BY <1>4 DEF PressInEditor, PressStart, PressSave, PressBack, ChooseYes, ChooseNo,
                ChooseCancel
  <2>2. UNCHANGED run \/ StartManualProfile
    BY <1>4 DEF PressInEditor, PressStart, AskToSave, PressSave, PressBack, ChooseYes,
                ChooseNo, ChooseCancel
  <2> QED BY <2>1, <2>2, StartEndsNoRun DEF Destructive
<1>5. CASE PressOnSlots
  <2>1. CASE LeaveSlots \/ LeaveDetail \/ StartFromSlot \/ EditSlot \/ AskToDelete
    BY <2>1 DEF LeaveSlots, LeaveDetail, StartFromSlot, StartProgram, AskToReplaceRun,
                EditSlot, AskToDelete, Destructive
  <2>2. ASSUME NEW slot \in Slots, BrowseSlot(slot) PROVE turned
    BY <2>2 DEF BrowseSlot, Destructive
  <2>3. ASSUME NEW slot \in Slots, SelectSlotToSave(slot) PROVE turned
    <3>1. CASE userProfileSlots[slot] # Nothing
      BY <2>3, <3>1 DEF SelectSlotToSave, Destructive
    <3>2. CASE userProfileSlots[slot] = Nothing
      BY <2>3, <3>2, SaveChangesOnlyItsSlot DEF SelectSlotToSave, Destructive
    <3> QED BY <3>1, <3>2
  <2> QED BY <1>5, <2>1, <2>2, <2>3 DEF PressOnSlots
<1>6. CASE AnswerBinaryConfirm
  <2>1. confirmSelected
    <3>1. CASE AnswerOverwrite
      BY <1>6, <3>1 DEF AnswerBinaryConfirm, AnswerOverwrite, Destructive
    <3>2. CASE AnswerStop
      BY <1>6, <3>2 DEF AnswerBinaryConfirm, AnswerStop, Destructive
    <3>3. CASE AnswerDelete
      BY <1>6, <3>3 DEF AnswerBinaryConfirm, AnswerDelete, Destructive
    <3>4. CASE AnswerNone
      BY <1>6, <3>4 DEF AnswerBinaryConfirm, AnswerNone, Destructive
    <3> QED BY <1>6, <3>1, <3>2, <3>3, <3>4 DEF AnswerBinaryConfirm
  <2> QED BY <1>6, <2>1 DEF AnswerBinaryConfirm, YesNeedsTurn, Prompts
<1>7. CASE AnswerReplaceRun
  BY <1>7 DEF AnswerReplaceRun, YesNeedsTurn, ReplaceReturnsToChoice, Destructive, Prompts
<1> QED BY <1>1, <1>2, <1>3, <1>4, <1>5, <1>6, <1>7 DEF Next

\* A saved program is changed or deleted, a run stopped or replaced, only by
\* a press after a turn of the encoder in the prompt that asks for it.
THEOREM DestructionWasConfirmed == Spec => DestructiveNeedsTurn
<1>1. IInv /\ [Next]_vars => [Destructive => turned]_vars
  BY DestructionNeedsTurn DEF IInv, Related
<1> QED BY <1>1, SpecIInv, PTL DEF Spec, DestructiveNeedsTurn, Destructive

\* Where the save flow must lead once the program is saved.
ReturnsToOrigin ==
  CASE asked = "Start" -> \/ currentScreen' = "Status" /\ run = "Idle" /\ run' = "Running"
                          \/ /\ currentScreen' = "ConfirmReplaceRun"
                             /\ pendingStart' = editor'.program
    [] asked = "Back"  -> currentScreen' = "Menu"
    [] asked = "Save"  -> currentScreen' = "ManualProgram"

\* A save from the list of slots or its prompt leads where it was asked for.
LEMMA SaveReturns ==
  ASSUME TypeOK, OriginIsWhatWasAsked, InSaveFlow,
         NEW slot \in Slots, SaveManualProfileToSlot(slot),
         ~editor'.dirty, currentScreen' # currentScreen
  PROVE  ReturnsToOrigin
BY SaveLeadsOn DEF OriginIsWhatWasAsked, InSaveFlow, ReturnsToOrigin

\* The save flow is left with the program saved, or back to the editor.
LEMMA SaveFlowReturns ==
  ASSUME TypeOK, OriginIsWhatWasAsked, OverwriteReturnsToSave, Next,
         InSaveFlow, ~InSaveFlow', ~editor'.dirty
  PROVE  ReturnsToOrigin
<1>1. CASE currentScreen = "UserProfileSlots" /\ userProfileSlotScreenPurpose = "Save"
  <2>1. \/ RunTick \/ LeaveSlots
        \/ \E slot \in Slots : SelectSlotToSave(slot)
    BY <1>1 DEF Next, EditProgram, TurnPrompt, PressOnMenu, AcknowledgeFinished, OpenMenu,
                OpenFromMenu, CloseMenu, OpenPreset, OpenManual, OpenUserProfiles,
                OpenSettings, PauseOrResume, AskToStop, PressOnSettingsMenu, BackToSettings,
                PressOnPreset, PressInEditor, PressStart, PressSave, PressBack, ChooseYes,
                ChooseNo, ChooseCancel, PressOnSlots, LeaveDetail, StartFromSlot, EditSlot,
                AskToDelete, BrowseSlot, AnswerBinaryConfirm, AnswerReplaceRun, Prompts
  <2>2. CASE RunTick
    BY <1>1, <2>2 DEF RunTick, InSaveFlow
  <2>3. CASE LeaveSlots
    BY <1>1, <2>3 DEF LeaveSlots, InSaveFlow, OriginIsWhatWasAsked, ReturnsToOrigin
  <2>4. ASSUME NEW slot \in Slots, SelectSlotToSave(slot) PROVE ReturnsToOrigin
    <3>1. CASE userProfileSlots[slot] # Nothing
      BY <2>4, <3>1 DEF SelectSlotToSave, InSaveFlow
    <3>2. CASE userProfileSlots[slot] = Nothing
      <4>1. SaveManualProfileToSlot(slot) /\ UNCHANGED userProfileSlotScreenPurpose
        BY <2>4, <3>2 DEF SelectSlotToSave
      <4>2. currentScreen' # currentScreen
        BY <1>1, <4>1 DEF InSaveFlow
      <4> QED BY <4>1, <4>2, SaveReturns
    <3> QED BY <3>1, <3>2
  <2> QED BY <2>1, <2>2, <2>3, <2>4
<1>2. CASE /\ currentScreen = "BinaryConfirm"
           /\ binaryConfirmPurpose \in {"OverwriteSlot", "None"}
  <2>1. RunTick \/ TurnPrompt \/ AnswerBinaryConfirm
    BY <1>2 DEF Next, EditProgram, PressOnMenu, AcknowledgeFinished, OpenMenu,
                OpenFromMenu, CloseMenu, OpenPreset, OpenManual, OpenUserProfiles,
                OpenSettings, PauseOrResume, AskToStop, PressOnSettingsMenu, BackToSettings,
                PressOnPreset, PressInEditor, PressStart, PressSave, PressBack, ChooseYes,
                ChooseNo, ChooseCancel, PressOnSlots, LeaveSlots, LeaveDetail,
                StartFromSlot, EditSlot, AskToDelete, BrowseSlot, SelectSlotToSave,
                AnswerReplaceRun
  <2>2. CASE RunTick \/ TurnPrompt
    BY <1>2, <2>2 DEF RunTick, TurnPrompt, InSaveFlow
  <2>3. CASE AnswerBinaryConfirm
    <3>1. /\ binaryConfirmPurpose' = "None"
          /\ UNCHANGED <<userProfileSlotScreenPurpose, asked>>
      BY <2>3 DEF AnswerBinaryConfirm
    <3>2. CASE AnswerOverwrite
      <4>1. CASE confirmSelected /\ SaveManualProfileToSlot(pendingProfileSlot)
        <5>1. currentScreen' # currentScreen
          BY <1>2, <3>1 DEF InSaveFlow
        <5>2. pendingProfileSlot \in Slots
          BY DEF TypeOK
        <5> QED BY <4>1, <5>1, <5>2, SaveReturns
      <4>2. CASE ~confirmSelected /\ Enter("UserProfileSlots")
                 /\ UNCHANGED <<menuScreen, manualSaveFlowOrigin, runVars,
                                confirmSelected, userProfileSlots, editorVars>>
        BY <1>2, <3>1, <4>2 DEF InSaveFlow, OverwriteReturnsToSave
      <4> QED BY <3>2, <4>1, <4>2 DEF AnswerOverwrite
    <3>3. CASE AnswerNone
      BY <1>2, <3>3 DEF AnswerNone, InSaveFlow, OriginIsWhatWasAsked, ReturnsToOrigin
    <3> QED BY <1>2, <2>3, <3>2, <3>3 DEF AnswerBinaryConfirm, AnswerStop, AnswerDelete
  <2> QED BY <2>1, <2>2, <2>3
<1> QED BY <1>1, <1>2 DEF InSaveFlow

\* Once the program is saved the flow goes on to what the user asked for.
THEOREM SaveFlowReturnsHome == Spec => SaveFlowReturnsToItsOrigin
<1>1. IInv /\ [Next]_vars =>
        [InSaveFlow /\ ~InSaveFlow' /\ ~editor'.dirty => ReturnsToOrigin]_vars
  BY SaveFlowReturns DEF IInv, Related
<1> QED BY <1>1, SpecIInv, PTL DEF Spec, SaveFlowReturnsToItsOrigin, ReturnsToOrigin
==============================================================================
