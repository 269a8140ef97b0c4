------------------------------ MODULE ListScreens ------------------------------
(***************************************************************************)
(* The cursors of the firmware: the list controllers of ui/, the pages of  *)
(* the status screen, and the handlers of main.cpp that turn and press     *)
(* them, while the run changes behind the screen and the display shows     *)
(* what it was a moment ago.                                               *)
(*                                                                         *)
(* UserInterface has the flows between the screens; here their entries are *)
(* reached through the cursors.  What a screen that is no list (the        *)
(* editor, the calibration, the prompts) decides is any of its outcomes;   *)
(* the slot a prompt is about is the one selected, or shown in detail,     *)
(* beneath it.                                                             *)
(* The menu controller's own screen variable is left out: it agrees with   *)
(* currentScreen whenever it is read (UserInterface, ScreensAgree).        *)
(***************************************************************************)
EXTENDS Integers, Sequences

CONSTANTS PRESET_COUNT, SLOT_COUNT

ASSUME CountsAssumption == PRESET_COUNT \in Nat \ {0} /\ SLOT_COUNT \in Nat \ {0}

VARIABLES
  currentScreen,
  replaceRunCancelScreen,
  selectedIndex,        \* of each list controller
  context,              \* of the main menu
  statusPageIndex,
  state, activeProfile, \* of the run: its lifecycle, the mode of its profile
  occupiedSlots,        \* those of userProfileSlots
  userProfileSlotScreenPurpose, binaryConfirmPurpose,
  activeProfileDetailSlot, occupied,
  command,              \* testModeController.command_, which drives nothing
  shown,                \* history: the menu entry marked on the display, if the
                        \* encoder has not been turned since it was drawn
  leftByBack            \* history: the lists last left through their Back entry

slotVars == <<occupiedSlots, userProfileSlotScreenPurpose, activeProfileDetailSlot,
              occupied>>
runVars == <<state, activeProfile>>
screenVars == <<currentScreen, replaceRunCancelScreen>>
vars == <<screenVars, selectedIndex, context, statusPageIndex, runVars,
          slotVars, binaryConfirmPurpose, command, shown, leftByBack>>

Slots == 0..(SLOT_COUNT - 1)
Modes == {"Fixed", "Fluctuating"}   \* Boost shows the pages of Fixed

------------------------------------------------------------------------------
(* The lists *)

ProgramItems == <<"Presetate", "Utilizator", "Manual", "Setari", "Inapoi">>

RunControls == {"Oprire", "Pauza", "Reluare"}

HasStoppableProgram == state # "Idle"
HasPausableProgram  == state = "Running"
HasResumableProgram == state = "Paused"

\* The MainMenuContext of the run, as the set of the run controls it shows.
CurrentContext ==
  {item \in RunControls : \/ item = "Oprire" /\ HasStoppableProgram
                          \/ item = "Pauza" /\ HasPausableProgram
                          \/ item = "Reluare" /\ HasResumableProgram}

\* Mutant: stopping the run is offered below the other entries.
VisibleItemsStopLast ==
  [shownControls \in SUBSET RunControls |->
     LET Shown(item) == IF item \in shownControls THEN <<item>> ELSE <<>>
     IN  Shown("Pauza") \o Shown("Reluare")
           \o <<"Presetate", "Utilizator", "Manual", "Setari">>
           \o Shown("Oprire") \o <<"Inapoi">>]

\* The table of the entries, of which the run controls are left out at times.
VisibleItems ==
  [shownControls \in SUBSET RunControls |->
     LET Shown(item) == IF item \in shownControls THEN <<item>> ELSE <<>>
     IN  Shown("Oprire") \o Shown("Pauza") \o Shown("Reluare") \o ProgramItems]

ItemCount(shownControls) == Len(VisibleItems[shownControls])

ItemAt(visibleIndex, shownControls) ==
  IF visibleIndex < ItemCount(shownControls)
  THEN VisibleItems[shownControls][visibleIndex + 1] ELSE "Inapoi"

ClampSelection(index, shownControls) ==
  IF index >= ItemCount(shownControls) THEN ItemCount(shownControls) - 1 ELSE index

SyncMainMenuContext == context' = CurrentContext

\* The entry of the main menu selected in the context a step leaves it with.
SyncedIndex == ClampSelection(selectedIndex["Menu"], context')
SyncedItem  == ItemAt(SyncedIndex, context')
Synced      == [selectedIndex EXCEPT !["Menu"] = SyncedIndex]

SettingsItems == <<"NtcCalibration", "Test", "Back">>
TestFields == <<"NtcTemp", "TempRhTemp", "TempRhRh", "Fan", "Heater", "Back">>
SaveChoices == <<"Yes", "No", "Cancel">>
ActionsOf(slotOccupied) ==
  IF slotOccupied THEN <<"Start", "Edit", "Delete", "Back">> ELSE <<"Edit", "Back">>

FixedLists == {"SettingsMenu", "Preset", "UserProfileSlots", "UserProfileDetail",
               "Test", "SavePrompt"}

\* One detent within a list; at either end the cursor stays.
Moved(index, delta, count) ==
  IF index + delta \in 0..(count - 1) THEN index + delta ELSE index

Selected(list, entries) == entries[selectedIndex[list] + 1]

------------------------------------------------------------------------------
(* The pages of the status screen *)

StatusPageCount ==
  CASE activeProfile = "None"        -> 2
    [] activeProfile = "Fixed"       -> 3
    [] activeProfile = "Fluctuating" -> 4

\* Mutant: the index is trusted.
ClampedStatusPageTrusted == statusPageIndex

ClampedStatusPage ==
  IF statusPageIndex >= StatusPageCount THEN StatusPageCount - 1 ELSE statusPageIndex

CurrentStatusPage ==
  CASE ClampedStatusPage = 0    -> "Summary"
    [] ClampedStatusPage > 0 /\ activeProfile = "None" -> "Outputs"
    [] ClampedStatusPage = 1 /\ activeProfile # "None" -> "ParametersPrimary"
    [] ClampedStatusPage = 2 /\ activeProfile = "Fluctuating" -> "ParametersSecondary"
    [] OTHER                    -> "Outputs"

TypeOK ==
  /\ currentScreen \in FixedLists \cup
       {"Status", "Menu", "NtcCalibration", "ManualProgram", "BinaryConfirm",
        "ConfirmReplaceRun"}
  /\ replaceRunCancelScreen \in {"Status", "Preset", "ManualProgram",
                                 "UserProfileDetail"}
  /\ selectedIndex \in [FixedLists \cup {"Menu"} -> Nat]
  /\ context \subseteq RunControls /\ statusPageIndex \in 0..3
  /\ state \in {"Idle", "Running", "Paused", "FinishCooldown", "FinishedAlarm"}
  /\ activeProfile \in Modes \cup {"None"}
  /\ occupiedSlots \subseteq Slots /\ activeProfileDetailSlot \in Slots
  /\ occupied \in BOOLEAN
  /\ userProfileSlotScreenPurpose \in {"Browse", "Save"}
  /\ binaryConfirmPurpose \in {"None", "StopProgram", "OverwriteSlot", "DeleteSlot"}
  /\ command \in [heaterOn : BOOLEAN, fanOn : BOOLEAN]
  /\ shown \in RunControls \cup {ProgramItems[i] : i \in 1..Len(ProgramItems)}
       \cup {"None"}
  /\ leftByBack \subseteq {"Menu", "Preset"}

Init ==
  /\ currentScreen = "Status" /\ replaceRunCancelScreen = "Status"
  /\ selectedIndex = [list \in FixedLists \cup {"Menu"} |->
                        IF list = "SavePrompt" THEN 1 ELSE 0]
  /\ context = {} /\ statusPageIndex = 0
  /\ state = "Idle" /\ activeProfile = "None"
  /\ occupiedSlots \in SUBSET Slots
  /\ userProfileSlotScreenPurpose = "Browse" /\ binaryConfirmPurpose = "None"
  /\ activeProfileDetailSlot = 0 /\ occupied = FALSE
  /\ command = [heaterOn |-> FALSE, fanOn |-> FALSE]
  /\ shown = "None" /\ leftByBack = {}

------------------------------------------------------------------------------
(* What several handlers do. *)

\* The screen a handler leaves the program on.  What was drawn is forgotten: it
\* counts only for the very next input.  So is the screen a declined replacement
\* returns to, which is always set before it is read.
Goto(screen) ==
  /\ currentScreen' = screen /\ replaceRunCancelScreen' = "Status"
  /\ shown' = "None"
  /\ leftByBack' = leftByBack \ {screen}

Reset(list) == [selectedIndex EXCEPT ![list] = 0]

OpenUserProfileSlots(purpose, preferred) ==
  /\ userProfileSlotScreenPurpose' = purpose
  /\ selectedIndex' = [selectedIndex EXCEPT !["UserProfileSlots"] = preferred]
  /\ Goto("UserProfileSlots")
  /\ UNCHANGED <<occupiedSlots, activeProfileDetailSlot, occupied>>

\* slots: those occupied once this step is done.
OpenUserProfileDetail(slot, slots) ==
  /\ activeProfileDetailSlot' = slot /\ occupied' = (slot \in slots)
  /\ selectedIndex' = Reset("UserProfileDetail")
  /\ Goto("UserProfileDetail")
  /\ UNCHANGED userProfileSlotScreenPurpose

\* A run starts, and the status screen shows its first page.
Run(mode) ==
  /\ state' = "Running" /\ activeProfile' = mode /\ statusPageIndex' = 0
  /\ Goto("Status")

EndRun == state' = "Idle" /\ activeProfile' = "None"

\* A program is started, refused, or may replace the run once the user agrees.
StartOrAsk(cancelScreen) ==
  \/ state = "Idle" /\ \E mode \in Modes : Run(mode)
  \/ /\ state # "Idle"
     /\ currentScreen' = "ConfirmReplaceRun"
     /\ replaceRunCancelScreen' = cancelScreen
     /\ shown' = "None"
     /\ UNCHANGED <<leftByBack, runVars, statusPageIndex>>

Refuse == /\ state = "Idle" /\ Goto(currentScreen)
          /\ UNCHANGED <<runVars, statusPageIndex>>

StartManualProfile == StartOrAsk("ManualProgram") \/ Refuse

GotoOnly(screen) == Goto(screen) /\ UNCHANGED <<runVars, statusPageIndex>>

------------------------------------------------------------------------------
(* Turns *)

TurnStatusPage(delta) ==
  /\ currentScreen = "Status"
  /\ statusPageIndex' = Moved(ClampedStatusPage, delta, StatusPageCount)
  /\ UNCHANGED <<screenVars, selectedIndex, context, runVars, slotVars,
                 binaryConfirmPurpose, command, shown, leftByBack>>

TurnMenu(delta) ==
  /\ currentScreen = "Menu"
  /\ SyncMainMenuContext
  /\ selectedIndex' = [selectedIndex EXCEPT !["Menu"] =
       Moved(SyncedIndex, delta, ItemCount(context'))]
  /\ shown' = "None"
  /\ UNCHANGED <<screenVars, statusPageIndex, runVars, slotVars,
                 binaryConfirmPurpose, command, leftByBack>>

\* The turn of a list whose entries stay.
Turned(list, delta, count) ==
  /\ currentScreen = list
  /\ selectedIndex' = [selectedIndex EXCEPT ![list] = Moved(@, delta, count)]
  /\ UNCHANGED <<screenVars, context, statusPageIndex, runVars, slotVars,
                 binaryConfirmPurpose, command, shown, leftByBack>>

\* The presets, or the slots, are followed by their Back entry.
TurnPreset(delta) == Turned("Preset", delta, PRESET_COUNT + 1)
TurnSlots(delta)  == Turned("UserProfileSlots", delta, SLOT_COUNT + 1)

TurnDetail(delta) == Turned("UserProfileDetail", delta, Len(ActionsOf(occupied)))

TurnSettingsMenu(delta) == Turned("SettingsMenu", delta, Len(SettingsItems))
TurnTest(delta)         == Turned("Test", delta, Len(TestFields))
TurnSavePrompt(delta)   == Turned("SavePrompt", delta, Len(SaveChoices))

Turn(delta) ==
  \/ TurnStatusPage(delta) \/ TurnMenu(delta) \/ TurnPreset(delta)
  \/ TurnSlots(delta) \/ TurnDetail(delta) \/ TurnSettingsMenu(delta)
  \/ TurnTest(delta) \/ TurnSavePrompt(delta)

------------------------------------------------------------------------------
(* Presses *)

AcknowledgeFinished ==
  /\ currentScreen = "Status" /\ state = "FinishedAlarm"
  /\ SyncMainMenuContext /\ selectedIndex' = Synced
  /\ EndRun /\ statusPageIndex' = 0 /\ Goto("Status")
  /\ UNCHANGED <<slotVars, binaryConfirmPurpose, command>>

OpenMenu ==
  /\ currentScreen = "Status" /\ state # "FinishedAlarm"
  /\ SyncMainMenuContext /\ selectedIndex' = Synced
  /\ GotoOnly("Menu")
  /\ UNCHANGED <<slotVars, binaryConfirmPurpose, command>>

CloseMenu ==
  /\ SyncedItem = "Inapoi"
  /\ selectedIndex' = Reset("Menu")
  /\ currentScreen' = "Status" /\ shown' = "None" /\ UNCHANGED replaceRunCancelScreen
  /\ leftByBack' = leftByBack \cup {"Menu"}
  /\ UNCHANGED <<runVars, statusPageIndex, slotVars, binaryConfirmPurpose>>

OpenFromMenu ==
  /\ \E entry \in {<<"Manual", "ManualProgram">>, <<"Presetate", "Preset">>} :
       SyncedItem = entry[1] /\ GotoOnly(entry[2])
  /\ selectedIndex' = Synced
  /\ UNCHANGED <<slotVars, binaryConfirmPurpose>>

OpenUserProfiles ==
  /\ SyncedItem = "Utilizator"
  /\ userProfileSlotScreenPurpose' = "Browse"
  /\ selectedIndex' = [Synced EXCEPT !["UserProfileSlots"] = 0]
  /\ GotoOnly("UserProfileSlots")
  /\ UNCHANGED <<occupiedSlots, activeProfileDetailSlot, occupied,
                 binaryConfirmPurpose>>

OpenSettings ==
  /\ SyncedItem = "Setari"
  /\ selectedIndex' = [Synced EXCEPT !["SettingsMenu"] = 0]
  /\ GotoOnly("SettingsMenu")
  /\ UNCHANGED <<slotVars, binaryConfirmPurpose>>

\* What pause() or resume() makes of the run; in any other state they refuse.
AfterRunControl ==
  CASE SyncedItem = "Pauza" /\ state = "Running"  -> "Paused"
    [] SyncedItem = "Reluare" /\ state = "Paused" -> "Running"
    [] OTHER                                      -> state

PauseOrResume ==
  /\ SyncedItem \in {"Pauza", "Reluare"}
  /\ state' = AfterRunControl
  /\ IF AfterRunControl = state
     THEN Goto("Menu") /\ UNCHANGED statusPageIndex
     ELSE Goto("Status") /\ statusPageIndex' = 0
  /\ selectedIndex' = Synced
  /\ UNCHANGED <<activeProfile, slotVars, binaryConfirmPurpose>>

AskToStop ==
  /\ SyncedItem = "Oprire"
  /\ binaryConfirmPurpose' = "StopProgram" /\ GotoOnly("BinaryConfirm")
  /\ selectedIndex' = Synced
  /\ UNCHANGED slotVars

PressMenu ==
  /\ currentScreen = "Menu"
  /\ SyncMainMenuContext
  /\ \/ CloseMenu \/ OpenFromMenu \/ OpenUserProfiles \/ OpenSettings
     \/ PauseOrResume \/ AskToStop
  /\ UNCHANGED command

PressSettingsMenu ==
  /\ currentScreen = "SettingsMenu"
  /\ IF Selected("SettingsMenu", SettingsItems) = "Back"
     THEN GotoOnly("Menu") /\ selectedIndex' = Reset("SettingsMenu")
     ELSE /\ GotoOnly(Selected("SettingsMenu", SettingsItems))
          /\ UNCHANGED selectedIndex
  /\ UNCHANGED <<context, slotVars, binaryConfirmPurpose, command>>

\* Mutant: the cursor stays on Inapoi.
LeavePresetThere ==
  /\ currentScreen = "Preset" /\ selectedIndex["Preset"] >= PRESET_COUNT
  /\ currentScreen' = "Menu" /\ shown' = "None" /\ UNCHANGED replaceRunCancelScreen
  /\ leftByBack' = (leftByBack \cup {"Preset"}) \ {"Menu"}
  /\ UNCHANGED <<selectedIndex, context, statusPageIndex, runVars, slotVars,
                 binaryConfirmPurpose, command>>

LeavePreset ==
  /\ currentScreen = "Preset" /\ selectedIndex["Preset"] >= PRESET_COUNT
  /\ selectedIndex' = Reset("Preset")
  /\ currentScreen' = "Menu" /\ shown' = "None" /\ UNCHANGED replaceRunCancelScreen
  /\ leftByBack' = (leftByBack \cup {"Preset"}) \ {"Menu"}
  /\ UNCHANGED <<context, statusPageIndex, runVars, slotVars, binaryConfirmPurpose,
                 command>>

PressPreset ==
  /\ currentScreen = "Preset" /\ selectedIndex["Preset"] < PRESET_COUNT
  /\ StartOrAsk("Preset")
  /\ UNCHANGED <<selectedIndex, context, slotVars, binaryConfirmPurpose, command>>

\* On a reading nothing happens.  The fan cannot be switched off, nor the heater
\* on, to a command that heats without the fan.
Sanitized(request) ==
  [request EXCEPT !.heaterOn = request.heaterOn /\ request.fanOn]

Toggled(field) ==
  CASE field = "Fan"    -> Sanitized([command EXCEPT !.fanOn = ~@])
    [] field = "Heater" -> Sanitized([heaterOn |-> ~command.heaterOn,
                                      fanOn |-> command.fanOn \/ ~command.heaterOn])
    [] OTHER            -> command

PressTest ==
  /\ currentScreen = "Test"
  /\ LET field == Selected("Test", TestFields)
     IN  IF field = "Back"
         THEN /\ GotoOnly("SettingsMenu") /\ selectedIndex' = Reset("Test")
              /\ UNCHANGED command
         ELSE GotoOnly("Test") /\ command' = Toggled(field) /\ UNCHANGED selectedIndex
  /\ UNCHANGED <<context, slotVars, binaryConfirmPurpose>>

\* The slot the editor is associated with, or the first.
PreferredSlots == Slots

PressSavePrompt ==
  /\ currentScreen = "SavePrompt"
  /\ LET choice == Selected("SavePrompt", SaveChoices)
     IN  \/ /\ choice = "Yes"
            /\ \E slot \in PreferredSlots : OpenUserProfileSlots("Save", slot)
            /\ UNCHANGED <<runVars, statusPageIndex>>
         \/ /\ choice = "No"
            /\ StartManualProfile \/ GotoOnly("Menu") \/ GotoOnly("ManualProgram")
            /\ UNCHANGED <<selectedIndex, slotVars>>
         \/ /\ choice = "Cancel" /\ GotoOnly("ManualProgram")
            /\ UNCHANGED <<selectedIndex, slotVars>>
  /\ UNCHANGED <<context, binaryConfirmPurpose, command>>

CurrentSlot ==
  IF selectedIndex["UserProfileSlots"] < SLOT_COUNT
  THEN selectedIndex["UserProfileSlots"] ELSE 0

LeaveSlots ==
  /\ selectedIndex["UserProfileSlots"] = SLOT_COUNT
  /\ GotoOnly(IF userProfileSlotScreenPurpose = "Save" THEN "ManualProgram" ELSE "Menu")
  /\ UNCHANGED <<selectedIndex, slotVars, binaryConfirmPurpose>>

\* After a save the flow goes on to what the user wanted, or the store refused.
SaveManualProfileToSlot(slot) ==
  \/ Goto(currentScreen) /\ UNCHANGED <<runVars, statusPageIndex, occupiedSlots>>
  \/ /\ occupiedSlots' = occupiedSlots \cup {slot}
     /\ StartManualProfile \/ GotoOnly("Menu") \/ GotoOnly("ManualProgram")

PressSlot ==
  /\ selectedIndex["UserProfileSlots"] # SLOT_COUNT
  /\ \/ /\ userProfileSlotScreenPurpose = "Browse"
        /\ OpenUserProfileDetail(CurrentSlot, occupiedSlots)
        /\ UNCHANGED <<occupiedSlots, runVars, statusPageIndex, binaryConfirmPurpose>>
     \/ /\ userProfileSlotScreenPurpose = "Save" /\ CurrentSlot \in occupiedSlots
        /\ binaryConfirmPurpose' = "OverwriteSlot" /\ GotoOnly("BinaryConfirm")
        /\ UNCHANGED <<selectedIndex, slotVars>>
     \/ /\ userProfileSlotScreenPurpose = "Save" /\ CurrentSlot \notin occupiedSlots
        /\ SaveManualProfileToSlot(CurrentSlot)
        /\ UNCHANGED <<selectedIndex, userProfileSlotScreenPurpose,
                       activeProfileDetailSlot, occupied, binaryConfirmPurpose>>

PressSlots ==
  /\ currentScreen = "UserProfileSlots"
  /\ LeaveSlots \/ PressSlot
  /\ UNCHANGED <<context, command>>

PressDetail ==
  /\ currentScreen = "UserProfileDetail"
  /\ LET action == Selected("UserProfileDetail", ActionsOf(occupied))
     IN  \/ /\ action = "Start" /\ activeProfileDetailSlot \in occupiedSlots
            /\ StartOrAsk("UserProfileDetail") \/ Refuse
            /\ UNCHANGED binaryConfirmPurpose
         \/ /\ action = "Edit" /\ GotoOnly("ManualProgram")
            /\ UNCHANGED binaryConfirmPurpose
         \/ /\ action = "Delete" /\ activeProfileDetailSlot \in occupiedSlots
            /\ binaryConfirmPurpose' = "DeleteSlot" /\ GotoOnly("BinaryConfirm")
         \/ /\ action = "Back" /\ GotoOnly("UserProfileSlots")
            /\ UNCHANGED binaryConfirmPurpose
  /\ UNCHANGED <<selectedIndex, context, slotVars, command>>

------------------------------------------------------------------------------
(* The screens that are no lists *)

LeaveCalibration ==
  /\ currentScreen = "NtcCalibration" /\ GotoOnly("SettingsMenu")
  /\ UNCHANGED <<selectedIndex, context, slotVars, binaryConfirmPurpose, command>>

PressManualProgram ==
  /\ currentScreen = "ManualProgram"
  /\ \/ /\ StartManualProfile \/ GotoOnly("Menu")
        /\ UNCHANGED <<selectedIndex, slotVars>>
     \/ /\ GotoOnly("SavePrompt")
        /\ selectedIndex' = [selectedIndex EXCEPT !["SavePrompt"] = 1]
        /\ UNCHANGED slotVars
     \/ /\ \E slot \in PreferredSlots : OpenUserProfileSlots("Save", slot)
        /\ UNCHANGED <<runVars, statusPageIndex>>
  /\ UNCHANGED <<context, binaryConfirmPurpose, command>>

AnswerOverwrite ==
  /\ binaryConfirmPurpose = "OverwriteSlot"
  /\ \/ SaveManualProfileToSlot(CurrentSlot)
     \/ GotoOnly("UserProfileSlots") /\ UNCHANGED occupiedSlots
  /\ UNCHANGED <<selectedIndex, userProfileSlotScreenPurpose,
                 activeProfileDetailSlot, occupied>>

AnswerStop ==
  /\ binaryConfirmPurpose = "StopProgram"
  /\ \/ EndRun /\ statusPageIndex' = 0 /\ Goto("Status")
     \/ GotoOnly("Menu")
  /\ UNCHANGED <<selectedIndex, slotVars>>

AnswerDelete ==
  /\ binaryConfirmPurpose = "DeleteSlot"
  /\ occupiedSlots' \in {occupiedSlots, occupiedSlots \ {activeProfileDetailSlot}}
  /\ OpenUserProfileDetail(activeProfileDetailSlot, occupiedSlots')
  /\ UNCHANGED <<runVars, statusPageIndex>>

\* The prompt outlived its purpose: a save it had confirmed was refused.
AnswerNone ==
  /\ binaryConfirmPurpose = "None" /\ GotoOnly("ManualProgram")
  /\ UNCHANGED <<selectedIndex, slotVars>>

AnswerBinaryConfirm ==
  /\ currentScreen = "BinaryConfirm"
  /\ AnswerOverwrite \/ AnswerStop \/ AnswerDelete \/ AnswerNone
  /\ binaryConfirmPurpose' = "None"
  /\ UNCHANGED <<context, command>>

\* The run is replaced; or it is stopped and its successor refused, which leaves
\* the page of the status screen where it was; or it goes on.
AnswerReplaceRun ==
  /\ currentScreen = "ConfirmReplaceRun"
  /\ \/ \E mode \in Modes : Run(mode)
     \/ EndRun /\ Goto("Status") /\ UNCHANGED statusPageIndex
     \/ GotoOnly(replaceRunCancelScreen)
  /\ UNCHANGED <<selectedIndex, context, slotVars, binaryConfirmPurpose, command>>

------------------------------------------------------------------------------
(* What the display task draws of a list: three of its entries below a title, *)
(* or the one selected between texts about it.                                *)

ROWS == 3

Rows(first, count) == {i \in first..(first + ROWS - 1) : i < count}

\* LcdMenuView, of the main menu and of the settings.
MenuRows(index, count) == Rows(IF index >= count THEN 0 ELSE index, count)

SlotRows(index) == Rows(index, SLOT_COUNT + 1)

\* Mutant: the window moves one entry too late.
WindowStartLate(index) == IF index > 3 THEN index - 2 ELSE 0

WindowStart(index) == IF index > 2 THEN index - 2 ELSE 0

TestRows(index) == Rows(WindowStart(index), Len(TestFields))

\* The entry LcdPresetView marks: one of the presets, or Inapoi behind them.
PresetRow(index) == {index} \cap 0..PRESET_COUNT

\* LcdUserProfileDetailView and LcdSavePromptView are given the entry itself.
DrawnEntries(list) ==
  LET index == selectedIndex[list]
  IN  CASE list = "Menu"             -> MenuRows(index, ItemCount(context))
        [] list = "SettingsMenu"     -> MenuRows(index, Len(SettingsItems))
        [] list = "Preset"           -> PresetRow(index)
        [] list = "UserProfileSlots" -> SlotRows(index)
        [] list = "Test"             -> TestRows(index)
        [] OTHER                     -> {index}

\* The detail screen says what the directory has of the slot, Liber or its
\* profile, above the action selected.
DetailDrawnOccupied == activeProfileDetailSlot \in occupiedSlots

------------------------------------------------------------------------------
(* The periodic tasks *)

RunTick ==
  /\ \/ state = "Running" /\ state' = "FinishCooldown"
     \/ state = "FinishCooldown" /\ state' = "FinishedAlarm"
  /\ UNCHANGED <<screenVars, selectedIndex, context, statusPageIndex, activeProfile,
                 slotVars, binaryConfirmPurpose, command, shown, leftByBack>>

\* The display task clamps what it draws.  Of the other screens it only reads.
DrawMenu ==
  /\ currentScreen = "Menu"
  /\ SyncMainMenuContext /\ selectedIndex' = Synced
  /\ shown' = SyncedItem
  /\ UNCHANGED <<screenVars, statusPageIndex, runVars, slotVars,
                 binaryConfirmPurpose, command, leftByBack>>

DrawStatus ==
  /\ currentScreen = "Status"
  /\ statusPageIndex' = ClampedStatusPage
  /\ UNCHANGED <<screenVars, selectedIndex, context, runVars, slotVars,
                 binaryConfirmPurpose, command, shown, leftByBack>>

Next ==
  \/ Turn(1) \/ Turn(-1)
  \/ AcknowledgeFinished \/ OpenMenu \/ PressMenu \/ PressSettingsMenu
  \/ LeavePreset \/ PressPreset \/ PressTest \/ PressSavePrompt \/ PressSlots
  \/ PressDetail \/ LeaveCalibration \/ PressManualProgram
  \/ AnswerBinaryConfirm \/ AnswerReplaceRun
  \/ RunTick \/ DrawMenu \/ DrawStatus

Spec == Init /\ [][Next]_vars

------------------------------------------------------------------------------
(* Properties *)

\* The run may cool down between the drawing of the menu and the press, and the
\* entries move up by one.  A press all the same acts, and it does not touch the
\* run unless the entry the user saw marked was a run control.
LatePressSparesTheRun ==
  [][PressMenu =>
       /\ currentScreen' # "Menu"
       /\ shown \notin RunControls \cup {"None"} =>
            UNCHANGED runVars /\ currentScreen' # "BinaryConfirm"]_vars

Above == [Menu |-> {"Status"}, SettingsMenu |-> {"Menu"}, Preset |-> {"Menu"},
          UserProfileSlots |-> {"Menu", "ManualProgram", "SavePrompt"},
          UserProfileDetail |-> {"UserProfileSlots"}, Test |-> {"SettingsMenu"}]

\* A list entered from the screen above it starts at its first entry, whatever
\* the run has done to its entries; at the slot of the program, when there is one
\* to save to; and where it was, when the menu or the presets were last left
\* otherwise than by their Back entry (REQ-UI-022).
BackStartsAtFirst ==
  [][\A list \in DOMAIN Above :
       currentScreen \in Above[list] /\ currentScreen' = list =>
         \/ selectedIndex'[list] = 0
         \/ list \in {"Menu", "Preset"} \ leftByBack
         \/ /\ list = "UserProfileSlots" /\ userProfileSlotScreenPurpose' = "Save"
            /\ selectedIndex'[list] \in Slots]_vars

\* The display and the cursors are read from different places: the entry the
\* cursor stands on is always among those drawn, however the list was entered and
\* whatever the run did to it, and the slot a detail screen describes is one to
\* which the actions it offers belong, also after a delete that was refused.
DisplayShowsSelection ==
  /\ currentScreen \in FixedLists \cup {"Menu"} =>
       selectedIndex[currentScreen] \in DrawnEntries(currentScreen)
  /\ currentScreen = "UserProfileDetail" => occupied = DetailDrawnOccupied

PagesOfRun ==
  CASE activeProfile = "None"  -> <<"Summary", "Outputs">>
    [] activeProfile = "Fixed" -> <<"Summary", "ParametersPrimary", "Outputs">>
    [] OTHER -> <<"Summary", "ParametersPrimary", "ParametersSecondary", "Outputs">>

\* Every detent on the status screen shows the neighbour of the page shown, and
\* only at either end stays, though the run and with it the pages may have changed
\* since the last one.  REQ-UI-023 has rotation "cycle between" the pages: the
\* code stops at the first and the last one and does not go round.
PagesTurnOneByOne ==
  [][\A delta \in {-1, 1} : TurnStatusPage(delta) =>
       \E i \in 1..Len(PagesOfRun) :
         /\ CurrentStatusPage = PagesOfRun[i]
         /\ CurrentStatusPage' =
              PagesOfRun[IF i + delta \in 1..Len(PagesOfRun) THEN i + delta ELSE i]]_vars

==============================================================================
