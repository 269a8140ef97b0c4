------------------------- MODULE ListScreens_proofs -------------------------
(***************************************************************************)
(* Proofs about the cursors of the firmware, for every number of presets   *)
(* and slots.                                                              *)
(*                                                                         *)
(* What is drawn of a list and what a press on it does are taken from      *)
(* different variables; the invariant says how far these agree on each     *)
(* screen.                                                                 *)
(***************************************************************************)
EXTENDS ListScreens, SequenceTheorems, TLAPS

Lists == FixedLists \cup {"Menu"}

\* The entries of a list as its controller counts them.
EntryCount(list) ==
  CASE list = "Menu"              -> ItemCount(context)
    [] list = "SettingsMenu"      -> 3
    [] list = "Preset"            -> PRESET_COUNT + 1
    [] list = "UserProfileSlots"  -> SLOT_COUNT + 1
    [] list = "UserProfileDetail" -> Len(ActionsOf(occupied))
    [] list = "Test"              -> 6
    [] list = "SavePrompt"        -> 3

\* A cursor never leaves its list, not even while it is out of sight.
CursorsInRange ==
  /\ selectedIndex \in [Lists -> Nat]
  /\ context \in SUBSET RunControls
  /\ occupied \in BOOLEAN
  /\ \A list \in Lists : selectedIndex[list] < EntryCount(list)

\* The details of a slot are up to date as long as they are shown, or may be
\* shown again.
DetailIsOfSlot ==
  \/ currentScreen = "UserProfileDetail"
  \/ currentScreen = "ConfirmReplaceRun" /\ replaceRunCancelScreen = "UserProfileDetail"
  => occupied = DetailDrawnOccupied

\* A list left by its Back entry is at its first entry until it is entered.
LeftAtFirst ==
  \A list \in leftByBack : currentScreen # list /\ selectedIndex[list] = 0

\* The test screen is only left by its Back entry.
TestAtFirst == currentScreen # "Test" => selectedIndex["Test"] = 0

\* While the menu is as it was drawn, the run has at most lost run controls.
ShownIsMarked ==
  shown # "None" =>
    /\ currentScreen = "Menu"
    /\ shown = ItemAt(selectedIndex["Menu"], context)
    /\ CurrentContext \subseteq context

------------------------------------------------------------------------------
(* The entries of the main menu                                               *)

\* The run controls that a context shows, in the order of the table.
Offered(item, c) == IF item \in c THEN <<item>> ELSE <<>>
Controls(c) == Offered("Oprire", c) \o Offered("Pauza", c) \o Offered("Reluare", c)

\* How many they are, as the provers need it.
ControlCount(c) ==
  (IF "Oprire" \in c THEN 1 ELSE 0) + (IF "Pauza" \in c THEN 1 ELSE 0)
    + (IF "Reluare" \in c THEN 1 ELSE 0)

ItemNames == RunControls \cup {"Presetate", "Utilizator", "Manual", "Setari", "Inapoi"}

\* The menu is the run controls the context shows, then the five programs and
\* settings.
LEMMA MenuItems ==
  ASSUME NEW c \in SUBSET RunControls
  PROVE  /\ VisibleItems[c] = Controls(c) \o ProgramItems
         /\ Controls(c) \in Seq(c) /\ Controls(c) \in Seq(ItemNames)
         /\ Len(Controls(c)) = ControlCount(c) /\ ControlCount(c) \in Nat
         /\ ProgramItems \in Seq(ItemNames) /\ Len(ProgramItems) = 5
         /\ ItemCount(c) = ControlCount(c) + 5
<1>1. VisibleItems[c] = Controls(c) \o ProgramItems
  BY DEF VisibleItems, Controls, Offered
<1>2. ASSUME NEW item \in RunControls
      PROVE  /\ Offered(item, c) \in Seq(c) /\ Offered(item, c) \in Seq(ItemNames)
             /\ Len(Offered(item, c)) = IF item \in c THEN 1 ELSE 0
  <2>1. item \in ItemNames
    BY DEF ItemNames
  <2>2. CASE item \in c
    BY <2>1, <2>2 DEF Offered
  <2>3. CASE item \notin c
    BY <2>3 DEF Offered
  <2> QED BY <2>2, <2>3
<1>3. ASSUME NEW S, \A item \in RunControls : Offered(item, c) \in Seq(S)
      PROVE  /\ Controls(c) \in Seq(S)
             /\ Len(Controls(c)) = Len(Offered("Oprire", c)) + Len(Offered("Pauza", c))
                                    + Len(Offered("Reluare", c))
  <2>1. /\ Offered("Oprire", c) \in Seq(S) /\ Offered("Pauza", c) \in Seq(S)
        /\ Offered("Reluare", c) \in Seq(S)
    BY <1>3 DEF RunControls
  <2>2. /\ Offered("Oprire", c) \o Offered("Pauza", c) \in Seq(S)
        /\ Len(Offered("Oprire", c) \o Offered("Pauza", c))
             = Len(Offered("Oprire", c)) + Len(Offered("Pauza", c))
    BY <2>1, ConcatProperties
  <2> QED BY <2>1, <2>2, ConcatProperties DEF Controls
<1>4. /\ Controls(c) \in Seq(c) /\ Controls(c) \in Seq(ItemNames)
      /\ Len(Controls(c)) = ControlCount(c) /\ ControlCount(c) \in Nat
  <2>1. /\ "Oprire" \in RunControls /\ "Pauza" \in RunControls
        /\ "Reluare" \in RunControls
    BY DEF RunControls
  <2>2. /\ Len(Offered("Oprire", c)) = IF "Oprire" \in c THEN 1 ELSE 0
        /\ Len(Offered("Pauza", c)) = IF "Pauza" \in c THEN 1 ELSE 0
        /\ Len(Offered("Reluare", c)) = IF "Reluare" \in c THEN 1 ELSE 0
    BY <1>2, <2>1
  <2>3. /\ Controls(c) \in Seq(c) /\ Controls(c) \in Seq(ItemNames)
        /\ Len(Controls(c)) = Len(Offered("Oprire", c)) + Len(Offered("Pauza", c))
                               + Len(Offered("Reluare", c))
    BY <1>2, <1>3
  <2>4. Len(Controls(c)) = ControlCount(c)
    BY <2>2, <2>3 DEF ControlCount
  <2>5. ControlCount(c) \in Nat
    BY DEF ControlCount
  <2> QED BY <2>3, <2>4, <2>5
<1>5. ProgramItems \in Seq(ItemNames) /\ Len(ProgramItems) = 5
  BY DEF ProgramItems, ItemNames
<1>6. Len(Controls(c) \o ProgramItems) = ControlCount(c) + 5
  <2>1. \A s, t \in Seq(ItemNames) : Len(s \o t) = Len(s) + Len(t)
    BY ConcatProperties
  <2>2. Len(Controls(c) \o ProgramItems) = Len(Controls(c)) + Len(ProgramItems)
    BY <1>4, <1>5, <2>1
  <2> QED BY <1>4, <1>5, <2>2
<1> QED BY <1>1, <1>4, <1>5, <1>6 DEF ItemCount

\* An entry of the menu is a run control just when it lies before the others,
\* and then it is one that the context shows.
LEMMA ControlsComeFirst ==
  ASSUME NEW c \in SUBSET RunControls, NEW i \in Nat, i < ItemCount(c)
  PROVE  /\ ItemAt(i, c) \in RunControls <=> i < ControlCount(c)
         /\ ItemAt(i, c) \in RunControls => ItemAt(i, c) \in c
<1> DEFINE k == Len(Controls(c))
<1>1. /\ VisibleItems[c] = Controls(c) \o ProgramItems
      /\ Controls(c) \in Seq(c) /\ k = ControlCount(c) /\ k \in Nat
      /\ Controls(c) \in Seq(ItemNames)
      /\ ProgramItems \in Seq(ItemNames) /\ Len(ProgramItems) = 5
      /\ ItemCount(c) = k + 5
  BY MenuItems
<1>2. ItemAt(i, c) = (Controls(c) \o ProgramItems)[i + 1]
  BY <1>1 DEF ItemAt
<1>3. \A j \in 1..k + 5 :
        (Controls(c) \o ProgramItems)[j] =
          IF j <= k THEN Controls(c)[j] ELSE ProgramItems[j - k]
  <2>1. \A s, t \in Seq(ItemNames) : \A j \in 1..Len(s) + Len(t) :
          (s \o t)[j] = IF j <= Len(s) THEN s[j] ELSE t[j - Len(s)]
    BY ConcatProperties
  <2> QED BY <1>1, <2>1
<1>4. i + 1 \in 1..k + 5
  BY <1>1
<1>5. CASE i < k
  <2>1. ItemAt(i, c) = Controls(c)[i + 1] /\ i + 1 \in 1..k
    BY <1>1, <1>2, <1>3, <1>4, <1>5
  <2>2. ItemAt(i, c) \in c
    BY <1>1, <2>1, ElementOfSeq
  <2> QED BY <1>1, <1>5, <2>2
<1>6. CASE i >= k
  <2>1. /\ ItemAt(i, c) = ProgramItems[(i + 1) - k]
        /\ (i + 1) - k \in 1..5
    <3>1. k \in Nat /\ i \in Nat /\ i < k + 5 /\ i >= k
      BY <1>1, <1>6
    <3> HIDE DEF k
    <3>2. ~(i + 1 <= k) /\ (i + 1) - k \in 1..5
      BY <3>1
    <3>3. (Controls(c) \o ProgramItems)[i + 1] = ProgramItems[(i + 1) - k]
      BY <1>3, <1>4, <3>2
    <3> QED BY <1>2, <3>2, <3>3
  <2>2. \A j \in 1..5 : ProgramItems[j] \notin RunControls
    BY DEF ProgramItems, RunControls
  <2> HIDE DEF k
  <2>3. ItemAt(i, c) \notin RunControls
    BY <2>1, <2>2
  <2> QED BY <1>1, <1>6, <2>3
<1> QED BY <1>1, <1>5, <1>6

------------------------------------------------------------------------------
(* The cursors                                                                *)

\* A menu has an entry, and so has every other list.
LEMMA ListsHaveEntries ==
  ASSUME context \in SUBSET RunControls, occupied \in BOOLEAN, NEW list \in Lists
  PROVE  EntryCount(list) \in Nat \ {0}
<1>1. ItemCount(context) \in Nat \ {0}
  BY MenuItems
<1>2. Len(ActionsOf(occupied)) \in Nat \ {0}
  BY DEF ActionsOf
<1> QED BY <1>1, <1>2, CountsAssumption DEF EntryCount, Lists, FixedLists

\* One detent does not leave a list.
LEMMA MovedInRange ==
  ASSUME NEW index \in Nat, NEW count \in Nat, index < count, NEW delta \in {-1, 1}
  PROVE  Moved(index, delta, count) \in Nat /\ Moved(index, delta, count) < count
BY DEF Moved

\* Clamped to the entries of the run's context, the cursor of the menu is at an
\* entry; at the first, if it was there before.
LEMMA SyncedInRange ==
  ASSUME CursorsInRange, SyncMainMenuContext
  PROVE  /\ context' = CurrentContext /\ context' \in SUBSET RunControls
         /\ SyncedIndex \in Nat /\ SyncedIndex < ItemCount(context')
         /\ selectedIndex["Menu"] = 0 => SyncedIndex = 0
         /\ Synced \in [Lists -> Nat] /\ Synced["Menu"] = SyncedIndex
         /\ \A list \in FixedLists : Synced[list] = selectedIndex[list]
<1>1. context' = CurrentContext /\ context' \in SUBSET RunControls
  BY DEF SyncMainMenuContext, CurrentContext
<1>2. ItemCount(context') \in Nat \ {0}
  BY <1>1, MenuItems
<1>3. selectedIndex \in [Lists -> Nat] /\ "Menu" \in Lists
  BY DEF CursorsInRange, Lists
<1>4. /\ SyncedIndex \in Nat /\ SyncedIndex < ItemCount(context')
      /\ selectedIndex["Menu"] = 0 => SyncedIndex = 0
  <2>1. selectedIndex["Menu"] \in Nat
    BY <1>3
  <2> QED BY <1>2, <2>1 DEF SyncedIndex, ClampSelection
<1>5. FixedLists \subseteq Lists /\ "Menu" \notin FixedLists
  BY DEF Lists, FixedLists
<1> HIDE DEF SyncedIndex
<1> QED BY <1>1, <1>3, <1>4, <1>5 DEF Synced

\* What a step may do to the cursors, so that each stays in its list: leave it
\* with its entries as it is, set it to an entry, or to the first one.
CursorStep ==
  /\ selectedIndex' \in [Lists -> Nat]
  /\ context' \in SUBSET RunControls /\ occupied' \in BOOLEAN
  /\ \A list \in FixedLists :
       \/ selectedIndex'[list] = 0
       \/ /\ selectedIndex'[list] < EntryCount(list)
          /\ list = "UserProfileDetail" => occupied' = occupied
  /\ selectedIndex'["Menu"] < ItemCount(context')

\* Such a step keeps the cursors in their lists.
LEMMA CursorStepKeeps ==
  ASSUME CursorsInRange, CursorStep
  PROVE  CursorsInRange'
<1>1. ASSUME NEW list \in FixedLists
      PROVE  selectedIndex'[list] < EntryCount(list)'
  <2>1. EntryCount(list)' \in Nat \ {0}
    <3>1. Len(ActionsOf(occupied')) \in Nat \ {0}
      BY DEF ActionsOf
    <3> QED BY <3>1, CountsAssumption DEF EntryCount, FixedLists
  <2>2. list = "UserProfileDetail" => occupied' = occupied \/ selectedIndex'[list] = 0
    BY DEF CursorStep
  <2>3. (list = "UserProfileDetail" => occupied' = occupied)
          => EntryCount(list)' = EntryCount(list)
    BY DEF EntryCount, FixedLists
  <2> QED BY <2>1, <2>2, <2>3 DEF CursorStep
<1>2. selectedIndex'["Menu"] < EntryCount("Menu")'
  BY DEF CursorStep, EntryCount
<1> QED BY <1>1, <1>2 DEF CursorStep, CursorsInRange, Lists

\* Steps that leave all cursors and entries alone.
LEMMA CursorsRest ==
  ASSUME CursorsInRange, UNCHANGED <<selectedIndex, context, occupied>>
  PROVE  CursorStep
<1>1. FixedLists \subseteq Lists /\ "Menu" \in Lists
  BY DEF Lists
<1> QED BY <1>1 DEF CursorsInRange, CursorStep, EntryCount

\* Steps that set one cursor, to an entry of its list.
LEMMA CursorSet ==
  ASSUME CursorsInRange, NEW list \in FixedLists, NEW index \in Nat,
         index < EntryCount(list),
         selectedIndex' = [selectedIndex EXCEPT ![list] = index],
         UNCHANGED <<context, occupied>>
  PROVE  CursorStep
<1>1. FixedLists \subseteq Lists /\ "Menu" \in Lists /\ "Menu" \notin FixedLists
  BY DEF Lists, FixedLists
<1>2. selectedIndex["Menu"] < ItemCount(context)
  BY <1>1 DEF CursorsInRange, EntryCount
<1> QED BY <1>1, <1>2 DEF CursorsInRange, CursorStep

\* Steps that look at the run for the entries of the menu.
LEMMA CursorsSynced ==
  ASSUME CursorsInRange, SyncMainMenuContext, UNCHANGED occupied,
         \/ selectedIndex' = Synced
         \/ \E list \in FixedLists : selectedIndex' = [Synced EXCEPT ![list] = 0]
         \/ selectedIndex' = Reset("Menu")
         \/ \E delta \in {-1, 1} : selectedIndex' = [selectedIndex EXCEPT !["Menu"] =
                                      Moved(SyncedIndex, delta, ItemCount(context'))]
  PROVE  CursorStep
<1>1. FixedLists \subseteq Lists /\ "Menu" \in Lists /\ "Menu" \notin FixedLists
  BY DEF Lists, FixedLists
<1>2. /\ context' \in SUBSET RunControls
      /\ SyncedIndex \in Nat /\ SyncedIndex < ItemCount(context')
      /\ Synced \in [Lists -> Nat] /\ Synced["Menu"] = SyncedIndex
      /\ \A list \in FixedLists : Synced[list] = selectedIndex[list]
  BY SyncedInRange
<1>3. /\ selectedIndex \in [Lists -> Nat] /\ occupied \in BOOLEAN
      /\ \A list \in FixedLists : selectedIndex[list] < EntryCount(list)
  BY <1>1 DEF CursorsInRange
<1>4. ItemCount(context') \in Nat \ {0}
  BY <1>2, MenuItems
<1>5. CASE selectedIndex' = Synced
  BY <1>1, <1>2, <1>3, <1>5 DEF CursorStep
<1>6. ASSUME NEW list \in FixedLists, selectedIndex' = [Synced EXCEPT ![list] = 0]
      PROVE  CursorStep
  BY <1>1, <1>2, <1>3, <1>6 DEF CursorStep
<1>7. CASE selectedIndex' = Reset("Menu")
  BY <1>1, <1>2, <1>3, <1>4, <1>7 DEF CursorStep, Reset
<1>8. ASSUME NEW delta \in {-1, 1},
             selectedIndex' = [selectedIndex EXCEPT !["Menu"] =
                                 Moved(SyncedIndex, delta, ItemCount(context'))]
      PROVE  CursorStep
  <2>1. /\ Moved(SyncedIndex, delta, ItemCount(context')) \in Nat
        /\ Moved(SyncedIndex, delta, ItemCount(context')) < ItemCount(context')
    BY <1>2, <1>4, MovedInRange
  <2> QED BY <1>1, <1>2, <1>3, <1>8, <2>1 DEF CursorStep
<1> QED BY <1>5, <1>6, <1>7, <1>8

\* The details of a slot open at their first action, whatever they are.
LEMMA DetailOpened ==
  ASSUME CursorsInRange, NEW slot, NEW slots, OpenUserProfileDetail(slot, slots),
         UNCHANGED context
  PROVE  CursorStep
<1>1. FixedLists \subseteq Lists /\ "Menu" \in Lists /\ "Menu" \notin FixedLists
  BY DEF Lists, FixedLists
<1>2. /\ selectedIndex' = [selectedIndex EXCEPT !["UserProfileDetail"] = 0]
      /\ occupied' \in BOOLEAN
  BY DEF OpenUserProfileDetail, Reset
<1>3. selectedIndex["Menu"] < ItemCount(context)
  BY <1>1 DEF CursorsInRange, EntryCount
<1> QED BY <1>1, <1>2, <1>3 DEF CursorsInRange, CursorStep

\* The list of the slots opens at a slot.
LEMMA SlotsOpened ==
  ASSUME CursorsInRange, NEW purpose, NEW slot \in Slots,
         OpenUserProfileSlots(purpose, slot), UNCHANGED context
  PROVE  CursorStep
<1>1. slot \in Nat /\ slot < EntryCount("UserProfileSlots")
  BY CountsAssumption DEF Slots, EntryCount
<1>2. "UserProfileSlots" \in FixedLists
  BY DEF FixedLists
<1> QED BY <1>1, <1>2, CursorSet DEF OpenUserProfileSlots

\* A list that is reset is at its first entry.
LEMMA CursorReset ==
  ASSUME CursorsInRange, NEW list \in FixedLists, selectedIndex' = Reset(list),
         UNCHANGED <<context, occupied>>
  PROVE  CursorStep
<1>1. EntryCount(list) \in Nat \ {0}
  BY ListsHaveEntries DEF CursorsInRange, Lists
<1>2. 0 < EntryCount(list)
  BY <1>1
<1> QED BY <1>2, CursorSet DEF Reset

\* A turn moves the cursor of the list that is shown.
LEMMA TurnMovesCursor ==
  ASSUME CursorsInRange, NEW delta \in {-1, 1}, Turn(delta)
  PROVE  CursorStep
<1>1. CASE TurnStatusPage(delta)
  BY <1>1, CursorsRest DEF TurnStatusPage, slotVars
<1>2. CASE TurnMenu(delta)
  BY <1>2, CursorsSynced DEF TurnMenu, slotVars
<1>3. ASSUME NEW list \in FixedLists, Turned(list, delta, EntryCount(list))
      PROVE  CursorStep
  <2>1. /\ selectedIndex[list] \in Nat /\ selectedIndex[list] < EntryCount(list)
        /\ EntryCount(list) \in Nat
    BY ListsHaveEntries DEF CursorsInRange, Lists
  <2> DEFINE next == Moved(selectedIndex[list], delta, EntryCount(list))
  <2>2. next \in Nat /\ next < EntryCount(list)
    BY <2>1, MovedInRange
  <2>3. /\ selectedIndex' = [selectedIndex EXCEPT ![list] = next]
        /\ UNCHANGED <<context, occupied>>
    BY <1>3 DEF Turned, slotVars
  <2> HIDE DEF next
  <2> QED BY <2>2, <2>3, CursorSet
<1>4. /\ EntryCount("Preset") = PRESET_COUNT + 1
      /\ EntryCount("UserProfileSlots") = SLOT_COUNT + 1
      /\ EntryCount("UserProfileDetail") = Len(ActionsOf(occupied))
      /\ EntryCount("SettingsMenu") = Len(SettingsItems)
      /\ EntryCount("Test") = Len(TestFields)
      /\ EntryCount("SavePrompt") = Len(SaveChoices)
  BY DEF EntryCount, SettingsItems, TestFields, SaveChoices
<1>5. {"Preset", "UserProfileSlots", "UserProfileDetail", "SettingsMenu", "Test",
       "SavePrompt"} \subseteq FixedLists
  BY DEF FixedLists
<1> QED BY <1>1, <1>2, <1>3, <1>4, <1>5
        DEF Turn, TurnPreset, TurnSlots, TurnDetail, TurnSettingsMenu, TurnTest,
            TurnSavePrompt

\* So does a press, or it opens a list at its first entry.
LEMMA NextMovesCursors ==
  ASSUME CursorsInRange, [Next]_vars
  PROVE  CursorStep
<1> USE DEF slotVars
<1>1. ASSUME NEW delta \in {-1, 1}, Turn(delta) PROVE CursorStep
  BY <1>1, TurnMovesCursor
<1>2. CASE AcknowledgeFinished \/ OpenMenu \/ DrawMenu
  BY <1>2, CursorsSynced DEF AcknowledgeFinished, OpenMenu, DrawMenu
<1>3. CASE PressMenu
  <2>1. SyncMainMenuContext /\ UNCHANGED occupied
    BY <1>3 DEF PressMenu, CloseMenu, OpenFromMenu, OpenUserProfiles, OpenSettings,
                PauseOrResume, AskToStop
  <2>2. \/ selectedIndex' = Synced \/ selectedIndex' = Reset("Menu")
        \/ selectedIndex' = [Synced EXCEPT !["UserProfileSlots"] = 0]
        \/ selectedIndex' = [Synced EXCEPT !["SettingsMenu"] = 0]
    BY <1>3 DEF PressMenu, CloseMenu, OpenFromMenu, OpenUserProfiles, OpenSettings,
                PauseOrResume, AskToStop
  <2>3. "UserProfileSlots" \in FixedLists /\ "SettingsMenu" \in FixedLists
    BY DEF FixedLists
  <2> QED BY <2>1, <2>2, <2>3, CursorsSynced
<1>4. CASE PressSettingsMenu \/ LeavePreset \/ PressTest
  <2>1. UNCHANGED <<context, occupied>>
    BY <1>4 DEF PressSettingsMenu, LeavePreset, PressTest
  <2>2. \/ selectedIndex' = selectedIndex \/ selectedIndex' = Reset("SettingsMenu")
        \/ selectedIndex' = Reset("Preset") \/ selectedIndex' = Reset("Test")
    BY <1>4 DEF PressSettingsMenu, LeavePreset, PressTest
  <2>3. {"SettingsMenu", "Preset", "Test"} \subseteq FixedLists
    BY DEF FixedLists
  <2> QED BY <2>1, <2>2, <2>3, CursorsRest, CursorReset
<1>5. CASE PressPreset \/ PressDetail \/ LeaveCalibration \/ AnswerReplaceRun
  BY <1>5, CursorsRest DEF PressPreset, PressDetail, LeaveCalibration, AnswerReplaceRun
<1>6. CASE PressSavePrompt
  <2>1. UNCHANGED context
    BY <1>6 DEF PressSavePrompt
  <2>2. \/ UNCHANGED <<selectedIndex, occupied>>
        \/ \E slot \in Slots : OpenUserProfileSlots("Save", slot)
    BY <1>6 DEF PressSavePrompt, PreferredSlots
  <2> QED BY <2>1, <2>2, CursorsRest, SlotsOpened
<1>7. CASE PressSlots
  <2>1. UNCHANGED context
    BY <1>7 DEF PressSlots
  <2>2. \/ UNCHANGED <<selectedIndex, occupied>>
        \/ OpenUserProfileDetail(CurrentSlot, occupiedSlots)
    BY <1>7 DEF PressSlots, LeaveSlots, PressSlot
  <2> QED BY <2>1, <2>2, CursorsRest, DetailOpened
<1>8. CASE PressManualProgram
  <2>1. UNCHANGED context
    BY <1>8 DEF PressManualProgram
  <2>2. \/ UNCHANGED <<selectedIndex, occupied>>
        \/ /\ selectedIndex' = [selectedIndex EXCEPT !["SavePrompt"] = 1]
           /\ UNCHANGED occupied
        \/ \E slot \in Slots : OpenUserProfileSlots("Save", slot)
    BY <1>8 DEF PressManualProgram, PreferredSlots
  <2>3. "SavePrompt" \in FixedLists /\ 1 < EntryCount("SavePrompt")
    BY DEF FixedLists, EntryCount
  <2> QED BY <2>1, <2>2, <2>3, CursorsRest, SlotsOpened, CursorSet
<1>9. CASE AnswerBinaryConfirm
  <2>1. UNCHANGED context
    BY <1>9 DEF AnswerBinaryConfirm
  <2>2. \/ UNCHANGED <<selectedIndex, occupied>>
        \/ OpenUserProfileDetail(activeProfileDetailSlot, occupiedSlots')
    BY <1>9 DEF AnswerBinaryConfirm, AnswerOverwrite, AnswerStop, AnswerDelete, AnswerNone
  <2>3. CASE UNCHANGED <<selectedIndex, occupied>>
    BY <2>1, <2>3, CursorsRest
  <2>4. CASE OpenUserProfileDetail(activeProfileDetailSlot, occupiedSlots')
    BY <2>1, <2>4, DetailOpened
  <2> QED BY <2>2, <2>3, <2>4
<1>10. CASE RunTick \/ DrawStatus \/ UNCHANGED vars
  BY <1>10, CursorsRest DEF RunTick, DrawStatus, vars
<1> QED BY <1>1, <1>2, <1>3, <1>4, <1>5, <1>6, <1>7, <1>8, <1>9, <1>10 DEF Next

------------------------------------------------------------------------------
(* Types                                                                      *)

Screens == FixedLists \cup {"Status", "Menu", "NtcCalibration", "ManualProgram",
                            "BinaryConfirm", "ConfirmReplaceRun"}

ScreenTypes ==
  /\ currentScreen \in Screens
  /\ replaceRunCancelScreen \in {"Status", "Preset", "ManualProgram",
                                 "UserProfileDetail"}
  /\ userProfileSlotScreenPurpose \in {"Browse", "Save"}
  /\ binaryConfirmPurpose \in {"None", "StopProgram", "OverwriteSlot", "DeleteSlot"}
  /\ leftByBack \subseteq {"Menu", "Preset"}

RunTypes ==
  /\ state \in {"Idle", "Running", "Paused", "FinishCooldown", "FinishedAlarm"}
  /\ activeProfile \in Modes \cup {"None"}
  /\ statusPageIndex \in 0..3

SlotTypes == occupiedSlots \subseteq Slots /\ activeProfileDetailSlot \in Slots

\* The settings menu leads to a screen.
LEMMA SettingsSelected ==
  ASSUME CursorsInRange
  PROVE  Selected("SettingsMenu", SettingsItems) \in {"NtcCalibration", "Test", "Back"}
<1>1. selectedIndex["SettingsMenu"] \in 0..2
  BY DEF CursorsInRange, EntryCount, Lists, FixedLists
<1> QED BY <1>1 DEF Selected, SettingsItems

\* Every step stays within the screens, and prompts are about what they can be
\* about.
LEMMA ScreenTypesKept ==
  ASSUME ScreenTypes, CursorsInRange, [Next]_vars
  PROVE  ScreenTypes'
<1> USE DEF slotVars, screenVars, runVars
<1>1. ASSUME NEW screen \in Screens, Goto(screen)
      PROVE  /\ currentScreen' \in Screens
             /\ replaceRunCancelScreen' = "Status"
             /\ leftByBack' \subseteq {"Menu", "Preset"}
  BY <1>1 DEF Goto, ScreenTypes
<1>2. ASSUME NEW screen \in {"Preset", "ManualProgram", "UserProfileDetail"},
             StartOrAsk(screen) \/ Refuse
      PROVE  /\ currentScreen' \in Screens
             /\ replaceRunCancelScreen' \in {"Status", "Preset", "ManualProgram",
                                             "UserProfileDetail"}
             /\ leftByBack' \subseteq {"Menu", "Preset"}
  BY <1>1, <1>2 DEF StartOrAsk, Refuse, Run, ScreenTypes, Screens
<1>3. /\ {"Status", "Menu", "NtcCalibration", "ManualProgram", "BinaryConfirm",
           "ConfirmReplaceRun"} \subseteq Screens
      /\ FixedLists \subseteq Screens
  BY DEF Screens
<1>4. ASSUME NEW delta \in {-1, 1}, Turn(delta) PROVE ScreenTypes'
  BY <1>4 DEF Turn, TurnStatusPage, TurnMenu, Turned, TurnPreset, TurnSlots, TurnDetail,
              TurnSettingsMenu, TurnTest, TurnSavePrompt, ScreenTypes
<1>5. CASE AcknowledgeFinished \/ OpenMenu \/ DrawMenu \/ DrawStatus \/ RunTick
  BY <1>1, <1>3, <1>5 DEF AcknowledgeFinished, OpenMenu, DrawMenu, DrawStatus, RunTick,
                          GotoOnly, ScreenTypes
<1>6. CASE PressMenu
  <2>1. /\ userProfileSlotScreenPurpose' \in {"Browse", "Save"}
        /\ binaryConfirmPurpose' \in {"None", "StopProgram", "OverwriteSlot", "DeleteSlot"}
    BY <1>6 DEF PressMenu, CloseMenu, OpenFromMenu, OpenUserProfiles, OpenSettings,
                PauseOrResume, AskToStop, ScreenTypes
  <2>2. \/ CloseMenu
        \/ \E screen \in {"ManualProgram", "Preset", "UserProfileSlots", "SettingsMenu",
                          "Menu", "Status", "BinaryConfirm"} : Goto(screen)
    BY <1>6 DEF PressMenu, OpenFromMenu, OpenUserProfiles, OpenSettings,
                PauseOrResume, AskToStop, GotoOnly
  <2>3. {"Preset", "UserProfileSlots", "SettingsMenu"} \subseteq FixedLists
    BY DEF FixedLists
  <2> QED BY <1>1, <1>3, <2>1, <2>2, <2>3 DEF CloseMenu, ScreenTypes
<1>7. CASE PressSettingsMenu \/ PressTest \/ LeaveCalibration
  <2>1. \E screen \in {"Menu", "NtcCalibration", "Test", "SettingsMenu"} : Goto(screen)
    BY <1>7, SettingsSelected DEF PressSettingsMenu, PressTest, LeaveCalibration, GotoOnly
  <2>2. UNCHANGED <<userProfileSlotScreenPurpose, binaryConfirmPurpose>>
    BY <1>7 DEF PressSettingsMenu, PressTest, LeaveCalibration
  <2>3. {"Menu", "NtcCalibration", "Test", "SettingsMenu"} \subseteq Screens
    BY DEF Screens, FixedLists
  <2> QED BY <1>1, <2>1, <2>2, <2>3 DEF ScreenTypes
<1>8. CASE LeavePreset \/ PressPreset
  BY <1>2, <1>3, <1>8 DEF LeavePreset, PressPreset, ScreenTypes
<1>9. CASE PressSavePrompt
  BY <1>1, <1>2, <1>3, <1>9 DEF PressSavePrompt, OpenUserProfileSlots, StartManualProfile,
                               GotoOnly, ScreenTypes, FixedLists
<1>10. CASE PressManualProgram
  BY <1>1, <1>2, <1>3, <1>10 DEF PressManualProgram, OpenUserProfileSlots,
                               StartManualProfile, GotoOnly, ScreenTypes, FixedLists
<1>11. ASSUME NEW slot, SaveManualProfileToSlot(slot)
       PROVE  /\ currentScreen' \in Screens
              /\ replaceRunCancelScreen' \in {"Status", "Preset", "ManualProgram",
                                              "UserProfileDetail"}
              /\ leftByBack' \subseteq {"Menu", "Preset"}
  <2>1. CASE Goto(currentScreen)
    BY <1>1, <2>1 DEF ScreenTypes
  <2>2. CASE StartManualProfile
    BY <1>2, <2>2 DEF StartManualProfile
  <2>3. CASE GotoOnly("Menu") \/ GotoOnly("ManualProgram")
    BY <1>1, <1>3, <2>3 DEF GotoOnly
  <2> QED BY <1>11, <2>1, <2>2, <2>3 DEF SaveManualProfileToSlot
<1>12. CASE PressSlots
  <2>1. CASE LeaveSlots
    BY <1>1, <1>3, <2>1 DEF LeaveSlots, GotoOnly, ScreenTypes
  <2>2. CASE PressSlot
    BY <1>1, <1>3, <1>11, <2>2 DEF PressSlot, OpenUserProfileDetail, GotoOnly,
                                  ScreenTypes, FixedLists
  <2> QED BY <1>12, <2>1, <2>2 DEF PressSlots
<1>13. CASE PressDetail
  BY <1>1, <1>2, <1>3, <1>13 DEF PressDetail, GotoOnly, ScreenTypes, FixedLists
<1>14. CASE AnswerBinaryConfirm
  <2>1. /\ userProfileSlotScreenPurpose' \in {"Browse", "Save"}
        /\ binaryConfirmPurpose' = "None"
    BY <1>14 DEF AnswerBinaryConfirm, AnswerOverwrite, AnswerStop, AnswerDelete,
                 AnswerNone, OpenUserProfileDetail, ScreenTypes
  <2>2. \/ SaveManualProfileToSlot(CurrentSlot)
        \/ \E screen \in {"UserProfileSlots", "Status", "Menu", "UserProfileDetail",
                          "ManualProgram"} : Goto(screen)
    BY <1>14 DEF AnswerBinaryConfirm, AnswerOverwrite, AnswerStop, AnswerDelete,
                 AnswerNone, OpenUserProfileDetail, GotoOnly
  <2> QED BY <1>1, <1>3, <1>11, <2>1, <2>2 DEF ScreenTypes, FixedLists
<1>15. CASE AnswerReplaceRun
  BY <1>1, <1>3, <1>15 DEF AnswerReplaceRun, Run, GotoOnly, ScreenTypes, FixedLists
<1>16. CASE UNCHANGED vars
  BY <1>16 DEF vars, ScreenTypes
<1> QED BY <1>4, <1>5, <1>6, <1>7, <1>8, <1>9, <1>10, <1>12, <1>13, <1>14, <1>15, <1>16
        DEF Next

\* The page stays within the pages of some run.
LEMMA RunTypesKept ==
  ASSUME RunTypes, [Next]_vars
  PROVE  RunTypes'
<1> USE DEF slotVars, screenVars, runVars
<1>1. /\ StatusPageCount \in 2..4
      /\ ClampedStatusPage \in 0..StatusPageCount - 1
  BY DEF RunTypes, StatusPageCount, ClampedStatusPage, Modes
<1>2. ASSUME NEW screen, StartOrAsk(screen) PROVE RunTypes'
  BY <1>2 DEF StartOrAsk, Run, RunTypes
<1>3. CASE UNCHANGED <<runVars, statusPageIndex>>
  BY <1>3 DEF RunTypes
<1>4. ASSUME NEW delta \in {-1, 1}, Turn(delta) PROVE RunTypes'
  <2>1. CASE TurnStatusPage(delta)
    <3>1. statusPageIndex' = Moved(ClampedStatusPage, delta, StatusPageCount)
      BY <2>1 DEF TurnStatusPage
    <3>2. statusPageIndex' \in 0..3
      BY <1>1, <3>1 DEF Moved
    <3> QED BY <2>1, <3>2 DEF TurnStatusPage, RunTypes
  <2>2. CASE ~TurnStatusPage(delta)
    BY <1>3, <1>4, <2>2 DEF Turn, TurnMenu, Turned, TurnPreset, TurnSlots, TurnDetail,
                            TurnSettingsMenu, TurnTest, TurnSavePrompt
  <2> QED BY <2>1, <2>2
<1>5. CASE AcknowledgeFinished
  BY <1>5 DEF AcknowledgeFinished, EndRun, RunTypes
<1>6. CASE RunTick
  BY <1>6 DEF RunTick, RunTypes
<1>7. CASE DrawStatus
  <2>1. statusPageIndex' \in 0..3
    BY <1>1, <1>7 DEF DrawStatus
  <2> QED BY <1>7, <2>1 DEF DrawStatus, RunTypes
<1>8. CASE PressMenu
  <2>1. CASE PauseOrResume
    BY <2>1 DEF PauseOrResume, AfterRunControl, RunTypes
  <2>2. CASE ~PauseOrResume
    BY <1>3, <1>8, <2>2 DEF PressMenu, CloseMenu, OpenFromMenu, OpenUserProfiles,
                            OpenSettings, AskToStop, GotoOnly
  <2> QED BY <2>1, <2>2
<1>9. CASE OpenMenu \/ PressSettingsMenu \/ LeavePreset \/ PressTest \/ LeaveCalibration
           \/ DrawMenu \/ UNCHANGED vars
  BY <1>3, <1>9 DEF OpenMenu, PressSettingsMenu, LeavePreset, PressTest,
                    LeaveCalibration, DrawMenu, GotoOnly, vars
<1>10. CASE StartManualProfile
  BY <1>2, <1>3, <1>10 DEF StartManualProfile, Refuse
<1>11. CASE PressPreset \/ PressDetail
  BY <1>2, <1>3, <1>11 DEF PressPreset, PressDetail, Refuse, GotoOnly
<1>12. CASE PressSavePrompt \/ PressManualProgram
  BY <1>3, <1>10, <1>12 DEF PressSavePrompt, PressManualProgram, GotoOnly
<1>13. ASSUME NEW slot, SaveManualProfileToSlot(slot) PROVE RunTypes'
  BY <1>3, <1>10, <1>13 DEF SaveManualProfileToSlot, GotoOnly
<1>14. CASE PressSlots
  BY <1>3, <1>13, <1>14 DEF PressSlots, LeaveSlots, PressSlot, GotoOnly
<1>15. CASE AnswerBinaryConfirm
  <2>1. CASE AnswerStop
    BY <1>3, <2>1 DEF AnswerStop, EndRun, GotoOnly, RunTypes
  <2>2. CASE ~AnswerStop
    BY <1>3, <1>13, <1>15, <2>2 DEF AnswerBinaryConfirm, AnswerOverwrite, AnswerDelete,
                                    AnswerNone, GotoOnly
  <2> QED BY <2>1, <2>2
<1>16. CASE AnswerReplaceRun
  BY <1>3, <1>16 DEF AnswerReplaceRun, Run, EndRun, GotoOnly, RunTypes
<1> QED BY <1>4, <1>5, <1>6, <1>7, <1>8, <1>9, <1>11, <1>12, <1>14, <1>15, <1>16 DEF Next

\* The slots a step touches: those of a save, a delete or the slot shown.
LEMMA SlotTypesKept ==
  ASSUME SlotTypes, CursorsInRange, [Next]_vars
  PROVE  SlotTypes'
<1> USE DEF slotVars
<1>1. CurrentSlot \in Slots
  <2>1. selectedIndex["UserProfileSlots"] \in Nat
    BY DEF CursorsInRange, Lists, FixedLists
  <2> QED BY <2>1, CountsAssumption DEF CurrentSlot, Slots
<1>2. CASE UNCHANGED <<occupiedSlots, activeProfileDetailSlot>>
  BY <1>2 DEF SlotTypes
<1>3. ASSUME NEW slot \in Slots, SaveManualProfileToSlot(slot),
             UNCHANGED activeProfileDetailSlot
      PROVE  SlotTypes'
  BY <1>3 DEF SaveManualProfileToSlot, SlotTypes
<1>4. ASSUME NEW delta \in {-1, 1}, Turn(delta) PROVE SlotTypes'
  BY <1>2, <1>4 DEF Turn, TurnStatusPage, TurnMenu, Turned, TurnPreset, TurnSlots,
                    TurnDetail, TurnSettingsMenu, TurnTest, TurnSavePrompt
<1>5. CASE AcknowledgeFinished \/ OpenMenu \/ DrawMenu \/ DrawStatus \/ RunTick
           \/ PressSettingsMenu \/ LeavePreset \/ PressPreset \/ PressTest
           \/ PressDetail \/ LeaveCalibration \/ AnswerReplaceRun \/ UNCHANGED vars
  BY <1>2, <1>5 DEF AcknowledgeFinished, OpenMenu, DrawMenu, DrawStatus, RunTick,
                    PressSettingsMenu, LeavePreset, PressPreset, PressTest,
                    PressDetail, LeaveCalibration, AnswerReplaceRun, vars
<1>6. CASE PressMenu
  BY <1>2, <1>6 DEF PressMenu, CloseMenu, OpenFromMenu, OpenUserProfiles, OpenSettings,
                    PauseOrResume, AskToStop
<1>7. CASE PressSavePrompt \/ PressManualProgram
  BY <1>2, <1>7 DEF PressSavePrompt, PressManualProgram, OpenUserProfileSlots
<1>8. CASE PressSlots
  <2>1. CASE PressSlot
    BY <1>1, <1>2, <1>3, <2>1 DEF PressSlot, OpenUserProfileDetail, SlotTypes
  <2>2. CASE LeaveSlots
    BY <1>2, <2>2 DEF LeaveSlots
  <2> QED BY <1>8, <2>1, <2>2 DEF PressSlots
<1>9. CASE AnswerBinaryConfirm
  <2>1. CASE AnswerOverwrite
    BY <1>1, <1>2, <1>3, <2>1 DEF AnswerOverwrite
  <2>2. CASE AnswerDelete
    BY <2>2 DEF AnswerDelete, OpenUserProfileDetail, SlotTypes
  <2>3. CASE AnswerStop \/ AnswerNone
    BY <1>2, <2>3 DEF AnswerStop, AnswerNone
  <2> QED BY <1>9, <2>1, <2>2, <2>3 DEF AnswerBinaryConfirm
<1> QED BY <1>4, <1>5, <1>6, <1>7, <1>8, <1>9 DEF Next

------------------------------------------------------------------------------
(* What the screens and the cursors know of each other                        *)

\* The details of a slot are opened with what the directory has of it, and the
\* directory changes on other screens only.
LEMMA DetailIsOfSlotKept ==
  ASSUME DetailIsOfSlot, CursorsInRange, [Next]_vars
  PROVE  DetailIsOfSlot'
<1> USE DEF slotVars, screenVars, runVars, DetailDrawnOccupied
<1>1. ASSUME NEW slot, OpenUserProfileDetail(slot, occupiedSlots') PROVE DetailIsOfSlot'
  BY <1>1 DEF OpenUserProfileDetail, DetailIsOfSlot
<1>2. ASSUME \/ /\ currentScreen' # "UserProfileDetail"
                /\ replaceRunCancelScreen' # "UserProfileDetail"
             \/ /\ currentScreen' # "UserProfileDetail"
                /\ currentScreen' # "ConfirmReplaceRun"
      PROVE  DetailIsOfSlot'
  BY <1>2 DEF DetailIsOfSlot
<1>3. CASE StartManualProfile /\ currentScreen # "UserProfileDetail"
  BY <1>2, <1>3 DEF StartManualProfile, StartOrAsk, Run, Refuse, Goto
<1>4. ASSUME NEW delta \in {-1, 1}, Turn(delta) PROVE DetailIsOfSlot'
  BY <1>4 DEF Turn, TurnStatusPage, TurnMenu, Turned, TurnPreset, TurnSlots, TurnDetail,
              TurnSettingsMenu, TurnTest, TurnSavePrompt, DetailIsOfSlot
<1>5. CASE DrawMenu \/ DrawStatus \/ RunTick \/ UNCHANGED vars
  BY <1>5 DEF DrawMenu, DrawStatus, RunTick, DetailIsOfSlot, vars
<1>6. CASE AcknowledgeFinished \/ OpenMenu \/ LeaveCalibration
  BY <1>2, <1>6 DEF AcknowledgeFinished, OpenMenu, LeaveCalibration, GotoOnly, Goto
<1>7. CASE PressMenu
  <2>1. \/ currentScreen' = "Status"
        \/ \E screen \in {"ManualProgram", "Preset", "UserProfileSlots", "SettingsMenu",
                          "Menu", "Status", "BinaryConfirm"} : Goto(screen)
    BY <1>7 DEF PressMenu, CloseMenu, OpenFromMenu, OpenUserProfiles, OpenSettings,
                PauseOrResume, AskToStop, GotoOnly
  <2> QED BY <1>2, <2>1 DEF Goto
<1>8. CASE PressSettingsMenu \/ PressTest
  <2>1. \E screen \in {"Menu", "NtcCalibration", "Test", "SettingsMenu"} : Goto(screen)
    BY <1>8, SettingsSelected DEF PressSettingsMenu, PressTest, GotoOnly
  <2> QED BY <1>2, <2>1 DEF Goto
<1>9. CASE LeavePreset \/ PressPreset
  BY <1>2, <1>9 DEF LeavePreset, PressPreset, StartOrAsk, Run, Goto
<1>10. CASE PressSavePrompt
  BY <1>2, <1>3, <1>10 DEF PressSavePrompt, OpenUserProfileSlots, GotoOnly, Goto
<1>11. CASE PressManualProgram
  BY <1>2, <1>3, <1>11 DEF PressManualProgram, OpenUserProfileSlots, GotoOnly, Goto
<1>12. ASSUME NEW slot, SaveManualProfileToSlot(slot),
              currentScreen \in {"UserProfileSlots", "BinaryConfirm"}
       PROVE  DetailIsOfSlot'
  BY <1>2, <1>3, <1>12 DEF SaveManualProfileToSlot, GotoOnly, Goto
<1>13. CASE PressSlots
  <2>1. CASE LeaveSlots
    BY <1>2, <2>1 DEF LeaveSlots, GotoOnly, Goto
  <2>2. CASE PressSlot
    <3>1. \/ OpenUserProfileDetail(CurrentSlot, occupiedSlots')
          \/ Goto("BinaryConfirm") \/ SaveManualProfileToSlot(CurrentSlot)
      BY <2>2 DEF PressSlot, GotoOnly
    <3> QED BY <1>1, <1>2, <1>12, <1>13, <3>1 DEF Goto, PressSlots
  <2> QED BY <1>13, <2>1, <2>2 DEF PressSlots
<1>14. CASE PressDetail
  BY <1>14 DEF PressDetail, StartOrAsk, Run, Refuse, GotoOnly, Goto, DetailIsOfSlot
<1>15. CASE AnswerBinaryConfirm
  <2>1. CASE AnswerDelete
    BY <1>1, <2>1 DEF AnswerDelete
  <2>2. CASE AnswerOverwrite
    BY <1>2, <1>12, <1>15, <2>2 DEF AnswerOverwrite, AnswerBinaryConfirm, GotoOnly, Goto
  <2>3. CASE AnswerStop \/ AnswerNone
    BY <1>2, <2>3 DEF AnswerStop, AnswerNone, GotoOnly, Goto
  <2> QED BY <1>15, <2>1, <2>2, <2>3 DEF AnswerBinaryConfirm
<1>16. CASE AnswerReplaceRun
  BY <1>16 DEF AnswerReplaceRun, Run, GotoOnly, Goto, DetailIsOfSlot
<1> QED BY <1>4, <1>5, <1>6, <1>7, <1>8, <1>9, <1>10, <1>11, <1>13, <1>14, <1>15, <1>16
        DEF Next

\* A cursor at the first entry of the menu, the presets or the test screen stays
\* there while another screen is shown.
LEMMA FirstEntryIsKept ==
  ASSUME CursorsInRange, [Next]_vars,
         NEW list \in {"Menu", "Preset", "Test"},
         currentScreen # list, selectedIndex[list] = 0
  PROVE  selectedIndex'[list] = 0
<1>1. /\ selectedIndex \in [Lists -> Nat] /\ list \in Lists
      /\ {"Menu", "Preset", "Test", "SettingsMenu", "UserProfileSlots",
          "UserProfileDetail", "SavePrompt"} = Lists
  BY DEF CursorsInRange, Lists, FixedLists
<1>2. ASSUME NEW other \in Lists, NEW index, other # list,
             selectedIndex' = [selectedIndex EXCEPT ![other] = index]
      PROVE  selectedIndex'[list] = 0
  BY <1>1, <1>2
<1>3. ASSUME NEW other \in Lists, selectedIndex' = Reset(other)
      PROVE  selectedIndex'[list] = 0
  BY <1>1, <1>3 DEF Reset
<1>4. ASSUME SyncMainMenuContext
      PROVE  /\ Synced \in [Lists -> Nat] /\ Synced[list] = 0
             /\ \A other \in Lists : [Synced EXCEPT ![other] = 0][list] = 0
  <2>1. Synced \in [Lists -> Nat] /\ Synced[list] = 0
    BY <1>1, <1>4, SyncedInRange DEF FixedLists
  <2> QED BY <1>1, <2>1
<1>5. ASSUME NEW delta \in {-1, 1}, Turn(delta) PROVE selectedIndex'[list] = 0
  <2>1. CASE TurnStatusPage(delta)
    BY <2>1 DEF TurnStatusPage
  <2>2. CASE TurnMenu(delta)
    BY <1>1, <1>2, <2>2 DEF TurnMenu
  <2>3. ASSUME NEW other \in Lists, NEW count, Turned(other, delta, count)
        PROVE  selectedIndex'[list] = 0
    <3>1. /\ currentScreen = other
          /\ selectedIndex' = [selectedIndex EXCEPT ![other] =
                                 Moved(selectedIndex[other], delta, count)]
      BY <2>3 DEF Turned
    <3> QED BY <1>2, <3>1
  <2> QED BY <1>1, <1>5, <2>1, <2>2, <2>3
          DEF Turn, TurnPreset, TurnSlots, TurnDetail, TurnSettingsMenu, TurnTest,
              TurnSavePrompt
<1>6. CASE AcknowledgeFinished \/ OpenMenu \/ DrawMenu
  BY <1>4, <1>6 DEF AcknowledgeFinished, OpenMenu, DrawMenu
<1>7. CASE PressMenu
  <2>1. \/ selectedIndex' = Synced \/ selectedIndex' = Reset("Menu")
        \/ selectedIndex' = [Synced EXCEPT !["UserProfileSlots"] = 0]
        \/ selectedIndex' = [Synced EXCEPT !["SettingsMenu"] = 0]
    BY <1>7 DEF PressMenu, CloseMenu, OpenFromMenu, OpenUserProfiles, OpenSettings,
                PauseOrResume, AskToStop
  <2>2. SyncMainMenuContext
    BY <1>7 DEF PressMenu
  <2> QED BY <1>1, <1>3, <1>4, <2>1, <2>2
<1>8. CASE PressSettingsMenu \/ LeavePreset \/ PressTest
  BY <1>1, <1>3, <1>8 DEF PressSettingsMenu, LeavePreset, PressTest
<1>9. CASE UNCHANGED selectedIndex
  BY <1>9
<1>10. CASE PressPreset \/ PressDetail \/ LeaveCalibration \/ AnswerReplaceRun
            \/ RunTick \/ DrawStatus \/ UNCHANGED vars
  BY <1>9, <1>10 DEF PressPreset, PressDetail, LeaveCalibration, AnswerReplaceRun,
                     RunTick, DrawStatus, vars
<1>11. CASE PressSavePrompt \/ PressManualProgram
  <2>1. \/ UNCHANGED selectedIndex
        \/ selectedIndex' = [selectedIndex EXCEPT !["SavePrompt"] = 1]
        \/ \E slot : selectedIndex' = [selectedIndex EXCEPT !["UserProfileSlots"] = slot]
    BY <1>11 DEF PressSavePrompt, PressManualProgram, OpenUserProfileSlots
  <2> QED BY <1>1, <1>2, <2>1
<1>12. CASE PressSlots \/ AnswerBinaryConfirm
  <2>1. UNCHANGED selectedIndex \/ selectedIndex' = Reset("UserProfileDetail")
    BY <1>12 DEF PressSlots, LeaveSlots, PressSlot, AnswerBinaryConfirm, AnswerOverwrite,
                 AnswerStop, AnswerDelete, AnswerNone, OpenUserProfileDetail
  <2> QED BY <1>1, <1>3, <2>1
<1> QED BY <1>5, <1>6, <1>7, <1>8, <1>10, <1>11, <1>12 DEF Next

\* Where a step leads: it stays on its screen and remembers all it did, goes to
\* another screen, asks whether the run may be replaced, or leaves a list behind.
LEMMA WhereItLeads ==
  ASSUME CursorsInRange, [Next]_vars
  PROVE  \/ UNCHANGED <<screenVars, leftByBack>>
         \/ \E screen : Goto(screen)
         \/ currentScreen' = "ConfirmReplaceRun" /\ UNCHANGED leftByBack
            /\ shown' = "None"
         \/ CloseMenu /\ currentScreen = "Menu" /\ shown' = "None"
         \/ LeavePreset
<1>1. ASSUME NEW screen, StartOrAsk(screen)
      PROVE  \/ \E other : Goto(other)
             \/ currentScreen' = "ConfirmReplaceRun" /\ UNCHANGED leftByBack
                /\ shown' = "None"
  BY <1>1 DEF StartOrAsk, Run
<1>2. ASSUME StartManualProfile
      PROVE  \/ \E other : Goto(other)
             \/ currentScreen' = "ConfirmReplaceRun" /\ UNCHANGED leftByBack
                /\ shown' = "None"
  BY <1>1, <1>2 DEF StartManualProfile, Refuse
<1>3. ASSUME NEW delta \in {-1, 1}, Turn(delta)
      PROVE  UNCHANGED <<screenVars, leftByBack>>
  BY <1>3 DEF Turn, TurnStatusPage, TurnMenu, Turned, TurnPreset, TurnSlots, TurnDetail,
              TurnSettingsMenu, TurnTest, TurnSavePrompt
<1>4. CASE DrawMenu \/ DrawStatus \/ RunTick \/ UNCHANGED vars
  BY <1>4 DEF DrawMenu, DrawStatus, RunTick, vars
<1>5. CASE AcknowledgeFinished \/ OpenMenu \/ LeaveCalibration \/ PressSettingsMenu
           \/ PressTest
  BY <1>5 DEF AcknowledgeFinished, OpenMenu, LeaveCalibration, PressSettingsMenu,
              PressTest, GotoOnly
<1>6. CASE PressMenu
  BY <1>6 DEF PressMenu, CloseMenu, OpenFromMenu, OpenUserProfiles, OpenSettings,
              PauseOrResume, AskToStop, GotoOnly
<1>7. CASE PressPreset \/ PressDetail
  BY <1>1, <1>7 DEF PressPreset, PressDetail, Refuse, GotoOnly
<1>8. CASE PressSavePrompt \/ PressManualProgram
  BY <1>2, <1>8 DEF PressSavePrompt, PressManualProgram, OpenUserProfileSlots, GotoOnly
<1>9. ASSUME NEW slot, SaveManualProfileToSlot(slot)
      PROVE  \/ \E other : Goto(other)
             \/ currentScreen' = "ConfirmReplaceRun" /\ UNCHANGED leftByBack
                /\ shown' = "None"
  BY <1>2, <1>9 DEF SaveManualProfileToSlot, GotoOnly
<1>10. CASE PressSlots
  BY <1>9, <1>10 DEF PressSlots, LeaveSlots, PressSlot, OpenUserProfileDetail, GotoOnly
<1>11. CASE AnswerBinaryConfirm
  BY <1>9, <1>11 DEF AnswerBinaryConfirm, AnswerOverwrite, AnswerStop, AnswerDelete,
                     AnswerNone, OpenUserProfileDetail, GotoOnly
<1>12. CASE AnswerReplaceRun
  BY <1>12 DEF AnswerReplaceRun, Run, GotoOnly
<1> QED BY <1>3, <1>4, <1>5, <1>6, <1>7, <1>8, <1>10, <1>11, <1>12 DEF Next

\* A list left by its Back entry is entered through Goto(), which forgets that.
LEMMA LeftAtFirstKept ==
  ASSUME LeftAtFirst, CursorsInRange, ScreenTypes, [Next]_vars
  PROVE  LeftAtFirst'
<1> USE DEF screenVars
<1>1. \A list \in leftByBack : selectedIndex'[list] = 0
  BY FirstEntryIsKept DEF LeftAtFirst, ScreenTypes
<1>2. CASE UNCHANGED <<screenVars, leftByBack>>
  BY <1>1, <1>2 DEF LeftAtFirst
<1>3. ASSUME NEW screen, Goto(screen) PROVE LeftAtFirst'
  BY <1>1, <1>3 DEF Goto, LeftAtFirst
<1>4. CASE currentScreen' = "ConfirmReplaceRun" /\ UNCHANGED leftByBack
  BY <1>1, <1>4 DEF LeftAtFirst, ScreenTypes
<1>5. CASE CloseMenu \/ LeavePreset
  <2>1. /\ selectedIndex \in [Lists -> Nat] /\ "Menu" \in Lists /\ "Preset" \in Lists
    BY DEF CursorsInRange, Lists, FixedLists
  <2>2. CASE CloseMenu
    BY <1>1, <2>1, <2>2 DEF CloseMenu, Reset, LeftAtFirst, ScreenTypes
  <2>3. CASE LeavePreset
    BY <1>1, <2>1, <2>3 DEF LeavePreset, Reset, LeftAtFirst, ScreenTypes
  <2> QED BY <1>5, <2>2, <2>3
<1> QED BY <1>2, <1>3, <1>4, <1>5, WhereItLeads

\* The test screen is left through its Back entry, which resets it.
LEMMA TestAtFirstKept ==
  ASSUME TestAtFirst, CursorsInRange, [Next]_vars
  PROVE  TestAtFirst'
<1>1. CASE currentScreen # "Test"
  BY <1>1, FirstEntryIsKept DEF TestAtFirst
<1>2. CASE currentScreen = "Test" /\ currentScreen' = "Test"
  BY <1>2 DEF TestAtFirst
<1>3. CASE currentScreen = "Test" /\ currentScreen' # "Test"
  <2>1. PressTest
    BY <1>3 DEF Next, Turn, TurnStatusPage, TurnMenu, Turned, TurnPreset, TurnSlots,
                TurnDetail, TurnSettingsMenu, TurnTest, TurnSavePrompt,
                AcknowledgeFinished, OpenMenu, PressMenu, PressSettingsMenu, LeavePreset,
                PressPreset, PressSavePrompt, PressSlots, PressDetail, LeaveCalibration,
                PressManualProgram, AnswerBinaryConfirm, AnswerReplaceRun, RunTick,
                DrawMenu, DrawStatus, screenVars, vars
  <2>2. selectedIndex' = [selectedIndex EXCEPT !["Test"] = 0]
    BY <1>3, <2>1 DEF PressTest, GotoOnly, Goto, Reset
  <2>3. selectedIndex \in [Lists -> Nat] /\ "Test" \in Lists
    BY DEF CursorsInRange, Lists, FixedLists
  <2> QED BY <2>2, <2>3 DEF TestAtFirst
<1> QED BY <1>1, <1>2, <1>3

\* Every input forgets what was drawn, unless it cannot change the menu.
LEMMA InputsForgetShown ==
  ASSUME CursorsInRange, [Next]_vars
  PROVE  \/ shown' = "None"
         \/ currentScreen # "Menu" /\ UNCHANGED shown
         \/ RunTick \/ DrawMenu \/ UNCHANGED vars
<1>1. ASSUME NEW delta \in {-1, 1}, Turn(delta)
      PROVE  shown' = "None" \/ (currentScreen # "Menu" /\ UNCHANGED shown)
  BY <1>1 DEF Turn, TurnStatusPage, TurnMenu, Turned, TurnPreset, TurnSlots, TurnDetail,
              TurnSettingsMenu, TurnTest, TurnSavePrompt
<1>2. CASE DrawStatus
  BY <1>2 DEF DrawStatus
<1>3. ASSUME NEW screen, Goto(screen) PROVE shown' = "None"
  BY <1>3 DEF Goto
<1>4. CASE LeavePreset
  BY <1>4 DEF LeavePreset
<1>5. ASSUME NEW screen, StartOrAsk(screen) PROVE shown' = "None"
  BY <1>3, <1>5 DEF StartOrAsk, Run
<1>6. ASSUME StartManualProfile \/ Refuse PROVE shown' = "None"
  BY <1>3, <1>5, <1>6 DEF StartManualProfile, Refuse
<1>7. ASSUME NEW screen, GotoOnly(screen) PROVE shown' = "None"
  BY <1>3, <1>7 DEF GotoOnly
<1>8. ASSUME NEW slot, SaveManualProfileToSlot(slot) PROVE shown' = "None"
  BY <1>3, <1>6, <1>7, <1>8 DEF SaveManualProfileToSlot
<1>9. CASE AcknowledgeFinished \/ OpenMenu \/ PressMenu \/ PressSettingsMenu \/ PressTest
           \/ LeaveCalibration \/ AnswerReplaceRun
  BY <1>3, <1>7, <1>9 DEF AcknowledgeFinished, OpenMenu, PressMenu, CloseMenu,
       OpenFromMenu, OpenUserProfiles, OpenSettings, PauseOrResume, AskToStop,
       PressSettingsMenu, PressTest, LeaveCalibration, AnswerReplaceRun, Run
<1>10. CASE PressPreset \/ PressDetail \/ PressSavePrompt \/ PressManualProgram
  BY <1>3, <1>5, <1>6, <1>7, <1>10 DEF PressPreset, PressDetail, PressSavePrompt,
       PressManualProgram, OpenUserProfileSlots
<1>11. CASE PressSlots \/ AnswerBinaryConfirm
  BY <1>3, <1>7, <1>8, <1>11 DEF PressSlots, LeaveSlots, PressSlot, AnswerBinaryConfirm,
       AnswerOverwrite, AnswerStop, AnswerDelete, AnswerNone, OpenUserProfileDetail
<1> QED BY <1>1, <1>2, <1>4, <1>9, <1>10, <1>11 DEF Next

\* What was drawn of the menu stays where it was, and the run loses at most its
\* pause while it cools down.
LEMMA ShownIsMarkedKept ==
  ASSUME ShownIsMarked, CursorsInRange, [Next]_vars
  PROVE  ShownIsMarked'
<1>1. CASE shown' = "None"
  BY <1>1 DEF ShownIsMarked
<1>2. CASE currentScreen # "Menu" /\ UNCHANGED shown
  BY <1>2 DEF ShownIsMarked
<1>3. CASE RunTick
  <2>1. UNCHANGED <<currentScreen, selectedIndex, context, shown>>
    BY <1>3 DEF RunTick, screenVars
  <2>2. CurrentContext' \subseteq CurrentContext
    BY <1>3 DEF RunTick, CurrentContext, HasStoppableProgram, HasPausableProgram,
                HasResumableProgram
  <2> QED BY <2>1, <2>2 DEF ShownIsMarked
<1>4. CASE DrawMenu
  <2>1. /\ currentScreen' = "Menu" /\ SyncMainMenuContext
        /\ selectedIndex' = Synced /\ shown' = SyncedItem /\ state' = state
    BY <1>4 DEF DrawMenu, screenVars, runVars
  <2>2. context' = CurrentContext /\ Synced["Menu"] = SyncedIndex
    BY <2>1, SyncedInRange
  <2>3. shown' = ItemAt(selectedIndex'["Menu"], context')
    BY <2>1, <2>2 DEF SyncedItem
  <2>4. CurrentContext' = CurrentContext
    BY <2>1 DEF CurrentContext, HasStoppableProgram, HasPausableProgram,
                HasResumableProgram
  <2> QED BY <2>1, <2>2, <2>3, <2>4 DEF ShownIsMarked
<1>5. CASE UNCHANGED vars
  BY <1>5 DEF vars, screenVars, runVars, ShownIsMarked, CurrentContext,
              HasStoppableProgram, HasPausableProgram, HasResumableProgram
<1> QED BY <1>1, <1>2, <1>3, <1>4, <1>5, InputsForgetShown

------------------------------------------------------------------------------
(* The invariant and the properties                                           *)

IInv ==
  /\ ScreenTypes /\ RunTypes /\ SlotTypes
  /\ CursorsInRange
  /\ DetailIsOfSlot
  /\ LeftAtFirst
  /\ TestAtFirst
  /\ ShownIsMarked

\* The status screen comes first, and every cursor is at an entry.
LEMMA InitIInv ==
  ASSUME Init
  PROVE  IInv
<1>1. CursorsInRange
  <2>1. \A list \in Lists : selectedIndex[list] \in {0, 1}
    BY DEF Init, Lists
  <2>2. selectedIndex \in [Lists -> Nat] /\ context \in SUBSET RunControls
        /\ occupied \in BOOLEAN
    BY DEF Init, Lists
  <2>3. \A list \in Lists : selectedIndex[list] < EntryCount(list)
    <3> SUFFICES ASSUME NEW list \in Lists PROVE selectedIndex[list] < EntryCount(list)
      OBVIOUS
    <3>1. CASE list = "SavePrompt"
      BY <2>1, <3>1 DEF EntryCount
    <3>2. CASE list # "SavePrompt"
      <4>1. selectedIndex[list] = 0
        BY <3>2 DEF Init, Lists
      <4>2. EntryCount(list) \in Nat \ {0}
        BY <2>2, ListsHaveEntries
      <4> QED BY <4>1, <4>2
    <3> QED BY <3>1, <3>2
  <2> QED BY <2>2, <2>3 DEF CursorsInRange
<1>2. ScreenTypes /\ RunTypes
  BY DEF Init, ScreenTypes, RunTypes, Screens
<1>3. SlotTypes
  BY CountsAssumption DEF Init, SlotTypes, Slots
<1>4. DetailIsOfSlot /\ LeftAtFirst /\ TestAtFirst /\ ShownIsMarked
  BY DEF Init, DetailIsOfSlot, LeftAtFirst, TestAtFirst, ShownIsMarked, FixedLists
<1> QED BY <1>1, <1>2, <1>3, <1>4 DEF IInv

\* The invariant of the screens.
THEOREM SpecIInv == Spec => []IInv
<1>1. Init => IInv
  BY InitIInv
<1>2. IInv /\ [Next]_vars => IInv'
  BY ScreenTypesKept, RunTypesKept, SlotTypesKept, NextMovesCursors, CursorStepKeeps,
     DetailIsOfSlotKept, LeftAtFirstKept, TestAtFirstKept, ShownIsMarkedKept DEF IInv
<1> QED BY <1>1, <1>2, PTL DEF Spec

\* The entry the cursor stands on is among those drawn, and the details drawn are
\* those the actions belong to.
THEOREM DisplayAgrees == Spec => []DisplayShowsSelection
<1>1. IInv => DisplayShowsSelection
  <2> SUFFICES ASSUME IInv PROVE DisplayShowsSelection
    OBVIOUS
  <2>1. ASSUME NEW list \in Lists PROVE selectedIndex[list] \in DrawnEntries(list)
    <3>1. /\ selectedIndex[list] \in Nat /\ selectedIndex[list] < EntryCount(list)
          /\ EntryCount(list) \in Nat
      BY ListsHaveEntries DEF IInv, CursorsInRange
    <3> DEFINE index == selectedIndex[list]
    <3>2. CASE list \in {"Menu", "SettingsMenu"}
      BY <3>1, <3>2 DEF DrawnEntries, MenuRows, Rows, ROWS, EntryCount, SettingsItems
    <3>3. CASE list = "Preset"
      BY <3>1, <3>3, CountsAssumption DEF DrawnEntries, PresetRow, EntryCount
    <3>4. CASE list = "UserProfileSlots"
      BY <3>1, <3>4, CountsAssumption DEF DrawnEntries, SlotRows, Rows, ROWS, EntryCount
    <3>5. CASE list = "Test"
      BY <3>1, <3>5 DEF DrawnEntries, TestRows, WindowStart, Rows, ROWS, EntryCount,
                        TestFields
    <3>6. CASE list \in {"UserProfileDetail", "SavePrompt"}
      BY <3>6 DEF DrawnEntries
    <3> QED BY <3>2, <3>3, <3>4, <3>5, <3>6 DEF Lists, FixedLists
  <2>2. currentScreen = "UserProfileDetail" => occupied = DetailDrawnOccupied
    BY DEF IInv, DetailIsOfSlot
  <2> QED BY <2>1, <2>2 DEF DisplayShowsSelection, Lists
<1> QED BY <1>1, SpecIInv, PTL

\* An entry pressed that is a run control is one the run has.
LEMMA PressedControlIsOffered ==
  ASSUME CursorsInRange, SyncMainMenuContext
  PROVE  SyncedItem \in RunControls => SyncedItem \in CurrentContext
<1>1. /\ context' = CurrentContext /\ context' \in SUBSET RunControls
      /\ SyncedIndex \in Nat /\ SyncedIndex < ItemCount(context')
  BY SyncedInRange
<1> HIDE DEF SyncedIndex
<1> QED BY <1>1, ControlsComeFirst DEF SyncedItem

\* If another entry was marked, another entry is pressed: the run controls that
\* the run has lost since have moved it up, but not among those it still has.
LEMMA LatePressFindsNoControl ==
  ASSUME CursorsInRange, ShownIsMarked, SyncMainMenuContext,
         shown \notin RunControls \cup {"None"}
  PROVE  SyncedItem \notin RunControls
<1> DEFINE i == selectedIndex["Menu"]
           c == CurrentContext
<1>1. /\ context' = c /\ c \in SUBSET RunControls /\ context \in SUBSET RunControls
      /\ c \subseteq context /\ shown = ItemAt(i, context)
  BY SyncedInRange DEF ShownIsMarked, CursorsInRange
<1>2. i \in Nat /\ i < ItemCount(context)
  BY DEF CursorsInRange, Lists, EntryCount
<1>3. i >= ControlCount(context)
  <2>1. ControlCount(context) \in Nat
    BY <1>1, MenuItems
  <2>2. ~(i < ControlCount(context))
    BY <1>1, <1>2, ControlsComeFirst
  <2> QED BY <1>2, <2>1, <2>2
<1>4. /\ ControlCount(c) \in Nat /\ ItemCount(c) = ControlCount(c) + 5
      /\ ControlCount(context) \in Nat
  BY <1>1, MenuItems
<1>5. ControlCount(c) <= ControlCount(context)
  BY <1>1 DEF ControlCount
<1> HIDE DEF i, c
<1>6. SyncedIndex = ClampSelection(i, c)
  BY <1>1 DEF SyncedIndex, i
<1>7. SyncedIndex \in Nat /\ SyncedIndex < ItemCount(c) /\ SyncedIndex >= ControlCount(c)
  BY <1>2, <1>3, <1>4, <1>5, <1>6 DEF ClampSelection
<1> HIDE DEF SyncedIndex
<1>8. ~(SyncedIndex < ControlCount(c))
  BY <1>4, <1>7
<1> QED BY <1>1, <1>7, <1>8, ControlsComeFirst DEF SyncedItem

\* A press on the menu acts, and on the run only if the user saw a run control.
THEOREM LatePressIsHarmless == Spec => LatePressSparesTheRun
<1> DEFINE Spares ==
             PressMenu =>
               /\ currentScreen' # "Menu"
               /\ shown \notin RunControls \cup {"None"} =>
                    UNCHANGED runVars /\ currentScreen' # "BinaryConfirm"
<1>1. ASSUME IInv, PressMenu
      PROVE  /\ currentScreen' # "Menu"
             /\ shown \notin RunControls \cup {"None"} =>
                  UNCHANGED runVars /\ currentScreen' # "BinaryConfirm"
  <2>1. CursorsInRange /\ ShownIsMarked /\ SyncMainMenuContext
    BY <1>1 DEF IInv, PressMenu
  <2>2. CASE PauseOrResume
    <3>1. SyncedItem \in {"Pauza", "Reluare"} /\ SyncedItem \in RunControls
      BY <2>2 DEF PauseOrResume, RunControls
    <3>2. SyncedItem \in CurrentContext
      BY <2>1, <3>1, PressedControlIsOffered
    <3>3. AfterRunControl # state
      BY <3>1, <3>2 DEF CurrentContext, HasPausableProgram, HasResumableProgram,
                        AfterRunControl
    <3>4. currentScreen' = "Status"
      BY <2>2, <3>3 DEF PauseOrResume, Goto
    <3>5. shown \in RunControls \cup {"None"}
      BY <2>1, <3>1, LatePressFindsNoControl
    <3> QED BY <3>4, <3>5
  <2>3. CASE AskToStop
    <3>1. SyncedItem \in RunControls /\ currentScreen' = "BinaryConfirm"
      BY <2>3 DEF AskToStop, RunControls, GotoOnly, Goto
    <3>2. shown \in RunControls \cup {"None"}
      BY <2>1, <3>1, LatePressFindsNoControl
    <3> QED BY <3>1, <3>2
  <2>4. CASE CloseMenu \/ OpenFromMenu \/ OpenUserProfiles \/ OpenSettings
    BY <2>4 DEF CloseMenu, OpenFromMenu, OpenUserProfiles, OpenSettings, GotoOnly, Goto
  <2> QED BY <1>1, <2>2, <2>3, <2>4 DEF PressMenu
<1>2. IInv /\ [Next]_vars => [Spares]_vars
  BY <1>1
<1> QED BY <1>2, SpecIInv, PTL DEF Spec, LatePressSparesTheRun

\* A turn on the status screen shows the neighbour of the page shown.
THEOREM PagesAreNeighbours == Spec => PagesTurnOneByOne
<1> DEFINE Neighbour(delta) ==
             \E i \in 1..Len(PagesOfRun) :
               /\ CurrentStatusPage = PagesOfRun[i]
               /\ CurrentStatusPage' =
                    PagesOfRun[IF i + delta \in 1..Len(PagesOfRun) THEN i + delta ELSE i]
<1>1. ASSUME RunTypes, NEW delta \in {-1, 1}, TurnStatusPage(delta)
      PROVE  Neighbour(delta)
  <2> DEFINE page == ClampedStatusPage
             next == Moved(page, delta, StatusPageCount)
  <2>1. /\ Len(PagesOfRun) = StatusPageCount /\ StatusPageCount \in 2..4
        /\ page \in 0..StatusPageCount - 1
    BY <1>1 DEF RunTypes, Modes, PagesOfRun, StatusPageCount, ClampedStatusPage
  <2>2. CurrentStatusPage = PagesOfRun[page + 1]
    BY <1>1, <2>1 DEF RunTypes, Modes, PagesOfRun, StatusPageCount, CurrentStatusPage
  <2>3. /\ next \in 0..StatusPageCount - 1
        /\ next + 1 = IF (page + 1) + delta \in 1..StatusPageCount
                      THEN (page + 1) + delta ELSE page + 1
    BY <2>1 DEF Moved
  <2>4. /\ statusPageIndex' = next /\ activeProfile' = activeProfile
        /\ StatusPageCount' = StatusPageCount /\ PagesOfRun' = PagesOfRun
    BY <1>1 DEF TurnStatusPage, runVars, StatusPageCount, PagesOfRun
  <2>5. ClampedStatusPage' = next
    BY <2>1, <2>3, <2>4 DEF ClampedStatusPage
  <2>6. CurrentStatusPage' = PagesOfRun[next + 1]
    <3> HIDE DEF next
    <3> QED BY <1>1, <2>1, <2>3, <2>4, <2>5
            DEF RunTypes, Modes, PagesOfRun, StatusPageCount, CurrentStatusPage
  <2> HIDE DEF page, next
  <2>7. page + 1 \in 1..Len(PagesOfRun)
    BY <2>1
  <2> QED BY <2>1, <2>2, <2>3, <2>6, <2>7
<1>2. IInv /\ [Next]_vars =>
        [\A delta \in {-1, 1} : TurnStatusPage(delta) => Neighbour(delta)]_vars
  BY <1>1 DEF IInv
<1> QED BY <1>2, SpecIInv, PTL DEF Spec, PagesTurnOneByOne

\* The handler of a screen is the one that leaves it.
LEMMA WhoLeaves ==
  ASSUME [Next]_vars, currentScreen' # currentScreen
  PROVE  /\ currentScreen = "Menu" => PressMenu
         /\ currentScreen = "ManualProgram" => PressManualProgram
         /\ currentScreen = "SavePrompt" => PressSavePrompt
         /\ currentScreen = "UserProfileSlots" => PressSlots
<1>1. ASSUME NEW delta \in {-1, 1}, Turn(delta) PROVE currentScreen' = currentScreen
  BY <1>1 DEF Turn, TurnStatusPage, TurnMenu, Turned, TurnPreset, TurnSlots, TurnDetail,
              TurnSettingsMenu, TurnTest, TurnSavePrompt, screenVars
<1>2. CASE RunTick \/ DrawMenu \/ DrawStatus \/ UNCHANGED vars
  BY <1>2 DEF RunTick, DrawMenu, DrawStatus, vars, screenVars
<1>3. CASE AcknowledgeFinished \/ OpenMenu \/ PressMenu \/ PressSettingsMenu
           \/ LeavePreset \/ PressPreset \/ PressTest \/ PressSavePrompt \/ PressSlots
           \/ PressDetail \/ LeaveCalibration \/ PressManualProgram
           \/ AnswerBinaryConfirm \/ AnswerReplaceRun
  BY <1>3 DEF AcknowledgeFinished, OpenMenu, PressMenu, PressSettingsMenu, LeavePreset,
              PressPreset, PressTest, PressSavePrompt, PressSlots, PressDetail,
              LeaveCalibration, PressManualProgram, AnswerBinaryConfirm, AnswerReplaceRun
<1> QED BY <1>1, <1>2, <1>3 DEF Next

\* Lists open at their first entry, but for those that remember where they were
\* and for the slot of a program.
THEOREM ListsOpenAtFirst == Spec => BackStartsAtFirst
<1> DEFINE First(list) ==
             \/ selectedIndex'[list] = 0
             \/ list \in {"Menu", "Preset"} \ leftByBack
             \/ /\ list = "UserProfileSlots" /\ userProfileSlotScreenPurpose' = "Save"
                /\ selectedIndex'[list] \in Slots
<1>1. ASSUME IInv, [Next]_vars, NEW list \in DOMAIN Above,
             currentScreen \in Above[list], currentScreen' = list
      PROVE  First(list)
  <2>1. /\ CursorsInRange /\ LeftAtFirst /\ TestAtFirst
        /\ selectedIndex \in [Lists -> Nat]
    BY <1>1 DEF IInv, CursorsInRange
  <2>2. {"Menu", "SettingsMenu", "Preset", "UserProfileSlots", "UserProfileDetail",
         "Test"} \subseteq Lists
    BY DEF Lists, FixedLists
  <2>3. /\ list \in {"Menu", "SettingsMenu", "Preset", "UserProfileSlots",
                     "UserProfileDetail", "Test"}
        /\ currentScreen # list
    BY <1>1 DEF Above
  <2>4. CASE list \in {"Menu", "Preset"}
    BY <1>1, <2>1, <2>4, FirstEntryIsKept DEF LeftAtFirst
  <2>5. CASE list = "Test"
    BY <1>1, <2>1, <2>3, <2>5, FirstEntryIsKept DEF TestAtFirst
  <2>6. CASE list = "SettingsMenu"
    <3>1. currentScreen = "Menu" /\ PressMenu
      BY <1>1, <2>3, <2>6, WhoLeaves DEF Above
    <3>2. OpenSettings
      BY <1>1, <2>6, <3>1 DEF PressMenu, CloseMenu, OpenFromMenu, OpenUserProfiles,
                              PauseOrResume, AskToStop, GotoOnly, Goto
    <3>3. Synced \in [Lists -> Nat]
      BY <2>1, <3>1, SyncedInRange DEF PressMenu
    <3> QED BY <2>2, <2>6, <3>2, <3>3 DEF OpenSettings
  <2>7. CASE list = "UserProfileSlots"
    <3>1. currentScreen \in {"Menu", "ManualProgram", "SavePrompt"}
      BY <1>1, <2>7 DEF Above
    <3>2. CASE currentScreen = "Menu"
      <4>1. PressMenu
        BY <1>1, <2>3, <3>2, WhoLeaves
      <4>2. OpenUserProfiles
        BY <1>1, <2>7, <4>1 DEF PressMenu, CloseMenu, OpenFromMenu, OpenSettings,
                                PauseOrResume, AskToStop, GotoOnly, Goto
      <4>3. Synced \in [Lists -> Nat]
        BY <2>1, <4>1, SyncedInRange DEF PressMenu
      <4> QED BY <2>2, <2>7, <4>2, <4>3 DEF OpenUserProfiles
    <3>3. CASE currentScreen \in {"ManualProgram", "SavePrompt"}
      <4>1. PressManualProgram \/ PressSavePrompt
        BY <1>1, <2>3, <3>3, WhoLeaves
      <4>2. PICK slot \in Slots : OpenUserProfileSlots("Save", slot)
        BY <1>1, <2>7, <3>3, <4>1
           DEF PressManualProgram, PressSavePrompt, StartManualProfile, StartOrAsk, Run,
               Refuse, GotoOnly, Goto, PreferredSlots
      <4> QED BY <2>1, <2>2, <2>7, <4>2 DEF OpenUserProfileSlots
    <3> QED BY <3>1, <3>2, <3>3
  <2>8. CASE list = "UserProfileDetail"
    <3>1. currentScreen = "UserProfileSlots" /\ PressSlots
      BY <1>1, <2>3, <2>8, WhoLeaves DEF Above
    <3>2. OpenUserProfileDetail(CurrentSlot, occupiedSlots)
      <4>1. CASE LeaveSlots
        BY <1>1, <2>8, <4>1 DEF LeaveSlots, GotoOnly, Goto
      <4>2. CASE SaveManualProfileToSlot(CurrentSlot)
        BY <1>1, <2>8, <3>1, <4>2 DEF SaveManualProfileToSlot, StartManualProfile,
                                     StartOrAsk, Run, Refuse, GotoOnly, Goto
      <4>3. CASE GotoOnly("BinaryConfirm")
        BY <1>1, <2>8, <4>3 DEF GotoOnly, Goto
      <4> QED BY <3>1, <4>1, <4>2, <4>3 DEF PressSlots, PressSlot
    <3> QED BY <2>1, <2>2, <2>8, <3>2 DEF OpenUserProfileDetail, Reset
  <2> QED BY <2>3, <2>4, <2>5, <2>6, <2>7, <2>8
<1>2. IInv /\ [Next]_vars =>
        [\A list \in DOMAIN Above :
           currentScreen \in Above[list] /\ currentScreen' = list => First(list)]_vars
  BY <1>1
<1> QED BY <1>2, SpecIInv, PTL DEF Spec, BackStartsAtFirst
=============================================================================
