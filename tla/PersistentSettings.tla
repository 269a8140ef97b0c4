------------------------- MODULE PersistentSettings -------------------------
(***************************************************************************)
(* What survives a power cut: the user profiles and the thermistor         *)
(* calibration in the EEPROM, the copies the firmware works with in RAM,   *)
(* and the calibration screen.                                             *)
(*                                                                         *)
(* A write of a record is one update() a step.  The firmware is single     *)
(* threaded: while a record is being written nothing else happens, except  *)
(* that the power may fail or the board may be reset.                      *)
(***************************************************************************)
EXTENDS UserProfileStore, NtcCalibrationStore

CONSTANTS
  DefaultCalibration,
  OFFSET_STEP_CENTI_C, MIN_OFFSET_CENTI_C, MAX_OFFSET_CENTI_C,
  SCALE_STEP_PPM, MIN_SCALE_PPM, MAX_SCALE_PPM,
  Profiles,             \* profiles the user saves
  Calibrating,          \* whether the calibration screen is used
  MAX_CRASHES,          \* bound: resets that interrupt a write
  MAX_WRITES            \* bound: records written

\* The calibration lies behind the profiles, and every value fits the integers
\* it is stored in.  The editor makes profiles of small numbers, with zero for
\* what their mode does not use: their checksum does not wrap around.
ASSUME PersistentSettingsAssumption ==
  /\ BASE_ADDRESS >= SLOT_COUNT * RECORD_SIZE
  /\ MAX_DURATION_MINUTES < 65280
  /\ \A p \in Profiles :
       /\ p \in ProfileConfig
       /\ \A t \in {p.targetTempC, p.lowTempC, p.highTempC} : 0 <= t /\ t < 32768
       /\ p.targetTempC + p.lowTempC + p.highTempC
            + p.durationMinutes + p.highPhaseMinutes + p.lowPhaseMinutes < 65532
  /\ DefaultCalibration \in StoredCalibration /\ NoCalibration \notin StoredCalibration
  /\ {OFFSET_STEP_CENTI_C, MIN_OFFSET_CENTI_C, MAX_OFFSET_CENTI_C,
       SCALE_STEP_PPM, MIN_SCALE_PPM, MAX_SCALE_PPM} \subseteq Int
  /\ -32768 <= MIN_OFFSET_CENTI_C /\ MAX_OFFSET_CENTI_C < 32768
  /\ 0 < MIN_SCALE_PPM /\ MAX_SCALE_PPM <= 2147483647

VARIABLES
  memory,
  queue,                \* update() calls the running save still has to make
  userProfileSlots, activeCalibration,    \* copies in RAM
  currentScreen,        \* "NtcCalibration" or "elsewhere"
  selectedIndex, editing, dirty, shown, saved,    \* ntcCalibrationController
  crashes, writes,
  cell, wanted, before, \* history: the running write, the record it replaces
  outcome,              \* history: how the last write ended
  content               \* history: what each record reads as

NTC == INSTANCE NtcCalibrationController

editor == <<selectedIndex, editing, dirty, shown, saved>>
copies == <<userProfileSlots, activeCalibration>>
history == <<cell, wanted, before, outcome, content>>
vars == <<memory, queue, copies, currentScreen, editor, crashes, writes, history>>

\* The records: one for each slot, and the calibration.
CalibrationCell == SLOT_COUNT
NoCell == SLOT_COUNT + 1
Cells == Slots \cup {CalibrationCell}

\* What a record reads as.
Read(mem, c) ==
  IF c \in Slots THEN LoadSlot(mem, c) ELSE LoadCalibration(mem)

Contents(mem) == [c \in Cells |-> Read(mem, c)]

RefreshedSlots == [slot \in Slots |-> LoadSlot(memory, slot)]

CalibrationOrDefault ==
  IF LoadCalibration(memory) = NoCalibration
    THEN DefaultCalibration ELSE LoadCalibration(memory)

\* What a record reads as that was cleared completely.
ClearedRecord ==
  [version |-> STORAGE_VERSION, occupied |-> 0, mode |-> 0,
   targetTempC |-> 0, lowTempC |-> 0, highTempC |-> 0, durationMinutes |-> 0,
   highPhaseMinutes |-> 0, lowPhaseMinutes |-> 0, checksum |-> STORAGE_VERSION]

Idle == cell = NoCell

\* setup() on the memory found.
Boot ==
  /\ userProfileSlots' = RefreshedSlots
  /\ activeCalibration' = CalibrationOrDefault
  /\ currentScreen' = "elsewhere"
  /\ selectedIndex' = 0 /\ editing' = FALSE /\ dirty' = FALSE
  /\ shown' = DefaultCalibration /\ saved' = DefaultCalibration

Init ==
  /\ memory = Erased
  /\ queue = <<>>
  /\ userProfileSlots = [slot \in Slots |-> NoProfile]
  /\ activeCalibration = DefaultCalibration
  /\ currentScreen = "elsewhere"
  /\ NTC!Init
  /\ crashes = 0 /\ writes = 0
  /\ cell = NoCell /\ wanted = NoProfile /\ before = NoProfile /\ outcome = "none"
  /\ content = Contents(memory)

------------------------------------------------------------------------------
\* The first instruction of a write that the store accepts.
Write(c, value, updates) ==
  /\ Idle /\ writes < MAX_WRITES
  /\ writes' = writes + 1
  /\ queue' = updates
  /\ cell' = c /\ wanted' = value
  /\ before' = IF c \in Slots THEN ReadRecord(memory, c) ELSE NoProfile
  /\ UNCHANGED <<memory, copies, currentScreen, editor, crashes,
                 outcome, content>>

SaveProfile(slot, p) ==
  /\ currentScreen = "elsewhere"
  /\ CanSave(p)
  /\ Write(slot, p, SaveUpdates(slot, p))

\* The menus offer the deletion of an occupied slot only.
ClearSlot(slot) ==
  /\ currentScreen = "elsewhere"
  /\ userProfileSlots[slot] # NoProfile
  /\ Write(slot, NoProfile, ClearUpdates(slot))

OpenCalibration ==
  /\ Idle /\ Calibrating
  /\ currentScreen = "elsewhere"
  /\ NTC!LoadFromCalibration(activeCalibration)
  /\ currentScreen' = "NtcCalibration"
  /\ UNCHANGED <<memory, queue, copies, crashes, writes, history>>

OnCalibrationScreen ==
  /\ Idle
  /\ currentScreen = "NtcCalibration"
  /\ UNCHANGED <<memory, queue, copies, crashes, writes, history>>

RotateCalibration ==
  /\ OnCalibrationScreen
  /\ \E delta \in {-1, 1} : NTC!OnRotate(delta)
  /\ UNCHANGED currentScreen

PressCalibration ==
  /\ OnCalibrationScreen
  /\ \/ (NTC!Toggle \/ NTC!Restore) /\ UNCHANGED currentScreen
     \/ NTC!Back /\ currentScreen' = "elsewhere"

SaveCalibration ==
  /\ currentScreen = "NtcCalibration"
  /\ NTC!SelectedField = "Save"
  /\ CanSaveCalibration(shown)
  /\ Write(CalibrationCell, shown, CalibrationUpdates(shown))

UpdateByte ==
  /\ queue # <<>>
  /\ memory' = [memory EXCEPT ![Head(queue).address] = Head(queue).value]
  /\ queue' = Tail(queue)
  /\ content' = Contents(memory')
  /\ UNCHANGED <<copies, currentScreen, editor, crashes, writes,
                 cell, wanted, before, outcome>>

\* The caller's work once the record is written; the slot directory is read
\* again from the storage, the calibration is taken from the editor.
Finished ==
  /\ ~Idle /\ queue = <<>>
  /\ cell' = NoCell /\ wanted' = NoProfile /\ before' = NoProfile
  /\ outcome' = "done"
  /\ UNCHANGED <<memory, content, queue, currentScreen, crashes, writes>>

FinishProfile ==
  /\ Finished
  /\ cell \in Slots
  /\ userProfileSlots' = RefreshedSlots
  /\ UNCHANGED <<activeCalibration, editor>>

FinishCalibration ==
  /\ Finished
  /\ cell = CalibrationCell
  /\ NTC!MarkSaved
  /\ activeCalibration' = shown
  /\ UNCHANGED userProfileSlots

\* Power failure or a reset of the board, at any moment.
Reset ==
  /\ Idle \/ crashes < MAX_CRASHES
  /\ crashes' = IF Idle THEN crashes ELSE crashes + 1
  /\ Boot
  /\ queue' = <<>>
  /\ cell' = NoCell /\ wanted' = NoProfile /\ before' = NoProfile
  /\ outcome' = "lost"
  /\ UNCHANGED <<memory, content, writes>>

Next ==
  \/ \E slot \in Slots, p \in Profiles : SaveProfile(slot, p)
  \/ \E slot \in Slots : ClearSlot(slot)
  \/ OpenCalibration \/ RotateCalibration \/ PressCalibration
  \/ SaveCalibration
  \/ UpdateByte \/ FinishProfile \/ FinishCalibration
  \/ Reset

Spec == Init /\ [][Next]_vars

------------------------------------------------------------------------------
(* Properties *)

Records == INSTANCE DurableRecords
  WITH writing <- cell

\* A completed save or delete is read back as what was written, and no write,
\* completed or cut short after any byte, changes what any other record reads
\* as: the records do not overlap, and what the two stores write they also
\* accept (REQ-PERSIST-013; recordAddress, BASE_ADDRESS, the byte layouts).
ImplementsDurableRecords == Records!Spec

\* REQ-PERSIST-015: whenever no write is running, the calibration that scales
\* every reading is the stored one, or the firmware's if none is stored; on
\* the calibration screen it is also what Back returns to, and the editor is
\* marked changed exactly while it shows something else.
CalibrationCopiesAgree ==
  Idle =>
    /\ activeCalibration = CalibrationOrDefault
    /\ currentScreen = "NtcCalibration" =>
         saved = activeCalibration /\ dirty = (shown # activeCalibration)

\* A delete cut short leaves the slot as it was or vacant, and a save cut
\* short in a slot that was cleared leaves it vacant or complete (order of the
\* fields in writeRecord, checksum written last).  In a slot that was never
\* written the last bytes of the record may be missing all the same: what is
\* executable has the mode, the temperatures and the duration saved.
InterruptedWriteIsSafe ==
  cell \in Slots =>
    LET now == LoadSlot(memory, cell)
    IN  /\ wanted = NoProfile => now \in {ToProfile(before), NoProfile}
        /\ before = ClearedRecord => now \in {wanted, NoProfile}
        /\ before.version # STORAGE_VERSION /\ now # NoProfile =>
             /\ now.mode = wanted.mode /\ now.targetTempC = wanted.targetTempC
             /\ now.lowTempC = wanted.lowTempC /\ now.highTempC = wanted.highTempC
             /\ now.durationMinutes = wanted.durationMinutes

\* docs/requirements.md REQ-PERSIST-012: invalid or corrupt records are
\* treated as vacant rather than executable.  What the menus offer to start
\* would then always be a profile somebody saved, never a mixture of two.
OnlySavedProfilesExecutable ==
  \A slot \in Slots : userProfileSlots[slot] \in Profiles \cup {NoProfile}
==============================================================================
