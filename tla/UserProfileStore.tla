-------------------------- MODULE UserProfileStore --------------------------
(***************************************************************************)
(* persistence/UserProfileStore.h: one record of 17 bytes for each user    *)
(* profile slot, with a version, an occupied flag and an additive checksum *)
(* written last.                                                           *)
(***************************************************************************)
EXTENDS ByteStorage, ProfileEngine

CONSTANTS
  SLOT_COUNT,
  NoProfile               \* what an unoccupied slot holds

ASSUME UserProfileStoreAssumption ==
  /\ SLOT_COUNT \in Nat \ {0}
  /\ NoProfile \notin ProfileConfig

Slots == 0..SLOT_COUNT - 1

STORAGE_VERSION == 1
RECORD_SIZE == 17

ProfilesAvailable == STORAGE_LENGTH >= SLOT_COUNT * RECORD_SIZE

\* Mutant: records overlap in their last byte.
RecordAddressShort(slot) == slot * (RECORD_SIZE - 1)

RecordAddress(slot) == slot * RECORD_SIZE

\* static_cast between ProfileMode and a byte; a byte no mode has is accepted
\* by no check.
ModeOrder == <<"Fixed", "Boost", "Fluctuating">>
ModeByte(mode) == (CHOOSE i \in 1..3 : ModeOrder[i] = mode) - 1
ByteMode(byte) == IF byte < 3 THEN ModeOrder[byte + 1] ELSE "Unknown"

Checksum(s) ==
  (s.version + s.occupied + s.mode
     + ToWord(s.targetTempC) + ToWord(s.lowTempC) + ToWord(s.highTempC)
     + s.durationMinutes + s.highPhaseMinutes + s.lowPhaseMinutes) % 65536

\* The StoredSlot of a slot with profile p, or of a cleared one.
Stored(occupied, p) ==
  [version |-> STORAGE_VERSION, occupied |-> occupied, mode |-> ModeByte(p.mode),
   targetTempC |-> p.targetTempC, lowTempC |-> p.lowTempC,
   highTempC |-> p.highTempC, durationMinutes |-> p.durationMinutes,
   highPhaseMinutes |-> p.highPhaseMinutes, lowPhaseMinutes |-> p.lowPhaseMinutes]

RecordBytes(s) ==
  <<s.version, s.occupied, s.mode>>
    \o WordBytes(s.targetTempC) \o WordBytes(s.lowTempC) \o WordBytes(s.highTempC)
    \o WordBytes(s.durationMinutes) \o WordBytes(s.highPhaseMinutes)
    \o WordBytes(s.lowPhaseMinutes) \o WordBytes(Checksum(s))

ReadRecord(memory, slot) ==
  LET at == RecordAddress(slot)
      word(offset) == ReadWord(memory, at + offset)
  IN  [version |-> memory[at], occupied |-> memory[at + 1],
       mode |-> memory[at + 2], targetTempC |-> Signed(word(3)),
       lowTempC |-> Signed(word(5)), highTempC |-> Signed(word(7)),
       durationMinutes |-> word(9), highPhaseMinutes |-> word(11),
       lowPhaseMinutes |-> word(13), checksum |-> word(15)]

ToProfile(s) ==
  [mode |-> ByteMode(s.mode), targetTempC |-> s.targetTempC,
   lowTempC |-> s.lowTempC, highTempC |-> s.highTempC,
   durationMinutes |-> s.durationMinutes,
   highPhaseMinutes |-> s.highPhaseMinutes, lowPhaseMinutes |-> s.lowPhaseMinutes]

\* Mutant: the checksum is not looked at.
IsStoredSlotValidUnsummed(s) ==
  /\ s.version = STORAGE_VERSION
  /\ s.occupied = 0 \/ IsValid(ToProfile(s))

IsStoredSlotValid(s) ==
  /\ s.version = STORAGE_VERSION
  /\ s.checksum = Checksum(s)
  /\ s.occupied = 0 \/ IsValid(ToProfile(s))

\* load(): the profile of an occupied valid record.
LoadSlot(memory, slot) ==
  LET s == ReadRecord(memory, slot)
  IN  IF ProfilesAvailable /\ IsStoredSlotValid(s) /\ s.occupied # 0
        THEN ToProfile(s) ELSE NoProfile

\* save() and clear(): whether they write, and what.
CanSave(p) == ProfilesAvailable /\ IsValid(p)
SaveUpdates(slot, p) == Updates(RecordAddress(slot), RecordBytes(Stored(1, p)))
ClearUpdates(slot) ==
  Updates(RecordAddress(slot), RecordBytes(Stored(0, EmptyProfile)))
==============================================================================
