------------------------- MODULE NtcCalibrationStore -------------------------
(***************************************************************************)
(* persistence/NtcCalibrationStore.h: the user's thermistor calibration,   *)
(* in a record of 9 bytes behind the user profiles.                        *)
(***************************************************************************)
EXTENDS ByteStorage

CONSTANTS
  BASE_ADDRESS,
  NoCalibration           \* load() found no valid record

ASSUME NtcCalibrationStoreAssumption == BASE_ADDRESS \in Nat

\* What fits the int16 and the int32 of the record and is a valid scale.
StoredCalibration ==
  {c \in [offsetCentiC : Int, scalePpm : Nat \ {0}] :
     -32768 <= c.offsetCentiC /\ c.offsetCentiC < 32768 /\ c.scalePpm <= 2147483647}

CALIBRATION_VERSION == 1

CalibrationAvailable == STORAGE_LENGTH >= BASE_ADDRESS + 9

CalibrationChecksum(version, c) ==
  (version + ToWord(c.offsetCentiC) + ToWord(c.scalePpm)
     + ToWord(c.scalePpm \div 65536)) % 65536

LoadCalibration(memory) ==
  LET c == [offsetCentiC |-> Signed(ReadWord(memory, BASE_ADDRESS + 1)),
            scalePpm     |-> ReadLong(memory, BASE_ADDRESS + 3)]
  IN  IF /\ CalibrationAvailable
         /\ memory[BASE_ADDRESS] = CALIBRATION_VERSION
         /\ c.scalePpm > 0
         /\ ReadWord(memory, BASE_ADDRESS + 7)
              = CalibrationChecksum(memory[BASE_ADDRESS], c)
        THEN c ELSE NoCalibration

CanSaveCalibration(c) == CalibrationAvailable /\ c.scalePpm > 0

CalibrationBytes(c) ==
  <<CALIBRATION_VERSION>>
    \o WordBytes(c.offsetCentiC) \o LongBytes(c.scalePpm)
    \o WordBytes(CalibrationChecksum(CALIBRATION_VERSION, c))

CalibrationUpdates(c) == Updates(BASE_ADDRESS, CalibrationBytes(c))
==============================================================================
