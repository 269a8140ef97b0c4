----------------------- MODULE PersistentSettings_proofs -----------------------
(***************************************************************************)
(* Proofs about the persistent storage, for every number of slots, every   *)
(* memory that is large enough or not, and all the profiles the editor     *)
(* makes.                                                                  *)
(*                                                                         *)
(* Three things are shown of the bytes: what is written can be read back   *)
(* (the conversions undo each other, for negative numbers too), a record   *)
(* is read from its own bytes only, and the bytes of two records are       *)
(* disjoint.  The invariant follows a write byte by byte.                  *)
(***************************************************************************)
EXTENDS PersistentSettings, SequenceTheorems, TLAPS

------------------------------------------------------------------------------
(* Words and their bytes                                                      *)

\* A word is made up of its two bytes.
LEMMA WordOfBytes ==
  ASSUME NEW word \in Word
  PROVE  /\ (word % 256) \in Byte /\ (word \div 256) \in Byte
         /\ (word % 256) + 256 * (word \div 256) = word
BY SMT DEF Word, Byte

\* Every integer has a word, and a word is its own.
LEMMA WordOfInteger ==
  /\ \A value \in Int : ToWord(value) \in Word
  /\ \A value \in Word : ToWord(value) = value
BY SMT DEF ToWord, Word

\* Storing a 16-bit number and reading it as signed gives the number.
LEMMA SignedOfWord ==
  ASSUME NEW value \in Int, -32768 <= value, value < 32768
  PROVE  Signed(ToWord(value)) = value
<1>1. CASE value >= 0
  BY <1>1, SMT DEF ToWord, Signed
<1>2. CASE value < 0
  <2>1. value % 65536 = value + 65536
    BY <1>2, SMT
  <2> QED BY <1>2, <2>1, SMT DEF ToWord, Signed
<1> QED BY <1>1, <1>2, SMT

\* A 32-bit number is made up of its lower word and its signed upper word.
LEMMA LongOfWords ==
  ASSUME NEW value \in Int, -2147483648 <= value, value <= 2147483647
  PROVE  /\ (value \div 65536) \in Int
         /\ -32768 <= value \div 65536 /\ value \div 65536 < 32768
         /\ (value % 65536) \in Word
         /\ (value % 65536) + 65536 * (value \div 65536) = value
BY SMT DEF Word

\* What a word read from a memory is, and what it is as a signed number.
LEMMA ReadWordType ==
  ASSUME NEW low \in Byte, NEW high \in Byte
  PROVE  /\ (low + 256 * high) \in Word
         /\ Signed(low + 256 * high) \in Int
         /\ -32768 <= Signed(low + 256 * high) /\ Signed(low + 256 * high) < 32768
BY SMT DEF Word, Byte, Signed

\* Where a word lies in a sequence of bytes, and in a memory.
WordAt(bytes, i, value) ==
  bytes[i] = ToWord(value) % 256 /\ bytes[i + 1] = ToWord(value) \div 256

\* A word is read where its bytes lie.
LEMMA WordReadBack ==
  ASSUME NEW mem, NEW at \in Int, NEW value \in Int, WordAt(mem, at, value)
  PROVE  ReadWord(mem, at) = ToWord(value)
BY WordOfInteger, WordOfBytes DEF WordAt, ReadWord

\* A 32-bit number is read where the bytes of its two words lie.
LEMMA LongReadBack ==
  ASSUME NEW mem, NEW at \in Int,
         NEW value \in Int, -2147483648 <= value, value <= 2147483647,
         WordAt(mem, at, value % 65536), WordAt(mem, at + 2, value \div 65536)
  PROVE  ReadLong(mem, at) = value
<1>1. /\ (value \div 65536) \in Int
      /\ -32768 <= value \div 65536 /\ value \div 65536 < 32768
      /\ (value % 65536) \in Word
      /\ (value % 65536) + 65536 * (value \div 65536) = value
  BY LongOfWords, SMT
<1>2. (value % 65536) \in Int
  BY <1>1, SMT DEF Word
<1>3. ReadWord(mem, at) = value % 65536
  BY <1>1, <1>2, WordReadBack, WordOfInteger, SMT
<1>4. Signed(ReadWord(mem, at + 2)) = value \div 65536
  <2>1. at + 2 \in Int
    BY SMT
  <2>2. ReadWord(mem, at + 2) = ToWord(value \div 65536)
    BY <1>1, <2>1, WordReadBack, SMT
  <2> QED BY <1>1, <2>2, SignedOfWord, SMT
<1> QED BY <1>1, <1>3, <1>4, SMT DEF ReadLong

\* Bytes to which a word is appended.
LEMMA WordAppended ==
  ASSUME NEW bytes \in Seq(Byte), NEW value \in Int
  PROVE  /\ bytes \o WordBytes(value) \in Seq(Byte)
         /\ Len(bytes \o WordBytes(value)) = Len(bytes) + 2
         /\ \A i \in 1..Len(bytes) : (bytes \o WordBytes(value))[i] = bytes[i]
         /\ WordAt(bytes \o WordBytes(value), Len(bytes) + 1, value)
<1> DEFINE w == WordBytes(value)
<1>1. ToWord(value) \in Word
  BY WordOfInteger
<1>2. (ToWord(value) % 256) \in Byte /\ (ToWord(value) \div 256) \in Byte
  BY <1>1, WordOfBytes
<1>3. w \in Seq(Byte) /\ Len(w) = 2
      /\ w[1] = ToWord(value) % 256 /\ w[2] = ToWord(value) \div 256
  BY <1>2 DEF WordBytes
<1> HIDE DEF w
<1>4. /\ bytes \o w \in Seq(Byte) /\ Len(bytes \o w) = Len(bytes) + Len(w)
      /\ \A i \in 1..(Len(bytes) + Len(w)) :
           (bytes \o w)[i] = IF i <= Len(bytes) THEN bytes[i] ELSE w[i - Len(bytes)]
  <2>1. w \in Seq(Byte)
    BY <1>3
  <2> QED BY <2>1, ConcatProperties
<1>5. Len(bytes) \in Nat
  OBVIOUS
<1>6. \A i \in 1..Len(bytes) : (bytes \o w)[i] = bytes[i]
  BY <1>3, <1>4, <1>5
<1>7. (bytes \o w)[Len(bytes) + 1] = w[1]
  <2>1. Len(bytes) + 1 \in 1..(Len(bytes) + Len(w)) /\ ~(Len(bytes) + 1 <= Len(bytes))
        /\ Len(bytes) + 1 - Len(bytes) = 1
    BY <1>3, <1>5
  <2> QED BY <1>4, <2>1
<1>8. (bytes \o w)[Len(bytes) + 1 + 1] = w[2]
  <2>1. Len(bytes) + 1 + 1 \in 1..(Len(bytes) + Len(w)) /\ ~(Len(bytes) + 1 + 1 <= Len(bytes))
        /\ Len(bytes) + 1 + 1 - Len(bytes) = 2
    BY <1>3, <1>5
  <2> QED BY <1>4, <2>1
<1> QED BY <1>3, <1>4, <1>6, <1>7, <1>8 DEF w, WordAt

\* Where the fields of a slot's record lie.
SlotLayout(bytes, s) ==
  /\ bytes[1] = s.version /\ bytes[2] = s.occupied /\ bytes[3] = s.mode
  /\ WordAt(bytes, 4, s.targetTempC) /\ WordAt(bytes, 6, s.lowTempC)
  /\ WordAt(bytes, 8, s.highTempC)
  /\ WordAt(bytes, 10, s.durationMinutes) /\ WordAt(bytes, 12, s.highPhaseMinutes)
  /\ WordAt(bytes, 14, s.lowPhaseMinutes)
  /\ WordAt(bytes, 16, Checksum(s))

\* What save() and clear() write.
SlotRecord ==
  [version : Byte, occupied : Byte, mode : Byte,
   targetTempC : Int, lowTempC : Int, highTempC : Int,
   durationMinutes : Int, highPhaseMinutes : Int, lowPhaseMinutes : Int]

\* The checksum of a record is a 16-bit word, whatever its fields hold.
LEMMA ChecksumIsWord ==
  ASSUME NEW s \in SlotRecord
  PROVE  Checksum(s) \in Word
<1>1. /\ s.version \in Int /\ s.occupied \in Int /\ s.mode \in Int
      /\ s.durationMinutes \in Int /\ s.highPhaseMinutes \in Int
      /\ s.lowPhaseMinutes \in Int
  BY DEF SlotRecord, Byte
<1>2. /\ ToWord(s.targetTempC) \in Int /\ ToWord(s.lowTempC) \in Int
      /\ ToWord(s.highTempC) \in Int
  BY WordOfInteger, SMT DEF SlotRecord, Word
<1> QED BY <1>1, <1>2, SMT DEF Checksum, Word

\* The 17 bytes of a slot's record.
LEMMA RecordLayout ==
  ASSUME NEW s \in SlotRecord
  PROVE  /\ RecordBytes(s) \in Seq(Byte) /\ Len(RecordBytes(s)) = 17
         /\ SlotLayout(RecordBytes(s), s)
<1> DEFINE b0 == <<s.version, s.occupied, s.mode>>
           b1 == b0 \o WordBytes(s.targetTempC)
           b2 == b1 \o WordBytes(s.lowTempC)
           b3 == b2 \o WordBytes(s.highTempC)
           b4 == b3 \o WordBytes(s.durationMinutes)
           b5 == b4 \o WordBytes(s.highPhaseMinutes)
           b6 == b5 \o WordBytes(s.lowPhaseMinutes)
           b7 == b6 \o WordBytes(Checksum(s))
<1> HIDE DEF b0, b1, b2, b3, b4, b5, b6, b7
<1>1. /\ s.version \in Byte /\ s.occupied \in Byte /\ s.mode \in Byte
      /\ s.targetTempC \in Int /\ s.lowTempC \in Int /\ s.highTempC \in Int
      /\ s.durationMinutes \in Int /\ s.highPhaseMinutes \in Int
      /\ s.lowPhaseMinutes \in Int
  BY DEF SlotRecord
<1>2. Checksum(s) \in Int
  BY ChecksumIsWord, SMT DEF Word
<1>3. b0 \in Seq(Byte) /\ Len(b0) = 3
      /\ b0[1] = s.version /\ b0[2] = s.occupied /\ b0[3] = s.mode
  BY <1>1 DEF b0
<1>4. /\ b1 \in Seq(Byte) /\ Len(b1) = 5
      /\ b1[1] = s.version /\ b1[2] = s.occupied /\ b1[3] = s.mode
      /\ WordAt(b1, 4, s.targetTempC)
  <2>1. /\ b1 \in Seq(Byte) /\ Len(b1) = Len(b0) + 2
        /\ \A i \in 1..Len(b0) : b1[i] = b0[i]
        /\ WordAt(b1, Len(b0) + 1, s.targetTempC)
    BY <1>1, <1>3, WordAppended DEF b1
  <2> QED BY <2>1, <1>3 DEF WordAt
<1>5. /\ b2 \in Seq(Byte) /\ Len(b2) = 7
      /\ b2[1] = s.version /\ b2[2] = s.occupied /\ b2[3] = s.mode
      /\ WordAt(b2, 4, s.targetTempC) /\ WordAt(b2, 6, s.lowTempC)
  <2>1. /\ b2 \in Seq(Byte) /\ Len(b2) = Len(b1) + 2
        /\ \A i \in 1..Len(b1) : b2[i] = b1[i]
        /\ WordAt(b2, Len(b1) + 1, s.lowTempC)
    BY <1>1, <1>4, WordAppended DEF b2
  <2> QED BY <2>1, <1>4 DEF WordAt
<1>6. /\ b3 \in Seq(Byte) /\ Len(b3) = 9
      /\ b3[1] = s.version /\ b3[2] = s.occupied /\ b3[3] = s.mode
      /\ WordAt(b3, 4, s.targetTempC) /\ WordAt(b3, 6, s.lowTempC)
      /\ WordAt(b3, 8, s.highTempC)
  <2>1. /\ b3 \in Seq(Byte) /\ Len(b3) = Len(b2) + 2
        /\ \A i \in 1..Len(b2) : b3[i] = b2[i]
        /\ WordAt(b3, Len(b2) + 1, s.highTempC)
    BY <1>1, <1>5, WordAppended DEF b3
  <2> QED BY <2>1, <1>5 DEF WordAt
<1>7. /\ b4 \in Seq(Byte) /\ Len(b4) = 11
      /\ b4[1] = s.version /\ b4[2] = s.occupied /\ b4[3] = s.mode
      /\ WordAt(b4, 4, s.targetTempC) /\ WordAt(b4, 6, s.lowTempC)
      /\ WordAt(b4, 8, s.highTempC) /\ WordAt(b4, 10, s.durationMinutes)
  <2>1. /\ b4 \in Seq(Byte) /\ Len(b4) = Len(b3) + 2
        /\ \A i \in 1..Len(b3) : b4[i] = b3[i]
        /\ WordAt(b4, Len(b3) + 1, s.durationMinutes)
    BY <1>1, <1>6, WordAppended DEF b4
  <2> QED BY <2>1, <1>6 DEF WordAt
<1>8. /\ b5 \in Seq(Byte) /\ Len(b5) = 13
      /\ b5[1] = s.version /\ b5[2] = s.occupied /\ b5[3] = s.mode
      /\ WordAt(b5, 4, s.targetTempC) /\ WordAt(b5, 6, s.lowTempC)
      /\ WordAt(b5, 8, s.highTempC) /\ WordAt(b5, 10, s.durationMinutes)
      /\ WordAt(b5, 12, s.highPhaseMinutes)
  <2>1. /\ b5 \in Seq(Byte) /\ Len(b5) = Len(b4) + 2
        /\ \A i \in 1..Len(b4) : b5[i] = b4[i]
        /\ WordAt(b5, Len(b4) + 1, s.highPhaseMinutes)
    BY <1>1, <1>7, WordAppended DEF b5
  <2> QED BY <2>1, <1>7 DEF WordAt
<1>9. /\ b6 \in Seq(Byte) /\ Len(b6) = 15
      /\ b6[1] = s.version /\ b6[2] = s.occupied /\ b6[3] = s.mode
      /\ WordAt(b6, 4, s.targetTempC) /\ WordAt(b6, 6, s.lowTempC)
      /\ WordAt(b6, 8, s.highTempC) /\ WordAt(b6, 10, s.durationMinutes)
      /\ WordAt(b6, 12, s.highPhaseMinutes) /\ WordAt(b6, 14, s.lowPhaseMinutes)
  <2>1. /\ b6 \in Seq(Byte) /\ Len(b6) = Len(b5) + 2
        /\ \A i \in 1..Len(b5) : b6[i] = b5[i]
        /\ WordAt(b6, Len(b5) + 1, s.lowPhaseMinutes)
    BY <1>1, <1>8, WordAppended DEF b6
  <2> QED BY <2>1, <1>8 DEF WordAt
<1>10. b7 \in Seq(Byte) /\ Len(b7) = 17 /\ SlotLayout(b7, s)
  <2>1. /\ b7 \in Seq(Byte) /\ Len(b7) = Len(b6) + 2
        /\ \A i \in 1..Len(b6) : b7[i] = b6[i]
        /\ WordAt(b7, Len(b6) + 1, Checksum(s))
    BY <1>2, <1>9, WordAppended DEF b7
  <2> QED BY <2>1, <1>9 DEF WordAt, SlotLayout
<1>11. b7 = RecordBytes(s)
  BY DEF RecordBytes, b0, b1, b2, b3, b4, b5, b6, b7
<1> QED BY <1>10, <1>11

\* Where the fields of the calibration's record lie.
CalibrationLayout(bytes, c) ==
  /\ bytes[1] = CALIBRATION_VERSION
  /\ WordAt(bytes, 2, c.offsetCentiC)
  /\ WordAt(bytes, 4, c.scalePpm % 65536) /\ WordAt(bytes, 6, c.scalePpm \div 65536)
  /\ WordAt(bytes, 8, CalibrationChecksum(CALIBRATION_VERSION, c))

\* So is the checksum of a calibration.
LEMMA CalibrationChecksumIsWord ==
  ASSUME NEW c \in StoredCalibration
  PROVE  CalibrationChecksum(CALIBRATION_VERSION, c) \in Word
<1>1. (c.scalePpm \div 65536) \in Int /\ c.offsetCentiC \in Int /\ c.scalePpm \in Int
  BY SMT DEF StoredCalibration
<1>2. /\ ToWord(c.offsetCentiC) \in Int /\ ToWord(c.scalePpm) \in Int
      /\ ToWord(c.scalePpm \div 65536) \in Int
  BY <1>1, WordOfInteger, SMT DEF Word
<1> QED BY <1>2, SMT DEF CalibrationChecksum, CALIBRATION_VERSION, Word

\* The 9 bytes of the calibration's record.
LEMMA CalibrationBytesLayout ==
  ASSUME NEW c \in StoredCalibration
  PROVE  /\ CalibrationBytes(c) \in Seq(Byte) /\ Len(CalibrationBytes(c)) = 9
         /\ CalibrationLayout(CalibrationBytes(c), c)
<1> DEFINE low == c.scalePpm % 65536
           high == c.scalePpm \div 65536
           sum == CalibrationChecksum(CALIBRATION_VERSION, c)
           b0 == <<CALIBRATION_VERSION>>
           b1 == b0 \o WordBytes(c.offsetCentiC)
           b2 == b1 \o WordBytes(low)
           b3 == b2 \o WordBytes(high)
           b4 == b3 \o WordBytes(sum)
<1>1. c.offsetCentiC \in Int /\ low \in Int /\ high \in Int
  BY SMT DEF StoredCalibration
<1>2. sum \in Int
  BY CalibrationChecksumIsWord, SMT DEF Word
<1> HIDE DEF low, high, sum, b0, b1, b2, b3, b4
<1>3. b0 \in Seq(Byte) /\ Len(b0) = 1 /\ b0[1] = CALIBRATION_VERSION
  BY DEF CALIBRATION_VERSION, Byte, b0
<1>4. /\ b1 \in Seq(Byte) /\ Len(b1) = 3
      /\ b1[1] = CALIBRATION_VERSION /\ WordAt(b1, 2, c.offsetCentiC)
  <2>1. /\ b1 \in Seq(Byte) /\ Len(b1) = Len(b0) + 2
        /\ \A i \in 1..Len(b0) : b1[i] = b0[i]
        /\ WordAt(b1, Len(b0) + 1, c.offsetCentiC)
    BY <1>1, <1>3, WordAppended DEF b1
  <2> QED BY <2>1, <1>3 DEF WordAt
<1>5. /\ b2 \in Seq(Byte) /\ Len(b2) = 5
      /\ b2[1] = CALIBRATION_VERSION /\ WordAt(b2, 2, c.offsetCentiC)
      /\ WordAt(b2, 4, low)
  <2>1. /\ b2 \in Seq(Byte) /\ Len(b2) = Len(b1) + 2
        /\ \A i \in 1..Len(b1) : b2[i] = b1[i]
        /\ WordAt(b2, Len(b1) + 1, low)
    BY <1>1, <1>4, WordAppended DEF b2
  <2> QED BY <2>1, <1>4 DEF WordAt
<1>6. /\ b3 \in Seq(Byte) /\ Len(b3) = 7
      /\ b3[1] = CALIBRATION_VERSION /\ WordAt(b3, 2, c.offsetCentiC)
      /\ WordAt(b3, 4, low) /\ WordAt(b3, 6, high)
  <2>1. /\ b3 \in Seq(Byte) /\ Len(b3) = Len(b2) + 2
        /\ \A i \in 1..Len(b2) : b3[i] = b2[i]
        /\ WordAt(b3, Len(b2) + 1, high)
    BY <1>1, <1>5, WordAppended DEF b3
  <2> QED BY <2>1, <1>5 DEF WordAt
<1>7. /\ b4 \in Seq(Byte) /\ Len(b4) = 9
      /\ b4[1] = CALIBRATION_VERSION /\ WordAt(b4, 2, c.offsetCentiC)
      /\ WordAt(b4, 4, low) /\ WordAt(b4, 6, high) /\ WordAt(b4, 8, sum)
  <2>1. /\ b4 \in Seq(Byte) /\ Len(b4) = Len(b3) + 2
        /\ \A i \in 1..Len(b3) : b4[i] = b3[i]
        /\ WordAt(b4, Len(b3) + 1, sum)
    BY <1>2, <1>6, WordAppended DEF b4
  <2> QED BY <2>1, <1>6 DEF WordAt
<1>8. b4 = CalibrationBytes(c)
  <2>1. WordBytes(low) \in Seq(Byte) /\ WordBytes(high) \in Seq(Byte)
    <3>1. <<>> \in Seq(Byte)
      OBVIOUS
    <3>2. \A value \in Int : <<>> \o WordBytes(value) \in Seq(Byte)
      BY <3>1, WordAppended
    <3> QED BY <1>1, <3>2 DEF WordBytes
  <2>2. b3 = b1 \o (WordBytes(low) \o WordBytes(high))
    <3>1. b1 \in Seq(Byte)
      BY <1>4
    <3>2. (b1 \o WordBytes(low)) \o WordBytes(high)
            = b1 \o (WordBytes(low) \o WordBytes(high))
      BY <2>1, <3>1, ConcatAssociative
    <3> QED BY <3>2 DEF b2, b3
  <2> QED BY <2>2, SMT DEF CalibrationBytes, LongBytes, b0, b1, b4, low, high, sum
<1> QED BY <1>7, <1>8 DEF CalibrationLayout, low, high, sum

------------------------------------------------------------------------------
(* What is written can be read back                                           *)

\* The bytes lie in the memory at an address.
Holds(mem, at, bytes) == \A i \in 1..Len(bytes) : mem[at + i - 1] = bytes[i]

\* The numbers of a record fit its words.
Fits(s) ==
  /\ s \in SlotRecord
  /\ \A t \in {s.targetTempC, s.lowTempC, s.highTempC} : -32768 <= t /\ t < 32768
  /\ {s.durationMinutes, s.highPhaseMinutes, s.lowPhaseMinutes} \subseteq Word

\* A slot's record starts at a cell of the memory and ends before the end of
\* the area of the slots.
LEMMA SlotAddress ==
  ASSUME NEW slot \in Slots
  PROVE  /\ slot \in Nat /\ RecordAddress(slot) \in Nat
         /\ RecordAddress(slot) + 17 <= SLOT_COUNT * 17
         /\ SLOT_COUNT * 17 \in Nat
BY UserProfileStoreAssumption, SMT DEF Slots, RecordAddress, RECORD_SIZE

\* A slot whose bytes are a record reads as that record, and its checksum fits.
LEMMA RecordReadBack ==
  ASSUME NEW mem, NEW slot \in Slots, NEW s, Fits(s),
         Holds(mem, RecordAddress(slot), RecordBytes(s))
  PROVE  LET r == ReadRecord(mem, slot)
         IN  /\ r.version = s.version /\ r.occupied = s.occupied /\ r.mode = s.mode
             /\ r.targetTempC = s.targetTempC /\ r.lowTempC = s.lowTempC
             /\ r.highTempC = s.highTempC /\ r.durationMinutes = s.durationMinutes
             /\ r.highPhaseMinutes = s.highPhaseMinutes
             /\ r.lowPhaseMinutes = s.lowPhaseMinutes
             /\ r.checksum = Checksum(s)
<1> DEFINE at == RecordAddress(slot)
           bytes == RecordBytes(s)
<1>1. at \in Nat
  BY SlotAddress
<1>2. Len(bytes) = 17 /\ SlotLayout(bytes, s) /\ s \in SlotRecord
  BY RecordLayout DEF Fits
<1> HIDE DEF at, bytes
<1>3. ASSUME NEW k \in 0..16 PROVE mem[at + k] = bytes[k + 1]
  <2>1. k + 1 \in 1..Len(bytes) /\ at + (k + 1) - 1 = at + k
    BY <1>1, <1>2
  <2>2. \A i \in 1..Len(bytes) : mem[at + i - 1] = bytes[i]
    BY DEF Holds, at, bytes
  <2>3. mem[at + (k + 1) - 1] = bytes[k + 1]
    BY <2>1, <2>2
  <2> QED BY <2>1, <2>3
<1>4. mem[at] = s.version /\ mem[at + 1] = s.occupied /\ mem[at + 2] = s.mode
  <2>1. mem[at + 0] = bytes[0 + 1] /\ mem[at + 1] = bytes[1 + 1]
        /\ mem[at + 2] = bytes[2 + 1]
    BY <1>3
  <2>2. at + 0 = at
    BY <1>1
  <2> QED BY <1>2, <2>1, <2>2 DEF SlotLayout
<1>5. ASSUME NEW k \in 0..15, NEW value \in Int, WordAt(bytes, k + 1, value)
      PROVE  ReadWord(mem, at + k) = ToWord(value)
  <2>1. /\ mem[at + k] = bytes[k + 1] /\ mem[at + (k + 1)] = bytes[(k + 1) + 1]
        /\ at + k \in Int /\ at + (k + 1) = (at + k) + 1
    BY <1>1, <1>3
  <2>2. WordAt(mem, at + k, value)
    BY <1>5, <2>1 DEF WordAt
  <2> QED BY <2>1, <2>2, WordReadBack
<1>6. /\ s.targetTempC \in Int /\ s.lowTempC \in Int /\ s.highTempC \in Int
      /\ s.durationMinutes \in Int /\ s.highPhaseMinutes \in Int
      /\ s.lowPhaseMinutes \in Int
  BY <1>2 DEF SlotRecord
<1>7. Checksum(s) \in Word /\ Checksum(s) \in Int
  BY <1>2, ChecksumIsWord, SMT DEF Word
<1>8. /\ WordAt(bytes, 3 + 1, s.targetTempC) /\ WordAt(bytes, 5 + 1, s.lowTempC)
      /\ WordAt(bytes, 7 + 1, s.highTempC) /\ WordAt(bytes, 9 + 1, s.durationMinutes)
      /\ WordAt(bytes, 11 + 1, s.highPhaseMinutes)
      /\ WordAt(bytes, 13 + 1, s.lowPhaseMinutes) /\ WordAt(bytes, 15 + 1, Checksum(s))
  BY <1>2 DEF SlotLayout
<1>9. /\ ReadWord(mem, at + 3) = ToWord(s.targetTempC)
      /\ ReadWord(mem, at + 5) = ToWord(s.lowTempC)
      /\ ReadWord(mem, at + 7) = ToWord(s.highTempC)
      /\ ReadWord(mem, at + 9) = ToWord(s.durationMinutes)
      /\ ReadWord(mem, at + 11) = ToWord(s.highPhaseMinutes)
      /\ ReadWord(mem, at + 13) = ToWord(s.lowPhaseMinutes)
      /\ ReadWord(mem, at + 15) = ToWord(Checksum(s))
  BY <1>5, <1>6, <1>7, <1>8
<1>10. /\ Signed(ToWord(s.targetTempC)) = s.targetTempC
       /\ Signed(ToWord(s.lowTempC)) = s.lowTempC
       /\ Signed(ToWord(s.highTempC)) = s.highTempC
  BY <1>6, SignedOfWord, SMT DEF Fits
<1>11. /\ ToWord(s.durationMinutes) = s.durationMinutes
       /\ ToWord(s.highPhaseMinutes) = s.highPhaseMinutes
       /\ ToWord(s.lowPhaseMinutes) = s.lowPhaseMinutes
       /\ ToWord(Checksum(s)) = Checksum(s)
  BY <1>7, WordOfInteger DEF Fits
<1> QED BY <1>4, <1>9, <1>10, <1>11 DEF ReadRecord, at

\* The byte a mode is stored as stands for that mode.
LEMMA ModeReadBack ==
  ASSUME NEW mode \in ProfileMode
  PROVE  /\ ModeByte(mode) \in 0..2 /\ ModeByte(mode) \in Byte
         /\ ByteMode(ModeByte(mode)) = mode
<1> DEFINE i == CHOOSE i \in 1..3 : ModeOrder[i] = mode
<1>1. \E j \in 1..3 : ModeOrder[j] = mode
  BY DEF ProfileMode, ModeOrder
<1>2. i \in 1..3 /\ ModeOrder[i] = mode
  BY <1>1
<1>3. ModeByte(mode) = i - 1
  BY DEF ModeByte
<1> HIDE DEF i
<1>4. i - 1 \in 0..2 /\ i - 1 \in Byte /\ i - 1 < 3 /\ (i - 1) + 1 = i
  BY <1>2 DEF Byte
<1> QED BY <1>2, <1>3, <1>4 DEF ByteMode

\* The profiles that are written, and the record each is written as.
Storable(p) ==
  /\ p \in ProfileConfig
  /\ \A t \in {p.targetTempC, p.lowTempC, p.highTempC} : 0 <= t /\ t < 32768
  /\ p.targetTempC + p.lowTempC + p.highTempC
       + p.durationMinutes + p.highPhaseMinutes + p.lowPhaseMinutes < 65532

\* Every profile the user may save fits its record, and so does the empty one.
LEMMA ProfilesAreStorable ==
  /\ \A p \in Profiles : Storable(p)
  /\ Storable(EmptyProfile)
<1>1. \A p \in Profiles : Storable(p)
  BY PersistentSettingsAssumption, SMT DEF Storable
<1>2. EmptyProfile \in ProfileConfig
  BY DEF EmptyProfile, ProfileConfig, ProfileMode
<1>3. /\ EmptyProfile.targetTempC = 0 /\ EmptyProfile.lowTempC = 0
      /\ EmptyProfile.highTempC = 0 /\ EmptyProfile.durationMinutes = 0
      /\ EmptyProfile.highPhaseMinutes = 0 /\ EmptyProfile.lowPhaseMinutes = 0
  BY DEF EmptyProfile
<1>4. Storable(EmptyProfile)
  BY <1>2, <1>3, SMT DEF Storable
<1> QED BY <1>1, <1>4

\* The fields save() and clear() fill in fit the record that stores them.
LEMMA StoredFits ==
  ASSUME NEW p, Storable(p), NEW occupied \in {0, 1}
  PROVE  Fits(Stored(occupied, p))
<1> DEFINE s == Stored(occupied, p)
<1>1. p.mode \in ProfileMode /\ p.targetTempC \in Int /\ p.lowTempC \in Int
      /\ p.highTempC \in Int /\ p.durationMinutes \in Nat
      /\ p.highPhaseMinutes \in Nat /\ p.lowPhaseMinutes \in Nat
  BY DEF Storable, ProfileConfig
<1>2. ModeByte(p.mode) \in Byte /\ STORAGE_VERSION \in Byte /\ occupied \in Byte
  <2>1. STORAGE_VERSION \in Byte /\ occupied \in Byte
    BY DEF STORAGE_VERSION, Byte
  <2> QED BY <1>1, <2>1, ModeReadBack
<1>3. s \in SlotRecord
  BY <1>1, <1>2 DEF Stored, SlotRecord
<1>4. /\ p.durationMinutes < 65536 /\ p.highPhaseMinutes < 65536
      /\ p.lowPhaseMinutes < 65536
  BY <1>1, SMT DEF Storable
<1>5. /\ s.targetTempC = p.targetTempC /\ s.lowTempC = p.lowTempC
      /\ s.highTempC = p.highTempC /\ s.durationMinutes = p.durationMinutes
      /\ s.highPhaseMinutes = p.highPhaseMinutes
      /\ s.lowPhaseMinutes = p.lowPhaseMinutes
  BY DEF Stored
<1> HIDE DEF s
<1>6. {s.durationMinutes, s.highPhaseMinutes, s.lowPhaseMinutes} \subseteq Word
  BY <1>1, <1>4, <1>5, SMT DEF Word
<1>7. \A t \in {s.targetTempC, s.lowTempC, s.highTempC} : -32768 <= t /\ t < 32768
  BY <1>1, <1>5, SMT DEF Storable
<1>8. Fits(s)
  BY <1>3, <1>6, <1>7 DEF Fits
<1> QED BY <1>8 DEF s

\* A saved profile is loaded again.
LEMMA SavedIsLoaded ==
  ASSUME NEW mem, NEW slot \in Slots, NEW p, Storable(p), IsValid(p),
         ProfilesAvailable,
         Holds(mem, RecordAddress(slot), RecordBytes(Stored(1, p)))
  PROVE  LoadSlot(mem, slot) = p
<1> DEFINE s == Stored(1, p)
           r == ReadRecord(mem, slot)
<1>1. Fits(s)
  BY StoredFits
<1>2. /\ r.version = s.version /\ r.occupied = s.occupied /\ r.mode = s.mode
      /\ r.targetTempC = s.targetTempC /\ r.lowTempC = s.lowTempC
      /\ r.highTempC = s.highTempC /\ r.durationMinutes = s.durationMinutes
      /\ r.highPhaseMinutes = s.highPhaseMinutes
      /\ r.lowPhaseMinutes = s.lowPhaseMinutes
      /\ r.checksum = Checksum(s)
  BY <1>1, RecordReadBack
<1>3. /\ s.version = STORAGE_VERSION /\ s.occupied = 1 /\ s.mode = ModeByte(p.mode)
      /\ s.targetTempC = p.targetTempC /\ s.lowTempC = p.lowTempC
      /\ s.highTempC = p.highTempC /\ s.durationMinutes = p.durationMinutes
      /\ s.highPhaseMinutes = p.highPhaseMinutes
      /\ s.lowPhaseMinutes = p.lowPhaseMinutes
  BY DEF Stored
<1> HIDE DEF s, r
<1>4. p \in ProfileConfig /\ ByteMode(ModeByte(p.mode)) = p.mode
  <2>1. p \in ProfileConfig
    BY DEF Storable
  <2>2. p.mode \in ProfileMode
    BY <2>1 DEF ProfileConfig
  <2> QED BY <2>1, <2>2, ModeReadBack
<1>5. ToProfile(r) = p
  <2>1. p = [mode |-> p.mode, targetTempC |-> p.targetTempC,
             lowTempC |-> p.lowTempC, highTempC |-> p.highTempC,
             durationMinutes |-> p.durationMinutes,
             highPhaseMinutes |-> p.highPhaseMinutes,
             lowPhaseMinutes |-> p.lowPhaseMinutes]
    BY <1>4 DEF ProfileConfig
  <2>2. ToProfile(r) = [mode |-> p.mode, targetTempC |-> p.targetTempC,
             lowTempC |-> p.lowTempC, highTempC |-> p.highTempC,
             durationMinutes |-> p.durationMinutes,
             highPhaseMinutes |-> p.highPhaseMinutes,
             lowPhaseMinutes |-> p.lowPhaseMinutes]
    BY <1>2, <1>3, <1>4 DEF ToProfile
  <2> QED BY <2>1, <2>2
<1>6. Checksum(r) = Checksum(s)
  BY <1>2 DEF Checksum
<1>7. IsStoredSlotValid(r) /\ r.occupied # 0
  BY <1>2, <1>3, <1>5, <1>6 DEF IsStoredSlotValid
<1> QED BY <1>5, <1>7 DEF LoadSlot, r

\* A cleared slot is vacant.
LEMMA ClearedIsVacant ==
  ASSUME NEW mem, NEW slot \in Slots,
         Holds(mem, RecordAddress(slot), RecordBytes(Stored(0, EmptyProfile)))
  PROVE  LoadSlot(mem, slot) = NoProfile
<1>1. Fits(Stored(0, EmptyProfile))
  BY StoredFits, ProfilesAreStorable
<1>2. ReadRecord(mem, slot).occupied = Stored(0, EmptyProfile).occupied
  BY <1>1, RecordReadBack
<1>3. Stored(0, EmptyProfile).occupied = 0
  BY DEF Stored
<1> QED BY <1>2, <1>3 DEF LoadSlot

\* A saved calibration is loaded again.
LEMMA CalibrationReadBack ==
  ASSUME NEW mem, NEW c \in StoredCalibration, CalibrationAvailable,
         Holds(mem, BASE_ADDRESS, CalibrationBytes(c))
  PROVE  LoadCalibration(mem) = c
<1> DEFINE bytes == CalibrationBytes(c)
           sum == CalibrationChecksum(CALIBRATION_VERSION, c)
           read == [offsetCentiC |-> Signed(ReadWord(mem, BASE_ADDRESS + 1)),
                    scalePpm     |-> ReadLong(mem, BASE_ADDRESS + 3)]
<1>1. BASE_ADDRESS \in Nat
  BY NtcCalibrationStoreAssumption
<1>2. Len(bytes) = 9 /\ CalibrationLayout(bytes, c)
  BY CalibrationBytesLayout
<1>3. /\ c.offsetCentiC \in Int /\ -32768 <= c.offsetCentiC /\ c.offsetCentiC < 32768
      /\ c.scalePpm \in Int /\ 0 < c.scalePpm /\ c.scalePpm <= 2147483647
  BY SMT DEF StoredCalibration
<1>4. sum \in Word /\ sum \in Int /\ ToWord(sum) = sum
  BY CalibrationChecksumIsWord, WordOfInteger, SMT DEF Word
<1> HIDE DEF bytes, sum, read
<1>5. ASSUME NEW k \in 0..8 PROVE mem[BASE_ADDRESS + k] = bytes[k + 1]
  <2>1. k + 1 \in 1..Len(bytes) /\ BASE_ADDRESS + (k + 1) - 1 = BASE_ADDRESS + k
    BY <1>1, <1>2
  <2>2. \A i \in 1..Len(bytes) : mem[BASE_ADDRESS + i - 1] = bytes[i]
    BY DEF Holds, bytes
  <2>3. mem[BASE_ADDRESS + (k + 1) - 1] = bytes[k + 1]
    BY <2>1, <2>2
  <2> QED BY <2>1, <2>3
<1>6. ASSUME NEW k \in 0..7, NEW value, WordAt(bytes, k + 1, value)
      PROVE  WordAt(mem, BASE_ADDRESS + k, value)
  <2>1. /\ mem[BASE_ADDRESS + k] = bytes[k + 1]
        /\ mem[BASE_ADDRESS + (k + 1)] = bytes[(k + 1) + 1]
        /\ BASE_ADDRESS + (k + 1) = (BASE_ADDRESS + k) + 1
    BY <1>1, <1>5
  <2> QED BY <1>6, <2>1 DEF WordAt
<1>7. mem[BASE_ADDRESS] = CALIBRATION_VERSION
  <2>1. mem[BASE_ADDRESS + 0] = bytes[0 + 1] /\ BASE_ADDRESS + 0 = BASE_ADDRESS
    BY <1>1, <1>5
  <2> QED BY <1>2, <2>1 DEF CalibrationLayout
<1>8. /\ WordAt(mem, BASE_ADDRESS + 1, c.offsetCentiC)
      /\ WordAt(mem, BASE_ADDRESS + 3, c.scalePpm % 65536)
      /\ WordAt(mem, (BASE_ADDRESS + 3) + 2, c.scalePpm \div 65536)
      /\ WordAt(mem, BASE_ADDRESS + 7, sum)
  <2>1. /\ WordAt(bytes, 1 + 1, c.offsetCentiC)
        /\ WordAt(bytes, 3 + 1, c.scalePpm % 65536)
        /\ WordAt(bytes, 5 + 1, c.scalePpm \div 65536)
        /\ WordAt(bytes, 7 + 1, sum)
    BY <1>2, SMT DEF CalibrationLayout, sum
  <2>2. (BASE_ADDRESS + 3) + 2 = BASE_ADDRESS + 5
    BY <1>1
  <2> QED BY <1>6, <2>1, <2>2, SMT
<1>9. read.offsetCentiC = c.offsetCentiC
  <2>1. BASE_ADDRESS + 1 \in Int
    BY <1>1
  <2>2. ReadWord(mem, BASE_ADDRESS + 1) = ToWord(c.offsetCentiC)
    BY <1>3, <1>8, <2>1, WordReadBack, SMT
  <2> QED BY <1>3, <2>2, SignedOfWord, SMT DEF read
<1>10. read.scalePpm = c.scalePpm
  <2>1. BASE_ADDRESS + 3 \in Int
    BY <1>1
  <2>2. ReadLong(mem, BASE_ADDRESS + 3) = c.scalePpm
    BY <1>3, <1>8, <2>1, LongReadBack, SMT
  <2> QED BY <2>2 DEF read
<1>11. read = c
  <2>1. c = [offsetCentiC |-> c.offsetCentiC, scalePpm |-> c.scalePpm]
    BY SMT DEF StoredCalibration
  <2>2. read = [offsetCentiC |-> c.offsetCentiC, scalePpm |-> c.scalePpm]
    BY <1>9, <1>10 DEF read
  <2> QED BY <2>1, <2>2
<1>12. ReadWord(mem, BASE_ADDRESS + 7) = CalibrationChecksum(CALIBRATION_VERSION, c)
  <2>1. BASE_ADDRESS + 7 \in Int
    BY <1>1
  <2>2. ReadWord(mem, BASE_ADDRESS + 7) = ToWord(sum)
    BY <1>4, <1>8, <2>1, WordReadBack
  <2> QED BY <1>4, <2>2 DEF sum
<1>13. c.scalePpm > 0
  BY <1>3, SMT
<1> QED BY <1>7, <1>11, <1>12, <1>13 DEF LoadCalibration, read

------------------------------------------------------------------------------
(* The inductive invariant                                                    *)

\* Where a record lies, how long it is, and whether the memory holds it.
CellAddress(c) == IF c \in Slots THEN RecordAddress(c) ELSE BASE_ADDRESS
CellSize(c) == IF c \in Slots THEN 17 ELSE 9
CellAvailable(c) == IF c \in Slots THEN ProfilesAvailable ELSE CalibrationAvailable

\* The bytes that the running write writes, and how many it has written.
RecordWanted == IF wanted = NoProfile THEN Stored(0, EmptyProfile) ELSE Stored(1, wanted)
BytesWanted ==
  IF cell \in Slots THEN RecordBytes(RecordWanted) ELSE CalibrationBytes(wanted)
Written == CellSize(cell) - Len(queue)

TypeOK ==
  /\ memory \in Memory
  /\ queue \in Seq([address : Int, value : Byte])
  /\ cell \in Cells \cup {NoCell}
  /\ {activeCalibration, shown, saved} \subseteq StoredCalibration
  /\ dirty \in BOOLEAN

\* Nothing waits to be written without a write; a write is of something its
\* store accepts.
WriteIsAccepted ==
  /\ Idle => queue = <<>>
  /\ ~Idle => CellAvailable(cell)
  /\ cell \in Slots /\ wanted # NoProfile => wanted \in Profiles /\ IsValid(wanted)
  /\ cell = CalibrationCell => wanted = shown /\ currentScreen = "NtcCalibration"

\* The calls still to be made write the rest of the record.
RestIsWaiting ==
  ~Idle =>
    /\ Len(queue) <= CellSize(cell)
    /\ \A i \in 1..Len(queue) :
         queue[i] = [address |-> CellAddress(cell) + Written + i - 1,
                     value   |-> BytesWanted[Written + i]]

\* The calls already made have written the beginning of the record.
BeginningIsWritten ==
  ~Idle => \A i \in 1..Written : memory[CellAddress(cell) + i - 1] = BytesWanted[i]

\* A record of which nothing but the version was written still reads as the
\* same profile; of a record that was cleared, or never written, the rest of
\* the bytes are known.
ClearedByte(i) == IF i \in {1, 16} THEN 1 ELSE 0

RestIsAsBefore ==
  cell \in Slots =>
    /\ Written <= 1 => ToProfile(ReadRecord(memory, cell)) = ToProfile(before)
    /\ \A i \in Written + 1..17 :
         /\ before = ClearedRecord =>
              memory[CellAddress(cell) + i - 1] = ClearedByte(i)
         /\ before.version # STORAGE_VERSION =>
              memory[CellAddress(cell) + i - 1] = 255

\* A slot without a version was never written: the version is written first.
VersionComesFirst ==
  ProfilesAvailable =>
    \A slot \in Slots :
      memory[RecordAddress(slot)] # STORAGE_VERSION =>
        \A k \in 0..16 : memory[RecordAddress(slot) + k] = 255

\* The copies in RAM and what they are copies of.
CopiesAgree ==
  /\ content = Contents(memory)
  /\ \A slot \in Slots : userProfileSlots[slot] # NoProfile => ProfilesAvailable
  /\ cell # CalibrationCell => activeCalibration = CalibrationOrDefault
  /\ currentScreen = "NtcCalibration" =>
       saved = activeCalibration /\ dirty = (shown # saved)

IInv ==
  /\ TypeOK
  /\ WriteIsAccepted /\ RestIsWaiting /\ BeginningIsWritten
  /\ RestIsAsBefore /\ VersionComesFirst
  /\ CopiesAgree

------------------------------------------------------------------------------
(* A record is read from its own bytes, and no two records share a byte       *)

\* The records are told apart.
LEMMA CellsDiffer ==
  /\ CalibrationCell \notin Slots /\ NoCell \notin Cells
  /\ NoCell \notin Slots /\ NoCell # CalibrationCell
BY UserProfileStoreAssumption DEF CalibrationCell, NoCell, Cells, Slots

\* Every record that is available lies in the memory.
LEMMA CellBounds ==
  ASSUME NEW c \in Cells
  PROVE  /\ CellAddress(c) \in Nat /\ CellSize(c) \in {9, 17}
         /\ c \in Slots => CellAddress(c) = RecordAddress(c) /\ CellSize(c) = 17
         /\ c \notin Slots => CellAddress(c) = BASE_ADDRESS /\ CellSize(c) = 9
         /\ CellAvailable(c) =>
              \A k \in 0..CellSize(c) - 1 : CellAddress(c) + k \in 0..STORAGE_LENGTH - 1
<1>1. CASE c \in Slots
  <2>1. /\ CellAddress(c) = RecordAddress(c) /\ CellSize(c) = 17
        /\ CellAvailable(c) => STORAGE_LENGTH >= SLOT_COUNT * 17
    BY <1>1 DEF CellAddress, CellSize, CellAvailable, ProfilesAvailable, RECORD_SIZE
  <2>2. /\ RecordAddress(c) \in Nat /\ SLOT_COUNT * 17 \in Nat
        /\ RecordAddress(c) + 17 <= SLOT_COUNT * 17
    BY <1>1, SlotAddress
  <2>3. STORAGE_LENGTH \in Nat
    BY ByteStorageAssumption
  <2>4. CellAvailable(c) => \A k \in 0..16 : RecordAddress(c) + k \in 0..STORAGE_LENGTH - 1
    BY <2>1, <2>2, <2>3, SMT
  <2> QED BY <1>1, <2>1, <2>2, <2>4
<1>2. CASE c \notin Slots
  <2>1. /\ CellAddress(c) = BASE_ADDRESS /\ CellSize(c) = 9
        /\ CellAvailable(c) => STORAGE_LENGTH >= BASE_ADDRESS + 9
    BY <1>2 DEF CellAddress, CellSize, CellAvailable, CalibrationAvailable
  <2>2. STORAGE_LENGTH \in Nat /\ BASE_ADDRESS \in Nat
    BY ByteStorageAssumption, NtcCalibrationStoreAssumption
  <2>3. CellAvailable(c) => \A k \in 0..8 : BASE_ADDRESS + k \in 0..STORAGE_LENGTH - 1
    BY <2>1, <2>2, SMT
  <2> QED BY <1>2, <2>1, <2>2, <2>3
<1> QED BY <1>1, <1>2

\* No byte belongs to two records.
LEMMA CellsAreDisjoint ==
  ASSUME NEW c \in Cells, NEW d \in Cells, c # d,
         NEW j \in 0..CellSize(c) - 1, NEW k \in 0..CellSize(d) - 1
  PROVE  CellAddress(c) + j # CellAddress(d) + k
<1>1. \A slot \in Slots :
        /\ slot \in Nat /\ RecordAddress(slot) = slot * 17
        /\ RecordAddress(slot) + 17 <= BASE_ADDRESS
  <2>1. BASE_ADDRESS >= SLOT_COUNT * 17 /\ BASE_ADDRESS \in Nat
    BY PersistentSettingsAssumption, NtcCalibrationStoreAssumption, SMT
       DEF RECORD_SIZE
  <2> QED BY <2>1, SlotAddress, SMT DEF RecordAddress, RECORD_SIZE
<1>2. BASE_ADDRESS \in Nat
  BY NtcCalibrationStoreAssumption
<1>3. /\ c \in Slots => CellAddress(c) = RecordAddress(c) /\ CellSize(c) = 17
      /\ c \notin Slots => CellAddress(c) = BASE_ADDRESS /\ CellSize(c) = 9
      /\ d \in Slots => CellAddress(d) = RecordAddress(d) /\ CellSize(d) = 17
      /\ d \notin Slots => CellAddress(d) = BASE_ADDRESS /\ CellSize(d) = 9
  BY CellBounds
<1>4. CASE c \in Slots /\ d \in Slots
  <2>1. /\ c \in Nat /\ d \in Nat /\ CellAddress(c) = c * 17 /\ CellAddress(d) = d * 17
        /\ j \in 0..16 /\ k \in 0..16
    BY <1>1, <1>3, <1>4, SMT
  <2> QED BY <2>1, SMT
<1>5. CASE c \in Slots /\ d \notin Slots
  BY <1>1, <1>2, <1>3, <1>5, SlotAddress, SMT
<1>6. CASE c \notin Slots /\ d \in Slots
  BY <1>1, <1>2, <1>3, <1>6, SlotAddress, SMT
<1>7. CASE c \notin Slots /\ d \notin Slots
  BY <1>7 DEF Cells
<1> QED BY <1>4, <1>5, <1>6, <1>7

\* What a record reads as depends on its own bytes only.
LEMMA ReadsItsOwnBytes ==
  ASSUME NEW mem, NEW other, NEW c \in Cells,
         CellAvailable(c) => \A k \in 0..CellSize(c) - 1 :
           mem[CellAddress(c) + k] = other[CellAddress(c) + k]
  PROVE  Read(mem, c) = Read(other, c)
<1>1. CASE ~CellAvailable(c)
  BY <1>1 DEF Read, CellAvailable, LoadSlot, LoadCalibration
<1>2. CASE CellAvailable(c) /\ c \in Slots
  <2> DEFINE at == RecordAddress(c)
  <2>1. at \in Nat /\ CellAddress(c) = at /\ CellSize(c) = 17
    BY <1>2, CellBounds
  <2> HIDE DEF at
  <2>2. \A k \in 0..16 : mem[at + k] = other[at + k]
    BY <1>2, <2>1
  <2>3. /\ mem[at] = other[at]
        /\ mem[at + 1] = other[at + 1] /\ mem[at + 2] = other[at + 2]
    <3>1. at + 0 = at
      BY <2>1
    <3>2. mem[at + 0] = other[at + 0]
      BY <2>2
    <3> QED BY <2>2, <3>1, <3>2
  <2>4. ASSUME NEW k \in 0..15 PROVE ReadWord(mem, at + k) = ReadWord(other, at + k)
    <3>1. mem[at + k] = other[at + k] /\ mem[at + (k + 1)] = other[at + (k + 1)]
      BY <2>2
    <3>2. at + (k + 1) = (at + k) + 1
      BY <2>1
    <3> QED BY <3>1, <3>2 DEF ReadWord
  <2>5. ReadRecord(mem, c) = ReadRecord(other, c)
    BY <2>3, <2>4 DEF ReadRecord, at
  <2> QED BY <1>2, <2>5 DEF Read, LoadSlot
<1>3. CASE CellAvailable(c) /\ c \notin Slots
  <2>1. BASE_ADDRESS \in Nat /\ CellAddress(c) = BASE_ADDRESS /\ CellSize(c) = 9
    BY <1>3, CellBounds
  <2>2. \A k \in 0..8 : mem[BASE_ADDRESS + k] = other[BASE_ADDRESS + k]
    BY <1>3, <2>1
  <2>3. mem[BASE_ADDRESS] = other[BASE_ADDRESS]
    <3>1. BASE_ADDRESS + 0 = BASE_ADDRESS
      BY <2>1
    <3>2. mem[BASE_ADDRESS + 0] = other[BASE_ADDRESS + 0]
      BY <2>2
    <3> QED BY <3>1, <3>2
  <2>4. ASSUME NEW k \in 0..7
        PROVE  ReadWord(mem, BASE_ADDRESS + k) = ReadWord(other, BASE_ADDRESS + k)
    <3>1. /\ mem[BASE_ADDRESS + k] = other[BASE_ADDRESS + k]
          /\ mem[BASE_ADDRESS + (k + 1)] = other[BASE_ADDRESS + (k + 1)]
      BY <2>2
    <3>2. BASE_ADDRESS + (k + 1) = (BASE_ADDRESS + k) + 1
      BY <2>1
    <3> QED BY <3>1, <3>2 DEF ReadWord
  <2>5. ReadLong(mem, BASE_ADDRESS + 3) = ReadLong(other, BASE_ADDRESS + 3)
    <3>1. (BASE_ADDRESS + 3) + 2 = BASE_ADDRESS + 5
      BY <2>1
    <3>2. /\ ReadWord(mem, BASE_ADDRESS + 3) = ReadWord(other, BASE_ADDRESS + 3)
          /\ ReadWord(mem, BASE_ADDRESS + 5) = ReadWord(other, BASE_ADDRESS + 5)
      BY <2>4
    <3> QED BY <3>1, <3>2, SMT DEF ReadLong
  <2>6. /\ ReadWord(mem, BASE_ADDRESS + 1) = ReadWord(other, BASE_ADDRESS + 1)
        /\ ReadWord(mem, BASE_ADDRESS + 7) = ReadWord(other, BASE_ADDRESS + 7)
    BY <2>4
  <2>7. LoadCalibration(mem) = LoadCalibration(other)
    BY <2>3, <2>5, <2>6, SMT DEF LoadCalibration
  <2> QED BY <1>3, <2>7 DEF Read
<1> QED BY <1>1, <1>2, <1>3

------------------------------------------------------------------------------
(* The beginning: nothing was ever written                                    *)

\* Every address of an available record holds a byte.
LEMMA CellHoldsBytes ==
  ASSUME NEW mem \in Memory, NEW c \in Cells, CellAvailable(c)
  PROVE  \A k \in 0..CellSize(c) - 1 : mem[CellAddress(c) + k] \in Byte
BY CellBounds DEF Memory

\* Setup finds the memory as delivered, which holds no record.
LEMMA InitIInv == Init => IInv
<1> SUFFICES ASSUME Init PROVE IInv
  OBVIOUS
<1>1. /\ memory = Erased /\ queue = <<>> /\ activeCalibration = DefaultCalibration
      /\ currentScreen = "elsewhere" /\ cell = NoCell
      /\ shown = DefaultCalibration /\ saved = DefaultCalibration /\ dirty = FALSE
      /\ userProfileSlots = [slot \in Slots |-> NoProfile]
      /\ content = Contents(memory)
  BY DEF Init, NTC!Init
<1>2. DefaultCalibration \in StoredCalibration
  BY PersistentSettingsAssumption, SMT
<1>3. \A c \in Cells : CellAvailable(c) =>
        \A k \in 0..CellSize(c) - 1 : memory[CellAddress(c) + k] = 255
  BY <1>1, CellBounds DEF Erased
<1>4. TypeOK
  <2>1. Erased \in Memory
    BY DEF Erased, Memory, Byte
  <2>2. <<>> \in Seq([address : Int, value : Byte])
    OBVIOUS
  <2> QED BY <1>1, <1>2, <2>1, <2>2 DEF TypeOK
<1>5. WriteIsAccepted /\ RestIsWaiting /\ BeginningIsWritten /\ RestIsAsBefore
  BY <1>1, CellsDiffer
     DEF WriteIsAccepted, RestIsWaiting, BeginningIsWritten, RestIsAsBefore, Idle
<1>6. VersionComesFirst
  <2>1. SUFFICES ASSUME ProfilesAvailable, NEW slot \in Slots, NEW k \in 0..16
                 PROVE  memory[RecordAddress(slot) + k] = 255
    BY DEF VersionComesFirst
  <2>2. slot \in Cells /\ CellAvailable(slot)
    BY <2>1 DEF Cells, CellAvailable
  <2>3. CellAddress(slot) = RecordAddress(slot) /\ CellSize(slot) = 17
    BY <2>2, CellBounds
  <2> QED BY <1>3, <2>2, <2>3
<1>7. CopiesAgree
  <2>1. LoadCalibration(memory) = NoCalibration
    <3>1. CASE ~CalibrationAvailable
      BY <3>1 DEF LoadCalibration
    <3>2. CASE CalibrationAvailable
      <4>1. CalibrationCell \in Cells /\ CellAvailable(CalibrationCell)
            /\ CalibrationCell \notin Slots
        BY <3>2, CellsDiffer DEF Cells, CellAvailable
      <4>2. CellAddress(CalibrationCell) = BASE_ADDRESS /\ CellSize(CalibrationCell) = 9
        BY <4>1, CellBounds
      <4>3. memory[BASE_ADDRESS + 0] = 255
        BY <1>3, <4>1, <4>2
      <4>4. BASE_ADDRESS + 0 = BASE_ADDRESS
        BY NtcCalibrationStoreAssumption
      <4>5. memory[BASE_ADDRESS] # CALIBRATION_VERSION
        BY <4>3, <4>4 DEF CALIBRATION_VERSION
      <4> QED BY <4>5 DEF LoadCalibration
    <3> QED BY <3>1, <3>2
  <2>2. activeCalibration = CalibrationOrDefault
    BY <1>1, <2>1 DEF CalibrationOrDefault
  <2> QED BY <1>1, <2>2 DEF CopiesAgree
<1> QED BY <1>4, <1>5, <1>6, <1>7 DEF IInv

------------------------------------------------------------------------------
(* A write begins                                                             *)

\* What bytes a record consists of that reads as cleared.
LEMMA BytesOfZero ==
  ASSUME NEW low \in Byte, NEW high \in Byte
  PROVE  /\ Signed(low + 256 * high) = 0 => low = 0 /\ high = 0
         /\ low + 256 * high = 0 => low = 0 /\ high = 0
         /\ low + 256 * high = 1 => low = 1 /\ high = 0
BY SMT DEF Byte, Signed

\* A slot that reads as cleared has only zeros beyond its version, but for the
\* checksum, which equals the version.
LEMMA ClearedBytes ==
  ASSUME NEW mem \in Memory, NEW slot \in Slots, ProfilesAvailable,
         ReadRecord(mem, slot) = ClearedRecord
  PROVE  \A i \in 1..17 : mem[RecordAddress(slot) + i - 1] = ClearedByte(i)
<1> DEFINE at == RecordAddress(slot)
           r == ReadRecord(mem, slot)
<1>1. at \in Nat
  BY SlotAddress
<1>2. \A k \in 0..16 : mem[at + k] \in Byte
  <2>1. slot \in Cells /\ CellAvailable(slot)
    BY DEF Cells, CellAvailable
  <2>2. CellAddress(slot) = at /\ CellSize(slot) = 17
    BY <2>1, CellBounds
  <2> HIDE DEF at
  <2> QED BY <2>1, <2>2, CellHoldsBytes
<1>3. /\ r.version = mem[at] /\ r.occupied = mem[at + 1] /\ r.mode = mem[at + 2]
      /\ r.targetTempC = Signed(ReadWord(mem, at + 3))
      /\ r.lowTempC = Signed(ReadWord(mem, at + 5))
      /\ r.highTempC = Signed(ReadWord(mem, at + 7))
      /\ r.durationMinutes = ReadWord(mem, at + 9)
      /\ r.highPhaseMinutes = ReadWord(mem, at + 11)
      /\ r.lowPhaseMinutes = ReadWord(mem, at + 13)
      /\ r.checksum = ReadWord(mem, at + 15)
  BY DEF ReadRecord
<1>4. /\ r.version = 1 /\ r.occupied = 0 /\ r.mode = 0
      /\ r.targetTempC = 0 /\ r.lowTempC = 0 /\ r.highTempC = 0
      /\ r.durationMinutes = 0 /\ r.highPhaseMinutes = 0 /\ r.lowPhaseMinutes = 0
      /\ r.checksum = 1
  BY DEF ClearedRecord, STORAGE_VERSION
<1> HIDE DEF at, r
<1>5. ASSUME NEW k \in 0..15
      PROVE  /\ ReadWord(mem, at + k) = mem[at + k] + 256 * mem[at + (k + 1)]
             /\ mem[at + k] \in Byte /\ mem[at + (k + 1)] \in Byte
  <2>1. (at + k) + 1 = at + (k + 1)
    BY <1>1
  <2> QED BY <1>2, <2>1 DEF ReadWord
<1>6. ASSUME NEW k \in 0..15, \/ Signed(ReadWord(mem, at + k)) = 0
                              \/ ReadWord(mem, at + k) = 0
      PROVE  mem[at + k] = 0 /\ mem[at + (k + 1)] = 0
  BY <1>5, <1>6, BytesOfZero
<1>7. ASSUME NEW k \in 0..15, ReadWord(mem, at + k) = 1
      PROVE  mem[at + k] = 1 /\ mem[at + (k + 1)] = 0
  BY <1>5, <1>7, BytesOfZero
<1>8. /\ mem[at] = 1 /\ mem[at + 1] = 0 /\ mem[at + 2] = 0
      /\ mem[at + 3] = 0 /\ mem[at + (3 + 1)] = 0
      /\ mem[at + 5] = 0 /\ mem[at + (5 + 1)] = 0
      /\ mem[at + 7] = 0 /\ mem[at + (7 + 1)] = 0
      /\ mem[at + 9] = 0 /\ mem[at + (9 + 1)] = 0
      /\ mem[at + 11] = 0 /\ mem[at + (11 + 1)] = 0
      /\ mem[at + 13] = 0 /\ mem[at + (13 + 1)] = 0
      /\ mem[at + 15] = 1 /\ mem[at + (15 + 1)] = 0
  BY <1>3, <1>4, <1>6, <1>7
<1>9. ASSUME NEW i \in 1..17 PROVE mem[at + i - 1] = ClearedByte(i)
  <2>1. at + i - 1 = at + (i - 1) /\ at + 0 = at
    BY <1>1
  <2>2. i - 1 \in 0..16
    OBVIOUS
  <2>3. \A k \in 0..16 : mem[at + k] = IF k \in {0, 15} THEN 1 ELSE 0
    <3> TAKE k \in 0..16
    <3>1. k \in {0, 1, 2, 3, 4, 5, 6, 7, 8, 9, 10, 11, 12, 13, 14, 15, 16}
      OBVIOUS
    <3> QED BY <1>8, <2>1, <3>1
  <2>4. mem[at + (i - 1)] = IF i - 1 \in {0, 15} THEN 1 ELSE 0
    BY <2>2, <2>3
  <2>5. i - 1 \in {0, 15} <=> i \in {1, 16}
    BY <2>2
  <2> QED BY <2>1, <2>4, <2>5 DEF ClearedByte
<1> QED BY <1>9 DEF at

\* A write begins: the whole record waits, and what the slot held is known.
LEMMA WriteBegins ==
  ASSUME IInv, NEW c \in Cells, CellAvailable(c), NEW value, NEW bytes \in Seq(Byte),
         Len(bytes) = CellSize(c),
         c \in Slots => bytes = RecordBytes(IF value = NoProfile
                                              THEN Stored(0, EmptyProfile)
                                              ELSE Stored(1, value)),
         c \in Slots /\ value # NoProfile => value \in Profiles /\ IsValid(value),
         c \notin Slots => /\ bytes = CalibrationBytes(value) /\ value = shown
                           /\ currentScreen = "NtcCalibration",
         Write(c, value, Updates(CellAddress(c), bytes))
  PROVE  IInv'
<1> DEFINE updates == Updates(CellAddress(c), bytes)
<1>1. /\ cell = NoCell /\ queue' = updates /\ cell' = c /\ wanted' = value
      /\ before' = IF c \in Slots THEN ReadRecord(memory, c) ELSE NoProfile
      /\ memory' = memory /\ userProfileSlots' = userProfileSlots
      /\ activeCalibration' = activeCalibration /\ currentScreen' = currentScreen
      /\ dirty' = dirty /\ shown' = shown /\ saved' = saved /\ content' = content
  BY DEF Write, Idle, copies, editor
<1>2. CellAddress(c) \in Nat /\ CellSize(c) \in Nat
  BY CellBounds
<1>3. /\ updates \in Seq([address : Int, value : Byte]) /\ Len(updates) = CellSize(c)
      /\ \A i \in 1..CellSize(c) :
           updates[i] = [address |-> CellAddress(c) + i - 1, value |-> bytes[i]]
  <2>1. \A i \in 1..Len(bytes) : bytes[i] \in Byte /\ CellAddress(c) + i - 1 \in Int
    BY <1>2
  <2>2. updates = [i \in 1..Len(bytes) |->
                     [address |-> CellAddress(c) + i - 1, value |-> bytes[i]]]
    BY DEF Updates
  <2>3. Len(bytes) \in Nat
    OBVIOUS
  <2> HIDE DEF updates
  <2>4. \A i \in 1..Len(bytes) :
          [address |-> CellAddress(c) + i - 1, value |-> bytes[i]]
            \in [address : Int, value : Byte]
    BY <2>1
  <2>5. updates \in Seq([address : Int, value : Byte]) /\ Len(updates) = Len(bytes)
    <3> DEFINE n == Len(bytes)
               Call == [address : Int, value : Byte]
    <3>1. updates \in [1..n -> Call]
      BY <2>2, <2>4
    <3>2. n \in Nat
      BY <2>3
    <3> HIDE DEF n, Call
    <3>3. updates \in Seq(Call) /\ Len(updates) = n
      BY <3>1, <3>2
    <3> QED BY <3>3 DEF n, Call
  <2> QED BY <2>2, <2>5
<1> HIDE DEF updates
<1>4. Written' = 0
  BY <1>1, <1>2, <1>3 DEF Written
<1>5. BytesWanted' = bytes
  BY <1>1 DEF BytesWanted, RecordWanted
<1>6. c # NoCell /\ (c \notin Slots <=> c = CalibrationCell)
  BY CellsDiffer DEF Cells
<1>7. TypeOK'
  BY <1>1, <1>3 DEF IInv, TypeOK
<1>8. WriteIsAccepted'
  <2>1. ~Idle'
    BY <1>1, <1>6 DEF Idle
  <2>2. CellAvailable(cell)'
    BY <1>1 DEF CellAvailable
  <2> QED BY <1>1, <1>6, <2>1, <2>2 DEF WriteIsAccepted
<1>9. RestIsWaiting'
  <2>1. SUFFICES /\ Len(queue') <= CellSize(c)
                 /\ \A i \in 1..Len(queue') :
                      queue'[i] = [address |-> CellAddress(c) + 0 + i - 1,
                                   value   |-> bytes[0 + i]]
    BY <1>1, <1>4, <1>5 DEF RestIsWaiting, CellAddress, CellSize
  <2>2. \A i \in 1..CellSize(c) :
          CellAddress(c) + 0 + i - 1 = CellAddress(c) + i - 1 /\ 0 + i = i
    BY <1>2
  <2> QED BY <1>1, <1>2, <1>3, <2>2
<1>10. BeginningIsWritten'
  BY <1>4 DEF BeginningIsWritten
<1>11. RestIsAsBefore'
  <2>1. SUFFICES ASSUME c \in Slots
        PROVE  /\ ToProfile(ReadRecord(memory, c)) = ToProfile(before')
               /\ \A i \in 1..17 :
                    /\ before' = ClearedRecord =>
                         memory[CellAddress(c) + i - 1] = ClearedByte(i)
                    /\ before'.version # STORAGE_VERSION =>
                         memory[CellAddress(c) + i - 1] = 255
    BY <1>1, <1>4 DEF RestIsAsBefore, CellAddress
  <2>2. /\ before' = ReadRecord(memory, c) /\ CellAddress(c) = RecordAddress(c)
        /\ ProfilesAvailable /\ memory \in Memory /\ VersionComesFirst
    BY <1>1, <2>1 DEF CellAddress, CellAvailable, IInv, TypeOK
  <2>3. before' = ClearedRecord =>
          \A i \in 1..17 : memory[CellAddress(c) + i - 1] = ClearedByte(i)
    BY <2>1, <2>2, ClearedBytes
  <2>4. ASSUME before'.version # STORAGE_VERSION, NEW i \in 1..17
        PROVE  memory[CellAddress(c) + i - 1] = 255
    <3>1. before'.version = memory[RecordAddress(c)]
      BY <2>2 DEF ReadRecord
    <3>2. \A k \in 0..16 : memory[RecordAddress(c) + k] = 255
      BY <2>1, <2>2, <2>4, <3>1 DEF VersionComesFirst
    <3>3. i - 1 \in 0..16 /\ CellAddress(c) + i - 1 = CellAddress(c) + (i - 1)
      BY <1>2
    <3> QED BY <2>2, <3>2, <3>3
  <2>5. before'.version # STORAGE_VERSION =>
          \A i \in 1..17 : memory[CellAddress(c) + i - 1] = 255
    BY <2>4
  <2>6. ToProfile(ReadRecord(memory, c)) = ToProfile(before')
    BY <2>2
  <2> QED BY <2>3, <2>5, <2>6, Zenon
<1>12. VersionComesFirst'
  BY <1>1 DEF IInv, VersionComesFirst
<1>13. CopiesAgree'
  <2>1. NoCell # CalibrationCell
    BY CellsDiffer
  <2> QED BY <1>1, <2>1 DEF IInv, CopiesAgree, CalibrationOrDefault
<1> QED BY <1>7, <1>8, <1>9, <1>10, <1>11, <1>12, <1>13 DEF IInv

\* A save of a profile begins a write that the store will accept.
LEMMA SaveProfileKeepsIInv ==
  ASSUME IInv, NEW slot \in Slots, NEW p \in Profiles, SaveProfile(slot, p)
  PROVE  IInv'
<1> DEFINE s == Stored(1, p)
           bytes == RecordBytes(s)
<1>1. /\ CanSave(p) /\ Write(slot, p, Updates(RecordAddress(slot), bytes))
  BY DEF SaveProfile, SaveUpdates
<1>2. slot \in Cells /\ CellAvailable(slot) /\ IsValid(p)
  BY <1>1 DEF Cells, CellAvailable, CanSave
<1>3. CellAddress(slot) = RecordAddress(slot) /\ CellSize(slot) = 17
  BY <1>2, CellBounds
<1>4. p # NoProfile
  BY ProfilesAreStorable, UserProfileStoreAssumption DEF Storable
<1>5. s \in SlotRecord
  BY StoredFits, ProfilesAreStorable DEF Fits
<1>6. bytes \in Seq(Byte) /\ Len(bytes) = 17
  BY <1>5, RecordLayout
<1>7. bytes = RecordBytes(IF p = NoProfile THEN Stored(0, EmptyProfile) ELSE Stored(1, p))
  BY <1>4
<1> HIDE DEF bytes, s
<1> QED BY <1>1, <1>2, <1>3, <1>6, <1>7, WriteBegins

\* So does a delete, whose record is that of the empty profile.
LEMMA ClearSlotKeepsIInv ==
  ASSUME IInv, NEW slot \in Slots, ClearSlot(slot)
  PROVE  IInv'
<1> DEFINE s == Stored(0, EmptyProfile)
           bytes == RecordBytes(s)
<1>1. /\ userProfileSlots[slot] # NoProfile
      /\ Write(slot, NoProfile, Updates(RecordAddress(slot), bytes))
  BY DEF ClearSlot, ClearUpdates
<1>2. slot \in Cells /\ CellAvailable(slot)
  BY <1>1 DEF Cells, CellAvailable, IInv, CopiesAgree
<1>3. CellAddress(slot) = RecordAddress(slot) /\ CellSize(slot) = 17
  BY <1>2, CellBounds
<1>5. s \in SlotRecord
  BY StoredFits, ProfilesAreStorable DEF Fits
<1>6. bytes \in Seq(Byte) /\ Len(bytes) = 17
  BY <1>5, RecordLayout
<1>7. bytes = RecordBytes(IF NoProfile = NoProfile THEN Stored(0, EmptyProfile)
                                                   ELSE Stored(1, NoProfile))
  OBVIOUS
<1> HIDE DEF bytes, s
<1> QED BY <1>1, <1>2, <1>3, <1>6, <1>7, WriteBegins

\* So does a save of the calibration, into its own record.
LEMMA SaveCalibrationKeepsIInv ==
  ASSUME IInv, SaveCalibration
  PROVE  IInv'
<1> DEFINE bytes == CalibrationBytes(shown)
           c == CalibrationCell
<1>1. /\ currentScreen = "NtcCalibration" /\ CanSaveCalibration(shown)
      /\ Write(c, shown, Updates(BASE_ADDRESS, bytes))
  BY DEF SaveCalibration, CalibrationUpdates
<1>2. c \in Cells /\ c \notin Slots
  BY CellsDiffer DEF Cells
<1>3. CellAvailable(c) /\ CellAddress(c) = BASE_ADDRESS /\ CellSize(c) = 9
  BY <1>1, <1>2, CellBounds DEF CellAvailable, CanSaveCalibration
<1>4. shown \in StoredCalibration
  BY DEF IInv, TypeOK
<1>5. bytes \in Seq(Byte) /\ Len(bytes) = 9
  BY <1>4, CalibrationBytesLayout
<1>6. bytes = CalibrationBytes(shown)
  OBVIOUS
<1> HIDE DEF bytes, c
<1> QED BY <1>1, <1>2, <1>3, <1>5, <1>6, WriteBegins

------------------------------------------------------------------------------
(* A write ends, and what happens between writes                              *)

\* Once no call waits, the whole record is in the memory and reads as wanted.
LEMMA WholeRecordIsWritten ==
  ASSUME IInv, ~Idle, queue = <<>>
  PROVE  cell \in Cells /\ Read(memory, cell) = wanted
<1>1. cell \in Cells /\ CellAvailable(cell)
  BY DEF IInv, TypeOK, Idle, WriteIsAccepted
<1>2. Written = CellSize(cell) /\ CellSize(cell) \in Nat
  BY <1>1, CellBounds DEF Written
<1>3. \A i \in 1..CellSize(cell) : memory[CellAddress(cell) + i - 1] = BytesWanted[i]
  BY <1>2 DEF IInv, BeginningIsWritten
<1>4. CASE cell \in Slots
  <2>1. /\ CellAddress(cell) = RecordAddress(cell) /\ CellSize(cell) = 17
        /\ ProfilesAvailable /\ BytesWanted = RecordBytes(RecordWanted)
    BY <1>1, <1>4, CellBounds DEF CellAvailable, BytesWanted
  <2>2. CASE wanted = NoProfile
    <3>1. RecordWanted = Stored(0, EmptyProfile)
      BY <2>2 DEF RecordWanted
    <3>2. Len(RecordBytes(Stored(0, EmptyProfile))) = 17
      BY StoredFits, ProfilesAreStorable, RecordLayout DEF Fits
    <3>3. Holds(memory, RecordAddress(cell), RecordBytes(Stored(0, EmptyProfile)))
      BY <1>3, <2>1, <3>1, <3>2 DEF Holds
    <3>4. LoadSlot(memory, cell) = NoProfile
      BY <1>4, <3>3, ClearedIsVacant
    <3> QED BY <1>1, <1>4, <2>2, <3>4 DEF Read
  <2>3. CASE wanted # NoProfile
    <3>1. RecordWanted = Stored(1, wanted)
      BY <2>3 DEF RecordWanted
    <3>2. Storable(wanted) /\ IsValid(wanted)
      BY <1>4, <2>3, ProfilesAreStorable DEF IInv, WriteIsAccepted
    <3>3. Len(RecordBytes(Stored(1, wanted))) = 17
      BY <3>2, StoredFits, RecordLayout DEF Fits
    <3>4. Holds(memory, RecordAddress(cell), RecordBytes(Stored(1, wanted)))
      BY <1>3, <2>1, <3>1, <3>3 DEF Holds
    <3>5. LoadSlot(memory, cell) = wanted
      BY <1>4, <2>1, <3>2, <3>4, SavedIsLoaded
    <3> QED BY <1>1, <1>4, <3>5 DEF Read
  <2> QED BY <2>2, <2>3
<1>5. CASE cell \notin Slots
  <2>1. /\ CellAddress(cell) = BASE_ADDRESS /\ CellSize(cell) = 9
        /\ CalibrationAvailable /\ BytesWanted = CalibrationBytes(wanted)
        /\ cell = CalibrationCell
    BY <1>1, <1>5, CellBounds DEF CellAvailable, BytesWanted, Cells
  <2>2. wanted \in StoredCalibration
    BY <2>1 DEF IInv, TypeOK, WriteIsAccepted
  <2>3. Holds(memory, BASE_ADDRESS, CalibrationBytes(wanted))
    BY <1>3, <2>1, <2>2, CalibrationBytesLayout DEF Holds
  <2>4. LoadCalibration(memory) = wanted
    BY <2>1, <2>2, <2>3, CalibrationReadBack
  <2> QED BY <1>1, <1>5, <2>4 DEF Read
<1> QED BY <1>4, <1>5

\* A calibration that is loaded is one that can be stored.
LEMMA LoadedCalibration ==
  ASSUME NEW mem \in Memory
  PROVE  LoadCalibration(mem) \in StoredCalibration \cup {NoCalibration}
<1> DEFINE c == [offsetCentiC |-> Signed(ReadWord(mem, BASE_ADDRESS + 1)),
                 scalePpm     |-> ReadLong(mem, BASE_ADDRESS + 3)]
<1>1. CASE LoadCalibration(mem) = NoCalibration
  BY <1>1
<1>2. CASE LoadCalibration(mem) # NoCalibration
  <2>1. CalibrationAvailable /\ LoadCalibration(mem) = c /\ c.scalePpm > 0
    BY <1>2, SMT DEF LoadCalibration
  <2>2. BASE_ADDRESS \in Nat
    BY NtcCalibrationStoreAssumption
  <2>3. \A k \in 0..8 : mem[BASE_ADDRESS + k] \in Byte
    <3>1. CalibrationCell \in Cells /\ CalibrationCell \notin Slots
      BY CellsDiffer DEF Cells
    <3>2. /\ CellAvailable(CalibrationCell) /\ CellSize(CalibrationCell) = 9
          /\ CellAddress(CalibrationCell) = BASE_ADDRESS
      BY <2>1, <3>1, CellBounds DEF CellAvailable
    <3> QED BY <3>1, <3>2, CellHoldsBytes
  <2>4. ASSUME NEW k \in 0..7
        PROVE  /\ ReadWord(mem, BASE_ADDRESS + k) \in Word
               /\ Signed(ReadWord(mem, BASE_ADDRESS + k)) \in Int
               /\ -32768 <= Signed(ReadWord(mem, BASE_ADDRESS + k))
               /\ Signed(ReadWord(mem, BASE_ADDRESS + k)) < 32768
    <3>1. mem[BASE_ADDRESS + k] \in Byte /\ mem[BASE_ADDRESS + (k + 1)] \in Byte
      BY <2>3
    <3>2. (BASE_ADDRESS + k) + 1 = BASE_ADDRESS + (k + 1)
      BY <2>2
    <3> QED BY <3>1, <3>2, ReadWordType, SMT DEF ReadWord
  <2>5. /\ c.offsetCentiC \in Int /\ -32768 <= c.offsetCentiC /\ c.offsetCentiC < 32768
    BY <2>4, SMT
  <2>6. c.scalePpm \in Int /\ c.scalePpm <= 2147483647
    <3> DEFINE low == ReadWord(mem, BASE_ADDRESS + 3)
               high == Signed(ReadWord(mem, BASE_ADDRESS + 5))
    <3>1. (BASE_ADDRESS + 3) + 2 = BASE_ADDRESS + 5
      BY <2>2
    <3>2. ReadLong(mem, BASE_ADDRESS + 3) = low + 65536 * high
      BY <3>1, SMT DEF ReadLong
    <3>3. low \in Nat /\ low < 65536 /\ high \in Int /\ high < 32768
      BY <2>4, SMT DEF Word
    <3> HIDE DEF low, high
    <3>4. low + 65536 * high \in Int /\ low + 65536 * high <= 2147483647
      BY <3>3, SMT
    <3> QED BY <3>2, <3>4, SMT
  <2>7. c \in [offsetCentiC : Int, scalePpm : Nat \ {0}]
    BY <2>1, <2>5, <2>6, SMT
  <2> HIDE DEF c
  <2>8. c \in StoredCalibration
    BY <2>5, <2>6, <2>7, SMT DEF StoredCalibration
  <2> QED BY <2>1, <2>8
<1> QED BY <1>1, <1>2

\* Whenever no write is running after a step that leaves the memory alone.
LEMMA AtRest ==
  ASSUME IInv, memory' = memory, content' = content, queue' = <<>>, cell' = NoCell,
         {activeCalibration', shown', saved'} \subseteq StoredCalibration,
         dirty' \in BOOLEAN,
         \/ userProfileSlots' = userProfileSlots
         \/ userProfileSlots' = RefreshedSlots,
         activeCalibration' = CalibrationOrDefault,
         currentScreen' = "NtcCalibration" =>
           saved' = activeCalibration' /\ dirty' = (shown' # saved')
  PROVE  IInv'
<1>1. TypeOK'
  <2>1. <<>> \in Seq([address : Int, value : Byte])
    OBVIOUS
  <2> QED BY <2>1 DEF IInv, TypeOK
<1>2. (WriteIsAccepted /\ RestIsWaiting /\ BeginningIsWritten /\ RestIsAsBefore)'
  BY CellsDiffer
     DEF WriteIsAccepted, RestIsWaiting, BeginningIsWritten, RestIsAsBefore, Idle
<1>3. VersionComesFirst'
  BY DEF IInv, VersionComesFirst
<1>4. \A slot \in Slots : userProfileSlots'[slot] # NoProfile => ProfilesAvailable
  <2>1. CASE userProfileSlots' = userProfileSlots
    BY <2>1 DEF IInv, CopiesAgree
  <2>2. CASE userProfileSlots' = RefreshedSlots
    BY <2>2 DEF RefreshedSlots, LoadSlot
  <2> QED BY <2>1, <2>2
<1>5. content' = Contents(memory')
  BY DEF IInv, CopiesAgree
<1>6. CalibrationOrDefault' = CalibrationOrDefault
  BY DEF CalibrationOrDefault
<1>7. CopiesAgree'
  BY <1>4, <1>5, <1>6 DEF CopiesAgree
<1> QED BY <1>1, <1>2, <1>3, <1>7 DEF IInv

\* What the firmware works with can always be stored.
LEMMA CalibrationOrDefaultType ==
  ASSUME memory \in Memory
  PROVE  CalibrationOrDefault \in StoredCalibration
<1>1. DefaultCalibration \in StoredCalibration
  BY PersistentSettingsAssumption, SMT
<1>2. LoadCalibration(memory) \in StoredCalibration \cup {NoCalibration}
  BY LoadedCalibration
<1> QED BY <1>1, <1>2 DEF CalibrationOrDefault

\* When a slot is written, the directory is refreshed and the calibration is
\* untouched.
LEMMA FinishProfileKeepsIInv ==
  ASSUME IInv, FinishProfile
  PROVE  IInv'
<1>1. /\ cell \in Slots /\ queue = <<>> /\ cell' = NoCell
      /\ memory' = memory /\ content' = content /\ queue' = queue
      /\ currentScreen' = currentScreen /\ userProfileSlots' = RefreshedSlots
      /\ activeCalibration' = activeCalibration
      /\ dirty' = dirty /\ shown' = shown /\ saved' = saved
  BY DEF FinishProfile, Finished, editor
<1>2. activeCalibration = CalibrationOrDefault
  BY <1>1, CellsDiffer DEF IInv, CopiesAgree
<1>3. /\ {activeCalibration, shown, saved} \subseteq StoredCalibration
      /\ dirty \in BOOLEAN
      /\ currentScreen = "NtcCalibration" =>
           saved = activeCalibration /\ dirty = (shown # saved)
  BY DEF IInv, TypeOK, CopiesAgree
<1> QED BY <1>1, <1>2, <1>3, AtRest

\* When the calibration is written, the copy in use becomes the one that was
\* shown, which is what the record reads as.
LEMMA FinishCalibrationKeepsIInv ==
  ASSUME IInv, FinishCalibration
  PROVE  IInv'
<1>1. /\ ~Idle /\ cell = CalibrationCell /\ queue = <<>> /\ cell' = NoCell
      /\ memory' = memory /\ content' = content /\ queue' = queue
      /\ currentScreen' = currentScreen /\ userProfileSlots' = userProfileSlots
      /\ activeCalibration' = shown
      /\ dirty' = FALSE /\ shown' = shown /\ saved' = shown
  BY DEF FinishCalibration, Finished, NTC!MarkSaved
<1>2. shown \in StoredCalibration /\ wanted = shown
  BY <1>1 DEF IInv, TypeOK, WriteIsAccepted
<1>3. Read(memory, CalibrationCell) = shown
  BY <1>1, <1>2, WholeRecordIsWritten
<1>4. LoadCalibration(memory) = shown
  BY <1>3, CellsDiffer DEF Read
<1>5. NoCalibration \notin StoredCalibration
  BY PersistentSettingsAssumption, SMT
<1>6. CalibrationOrDefault = shown
  BY <1>2, <1>4, <1>5 DEF CalibrationOrDefault
<1>7. dirty' = (shown' # saved') /\ dirty' \in BOOLEAN
  BY <1>1
<1> QED BY <1>1, <1>2, <1>6, <1>7, AtRest

\* A reset at any byte loads both copies from whatever the memory holds.
LEMMA ResetKeepsIInv ==
  ASSUME IInv, Reset
  PROVE  IInv'
<1>1. /\ memory' = memory /\ content' = content /\ queue' = <<>> /\ cell' = NoCell
      /\ userProfileSlots' = RefreshedSlots
      /\ activeCalibration' = CalibrationOrDefault
      /\ currentScreen' = "elsewhere" /\ dirty' = FALSE
      /\ shown' = DefaultCalibration /\ saved' = DefaultCalibration
  BY DEF Reset, Boot
<1>2. DefaultCalibration \in StoredCalibration
  BY PersistentSettingsAssumption, SMT
<1>3. CalibrationOrDefault \in StoredCalibration
  BY CalibrationOrDefaultType DEF IInv, TypeOK
<1> QED BY <1>1, <1>2, <1>3, AtRest

\* The steps of the calibration screen, on which nothing is being written.
LEMMA EditorKeepsIInv ==
  ASSUME IInv, OpenCalibration \/ RotateCalibration \/ PressCalibration
  PROVE  IInv'
<1>1. /\ cell = NoCell /\ cell' = cell /\ memory' = memory /\ content' = content
      /\ queue' = queue /\ userProfileSlots' = userProfileSlots
      /\ activeCalibration' = activeCalibration
  BY DEF OpenCalibration, RotateCalibration, PressCalibration, OnCalibrationScreen,
         Idle, history, copies
<1>2. queue = <<>>
  BY <1>1 DEF IInv, WriteIsAccepted, Idle
<1>3. activeCalibration = CalibrationOrDefault
  BY <1>1, CellsDiffer DEF IInv, CopiesAgree
<1>4. {activeCalibration, shown, saved} \subseteq StoredCalibration /\ dirty \in BOOLEAN
  BY DEF IInv, TypeOK
<1>5. currentScreen = "NtcCalibration" =>
        saved = activeCalibration /\ dirty = (shown # saved)
  BY DEF IInv, CopiesAgree
<1>6. SUFFICES /\ {shown', saved'} \subseteq StoredCalibration
               /\ dirty' \in BOOLEAN
               /\ currentScreen' = "NtcCalibration" =>
                    saved' = activeCalibration /\ dirty' = (shown' # saved')
  BY <1>1, <1>2, <1>3, <1>4, AtRest
<1>7. CASE OpenCalibration
  <2>1. /\ shown' = activeCalibration /\ saved' = activeCalibration /\ dirty' = FALSE
    BY <1>7 DEF OpenCalibration, NTC!LoadFromCalibration
  <2>2. dirty' = (shown' # saved') /\ dirty' \in BOOLEAN
    BY <2>1
  <2> QED BY <1>4, <2>1, <2>2
<1>8. CASE RotateCalibration
  <2>1. PICK delta \in {-1, 1} : NTC!OnRotate(delta)
    BY <1>8 DEF RotateCalibration
  <2>2. currentScreen = "NtcCalibration"
    BY <1>8 DEF RotateCalibration, OnCalibrationScreen
  <2>3. CASE NTC!OnNavigate(delta)
    BY <1>4, <1>5, <2>2, <2>3 DEF NTC!OnNavigate
  <2>4. CASE NTC!EditSelectedField(delta)
    <3>1. saved' = saved /\ dirty' = (shown' # saved)
      BY <2>4 DEF NTC!EditSelectedField
    <3>2. dirty' = (shown' # saved') /\ dirty' \in BOOLEAN
      BY <3>1
    <3>3. /\ shown \in [offsetCentiC : Int, scalePpm : Nat \ {0}]
          /\ -32768 <= shown.offsetCentiC /\ shown.offsetCentiC < 32768
          /\ shown.scalePpm <= 2147483647
      BY <1>4, SMT DEF StoredCalibration
    <3>4. /\ MIN_OFFSET_CENTI_C \in Int /\ MAX_OFFSET_CENTI_C \in Int
          /\ MIN_SCALE_PPM \in Int /\ MAX_SCALE_PPM \in Int
          /\ -32768 <= MIN_OFFSET_CENTI_C /\ MAX_OFFSET_CENTI_C < 32768
          /\ 0 < MIN_SCALE_PPM /\ MAX_SCALE_PPM <= 2147483647
      BY PersistentSettingsAssumption, SMT
    <3>5. CASE shown' = [shown EXCEPT !.offsetCentiC = @ + delta * OFFSET_STEP_CENTI_C]
               /\ shown'.offsetCentiC \in MIN_OFFSET_CENTI_C..MAX_OFFSET_CENTI_C
      <4>1. /\ shown'.offsetCentiC \in Int
            /\ -32768 <= shown'.offsetCentiC /\ shown'.offsetCentiC < 32768
        BY <3>4, <3>5, SMT
      <4>2. shown'.scalePpm = shown.scalePpm
        BY <3>3, <3>5, SMT
      <4>3. shown' \in [offsetCentiC : Int, scalePpm : Nat \ {0}]
        BY <3>3, <3>5, <4>1, SMT
      <4>4. shown' \in StoredCalibration
        BY <3>3, <4>1, <4>2, <4>3, SMT DEF StoredCalibration
      <4> QED BY <1>4, <1>5, <2>2, <3>1, <3>2, <4>4
    <3>6. CASE shown' = [shown EXCEPT !.scalePpm = @ + delta * SCALE_STEP_PPM]
               /\ shown'.scalePpm \in MIN_SCALE_PPM..MAX_SCALE_PPM
      <4>1. /\ shown'.scalePpm \in Nat \ {0} /\ shown'.scalePpm <= 2147483647
        BY <3>4, <3>6, SMT
      <4>2. shown'.offsetCentiC = shown.offsetCentiC
        BY <3>3, <3>6, SMT
      <4>3. shown' \in [offsetCentiC : Int, scalePpm : Nat \ {0}]
        BY <3>3, <3>6, <4>1, SMT
      <4>4. shown' \in StoredCalibration
        BY <3>3, <4>1, <4>2, <4>3, SMT DEF StoredCalibration
      <4> QED BY <1>4, <1>5, <2>2, <3>1, <3>2, <4>4
    <3> QED BY <2>4, <3>5, <3>6 DEF NTC!EditSelectedField
  <2> QED BY <2>1, <2>3, <2>4 DEF NTC!OnRotate
<1>9. CASE PressCalibration
  <2>1. currentScreen = "NtcCalibration"
    BY <1>9 DEF PressCalibration, OnCalibrationScreen
  <2>2. CASE NTC!Toggle
    BY <1>4, <1>5, <2>1, <2>2 DEF NTC!Toggle
  <2>3. CASE NTC!Restore
    <3>1. shown' = DefaultCalibration /\ saved' = saved /\ dirty' = (shown' # saved)
      BY <2>3 DEF NTC!Restore
    <3>2. DefaultCalibration \in StoredCalibration
      BY PersistentSettingsAssumption, SMT
    <3>3. dirty' = (shown' # saved') /\ dirty' \in BOOLEAN
      BY <3>1
    <3> QED BY <1>4, <1>5, <2>1, <3>1, <3>2, <3>3
  <2>4. CASE NTC!Back /\ currentScreen' = "elsewhere"
    BY <1>4, <2>4 DEF NTC!Back
  <2> QED BY <1>9, <2>2, <2>3, <2>4 DEF PressCalibration
<1> QED BY <1>7, <1>8, <1>9

------------------------------------------------------------------------------
(* One byte is written                                                        *)

\* What one call of update() does: the next byte of the record is written, the
\* other bytes of the memory are as they were.
LEMMA OneByte ==
  ASSUME IInv, UpdateByte
  PROVE  /\ ~Idle /\ cell \in Cells /\ CellAvailable(cell)
         /\ Written \in 0..CellSize(cell) - 1 /\ Written' = Written + 1
         /\ memory' = [memory EXCEPT ![CellAddress(cell) + Written] =
                         BytesWanted[Written + 1]]
         /\ memory' \in Memory
         /\ queue' \in Seq([address : Int, value : Byte])
         /\ Len(queue') = Len(queue) - 1
         /\ \A i \in 1..Len(queue') : queue'[i] = queue[i + 1]
<1>1. /\ queue # <<>> /\ queue' = Tail(queue) /\ cell' = cell
      /\ memory' = [memory EXCEPT ![Head(queue).address] = Head(queue).value]
  BY DEF UpdateByte
<1>2. /\ ~Idle /\ cell \in Cells /\ CellAvailable(cell)
      /\ Len(queue) <= CellSize(cell)
      /\ \A i \in 1..Len(queue) :
           queue[i] = [address |-> CellAddress(cell) + Written + i - 1,
                       value   |-> BytesWanted[Written + i]]
      /\ queue \in Seq([address : Int, value : Byte])
      /\ memory \in Memory
  BY <1>1 DEF IInv, TypeOK, WriteIsAccepted, RestIsWaiting, Idle
<1>3. CellAddress(cell) \in Nat /\ CellSize(cell) \in Nat
  BY <1>2, CellBounds
<1>4. Len(queue) \in Nat /\ Len(queue) > 0 /\ Head(queue) = queue[1]
      /\ queue[1] \in [address : Int, value : Byte]
  <2> DEFINE Call == [address : Int, value : Byte]
  <2>1. queue \in Seq(Call) /\ queue # <<>>
    BY <1>1, <1>2
  <2> HIDE DEF Call
  <2>2. Len(queue) \in Nat /\ Len(queue) > 0 /\ Head(queue) = queue[1]
        /\ queue[1] \in Call
    BY <2>1
  <2> QED BY <2>2 DEF Call
<1>5. /\ queue' \in Seq([address : Int, value : Byte])
      /\ Len(queue') = Len(queue) - 1
      /\ \A i \in 1..Len(queue') : queue'[i] = queue[i + 1]
  BY <1>1, <1>2, HeadTailProperties
<1>6. Written \in 0..CellSize(cell) - 1 /\ Written' = Written + 1
  <2>1. Written = CellSize(cell) - Len(queue)
    BY DEF Written
  <2>2. Written' = CellSize(cell) - Len(queue')
    BY <1>1 DEF Written, CellSize
  <2> QED BY <1>2, <1>3, <1>4, <1>5, <2>1, <2>2
<1>7. /\ Head(queue).address = CellAddress(cell) + Written
      /\ Head(queue).value = BytesWanted[Written + 1]
      /\ Head(queue).value \in Byte
  <2>1. queue[1] = [address |-> CellAddress(cell) + Written + 1 - 1,
                    value   |-> BytesWanted[Written + 1]]
    BY <1>2, <1>4
  <2>2. CellAddress(cell) + Written + 1 - 1 = CellAddress(cell) + Written
    BY <1>3, <1>6
  <2> QED BY <1>4, <2>1, <2>2
<1>8. memory' \in Memory
  BY <1>1, <1>2, <1>7 DEF Memory
<1> QED BY <1>1, <1>2, <1>5, <1>6, <1>7, <1>8

\* A byte of an available record, after the call: the byte written, or as it was.
LEMMA OtherBytes ==
  ASSUME IInv, UpdateByte
  PROVE  /\ memory'[CellAddress(cell) + Written] = BytesWanted[Written + 1]
         /\ \A k \in 0..CellSize(cell) - 1 : k # Written =>
              memory'[CellAddress(cell) + k] = memory[CellAddress(cell) + k]
         /\ \A c \in Cells : c # cell /\ CellAvailable(c) =>
              \A k \in 0..CellSize(c) - 1 :
                memory'[CellAddress(c) + k] = memory[CellAddress(c) + k]
<1>1. /\ cell \in Cells /\ CellAvailable(cell) /\ Written \in 0..CellSize(cell) - 1
      /\ memory' = [memory EXCEPT ![CellAddress(cell) + Written] =
                      BytesWanted[Written + 1]]
      /\ memory \in Memory
  BY OneByte DEF IInv, TypeOK
<1>2. CellAddress(cell) \in Nat /\ CellSize(cell) \in Nat
  BY <1>1, CellBounds
<1>3. \A c \in Cells : CellAvailable(c) =>
        \A k \in 0..CellSize(c) - 1 : CellAddress(c) + k \in DOMAIN memory
  BY <1>1, CellBounds DEF Memory
<1>4. memory'[CellAddress(cell) + Written] = BytesWanted[Written + 1]
  BY <1>1, <1>3
<1>5. ASSUME NEW k \in 0..CellSize(cell) - 1, k # Written
      PROVE  memory'[CellAddress(cell) + k] = memory[CellAddress(cell) + k]
  <2>1. CellAddress(cell) + k # CellAddress(cell) + Written
    BY <1>1, <1>2, <1>5
  <2> QED BY <1>1, <1>3, <2>1
<1>6. ASSUME NEW c \in Cells, c # cell, CellAvailable(c), NEW k \in 0..CellSize(c) - 1
      PROVE  memory'[CellAddress(c) + k] = memory[CellAddress(c) + k]
  <2>1. CellAddress(c) + k # CellAddress(cell) + Written
    BY <1>1, <1>6, CellsAreDisjoint
  <2> QED BY <1>1, <1>3, <1>6, <2>1
<1> QED BY <1>4, <1>5, <1>6

\* The other records still read as they did.
LEMMA OtherRecords ==
  ASSUME IInv, UpdateByte, NEW c \in Cells, c # cell
  PROVE  Read(memory', c) = Read(memory, c)
BY OtherBytes, ReadsItsOwnBytes

\* The first byte that is written of a slot is its version.
LEMMA FirstByteIsVersion ==
  ASSUME IInv, cell \in Slots
  PROVE  BytesWanted[1] = STORAGE_VERSION
<1>1. BytesWanted = RecordBytes(RecordWanted)
  BY DEF BytesWanted
<1>2. RecordWanted \in SlotRecord /\ RecordWanted.version = STORAGE_VERSION
  <2>1. CASE wanted = NoProfile
    <3>1. RecordWanted = Stored(0, EmptyProfile)
      BY <2>1 DEF RecordWanted
    <3>2. Stored(0, EmptyProfile) \in SlotRecord
      BY StoredFits, ProfilesAreStorable DEF Fits
    <3> QED BY <3>1, <3>2 DEF Stored
  <2>2. CASE wanted # NoProfile
    <3>1. RecordWanted = Stored(1, wanted)
      BY <2>2 DEF RecordWanted
    <3>2. Stored(1, wanted) \in SlotRecord
      BY <2>2, StoredFits, ProfilesAreStorable DEF Fits, IInv, WriteIsAccepted
    <3> QED BY <3>1, <3>2 DEF Stored
  <2> QED BY <2>1, <2>2
<1> QED BY <1>1, <1>2, RecordLayout DEF SlotLayout

\* A slot of which only the first byte changed reads as the same profile.
LEMMA FirstByteIsNoField ==
  ASSUME NEW mem, NEW other, NEW slot \in Slots,
         \A k \in 1..16 :
           mem[RecordAddress(slot) + k] = other[RecordAddress(slot) + k]
  PROVE  ToProfile(ReadRecord(mem, slot)) = ToProfile(ReadRecord(other, slot))
<1> DEFINE at == RecordAddress(slot)
<1>1. at \in Nat
  BY SlotAddress
<1> HIDE DEF at
<1>2. \A k \in 1..16 : mem[at + k] = other[at + k]
  BY DEF at
<1>3. ASSUME NEW k \in 1..15 PROVE ReadWord(mem, at + k) = ReadWord(other, at + k)
  <2>1. mem[at + k] = other[at + k] /\ mem[at + (k + 1)] = other[at + (k + 1)]
    BY <1>2
  <2>2. at + (k + 1) = (at + k) + 1
    BY <1>1
  <2> QED BY <2>1, <2>2 DEF ReadWord
<1>4. mem[at + 2] = other[at + 2]
  BY <1>2
<1> QED BY <1>3, <1>4 DEF ToProfile, ReadRecord, at

\* One byte of the record is written: the bytes written so far are one more,
\* no other record is touched, and the version was written first.
LEMMA UpdateByteKeepsIInv ==
  ASSUME IInv, UpdateByte
  PROVE  IInv'
<1> DEFINE n == Written
           A == CellAddress(cell)
           size == CellSize(cell)
           bytes == BytesWanted
<1>1. /\ ~Idle /\ cell \in Cells /\ CellAvailable(cell)
      /\ n \in 0..size - 1 /\ Written' = n + 1
      /\ memory' \in Memory
      /\ queue' \in Seq([address : Int, value : Byte])
      /\ Len(queue') = Len(queue) - 1
      /\ \A i \in 1..Len(queue') : queue'[i] = queue[i + 1]
  BY OneByte
<1>2. /\ memory'[A + n] = bytes[n + 1]
      /\ \A k \in 0..size - 1 : k # n => memory'[A + k] = memory[A + k]
  BY OtherBytes
<1>3. /\ userProfileSlots' = userProfileSlots
      /\ activeCalibration' = activeCalibration
      /\ currentScreen' = currentScreen /\ dirty' = dirty /\ shown' = shown
      /\ saved' = saved /\ cell' = cell /\ wanted' = wanted /\ before' = before
      /\ content' = Contents(memory')
  BY DEF UpdateByte, copies, editor
<1>4. A' = A /\ size' = size /\ bytes' = bytes
  BY <1>3 DEF CellAddress, CellSize, BytesWanted, RecordWanted
<1>5. A \in Nat /\ size \in Nat /\ Len(queue) \in Nat /\ Len(queue') \in Nat
      /\ n = size - Len(queue) /\ Len(queue) <= size
  <2>1. Len(queue) \in Nat /\ Len(queue) <= size
    BY <1>1 DEF IInv, TypeOK, RestIsWaiting
  <2>2. A \in Nat /\ size \in Nat
    BY <1>1, CellBounds
  <2>3. n = size - Len(queue)
    BY DEF Written
  <2>4. Len(queue') \in Nat
    BY <1>1
  <2> HIDE DEF n, A, size
  <2> QED BY <2>1, <2>2, <2>3, <2>4
<1> HIDE DEF n, A, size, bytes
<1>6. TypeOK'
  BY <1>1, <1>3 DEF IInv, TypeOK
<1>7. WriteIsAccepted'
  BY <1>1, <1>3 DEF IInv, WriteIsAccepted, Idle, CellAvailable
<1>8. RestIsWaiting'
  <2>1. SUFFICES /\ Len(queue') <= size
                 /\ \A i \in 1..Len(queue') :
                      queue'[i] = [address |-> A + (n + 1) + i - 1,
                                   value   |-> bytes[(n + 1) + i]]
    BY <1>1, <1>4 DEF RestIsWaiting, A, size, bytes
  <2>2. ASSUME NEW i \in 1..Len(queue')
        PROVE  queue'[i] = [address |-> A + (n + 1) + i - 1,
                            value   |-> bytes[(n + 1) + i]]
    <3>1. i + 1 \in 1..Len(queue)
      BY <1>1, <1>5
    <3>2. queue[i + 1] = [address |-> A + n + (i + 1) - 1, value |-> bytes[n + (i + 1)]]
      BY <1>1, <3>1 DEF IInv, RestIsWaiting, A, n, bytes
    <3>3. /\ A + n + (i + 1) - 1 = A + (n + 1) + i - 1
          /\ n + (i + 1) = (n + 1) + i
      BY <1>1, <1>5
    <3> QED BY <1>1, <3>2, <3>3
  <2> QED BY <1>1, <1>5, <2>2
<1>9. BeginningIsWritten'
  <2>1. SUFFICES ASSUME NEW i \in 1..n + 1 PROVE memory'[A + i - 1] = bytes[i]
    BY <1>1, <1>4 DEF BeginningIsWritten, A, bytes
  <2>2. i - 1 \in 0..size - 1 /\ A + i - 1 = A + (i - 1) /\ n \in Nat
    BY <1>1, <1>5
  <2>3. CASE i = n + 1
    BY <1>2, <1>5, <2>2, <2>3
  <2>4. CASE i # n + 1
    <3>1. i - 1 # n /\ i \in 1..n
      BY <2>2, <2>4
    <3>2. memory[A + i - 1] = bytes[i]
      BY <1>1, <3>1 DEF IInv, BeginningIsWritten, A, n, bytes
    <3> QED BY <1>2, <2>2, <3>1, <3>2
  <2> QED BY <2>3, <2>4
<1>10. RestIsAsBefore'
  <2>1. SUFFICES ASSUME cell \in Slots
        PROVE  /\ n + 1 <= 1 =>
                    ToProfile(ReadRecord(memory', cell)) = ToProfile(before)
               /\ \A i \in (n + 1) + 1..17 :
                    /\ before = ClearedRecord => memory'[A + i - 1] = ClearedByte(i)
                    /\ before.version # STORAGE_VERSION => memory'[A + i - 1] = 255
    BY <1>1, <1>3, <1>4 DEF RestIsAsBefore, A
  <2>2. size = 17 /\ A = RecordAddress(cell)
    BY <1>1, <2>1, CellBounds DEF A, size
  <2>3. ASSUME n + 1 <= 1
        PROVE  ToProfile(ReadRecord(memory', cell)) = ToProfile(before)
    <3>1. n = 0
      BY <1>1, <1>5, <2>3
    <3>2. ToProfile(ReadRecord(memory, cell)) = ToProfile(before)
      BY <2>1, <3>1 DEF IInv, RestIsAsBefore, n
    <3>3. \A k \in 1..16 :
            memory'[RecordAddress(cell) + k] = memory[RecordAddress(cell) + k]
      BY <1>2, <2>2, <3>1
    <3> QED BY <2>1, <3>2, <3>3, FirstByteIsNoField
  <2>4. ASSUME NEW i \in (n + 1) + 1..17
        PROVE  /\ before = ClearedRecord => memory'[A + i - 1] = ClearedByte(i)
               /\ before.version # STORAGE_VERSION => memory'[A + i - 1] = 255
    <3>1. /\ i \in n + 1..17 /\ i - 1 \in 0..size - 1 /\ i - 1 # n
          /\ A + i - 1 = A + (i - 1)
      BY <1>1, <1>5, <2>2
    <3>2. memory'[A + i - 1] = memory[A + i - 1]
      BY <1>2, <3>1
    <3>3. /\ before = ClearedRecord => memory[A + i - 1] = ClearedByte(i)
          /\ before.version # STORAGE_VERSION => memory[A + i - 1] = 255
      BY <2>1, <3>1 DEF IInv, RestIsAsBefore, A, n
    <3> QED BY <3>2, <3>3
  <2> QED BY <2>3, <2>4
<1>11. VersionComesFirst'
  <2>1. SUFFICES ASSUME ProfilesAvailable, NEW slot \in Slots,
                        memory'[RecordAddress(slot)] # STORAGE_VERSION
                 PROVE  \A k \in 0..16 : memory'[RecordAddress(slot) + k] = 255
    BY DEF VersionComesFirst
  <2>2. slot \in Cells /\ CellAvailable(slot)
    BY <2>1 DEF Cells, CellAvailable
  <2>3. /\ CellAddress(slot) = RecordAddress(slot) /\ CellSize(slot) = 17
        /\ RecordAddress(slot) \in Nat /\ RecordAddress(slot) + 0 = RecordAddress(slot)
    BY <2>2, CellBounds, SlotAddress
  <2>4. CASE slot = cell
    <3>1. memory'[A + 0] = bytes[1]
      <4>1. CASE n = 0
        BY <1>2, <4>1
      <4>2. CASE n # 0
        <5>1. 1 \in 1..n /\ 0 \in 0..size - 1 /\ A + 1 - 1 = A + 0
          BY <1>1, <1>5, <4>2
        <5>2. memory[A + 1 - 1] = bytes[1]
          BY <1>1, <5>1 DEF IInv, BeginningIsWritten, A, n, bytes
        <5> QED BY <1>2, <4>2, <5>1, <5>2
      <4> QED BY <4>1, <4>2
    <3>2. bytes[1] = STORAGE_VERSION
      BY <2>4, FirstByteIsVersion DEF bytes
    <3>3. A = RecordAddress(slot)
      BY <2>3, <2>4 DEF A
    <3> QED BY <2>1, <2>3, <3>1, <3>2, <3>3
  <2>5. CASE slot # cell
    <3>1. \A k \in 0..16 :
            memory'[RecordAddress(slot) + k] = memory[RecordAddress(slot) + k]
      BY <2>2, <2>3, <2>5, OtherBytes
    <3>2. memory'[RecordAddress(slot)] = memory[RecordAddress(slot)]
      BY <2>3, <3>1
    <3>3. \A k \in 0..16 : memory[RecordAddress(slot) + k] = 255
      BY <2>1, <3>2 DEF IInv, VersionComesFirst
    <3> QED BY <3>1, <3>3
  <2> QED BY <2>4, <2>5
<1>12. CopiesAgree'
  <2>1. ASSUME cell # CalibrationCell PROVE CalibrationOrDefault' = CalibrationOrDefault
    <3>1. CalibrationCell \in Cells /\ CalibrationCell \notin Slots
      BY CellsDiffer DEF Cells
    <3>2. Read(memory', CalibrationCell) = Read(memory, CalibrationCell)
      BY <2>1, <3>1, OtherRecords
    <3>3. LoadCalibration(memory') = LoadCalibration(memory)
      BY <3>1, <3>2 DEF Read
    <3> QED BY <3>3 DEF CalibrationOrDefault
  <2> QED BY <1>3, <2>1 DEF IInv, CopiesAgree
<1> QED BY <1>6, <1>7, <1>8, <1>9, <1>10, <1>11, <1>12 DEF IInv

------------------------------------------------------------------------------
(* The theorems                                                               *)

\* No step leaves the invariant, and nor does a stutter.
LEMMA NextKeepsIInv == IInv /\ [Next]_vars => IInv'
<1> SUFFICES ASSUME IInv, [Next]_vars PROVE IInv'
  OBVIOUS
<1>1. CASE UNCHANGED vars
  <2>1. /\ memory' = memory /\ queue' = queue /\ cell' = cell /\ wanted' = wanted
        /\ before' = before /\ content' = content /\ dirty' = dirty
        /\ shown' = shown /\ saved' = saved /\ currentScreen' = currentScreen
        /\ userProfileSlots' = userProfileSlots
        /\ activeCalibration' = activeCalibration
    BY <1>1 DEF vars, copies, editor, history
  <2>2. (TypeOK /\ WriteIsAccepted)'
    BY <2>1 DEF IInv, TypeOK, WriteIsAccepted, Idle, CellAvailable
  <2>3. Written' = Written /\ BytesWanted' = BytesWanted
        /\ CellAddress(cell)' = CellAddress(cell) /\ CellSize(cell)' = CellSize(cell)
    BY <2>1 DEF Written, BytesWanted, RecordWanted, CellAddress, CellSize
  <2>4. (RestIsWaiting /\ BeginningIsWritten /\ RestIsAsBefore)'
    BY <2>1, <2>3 DEF IInv, RestIsWaiting, BeginningIsWritten, RestIsAsBefore, Idle
  <2>5. (VersionComesFirst /\ CopiesAgree)'
    BY <2>1 DEF IInv, VersionComesFirst, CopiesAgree, CalibrationOrDefault
  <2> QED BY <2>2, <2>4, <2>5 DEF IInv
<1>2. CASE \E slot \in Slots, p \in Profiles : SaveProfile(slot, p)
  BY <1>2, SaveProfileKeepsIInv
<1>3. CASE \E slot \in Slots : ClearSlot(slot)
  BY <1>3, ClearSlotKeepsIInv
<1>4. CASE OpenCalibration \/ RotateCalibration \/ PressCalibration
  BY <1>4, EditorKeepsIInv
<1>5. CASE SaveCalibration
  BY <1>5, SaveCalibrationKeepsIInv
<1>6. CASE UpdateByte
  BY <1>6, UpdateByteKeepsIInv
<1>7. CASE FinishProfile
  BY <1>7, FinishProfileKeepsIInv
<1>8. CASE FinishCalibration
  BY <1>8, FinishCalibrationKeepsIInv
<1>9. CASE Reset
  BY <1>9, ResetKeepsIInv
<1> QED BY <1>1, <1>2, <1>3, <1>4, <1>5, <1>6, <1>7, <1>8, <1>9 DEF Next

\* Every state the storage can be in satisfies the invariant.
THEOREM SpecIInv == Spec => []IInv
<1> QED BY InitIInv, NextKeepsIInv, PTL DEF Spec

\* The RAM copies of the calibration are right whenever no write is running.
THEOREM CalibrationCopies == Spec => []CalibrationCopiesAgree
<1>1. IInv => CalibrationCopiesAgree
  BY CellsDiffer DEF IInv, CopiesAgree, CalibrationCopiesAgree, Idle
<1> QED BY <1>1, SpecIInv, PTL

\* A step of the storage is a step of the durable records, or changes nothing
\* there: the write that begins names its record, each byte disturbs no other
\* record, and a write that is complete reads as what was wanted.
LEMMA StepIsDurable == IInv /\ [Next]_vars => [Records!Next]_(Records!vars)
<1> SUFFICES ASSUME IInv, [Next]_vars PROVE [Records!Next]_(Records!vars)
  OBVIOUS
<1>1. CASE UNCHANGED vars
  BY <1>1 DEF vars, history, Records!vars
<1>2. ASSUME NEW c \in Cells, NEW value, NEW updates, Write(c, value, updates)
      PROVE  Records!Next
  <2>1. Records!Begin(c)
    BY <1>2 DEF Write, Idle, NoCell, Records!Begin
  <2> QED BY <2>1 DEF Records!Next
<1>3. CASE \E slot \in Slots, p \in Profiles : SaveProfile(slot, p)
  BY <1>2, <1>3 DEF SaveProfile, Cells
<1>4. CASE \E slot \in Slots : ClearSlot(slot)
  BY <1>2, <1>4 DEF ClearSlot, Cells
<1>5. CASE SaveCalibration
  BY <1>2, <1>5 DEF SaveCalibration, Cells
<1>6. CASE OpenCalibration \/ RotateCalibration \/ PressCalibration
  BY <1>6 DEF OpenCalibration, RotateCalibration, PressCalibration,
              OnCalibrationScreen, history, Records!vars
<1>7. CASE UpdateByte
  <2>1. cell \in Cells
    BY <1>7, OneByte
  <2>2. content = Contents(memory) /\ content' = Contents(memory')
    BY <1>7 DEF IInv, CopiesAgree, UpdateByte
  <2>3. \A c \in Cells \ {cell} : content'[c] = content[c]
    BY <1>7, <2>2, OtherRecords DEF Contents
  <2>4. UNCHANGED <<cell, wanted, outcome>>
    BY <1>7 DEF UpdateByte
  <2>5. Records!Disturb
    BY <2>1, <2>3, <2>4 DEF Records!Disturb
  <2> QED BY <2>5 DEF Records!Next
<1>8. CASE Finished
  <2>1. cell \in Cells /\ Read(memory, cell) = wanted
    BY <1>8, WholeRecordIsWritten DEF Finished
  <2>2. content[cell] = wanted
    BY <2>1 DEF IInv, CopiesAgree, Contents
  <2>3. cell' = NoCell /\ outcome' = "done" /\ content' = content
    BY <1>8 DEF Finished
  <2>4. Records!Complete
    BY <2>1, <2>2, <2>3 DEF Records!Complete, NoCell
  <2> QED BY <2>4 DEF Records!Next
<1>9. CASE Reset
  <2>1. Records!Reset
    BY <1>9 DEF Reset, NoCell, Records!Reset
  <2> QED BY <2>1 DEF Records!Next
<1> QED BY <1>1, <1>3, <1>4, <1>5, <1>6, <1>7, <1>8, <1>9
        DEF Next, FinishProfile, FinishCalibration

\* The two stores, byte by byte and with a reset between any two bytes, are
\* durable records.
THEOREM StorageIsDurable == Spec => ImplementsDurableRecords
<1>1. Init => Records!Init
  BY DEF Init, Records!Init, NoCell
<1> QED BY <1>1, StepIsDurable, SpecIInv, PTL
        DEF Spec, ImplementsDurableRecords, Records!Spec

------------------------------------------------------------------------------
(* A write that is cut short                                                  *)

\* The record being written to a slot, and the part of it that is in the memory.
LEMMA PartOfRecord ==
  ASSUME IInv, cell \in Slots
  PROVE  /\ cell \in Cells /\ ProfilesAvailable /\ memory \in Memory
         /\ CellAddress(cell) = RecordAddress(cell) /\ RecordAddress(cell) \in Nat
         /\ Written \in 0..17
         /\ Fits(RecordWanted) /\ SlotLayout(BytesWanted, RecordWanted)
         /\ \A k \in 0..16 : BytesWanted[k + 1] \in Byte
         /\ \A k \in 0..16 : memory[RecordAddress(cell) + k] \in Byte
         /\ \A k \in 0..16 : k < Written =>
              memory[RecordAddress(cell) + k] = BytesWanted[k + 1]
         /\ \A k \in 0..16 : k >= Written =>
              /\ before = ClearedRecord =>
                   memory[RecordAddress(cell) + k] = ClearedByte(k + 1)
              /\ before.version # STORAGE_VERSION =>
                   memory[RecordAddress(cell) + k] = 255
<1>1. cell \in Cells /\ ~Idle
  BY CellsDiffer DEF Cells, Idle
<1>2. CellAvailable(cell) /\ ProfilesAvailable /\ memory \in Memory
  BY <1>1 DEF IInv, WriteIsAccepted, CellAvailable, TypeOK
<1>3. /\ CellAddress(cell) = RecordAddress(cell) /\ CellSize(cell) = 17
      /\ RecordAddress(cell) \in Nat
  BY <1>1, CellBounds
<1>4. Written \in 0..17
  <2>1. Len(queue) \in Nat /\ Len(queue) <= CellSize(cell)
    BY <1>1 DEF IInv, TypeOK, RestIsWaiting
  <2>2. Written = 17 - Len(queue)
    BY <1>3 DEF Written
  <2>3. \A length \in Nat : length <= 17 => 17 - length \in 0..17
    OBVIOUS
  <2> QED BY <1>3, <2>1, <2>2, <2>3, Zenon
<1>5. Fits(RecordWanted)
  <2>1. CASE wanted = NoProfile
    BY <2>1, StoredFits, ProfilesAreStorable DEF RecordWanted
  <2>2. CASE wanted # NoProfile
    BY <2>2, StoredFits, ProfilesAreStorable DEF RecordWanted, IInv, WriteIsAccepted
  <2> QED BY <2>1, <2>2
<1>6. /\ BytesWanted \in Seq(Byte) /\ Len(BytesWanted) = 17
      /\ SlotLayout(BytesWanted, RecordWanted)
  BY <1>5, RecordLayout DEF Fits, BytesWanted
<1>7. \A k \in 0..16 : BytesWanted[k + 1] \in Byte
  <2> TAKE k \in 0..16
  <2>1. k + 1 \in 1..Len(BytesWanted)
    BY <1>6
  <2> QED BY <1>6, <2>1, ElementOfSeq
<1>8. \A k \in 0..16 : memory[RecordAddress(cell) + k] \in Byte
  BY <1>1, <1>2, <1>3, CellHoldsBytes
<1>9. ASSUME NEW k \in 0..16, k < Written
      PROVE  memory[RecordAddress(cell) + k] = BytesWanted[k + 1]
  <2>1. /\ k + 1 \in 1..Written
        /\ RecordAddress(cell) + (k + 1) - 1 = RecordAddress(cell) + k
    BY <1>3, <1>4, <1>9
  <2>2. memory[RecordAddress(cell) + (k + 1) - 1] = BytesWanted[k + 1]
    BY <1>1, <1>3, <2>1 DEF IInv, BeginningIsWritten
  <2> QED BY <2>1, <2>2
<1>10. ASSUME NEW k \in 0..16, k >= Written
       PROVE  /\ before = ClearedRecord =>
                   memory[RecordAddress(cell) + k] = ClearedByte(k + 1)
              /\ before.version # STORAGE_VERSION =>
                   memory[RecordAddress(cell) + k] = 255
  <2>1. /\ k + 1 \in Written + 1..17
        /\ RecordAddress(cell) + (k + 1) - 1 = RecordAddress(cell) + k
    BY <1>3, <1>4, <1>10
  <2>2. /\ before = ClearedRecord =>
             memory[RecordAddress(cell) + (k + 1) - 1] = ClearedByte(k + 1)
        /\ before.version # STORAGE_VERSION =>
             memory[RecordAddress(cell) + (k + 1) - 1] = 255
    BY <1>3, <2>1 DEF IInv, RestIsAsBefore
  <2> QED BY <2>1, <2>2
<1> QED BY <1>1, <1>2, <1>3, <1>4, <1>5, <1>6, <1>7, <1>8, <1>9, <1>10

\* The fields of a record of which all bytes up to theirs are written.
LEMMA WrittenFields ==
  ASSUME IInv, cell \in Slots
  PROVE  LET r == ReadRecord(memory, cell)
             s == RecordWanted
         IN  /\ Written > 0 => r.version = s.version
             /\ Written > 1 => r.occupied = s.occupied
             /\ Written > 2 => r.mode = s.mode
             /\ Written > 10 => /\ r.targetTempC = s.targetTempC
                                /\ r.lowTempC = s.lowTempC
                                /\ r.highTempC = s.highTempC
                                /\ r.durationMinutes = s.durationMinutes
             /\ Written > 14 => /\ r.highPhaseMinutes = s.highPhaseMinutes
                                /\ r.lowPhaseMinutes = s.lowPhaseMinutes
<1> DEFINE at == RecordAddress(cell)
           bytes == BytesWanted
           s == RecordWanted
           n == Written
<1>1. /\ at \in Nat /\ n \in 0..17 /\ Fits(s) /\ SlotLayout(bytes, s)
      /\ \A k \in 0..16 : k < n => memory[at + k] = bytes[k + 1]
  BY PartOfRecord
<1> HIDE DEF at, bytes, s, n
<1>2. ASSUME NEW k \in 0..15, k + 1 < n, NEW value \in Int, WordAt(bytes, k + 1, value)
      PROVE  ReadWord(memory, at + k) = ToWord(value)
  <2>1. /\ k < n /\ k + 1 \in 0..16
        /\ at + k \in Int /\ at + (k + 1) = (at + k) + 1
    BY <1>1, <1>2
  <2>2. memory[at + k] = bytes[k + 1] /\ memory[at + (k + 1)] = bytes[(k + 1) + 1]
    BY <1>1, <1>2, <2>1
  <2>3. WordAt(memory, at + k, value)
    BY <1>2, <2>1, <2>2 DEF WordAt
  <2> QED BY <2>1, <2>3, WordReadBack
<1>3. /\ s.targetTempC \in Int /\ s.lowTempC \in Int /\ s.highTempC \in Int
      /\ s.durationMinutes \in Int /\ s.highPhaseMinutes \in Int
      /\ s.lowPhaseMinutes \in Int
  BY <1>1 DEF Fits, SlotRecord
<1>4. /\ WordAt(bytes, 3 + 1, s.targetTempC) /\ WordAt(bytes, 5 + 1, s.lowTempC)
      /\ WordAt(bytes, 7 + 1, s.highTempC) /\ WordAt(bytes, 9 + 1, s.durationMinutes)
      /\ WordAt(bytes, 11 + 1, s.highPhaseMinutes)
      /\ WordAt(bytes, 13 + 1, s.lowPhaseMinutes)
      /\ bytes[0 + 1] = s.version /\ bytes[1 + 1] = s.occupied /\ bytes[2 + 1] = s.mode
  BY <1>1 DEF SlotLayout
<1>5. /\ Signed(ToWord(s.targetTempC)) = s.targetTempC
      /\ Signed(ToWord(s.lowTempC)) = s.lowTempC
      /\ Signed(ToWord(s.highTempC)) = s.highTempC
  BY <1>1, <1>3, SignedOfWord, SMT DEF Fits
<1>6. /\ ToWord(s.durationMinutes) = s.durationMinutes
      /\ ToWord(s.highPhaseMinutes) = s.highPhaseMinutes
      /\ ToWord(s.lowPhaseMinutes) = s.lowPhaseMinutes
  BY <1>1, WordOfInteger DEF Fits
<1>7. n > 10 => /\ ReadWord(memory, at + 3) = ToWord(s.targetTempC)
                /\ ReadWord(memory, at + 5) = ToWord(s.lowTempC)
                /\ ReadWord(memory, at + 7) = ToWord(s.highTempC)
                /\ ReadWord(memory, at + 9) = ToWord(s.durationMinutes)
  BY <1>1, <1>2, <1>3, <1>4
<1>8. n > 14 => /\ ReadWord(memory, at + 11) = ToWord(s.highPhaseMinutes)
                /\ ReadWord(memory, at + 13) = ToWord(s.lowPhaseMinutes)
  BY <1>1, <1>2, <1>3, <1>4
<1>9. /\ n > 0 => memory[at] = s.version
      /\ n > 1 => memory[at + 1] = s.occupied
      /\ n > 2 => memory[at + 2] = s.mode
  <2>1. at + 0 = at
    BY <1>1
  <2>2. n > 0 => memory[at + 0] = bytes[0 + 1]
    BY <1>1
  <2>3. /\ n > 1 => memory[at + 1] = bytes[1 + 1]
        /\ n > 2 => memory[at + 2] = bytes[2 + 1]
    BY <1>1
  <2> QED BY <1>4, <2>1, <2>2, <2>3
<1> QED BY <1>5, <1>6, <1>7, <1>8, <1>9 DEF ReadRecord, at, s, n

\* A slot is loaded as the profile in its bytes, or is vacant; it is vacant if
\* its record is not occupied or its duration is out of range.
LEMMA LoadedOrVacant ==
  ASSUME NEW mem, NEW slot \in Slots
  PROVE  LET r == ReadRecord(mem, slot)
         IN  /\ LoadSlot(mem, slot) \in {ToProfile(r), NoProfile}
             /\ r.occupied = 0 => LoadSlot(mem, slot) = NoProfile
             /\ r.durationMinutes \in Int /\ r.durationMinutes >= 65280 =>
                  LoadSlot(mem, slot) = NoProfile
             /\ r.version = STORAGE_VERSION /\ r.checksum # Checksum(r) =>
                  LoadSlot(mem, slot) = NoProfile
<1> DEFINE r == ReadRecord(mem, slot)
<1>1. LoadSlot(mem, slot) = IF ProfilesAvailable /\ IsStoredSlotValid(r) /\ r.occupied # 0
                              THEN ToProfile(r) ELSE NoProfile
  BY DEF LoadSlot
<1>2. ASSUME r.durationMinutes \in Int, r.durationMinutes >= 65280
      PROVE  ~IsValid(ToProfile(r))
  <2>1. MAX_DURATION_MINUTES \in Nat /\ MAX_DURATION_MINUTES < 65280
    BY ProfileEngineAssumption, PersistentSettingsAssumption, SMT
  <2>2. ToProfile(r).durationMinutes = r.durationMinutes
    BY DEF ToProfile
  <2>3. ~(ToProfile(r).durationMinutes <= MAX_DURATION_MINUTES)
    BY <1>2, <2>1, <2>2, SMT
  <2> QED BY <2>3 DEF IsValid
<1> HIDE DEF r
<1>3. r.durationMinutes \in Int /\ r.durationMinutes >= 65280 =>
        LoadSlot(mem, slot) = NoProfile
  BY <1>1, <1>2, SMT DEF IsStoredSlotValid
<1>4. /\ LoadSlot(mem, slot) \in {ToProfile(r), NoProfile}
      /\ r.occupied = 0 => LoadSlot(mem, slot) = NoProfile
      /\ r.checksum # Checksum(r) => LoadSlot(mem, slot) = NoProfile
  BY <1>1 DEF IsStoredSlotValid
<1> QED BY <1>3, <1>4, SMT DEF r

\* A word of which some bytes are still zero is no larger.
LEMMA PartialWord ==
  ASSUME NEW low \in Byte, NEW high \in Byte, NEW l \in {low, 0}, NEW h \in {high, 0}
  PROVE  l + 256 * h \in Nat /\ l + 256 * h <= low + 256 * high
BY SMT DEF Byte

\* A delete that is cut short.
LEMMA InterruptedDelete ==
  ASSUME IInv, cell \in Slots, wanted = NoProfile
  PROVE  /\ LoadSlot(memory, cell) \in {ToProfile(before), NoProfile}
         /\ before = ClearedRecord \/ before.version # STORAGE_VERSION =>
              LoadSlot(memory, cell) = NoProfile
<1> DEFINE r == ReadRecord(memory, cell)
           at == RecordAddress(cell)
<1>1. /\ Written \in 0..17 /\ at \in Nat
      /\ \A k \in 0..16 : memory[at + k] \in Byte
      /\ \A k \in 0..16 : k >= Written =>
              /\ before = ClearedRecord => memory[at + k] = ClearedByte(k + 1)
              /\ before.version # STORAGE_VERSION => memory[at + k] = 255
  BY PartOfRecord
<1>2. RecordWanted.occupied = 0
  BY DEF RecordWanted, Stored
<1>3. CASE Written > 1
  <2>1. r.occupied = 0
    BY <1>2, <1>3, WrittenFields
  <2>2. LoadSlot(memory, cell) = NoProfile
    BY <2>1, LoadedOrVacant
  <2> QED BY <2>2
<1>4. CASE Written <= 1
  <2>1. ToProfile(r) = ToProfile(before)
    BY <1>4 DEF IInv, RestIsAsBefore
  <2>2. LoadSlot(memory, cell) \in {ToProfile(before), NoProfile}
    BY <2>1, LoadedOrVacant
  <2>3. ASSUME before = ClearedRecord PROVE LoadSlot(memory, cell) = NoProfile
    <3>1. memory[at + 1] = ClearedByte(1 + 1)
      BY <1>1, <1>4, <2>3
    <3>2. r.occupied = 0
      BY <3>1 DEF ReadRecord, ClearedByte
    <3> QED BY <3>2, LoadedOrVacant
  <2>4. ASSUME before.version # STORAGE_VERSION PROVE LoadSlot(memory, cell) = NoProfile
    <3>1. memory[at + 10] = 255 /\ memory[at + 9] \in Byte
      BY <1>1, <1>4, <2>4
    <3>2. at + 9 + 1 = at + 10
      BY <1>1
    <3>3. r.durationMinutes = memory[at + 9] + 256 * memory[at + 10]
      BY <3>2 DEF ReadRecord, ReadWord
    <3>4. r.durationMinutes \in Int /\ r.durationMinutes >= 65280
      BY <3>1, <3>3, SMT DEF Byte
    <3> QED BY <3>4, LoadedOrVacant
  <2> QED BY <2>2, <2>3, <2>4
<1> QED BY <1>1, <1>3, <1>4

\* A save that is cut short in a slot never written before.
LEMMA InterruptedFirstSave ==
  ASSUME IInv, cell \in Slots, wanted # NoProfile, before.version # STORAGE_VERSION,
         LoadSlot(memory, cell) # NoProfile
  PROVE  LET now == LoadSlot(memory, cell)
         IN  /\ now.mode = wanted.mode /\ now.targetTempC = wanted.targetTempC
             /\ now.lowTempC = wanted.lowTempC /\ now.highTempC = wanted.highTempC
             /\ now.durationMinutes = wanted.durationMinutes
<1> DEFINE r == ReadRecord(memory, cell)
           at == RecordAddress(cell)
<1>1. /\ Written \in 0..17 /\ at \in Nat
      /\ \A k \in 0..16 : memory[at + k] \in Byte
      /\ \A k \in 0..16 : k >= Written =>
           (before.version # STORAGE_VERSION => memory[at + k] = 255)
  BY PartOfRecord
<1>2. Written > 10
  <2>1. SUFFICES ASSUME ~(Written > 10) PROVE FALSE
    OBVIOUS
  <2>2. memory[at + 10] = 255 /\ memory[at + 9] \in Byte
    BY <1>1, <2>1
  <2>3. at + 9 + 1 = at + 10
    BY <1>1
  <2>4. r.durationMinutes = memory[at + 9] + 256 * memory[at + 10]
    BY <2>3 DEF ReadRecord, ReadWord
  <2>5. r.durationMinutes \in Int /\ r.durationMinutes >= 65280
    BY <2>2, <2>4, SMT DEF Byte
  <2> QED BY <2>5, LoadedOrVacant
<1>3. LoadSlot(memory, cell) = ToProfile(r)
  BY LoadedOrVacant
<1>4. RecordWanted = Stored(1, wanted)
  BY DEF RecordWanted
<1>5. /\ r.mode = ModeByte(wanted.mode) /\ r.targetTempC = wanted.targetTempC
      /\ r.lowTempC = wanted.lowTempC /\ r.highTempC = wanted.highTempC
      /\ r.durationMinutes = wanted.durationMinutes
  BY <1>1, <1>2, <1>4, WrittenFields DEF Stored
<1>6. ByteMode(ModeByte(wanted.mode)) = wanted.mode
  <2>1. Storable(wanted)
    BY ProfilesAreStorable DEF IInv, WriteIsAccepted
  <2>2. wanted.mode \in ProfileMode
    BY <2>1 DEF Storable, ProfileConfig
  <2> QED BY <2>2, ModeReadBack
<1> QED BY <1>3, <1>5, <1>6 DEF ToProfile

\* Small temperatures are read as they lie in the word.
LEMMA SmallWord ==
  ASSUME NEW word \in Nat, word < 32768
  PROVE  Signed(word) = word /\ ToWord(word) = word
BY SMT DEF Signed, ToWord

\* A save that is cut short in a slot that was cleared: until the checksum is
\* written it is the one of the cleared record, 1, and the occupied record's
\* fields add up to more than that.
LEMMA InterruptedSave ==
  ASSUME IInv, cell \in Slots, wanted # NoProfile, before = ClearedRecord
  PROVE  LoadSlot(memory, cell) \in {wanted, NoProfile}
<1> DEFINE r == ReadRecord(memory, cell)
           s == RecordWanted
           at == RecordAddress(cell)
           bytes == BytesWanted
           n == Written
<1>1. /\ n \in 0..17 /\ at \in Nat /\ Fits(s) /\ SlotLayout(bytes, s)
      /\ \A k \in 0..16 : bytes[k + 1] \in Byte
      /\ \A k \in 0..16 : memory[at + k] \in Byte
      /\ \A k \in 0..16 : k < n => memory[at + k] = bytes[k + 1]
      /\ \A k \in 0..16 : k >= n => memory[at + k] = ClearedByte(k + 1)
  BY PartOfRecord
<1>2. wanted \in Profiles /\ Storable(wanted)
  BY ProfilesAreStorable DEF IInv, WriteIsAccepted
<1>3. s = Stored(1, wanted)
  BY DEF RecordWanted
<1>4. /\ s.version = STORAGE_VERSION /\ s.occupied = 1 /\ s.mode = ModeByte(wanted.mode)
      /\ s.targetTempC = wanted.targetTempC /\ s.lowTempC = wanted.lowTempC
      /\ s.highTempC = wanted.highTempC /\ s.durationMinutes = wanted.durationMinutes
      /\ s.highPhaseMinutes = wanted.highPhaseMinutes
      /\ s.lowPhaseMinutes = wanted.lowPhaseMinutes
  BY <1>3 DEF Stored
<1>5. wanted.mode \in ProfileMode /\ wanted \in ProfileConfig
  BY <1>2 DEF Storable, ProfileConfig
<1>6. ModeByte(wanted.mode) \in 0..2 /\ ByteMode(ModeByte(wanted.mode)) = wanted.mode
  BY <1>5, ModeReadBack
<1> HIDE DEF n, at, s, bytes
<1>7. CASE n <= 1
  <2>1. memory[at + 1] = ClearedByte(1 + 1)
    BY <1>1, <1>7
  <2>2. r.occupied = 0
    BY <2>1 DEF ReadRecord, ClearedByte, at
  <2> QED BY <2>2, LoadedOrVacant
<1>8. CASE n > 15
  <2>1. /\ r.mode = s.mode /\ r.targetTempC = s.targetTempC
        /\ r.lowTempC = s.lowTempC /\ r.highTempC = s.highTempC
        /\ r.durationMinutes = s.durationMinutes
        /\ r.highPhaseMinutes = s.highPhaseMinutes
        /\ r.lowPhaseMinutes = s.lowPhaseMinutes
    BY <1>1, <1>8, WrittenFields DEF n, s
  <2>2. ToProfile(r) = [mode |-> wanted.mode, targetTempC |-> wanted.targetTempC,
             lowTempC |-> wanted.lowTempC, highTempC |-> wanted.highTempC,
             durationMinutes |-> wanted.durationMinutes,
             highPhaseMinutes |-> wanted.highPhaseMinutes,
             lowPhaseMinutes |-> wanted.lowPhaseMinutes]
    BY <1>4, <1>6, <2>1 DEF ToProfile
  <2>3. wanted = [mode |-> wanted.mode, targetTempC |-> wanted.targetTempC,
             lowTempC |-> wanted.lowTempC, highTempC |-> wanted.highTempC,
             durationMinutes |-> wanted.durationMinutes,
             highPhaseMinutes |-> wanted.highPhaseMinutes,
             lowPhaseMinutes |-> wanted.lowPhaseMinutes]
    BY <1>5 DEF ProfileConfig
  <2>4. ToProfile(r) = wanted
    BY <2>2, <2>3
  <2> QED BY <2>4, LoadedOrVacant
<1>9. CASE n > 1 /\ n <= 15
  <2>1. ASSUME NEW k \in 2..14
        PROVE  memory[at + k] \in {bytes[k + 1], 0} /\ bytes[k + 1] \in Byte
    <3>1. k < n => memory[at + k] = bytes[k + 1]
      BY <1>1
    <3>2. k >= n => memory[at + k] = 0
      <4>1. k + 1 \notin {1, 16} /\ k \in 0..16
        OBVIOUS
      <4> QED BY <1>1, <4>1 DEF ClearedByte
    <3>3. k < n \/ k >= n
      BY <1>1
    <3> QED BY <1>1, <3>1, <3>2, <3>3
  <2>2. ASSUME NEW k \in 2..13, NEW value \in Nat, value < 65536,
               WordAt(bytes, k + 1, value)
        PROVE  /\ ReadWord(memory, at + k) \in Nat
               /\ ReadWord(memory, at + k) <= value
    <3>1. /\ k \in 2..14 /\ k + 1 \in 2..14 /\ (at + k) + 1 = at + (k + 1)
          /\ value \in Int
      BY <1>1
    <3>2. /\ memory[at + k] \in {bytes[k + 1], 0} /\ bytes[k + 1] \in Byte
          /\ memory[at + (k + 1)] \in {bytes[(k + 1) + 1], 0}
          /\ bytes[(k + 1) + 1] \in Byte
      BY <2>1, <3>1
    <3>3. ReadWord(memory, at + k) = memory[at + k] + 256 * memory[at + (k + 1)]
      BY <3>1 DEF ReadWord
    <3>4. /\ ReadWord(memory, at + k) \in Nat
          /\ ReadWord(memory, at + k) <= bytes[k + 1] + 256 * bytes[(k + 1) + 1]
      <4> DEFINE low == bytes[k + 1]
                 high == bytes[(k + 1) + 1]
                 l == memory[at + k]
                 h == memory[at + (k + 1)]
      <4>1. low \in Byte /\ high \in Byte /\ l \in {low, 0} /\ h \in {high, 0}
        BY <3>2
      <4> HIDE DEF low, high, l, h
      <4>2. l + 256 * h \in Nat /\ l + 256 * h <= low + 256 * high
        BY <4>1, PartialWord
      <4> QED BY <3>3, <4>2 DEF low, high, l, h
    <3>5. bytes[k + 1] + 256 * bytes[(k + 1) + 1] = value
      <4>1. value \in Word /\ ToWord(value) = value
        BY <2>2, WordOfInteger, SMT DEF Word
      <4> QED BY <2>2, <4>1, WordOfBytes DEF WordAt
    <3> QED BY <3>4, <3>5
  <2>3. /\ wanted.targetTempC \in Nat /\ wanted.targetTempC < 32768
        /\ wanted.lowTempC \in Nat /\ wanted.lowTempC < 32768
        /\ wanted.highTempC \in Nat /\ wanted.highTempC < 32768
        /\ wanted.durationMinutes \in Nat /\ wanted.highPhaseMinutes \in Nat
        /\ wanted.lowPhaseMinutes \in Nat
        /\ wanted.targetTempC + wanted.lowTempC + wanted.highTempC
             + wanted.durationMinutes + wanted.highPhaseMinutes
             + wanted.lowPhaseMinutes < 65532
    BY <1>2, <1>5, SMT DEF Storable, ProfileConfig
  <2>4. /\ wanted.targetTempC < 65536 /\ wanted.lowTempC < 65536
        /\ wanted.highTempC < 65536 /\ wanted.durationMinutes < 65536
        /\ wanted.highPhaseMinutes < 65536 /\ wanted.lowPhaseMinutes < 65536
    BY <2>3, SMT
  <2>5. /\ WordAt(bytes, 3 + 1, wanted.targetTempC) /\ WordAt(bytes, 5 + 1, wanted.lowTempC)
        /\ WordAt(bytes, 7 + 1, wanted.highTempC)
        /\ WordAt(bytes, 9 + 1, wanted.durationMinutes)
        /\ WordAt(bytes, 11 + 1, wanted.highPhaseMinutes)
        /\ WordAt(bytes, 13 + 1, wanted.lowPhaseMinutes)
    BY <1>1, <1>4 DEF SlotLayout
  <2> DEFINE w(k) == ReadWord(memory, at + k)
  <2>6. /\ w(3) \in Nat /\ w(3) <= wanted.targetTempC
        /\ w(5) \in Nat /\ w(5) <= wanted.lowTempC
        /\ w(7) \in Nat /\ w(7) <= wanted.highTempC
        /\ w(9) \in Nat /\ w(9) <= wanted.durationMinutes
        /\ w(11) \in Nat /\ w(11) <= wanted.highPhaseMinutes
        /\ w(13) \in Nat /\ w(13) <= wanted.lowPhaseMinutes
    BY <2>2, <2>3, <2>4, <2>5, SMT
  <2>7. /\ r.targetTempC = Signed(w(3)) /\ r.lowTempC = Signed(w(5))
        /\ r.highTempC = Signed(w(7)) /\ r.durationMinutes = w(9)
        /\ r.highPhaseMinutes = w(11) /\ r.lowPhaseMinutes = w(13)
        /\ r.checksum = w(15) /\ r.mode = memory[at + 2]
    BY DEF ReadRecord, at
  <2>8. w(15) = 1
    <3>1. memory[at + 15] = ClearedByte(15 + 1) /\ memory[at + 16] = ClearedByte(16 + 1)
      BY <1>1, <1>9
    <3>2. at + 15 + 1 = at + 16
      BY <1>1
    <3> QED BY <3>1, <3>2 DEF ReadWord, ClearedByte
  <2>9. r.version = 1 /\ r.occupied = 1
    BY <1>1, <1>4, <1>9, WrittenFields DEF n, s, STORAGE_VERSION
  <2>10. r.mode \in 0..2
    <3>1. memory[at + 2] \in {bytes[2 + 1], 0}
      BY <2>1
    <3>2. bytes[2 + 1] = ModeByte(wanted.mode)
      BY <1>1, <1>4 DEF SlotLayout
    <3> QED BY <1>6, <2>7, <3>1, <3>2
  <2> HIDE DEF w, r
  <2>11. /\ ToWord(r.targetTempC) = w(3) /\ ToWord(r.lowTempC) = w(5)
         /\ ToWord(r.highTempC) = w(7)
    <3>1. w(3) < 32768 /\ w(5) < 32768 /\ w(7) < 32768
      BY <2>3, <2>6, SMT
    <3> QED BY <2>6, <2>7, <3>1, SmallWord
  <2>12. Checksum(r) = (1 + 1 + r.mode + w(3) + w(5) + w(7) + w(9) + w(11) + w(13)) % 65536
    BY <2>7, <2>9, <2>11, SMT DEF Checksum
  <2>13. Checksum(r) # 1
    BY <2>3, <2>6, <2>10, <2>12, SMT
  <2>14. r.version = STORAGE_VERSION /\ r.checksum # Checksum(r)
    BY <2>7, <2>8, <2>9, <2>13 DEF STORAGE_VERSION
  <2> QED BY <2>14, LoadedOrVacant DEF r
<1>10. n <= 1 \/ (n > 1 /\ n <= 15) \/ n > 15
  BY <1>1
<1> QED BY <1>7, <1>8, <1>9, <1>10

\* A write of a slot that is cut short after any byte leaves what it promises.
THEOREM InterruptedWrites == Spec => []InterruptedWriteIsSafe
<1>1. ASSUME IInv, cell \in Slots, wanted = NoProfile
      PROVE  /\ LoadSlot(memory, cell) \in {ToProfile(before), NoProfile}
             /\ before = ClearedRecord \/ before.version # STORAGE_VERSION =>
                  LoadSlot(memory, cell) = NoProfile
  BY <1>1, InterruptedDelete
<1>2. ASSUME IInv, cell \in Slots, wanted # NoProfile
      PROVE  /\ before = ClearedRecord => LoadSlot(memory, cell) \in {wanted, NoProfile}
             /\ before.version # STORAGE_VERSION /\ LoadSlot(memory, cell) # NoProfile =>
                  LET now == LoadSlot(memory, cell)
                  IN  /\ now.mode = wanted.mode /\ now.targetTempC = wanted.targetTempC
                      /\ now.lowTempC = wanted.lowTempC
                      /\ now.highTempC = wanted.highTempC
                      /\ now.durationMinutes = wanted.durationMinutes
  BY <1>2, InterruptedSave, InterruptedFirstSave
<1>3. IInv => InterruptedWriteIsSafe
  BY <1>1, <1>2 DEF InterruptedWriteIsSafe
<1> QED BY <1>3, SpecIInv, PTL
==============================================================================
