---------------------------- MODULE ByteStorage ----------------------------
(***************************************************************************)
(* The EEPROM behind interfaces/ByteStorage.h, and the way both stores lay *)
(* integers out in it: least significant byte first, negative numbers in   *)
(* two's complement.  A handler that writes a record calls update() byte   *)
(* by byte; a reset may come between any two calls.                        *)
(***************************************************************************)
EXTENDS Integers, Sequences

CONSTANT STORAGE_LENGTH     \* length(): bytes of EEPROM

ASSUME ByteStorageAssumption == STORAGE_LENGTH \in Nat \ {0}

Byte == 0..255
Word == {n \in Nat : n < 65536}

Memory == [0..STORAGE_LENGTH - 1 -> Byte]

\* An EEPROM that was never written.
Erased == [address \in 0..STORAGE_LENGTH - 1 |-> 255]

\* Conversions to and from unsigned words.
ToWord(value) == value % 65536
Signed(word) == IF word < 32768 THEN word ELSE word - 65536

\* writeU16/writeI16 and readU16.
WordBytes(value) == <<ToWord(value) % 256, ToWord(value) \div 256>>
ReadWord(memory, address) == memory[address] + 256 * memory[address + 1]

\* writeI32 and readI32: the upper word of a 32-bit number keeps its sign.
LongBytes(value) == WordBytes(value % 65536) \o WordBytes(value \div 65536)
ReadLong(memory, address) ==
  ReadWord(memory, address) + 65536 * Signed(ReadWord(memory, address + 2))

\* The calls update(address, byte) that put `bytes` at `address`, in order.
Updates(address, bytes) ==
  [i \in 1..Len(bytes) |-> [address |-> address + i - 1, value |-> bytes[i]]]
==============================================================================
