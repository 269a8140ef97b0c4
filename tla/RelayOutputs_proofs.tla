------------------------- MODULE RelayOutputs_proofs -------------------------
(***************************************************************************)
(* Proofs about the relays, for every set of wirings: whichever pins are   *)
(* assigned, whatever their polarity.                                      *)
(*                                                                         *)
(* What the relays do between two register writes depends on the writes    *)
(* that are still to come, so the invariant says how far an operation has  *)
(* got: which writes are left, and what the ones already made have left in *)
(* the registers.                                                          *)
(***************************************************************************)
EXTENDS RelayOutputs, SequenceTheorems, TLAPS

Other(relay) == IF relay = "heater" THEN "fan" ELSE "heater"

\* What the last command means for a relay as wired.
Target(relay) ==
  IF relay = "fan" THEN command.fanOn ELSE command.heaterOn /\ IsAssigned("fan")

Preloaded(relay) == latch[relay] = PinHigh(relay, Target(relay))

\* A relay without a pin shows nothing, and need not.
Shows(relay) == IsAssigned(relay) => isOutput[relay] /\ Preloaded(relay)

Remaining(relay) == Set(relay, Target(relay))

\* Before begin() no pin is an output.
AfterReset ==
  pending = <<>> /\ command = AllOff /\ \A relay \in Relay : ~isOutput[relay]

\* begin(), write by write; a pin is only made an output when it is preloaded.
DuringBegin ==
  /\ command = AllOff
  /\ \/ pending = ConfigureBoth /\ ~isOutput["heater"] /\ ~isOutput["fan"]
     \/ /\ pending = <<ModeWrite("heater")>> \o Configure("fan")
        /\ IsAssigned("heater") /\ Preloaded("heater")
        /\ ~isOutput["heater"] /\ ~isOutput["fan"]
     \/ pending = Configure("fan") /\ Shows("heater") /\ ~isOutput["fan"]
     \/ /\ pending = <<ModeWrite("fan")>> /\ Shows("heater")
        /\ IsAssigned("fan") /\ Preloaded("fan") /\ ~isOutput["fan"]
     \/ pending = <<>> /\ Shows("heater") /\ Shows("fan")

\* The relay an operation writes first.
FirstRelay == IF Target("heater") THEN "fan" ELSE "heater"

\* apply() and forceOff(), write by write: the fan first to switch the heater
\* on, and last otherwise.
DuringApply ==
  LET first == FirstRelay
      last  == Other(FirstRelay)
  IN  /\ command.heaterOn => command.fanOn
      /\ \A relay \in Relay : IsAssigned(relay) => isOutput[relay]
      /\ \/ pending = Remaining(first) \o Remaining(last)
         \/ pending = Remaining(last) /\ Shows(first)
         \/ pending = <<>> /\ Shows(first) /\ Shows(last)

IInv ==
  /\ TypeOK
  /\ HeaterNeverWithoutFan
  /\ phase = "reset" => AfterReset
  /\ phase = "begun" => DuringBegin
  /\ phase = "commanded" => DuringApply

------------------------------------------------------------------------------
(* The writes of an operation.  Every sequence here consists of writes to     *)
(* assigned pins.                                                             *)

AssignedWrite == {w \in Write : IsAssigned(w.relay)}

\* A write in front of others is made first and leaves the others.
LEMMA FirstWrite ==
  ASSUME NEW S, NEW w \in S, NEW s \in Seq(S)
  PROVE  /\ <<w>> \o s \in Seq(S)
         /\ <<w>> \o s # <<>>
         /\ Head(<<w>> \o s) = w
         /\ Tail(<<w>> \o s) = s
OBVIOUS

\* Two writes are a sequence of writes.
LEMMA PairIsSeq ==
  ASSUME NEW S, NEW v \in S, NEW w \in S
  PROVE  <<v, w>> \in Seq(S)
OBVIOUS

\* A pair of writes is made one after the other.
LEMMA TwoWrites ==
  ASSUME NEW S, NEW v \in S, NEW w \in S, NEW s \in Seq(S)
  PROVE  <<v, w>> \o s = <<v>> \o (<<w>> \o s)
<1>1. <<v>> \in Seq(S) /\ <<w>> \in Seq(S) /\ <<v, w>> \in Seq(S)
  BY PairIsSeq
<1>2. <<v>> \o <<w>> = <<v, w>>
  <2>1. /\ <<v>> \o <<w>> \in Seq(S) /\ Len(<<v>> \o <<w>>) = 2
        /\ \A i \in 1..2 : (<<v>> \o <<w>>)[i] = IF i <= 1 THEN <<v>>[i] ELSE <<w>>[i - 1]
    BY <1>1, ConcatProperties
  <2>2. \A i \in 1..2 : (<<v>> \o <<w>>)[i] = <<v, w>>[i]
    BY <2>1
  <2> QED BY <1>1, <2>1, <2>2, SeqEqual
<1>3. (<<v>> \o <<w>>) \o s = <<v>> \o (<<w>> \o s)
  BY <1>1, ConcatAssociative
<1> QED BY <1>1, <1>2, <1>3

\* Nothing to write for a relay without a pin.
LEMMA NoWrite ==
  ASSUME NEW S, NEW s \in Seq(S)
  PROVE  <<>> \o s = s /\ s \o <<>> = s /\ <<>> \in Seq(S)
OBVIOUS

\* The writes to one relay are writes to a pin it has (writeIfAssigned).
LEMMA WritesAreAssigned ==
  ASSUME TypeOK, NEW relay \in Relay, NEW on \in BOOLEAN
  PROVE  /\ PinHigh(relay, on) \in BOOLEAN
         /\ Set(relay, on) \in Seq(AssignedWrite)
         /\ Configure(relay) \in Seq(AssignedWrite)
         /\ IsAssigned(relay) =>
              /\ LatchWrite(relay, on) \in AssignedWrite
              /\ ModeWrite(relay) \in AssignedWrite
<1>1. PinHigh(relay, on) \in BOOLEAN
  BY DEF PinHigh
<1>2. IsAssigned(relay) => LatchWrite(relay, on) \in AssignedWrite
  BY <1>1 DEF AssignedWrite, Write, LatchWrite
<1>3. IsAssigned(relay) => LatchWrite(relay, FALSE) \in AssignedWrite
  BY DEF AssignedWrite, Write, LatchWrite, PinHigh
<1>4. IsAssigned(relay) => ModeWrite(relay) \in AssignedWrite
  BY DEF AssignedWrite, Write, ModeWrite
<1>5. CASE IsAssigned(relay)
  <2>1. Set(relay, on) = <<LatchWrite(relay, on)>>
          /\ Configure(relay) = <<LatchWrite(relay, FALSE), ModeWrite(relay)>>
    BY <1>5 DEF Set, Configure
  <2>2. Configure(relay) \in Seq(AssignedWrite)
    BY <1>3, <1>4, <1>5, <2>1, PairIsSeq
  <2>3. Set(relay, on) \in Seq(AssignedWrite)
    BY <1>2, <1>5, <2>1
  <2> QED BY <1>1, <1>2, <1>4, <2>2, <2>3
<1>6. CASE ~IsAssigned(relay)
  BY <1>1, <1>6 DEF Set, Configure
<1> QED BY <1>5, <1>6

\* What the writes of begin() and of apply() are, pin by pin.
LEMMA WritesInOrder ==
  ASSUME TypeOK, NEW relay \in Relay, NEW on \in BOOLEAN,
         NEW rest \in Seq(AssignedWrite)
  PROVE  /\ IsAssigned(relay) =>
              /\ Set(relay, on) \o rest = <<LatchWrite(relay, on)>> \o rest
              /\ Configure(relay) \o rest =
                   <<LatchWrite(relay, FALSE)>> \o (<<ModeWrite(relay)>> \o rest)
         /\ ~IsAssigned(relay) =>
              Set(relay, on) \o rest = rest /\ Configure(relay) \o rest = rest
<1>1. CASE IsAssigned(relay)
  <2> DEFINE l == LatchWrite(relay, FALSE)
             m == ModeWrite(relay)
  <2>1. l \in AssignedWrite /\ m \in AssignedWrite
    BY <1>1, WritesAreAssigned
  <2>2. Set(relay, on) = <<LatchWrite(relay, on)>> /\ Configure(relay) = <<l, m>>
    BY <1>1 DEF Set, Configure
  <2> HIDE DEF l, m
  <2>3. <<l, m>> \o rest = <<l>> \o (<<m>> \o rest)
    BY <2>1, TwoWrites
  <2> QED BY <1>1, <2>2, <2>3 DEF l, m
<1>2. CASE ~IsAssigned(relay)
  BY <1>2, NoWrite DEF Set, Configure
<1> QED BY <1>1, <1>2

\* One write of an operation (ArduinoDigitalOutput::writePin).
LEMMA LatchWritten ==
  ASSUME TypeOK, Execute, NEW relay \in Relay, NEW on \in BOOLEAN,
         NEW rest \in Seq(AssignedWrite), IsAssigned(relay),
         pending = <<LatchWrite(relay, on)>> \o rest
  PROVE  /\ pending' = rest
         /\ latch' = [latch EXCEPT ![relay] = PinHigh(relay, on)]
         /\ UNCHANGED <<isOutput, hardware, phase, command>>
<1>1. LatchWrite(relay, on) \in AssignedWrite
  BY WritesAreAssigned
<1>2. Head(pending) = LatchWrite(relay, on) /\ Tail(pending) = rest
  BY <1>1, FirstWrite
<1> QED BY <1>2 DEF Execute, LatchWrite

\* The other kind of write (ArduinoDigitalOutput::configureOutput).
LEMMA ModeWritten ==
  ASSUME TypeOK, Execute, NEW relay \in Relay,
         NEW rest \in Seq(AssignedWrite), IsAssigned(relay),
         pending = <<ModeWrite(relay)>> \o rest
  PROVE  /\ pending' = rest
         /\ isOutput' = [isOutput EXCEPT ![relay] = TRUE]
         /\ UNCHANGED <<latch, hardware, phase, command>>
<1>1. ModeWrite(relay) \in AssignedWrite
  BY WritesAreAssigned
<1>2. Head(pending) = ModeWrite(relay) /\ Tail(pending) = rest
  BY <1>1, FirstWrite
<1> QED BY <1>2 DEF Execute, ModeWrite

------------------------------------------------------------------------------
(* What the registers mean for the relays.                                    *)

\* A relay that shows the command is energised if the command asks for it.
LEMMA ShownMeansEnergised ==
  ASSUME TypeOK, NEW relay \in Relay, Shows(relay), Target(relay) \in BOOLEAN
  PROVE  Energised(relay) <=> IsAssigned(relay) /\ Target(relay)
BY DEF TypeOK, HardwareConfig, ActiveLevel, Shows, Preloaded, PinHigh, Energised,
       RelayOutputsAssumption, IsAssigned

\* Nothing is energised before the first command (begin).
LEMMA NothingDuringBegin ==
  TypeOK /\ DuringBegin =>
    HeaterNeverWithoutFan /\ \A relay \in Relay : ~Energised(relay)
<1> SUFFICES ASSUME TypeOK, DuringBegin
             PROVE  \A relay \in Relay : ~Energised(relay)
  BY DEF HeaterNeverWithoutFan, Relay
<1>1. ~Target("heater") /\ ~Target("fan") /\ Target("heater") \in BOOLEAN
        /\ Target("fan") \in BOOLEAN
  BY DEF DuringBegin, AllOff, Target
<1>2. \A relay \in Relay : Shows(relay) => ~Energised(relay)
  BY <1>1, ShownMeansEnergised DEF Relay
<1>3. \A relay \in Relay : ~isOutput[relay] => ~Energised(relay)
  BY DEF Energised
<1> QED BY <1>2, <1>3 DEF DuringBegin, Relay

\* As soon as apply() has made its first write, the heater has its fan.
LEMMA FirstWriteSuffices ==
  TypeOK /\ DuringApply /\ Shows(FirstRelay) =>
    HeaterNeverWithoutFan /\ (Energised("heater") => Target("heater"))
<1> SUFFICES ASSUME TypeOK, DuringApply, Shows(FirstRelay)
             PROVE  HeaterNeverWithoutFan /\ (Energised("heater") => Target("heater"))
  OBVIOUS
<1>1. Target("heater") \in BOOLEAN /\ Target("fan") \in BOOLEAN
  BY DEF TypeOK, OutputCommand, Target, RelayOutputsAssumption, HardwareConfig,
         IsAssigned, Relay
<1>2. CASE Target("heater")
  <2>1. Target("fan") /\ IsAssigned("fan") /\ FirstRelay = "fan"
    BY <1>2 DEF DuringApply, Target, FirstRelay
  <2>2. Energised("fan")
    BY <1>1, <2>1, ShownMeansEnergised DEF Relay
  <2> QED BY <1>2, <2>2 DEF HeaterNeverWithoutFan
<1>3. CASE ~Target("heater")
  <2>1. ~Energised("heater")
    BY <1>1, <1>3, ShownMeansEnergised DEF FirstRelay, Relay
  <2> QED BY <2>1 DEF HeaterNeverWithoutFan
<1> QED BY <1>2, <1>3

\* With no write left, every relay shows what the command means for it.
LEMMA EverythingWritten ==
  ASSUME TypeOK, DuringApply, Idle
  PROVE  \A relay \in Relay : Shows(relay)
<1>1. \A relay \in Relay : Remaining(relay) \in Seq(AssignedWrite)
  <2>1. \A relay \in Relay : Target(relay) \in BOOLEAN
    BY DEF TypeOK, OutputCommand, Target, HardwareConfig, RelayOutputsAssumption,
           IsAssigned, Relay
  <2> QED BY <2>1, WritesAreAssigned DEF Remaining
<1>2. \A relay \in Relay : Remaining(relay) = <<>> => Shows(relay)
  BY DEF Remaining, Set, Shows
<1>3. PICK first \in Relay, last \in Relay :
        /\ first = FirstRelay /\ last = Other(FirstRelay)
        /\ \A relay \in Relay : relay = first \/ relay = last
  BY DEF FirstRelay, Other, Relay
<1>4. Remaining(first) \o Remaining(last) = <<>> =>
        Remaining(first) = <<>> /\ Remaining(last) = <<>>
  BY <1>1, ConcatEqualIffEmpty
<1>5. Shows(first) /\ Shows(last)
  BY <1>2, <1>3, <1>4 DEF DuringApply, Idle
<1> QED BY <1>3, <1>5

------------------------------------------------------------------------------
(* Every step keeps the invariant.                                            *)

\* The invariant holds after a power cycle.
LEMMA InitIInv == Init => IInv
<1> SUFFICES ASSUME Init PROVE IInv OBVIOUS
<1>1. TypeOK
  BY DEF Init, TypeOK, Phase, OutputCommand, AllOff
<1> QED
  BY <1>1 DEF Init, IInv, AfterReset, HeaterNeverWithoutFan, Energised, Relay

\* begin() has only pins to configure that are no outputs yet.
LEMMA BeginKeepsIInv ==
  ASSUME IInv, Begin
  PROVE  IInv'
<1>1. pending' \in Seq(AssignedWrite)
  BY WritesAreAssigned, ConcatProperties DEF IInv, Begin, ConfigureBoth, Relay
<1>2. TypeOK'
  BY <1>1 DEF IInv, Begin, TypeOK, Phase, AssignedWrite, IsAssigned
<1>3. DuringBegin'
  BY DEF IInv, Begin, AfterReset, DuringBegin, ConfigureBoth, Configure, Relay,
         IsAssigned, LatchWrite, ModeWrite, PinHigh
<1> QED
  BY <1>2, <1>3 DEF IInv, Begin, HeaterNeverWithoutFan, Energised, IsAssigned

\* A reset, between any two writes, leaves no output (REQ-SAFE-013).
LEMMA ResetKeepsIInv ==
  ASSUME IInv, Reset
  PROVE  IInv'
<1>1. TypeOK'
  BY DEF IInv, Reset, TypeOK, Phase, OutputCommand, AllOff
<1> QED
  BY <1>1 DEF Reset, IInv, AfterReset, HeaterNeverWithoutFan, Energised, Relay

\* A command reaches relays whose pins are all configured (apply, forceOff).
LEMMA ConfiguredWhenIdle ==
  ASSUME IInv, phase # "reset", Idle, NEW relay \in Relay, IsAssigned(relay)
  PROVE  isOutput[relay]
<1>1. CASE phase = "commanded"
  BY <1>1 DEF IInv, DuringApply
<1>2. CASE phase = "begun"
  <2>1. DuringBegin /\ pending = <<>>
    BY <1>2 DEF IInv, Idle
  <2>2. Configure("fan") # <<>> => IsAssigned("fan")
    BY DEF Configure
  <2>3. /\ (pending = ConfigureBoth => ~IsAssigned("heater") /\ ~IsAssigned("fan"))
        /\ pending # <<ModeWrite("heater")>> \o Configure("fan")
        /\ (pending = Configure("fan") => ~IsAssigned("fan"))
        /\ pending # <<ModeWrite("fan")>>
    <3>1. Configure("heater") \in Seq(AssignedWrite) /\ Configure("fan") \in Seq(AssignedWrite)
      BY WritesAreAssigned DEF IInv, Relay
    <3>2. ConfigureBoth = <<>> => Configure("heater") = <<>> /\ Configure("fan") = <<>>
      BY <3>1, ConcatEqualIffEmpty DEF ConfigureBoth
    <3>3. \A r \in Relay : Configure(r) = <<>> => ~IsAssigned(r)
      BY DEF Configure
    <3>4. <<ModeWrite("heater")>> \in Seq({ModeWrite("heater")} \cup AssignedWrite)
            /\ Configure("fan") \in Seq({ModeWrite("heater")} \cup AssignedWrite)
            /\ <<ModeWrite("heater")>> # <<>>
      BY <3>1, SeqMonotonic
    <3>5. <<ModeWrite("heater")>> \o Configure("fan") # <<>>
      BY <3>4, ConcatEqualIffEmpty
    <3> QED BY <2>1, <3>2, <3>3, <3>5 DEF Relay
  <2> QED BY <2>1, <2>3 DEF DuringBegin, Shows, Relay
<1> QED BY <1>1, <1>2 DEF IInv, TypeOK, Phase

\* A command writes nothing itself; its writes are in the order it needs.
LEMMA CommandKeepsIInv ==
  ASSUME IInv,
         (\E c \in OutputCommand : Apply(c)) \/ ForceOff
  PROVE  IInv'
<1>1. /\ phase # "reset" /\ Idle /\ phase' = "commanded"
      /\ UNCHANGED <<hardware, isOutput, latch>>
  BY DEF Apply, ForceOff
<1>2. /\ command' \in OutputCommand /\ (command'.heaterOn => command'.fanOn)
      /\ pending' = ApplyWrites(command')
  <2>1. ASSUME NEW c \in OutputCommand, Apply(c)
        PROVE  Sanitize(c) \in OutputCommand /\ (Sanitize(c).heaterOn => Sanitize(c).fanOn)
    BY DEF OutputCommand, Sanitize
  <2>2. CASE \E c \in OutputCommand : Apply(c)
    BY <2>1, <2>2 DEF Apply
  <2>3. CASE ForceOff
    BY <2>3 DEF ForceOff, OutputCommand, AllOff, ApplyWrites
  <2> QED BY <2>2, <2>3
<1>3. \A relay \in Relay : IsAssigned(relay) => isOutput[relay]
  BY <1>1, ConfiguredWhenIdle
<1>4. pending' = (Remaining(FirstRelay) \o Remaining(Other(FirstRelay)))'
  BY <1>1, <1>2
     DEF ApplyWrites, Remaining, FirstRelay, Target, Other, IsAssigned, Set,
         LatchWrite, PinHigh
<1>5. DuringApply'
  BY <1>1, <1>2, <1>3, <1>4 DEF DuringApply, IsAssigned
<1>6. TypeOK'
  <2>1. command'.heaterOn \in BOOLEAN /\ command'.fanOn \in BOOLEAN
    BY <1>2 DEF OutputCommand
  <2>2. ApplyWrites(command') \in Seq(AssignedWrite)
    BY <2>1, WritesAreAssigned, ConcatProperties DEF IInv, ApplyWrites, Relay
  <2> QED BY <1>1, <1>2, <2>2 DEF IInv, TypeOK, Phase, AssignedWrite, IsAssigned
<1> QED
  BY <1>1, <1>5, <1>6 DEF IInv, HeaterNeverWithoutFan, Energised, IsAssigned

\* The next write of begin(): four of them, fewer if a pin is missing.
LEMMA ExecuteKeepsDuringBegin ==
  ASSUME TypeOK, DuringBegin, Execute
  PROVE  /\ DuringBegin' /\ pending' \in Seq(AssignedWrite)
         /\ latch' \in [Relay -> BOOLEAN] /\ isOutput' \in [Relay -> BOOLEAN]
         /\ UNCHANGED <<hardware, phase, command>>
<1> DEFINE Off(relay) == latch[relay] = PinHigh(relay, FALSE)
           After(relay) == IsAssigned(relay) => isOutput[relay] /\ Off(relay)
           Fan == Configure("fan")
<1>0. "heater" \in Relay /\ "fan" \in Relay
  BY DEF Relay
<1>1. /\ command = AllOff /\ \A relay \in Relay : Target(relay) = FALSE
      /\ \A relay \in Relay : (Shows(relay) <=> After(relay))
                            /\ (Preloaded(relay) <=> Off(relay))
  BY DEF DuringBegin, AllOff, Target, Shows, Preloaded, Relay
<1>2. Fan \in Seq(AssignedWrite) /\ <<>> \in Seq(AssignedWrite)
  BY <1>0, WritesAreAssigned, EmptySeq
<1>3. UNCHANGED <<hardware, phase, command>>
  BY DEF Execute
<1>4. \A relay \in Relay : PinHigh(relay, FALSE)' = PinHigh(relay, FALSE)
        /\ PinHigh(relay, FALSE) \in BOOLEAN /\ IsAssigned(relay)' = IsAssigned(relay)
        /\ Target(relay)' = FALSE /\ ModeWrite(relay)' = ModeWrite(relay)
        /\ Configure(relay)' = Configure(relay)
  BY <1>1, <1>3, WritesAreAssigned
     DEF PinHigh, IsAssigned, Target, Relay, ModeWrite, Configure, LatchWrite
<1>5. ConfigureBoth' = ConfigureBoth
  BY <1>0, <1>4 DEF ConfigureBoth
<1>6. ~Idle
  BY DEF Execute
<1>7. latch \in [Relay -> BOOLEAN] /\ isOutput \in [Relay -> BOOLEAN]
  BY DEF TypeOK
<1>8. CASE IsAssigned("heater") /\ pending = ConfigureBoth
           /\ ~isOutput["heater"] /\ ~isOutput["fan"]
  <2>1. pending = <<LatchWrite("heater", FALSE)>> \o (<<ModeWrite("heater")>> \o Fan)
    BY <1>0, <1>2, <1>8, WritesInOrder DEF ConfigureBoth
  <2>2. <<ModeWrite("heater")>> \o Fan \in Seq(AssignedWrite)
    BY <1>0, <1>2, <1>8, WritesAreAssigned, FirstWrite
  <2>3. /\ pending' = <<ModeWrite("heater")>> \o Fan
        /\ latch' = [latch EXCEPT !["heater"] = PinHigh("heater", FALSE)]
        /\ UNCHANGED isOutput
    BY <1>0, <1>8, <2>1, <2>2, LatchWritten
  <2> QED
    BY <1>0, <1>1, <1>3, <1>4, <1>7, <1>8, <2>2, <2>3 DEF DuringBegin, Preloaded, AllOff
<1>9. CASE /\ pending = <<ModeWrite("heater")>> \o Fan
           /\ IsAssigned("heater") /\ Off("heater")
           /\ ~isOutput["heater"] /\ ~isOutput["fan"]
  <2>1. /\ pending' = Fan /\ isOutput' = [isOutput EXCEPT !["heater"] = TRUE]
        /\ UNCHANGED latch
    BY <1>0, <1>2, <1>9, ModeWritten
  <2> QED
    BY <1>0, <1>1, <1>2, <1>3, <1>4, <1>7, <1>9, <2>1
       DEF DuringBegin, Shows, Preloaded, AllOff
<1>10. CASE pending = Fan /\ After("heater") /\ ~isOutput["fan"]
  <2>1. IsAssigned("fan")
    BY <1>6, <1>10 DEF Configure, Idle
  <2>2. ModeWrite("fan") \in AssignedWrite
    BY <1>0, <2>1, WritesAreAssigned
  <2>3. Fan = Fan \o <<>> /\ <<ModeWrite("fan")>> = <<ModeWrite("fan")>> \o <<>>
          /\ <<ModeWrite("fan")>> \in Seq(AssignedWrite)
    BY <1>2, <2>2, NoWrite
  <2>4. pending = <<LatchWrite("fan", FALSE)>> \o <<ModeWrite("fan")>>
    BY <1>0, <1>2, <1>10, <2>1, <2>3, WritesInOrder
  <2>5. /\ pending' = <<ModeWrite("fan")>>
        /\ latch' = [latch EXCEPT !["fan"] = PinHigh("fan", FALSE)]
        /\ UNCHANGED isOutput
    BY <1>0, <2>1, <2>3, <2>4, LatchWritten
  <2> QED
    BY <1>0, <1>1, <1>3, <1>4, <1>7, <1>10, <2>1, <2>3, <2>5
       DEF DuringBegin, Shows, Preloaded, AllOff
<1>11. CASE /\ pending = <<ModeWrite("fan")>> /\ After("heater")
            /\ IsAssigned("fan") /\ Off("fan") /\ ~isOutput["fan"]
  <2>1. ModeWrite("fan") \in AssignedWrite
    BY <1>0, <1>11, WritesAreAssigned
  <2>2. pending = <<ModeWrite("fan")>> \o <<>>
    BY <1>11, <2>1, NoWrite
  <2>3. /\ pending' = <<>> /\ isOutput' = [isOutput EXCEPT !["fan"] = TRUE]
        /\ UNCHANGED latch
    BY <1>0, <1>2, <1>11, <2>2, ModeWritten
  <2> QED
    BY <1>0, <1>1, <1>2, <1>3, <1>4, <1>7, <1>11, <2>3
       DEF DuringBegin, Shows, Preloaded, AllOff
<1>12. CASE ~IsAssigned("heater") /\ pending = ConfigureBoth /\ ~isOutput["fan"]
  BY <1>0, <1>2, <1>10, <1>12, WritesInOrder DEF ConfigureBoth
<1>13. CASE pending = <<>>
  BY <1>6, <1>13 DEF Idle
<1> QED
  BY <1>0, <1>1, <1>8, <1>9, <1>10, <1>11, <1>12, <1>13 DEF DuringBegin

\* The next write of apply() or forceOff(): at most two of them.
LEMMA ExecuteKeepsDuringApply ==
  ASSUME TypeOK, DuringApply, Execute
  PROVE  /\ DuringApply' /\ Shows(FirstRelay)' /\ pending' \in Seq(AssignedWrite)
         /\ latch' \in [Relay -> BOOLEAN] /\ isOutput' \in [Relay -> BOOLEAN]
         /\ UNCHANGED <<hardware, phase, command>>
         /\ isOutput' = isOutput
         /\ \E relay \in Relay :
              latch' = [latch EXCEPT ![relay] = PinHigh(relay, Target(relay))]
<1> DEFINE Written(relay) == latch[relay] = PinHigh(relay, Target(relay))
           AllOutputs == \A relay \in Relay : IsAssigned(relay) => isOutput[relay]
<1>1. PICK first \in Relay, last \in Relay :
        first = FirstRelay /\ last = Other(FirstRelay) /\ first # last
  BY DEF FirstRelay, Other, Relay
<1>2. \A relay \in Relay : Target(relay) \in BOOLEAN
  BY DEF TypeOK, OutputCommand, Target, HardwareConfig, RelayOutputsAssumption,
         IsAssigned, Relay
<1>3. /\ UNCHANGED <<hardware, phase, command>> /\ ~Idle
      /\ latch \in [Relay -> BOOLEAN] /\ isOutput \in [Relay -> BOOLEAN]
      /\ (command.heaterOn => command.fanOn)
      /\ AllOutputs
  BY DEF Execute, TypeOK, DuringApply
<1>4. \A relay \in Relay : /\ Target(relay)' = Target(relay)
                           /\ IsAssigned(relay)' = IsAssigned(relay)
                           /\ PinHigh(relay, Target(relay))' = PinHigh(relay, Target(relay))
                           /\ PinHigh(relay, Target(relay)) \in BOOLEAN
                           /\ Remaining(relay)' = Remaining(relay)
                           /\ Remaining(relay) \in Seq(AssignedWrite)
  BY <1>2, <1>3, WritesAreAssigned
     DEF Target, IsAssigned, PinHigh, Remaining, Set, LatchWrite
<1>5. FirstRelay' = first /\ Other(FirstRelay)' = last
  BY <1>1, <1>4 DEF FirstRelay, Other, Relay
<1>6. \A relay \in Relay : Shows(relay) <=> (IsAssigned(relay) => Written(relay))
  BY <1>3 DEF Shows, Preloaded
<1>7. <<>> \in Seq(AssignedWrite)
  BY EmptySeq
\* Writing one relay leaves what the other shows.
<1>8. ASSUME NEW relay \in Relay, IsAssigned(relay), UNCHANGED isOutput,
             latch' = [latch EXCEPT ![relay] = PinHigh(relay, Target(relay))]
      PROVE  /\ AllOutputs' /\ Shows(relay)'
             /\ latch' \in [Relay -> BOOLEAN]
             /\ \A r \in Relay : r # relay => (Shows(r)' <=> Shows(r))
  <2>1. AllOutputs'
    BY <1>3, <1>4, <1>8
  <2>2. latch' \in [Relay -> BOOLEAN] /\ latch'[relay] = PinHigh(relay, Target(relay))
          /\ \A r \in Relay : r # relay => latch'[r] = latch[r]
    BY <1>3, <1>4, <1>8
  <2>3. Written(relay)' /\ \A r \in Relay : r # relay => (Written(r)' <=> Written(r))
    BY <1>4, <2>2
  <2> QED BY <1>3, <1>4, <2>1, <2>2, <2>3 DEF Shows, Preloaded
<1>9. (command.heaterOn => command.fanOn)' /\ (isOutput \in [Relay -> BOOLEAN] /\ UNCHANGED isOutput
        => isOutput' \in [Relay -> BOOLEAN])
  BY <1>3
<1>10. CASE pending = Remaining(last) /\ Shows(first)
  <2>1. IsAssigned(last)
    BY <1>3, <1>10 DEF Remaining, Set, Idle
  <2>2. pending = <<LatchWrite(last, Target(last))>> \o <<>>
    <3>1. Remaining(last) \o <<>> = <<LatchWrite(last, Target(last))>> \o <<>>
      BY <1>2, <1>7, <2>1, WritesInOrder DEF Remaining
    <3>2. Remaining(last) \o <<>> = Remaining(last)
      BY <1>4, ConcatEmptySeq
    <3> QED BY <1>10, <3>1, <3>2
  <2>3. /\ pending' = <<>>
        /\ latch' = [latch EXCEPT ![last] = PinHigh(last, Target(last))]
        /\ UNCHANGED isOutput
    BY <1>2, <1>7, <2>1, <2>2, LatchWritten
  <2>4. /\ AllOutputs' /\ Shows(last)' /\ Shows(first)'
        /\ latch' \in [Relay -> BOOLEAN]
    BY <1>1, <1>8, <1>10, <2>1, <2>3
  <2>5. Shows(FirstRelay)' /\ Shows(Other(FirstRelay))'
    BY <1>5, <2>4 DEF Shows, Preloaded
  <2>6. DuringApply'
    BY <1>9, <2>3, <2>4, <2>5 DEF DuringApply
  <2> QED BY <1>3, <1>7, <1>9, <2>3, <2>4, <2>5, <2>6
<1>11. CASE pending = Remaining(first) \o Remaining(last) /\ IsAssigned(first)
  <2>1. pending = <<LatchWrite(first, Target(first))>> \o Remaining(last)
    BY <1>2, <1>4, <1>11, WritesInOrder DEF Remaining
  <2>2. /\ pending' = Remaining(last)
        /\ latch' = [latch EXCEPT ![first] = PinHigh(first, Target(first))]
        /\ UNCHANGED isOutput
    BY <1>2, <1>4, <1>11, <2>1, LatchWritten
  <2>3. AllOutputs' /\ Shows(first)' /\ latch' \in [Relay -> BOOLEAN]
    BY <1>8, <1>11, <2>2
  <2>4. Shows(FirstRelay)'
    BY <1>5, <2>3 DEF Shows, Preloaded
  <2>5. pending' = Remaining(Other(FirstRelay))'
    BY <1>4, <1>5, <2>2 DEF Remaining, Set, Target, IsAssigned, LatchWrite, PinHigh
  <2>6. DuringApply'
    BY <1>9, <2>3, <2>4, <2>5 DEF DuringApply
  <2> QED BY <1>3, <1>4, <1>9, <2>2, <2>3, <2>4, <2>6
<1>12. CASE pending = Remaining(first) \o Remaining(last) /\ ~IsAssigned(first)
  <2>1. pending = Remaining(last)
    BY <1>2, <1>4, <1>12, WritesInOrder DEF Remaining
  <2> QED BY <1>10, <1>12, <2>1 DEF Shows
<1>13. CASE pending = <<>>
  BY <1>3, <1>13 DEF Idle
<1> QED
  BY <1>1, <1>10, <1>11, <1>12, <1>13 DEF DuringApply

\* So does the next write of either; after a reset there is none.
LEMMA ExecuteKeepsIInv ==
  ASSUME IInv, Execute
  PROVE  IInv'
<1>1. TypeOK /\ phase # "reset"
  BY DEF IInv, AfterReset, Execute, Idle
<1>2. CASE phase = "begun"
  <2>1. DuringBegin' /\ phase' = phase /\ TypeOK'
    BY <1>1, <1>2, ExecuteKeepsDuringBegin DEF IInv, TypeOK, AssignedWrite, IsAssigned
  <2>2. HeaterNeverWithoutFan'
    BY <2>1, NothingDuringBegin, PTL
  <2> QED BY <1>2, <2>1, <2>2 DEF IInv
<1>3. CASE phase = "commanded"
  <2>1. DuringApply' /\ Shows(FirstRelay)' /\ phase' = phase /\ TypeOK'
    BY <1>1, <1>3, ExecuteKeepsDuringApply DEF IInv, TypeOK, AssignedWrite, IsAssigned
  <2>2. HeaterNeverWithoutFan'
    BY <2>1, FirstWriteSuffices, PTL
  <2> QED BY <1>3, <2>1, <2>2 DEF IInv
<1> QED BY <1>1, <1>2, <1>3 DEF TypeOK, Phase

\* On the way to a command the heater is not switched back and forth: its
\* relay is off after any write if the command wants it off, and not switched
\* off by any write if the command wants it on.
LEMMA ExecuteMovesHeater ==
  ASSUME IInv, Execute, phase = "commanded"
  PROVE  /\ ~Target("heater") => ~Energised("heater")'
         /\ Target("heater") /\ Energised("heater") => Energised("heater")'
<1>1. TypeOK /\ DuringApply
  BY DEF IInv
<1>2. IInv'
  BY ExecuteKeepsIInv
<1>3. /\ TypeOK' /\ DuringApply' /\ Shows(FirstRelay)'
      /\ UNCHANGED <<hardware, command, isOutput>>
      /\ \E relay \in Relay :
           latch' = [latch EXCEPT ![relay] = PinHigh(relay, Target(relay))]
  BY <1>1, <1>2, ExecuteKeepsDuringApply DEF IInv
<1>4. Energised("heater")' => Target("heater")'
  BY <1>3, FirstWriteSuffices, PTL
<1>5. Target("heater")' = Target("heater")
  BY <1>3 DEF Target, IsAssigned
<1>6. ASSUME Target("heater"), Energised("heater") PROVE Energised("heater")'
  <2>1. hardware.active["heater"] = "ActiveHigh" <=> latch["heater"]
    BY <1>6 DEF Energised
  <2>2. latch'["heater"] = latch["heater"]
    <3>1. PICK relay \in Relay :
            latch' = [latch EXCEPT ![relay] = PinHigh(relay, Target(relay))]
      BY <1>3
    <3>2. CASE relay = "heater"
      <4>1. latch["heater"] \in BOOLEAN /\ latch'["heater"] = PinHigh("heater", Target("heater"))
        BY <1>1, <3>1, <3>2 DEF TypeOK, Relay
      <4>2. Target("heater") = TRUE
        BY <1>1, <1>6 DEF TypeOK, OutputCommand, Target, RelayOutputsAssumption,
                          HardwareConfig, IsAssigned, Relay
      <4>3. PinHigh("heater", TRUE) = latch["heater"]
        BY <2>1, <4>1 DEF PinHigh
      <4> QED BY <4>1, <4>2, <4>3
    <3>3. CASE relay # "heater"
      BY <1>1, <3>1, <3>3 DEF TypeOK, Relay
    <3> QED BY <3>2, <3>3
  <2> QED BY <1>3, <1>6, <2>2 DEF Energised, IsAssigned
<1> QED BY <1>4, <1>5, <1>6

\* A step of somebody else leaves the relays and what is still to be written.
LEMMA StutterKeepsIInv ==
  ASSUME IInv, UNCHANGED vars
  PROVE  IInv'
<1> USE DEF vars
<1>1. \A relay \in Relay : /\ Target(relay)' = Target(relay)
                           /\ Shows(relay)' = Shows(relay)
                           /\ Preloaded(relay)' = Preloaded(relay)
                           /\ Remaining(relay)' = Remaining(relay)
                           /\ Configure(relay)' = Configure(relay)
                           /\ Energised(relay)' = Energised(relay)
                           /\ IsAssigned(relay)' = IsAssigned(relay)
                           /\ ModeWrite(relay)' = ModeWrite(relay)
  BY DEF Target, IsAssigned, Shows, Preloaded, PinHigh, Remaining, Set, LatchWrite,
         Configure, ModeWrite, Energised
<1>2. FirstRelay' = FirstRelay /\ ConfigureBoth' = ConfigureBoth
  BY <1>1 DEF FirstRelay, ConfigureBoth, Relay
<1>3. TypeOK' /\ (HeaterNeverWithoutFan)' /\ (phase = "reset" => AfterReset)'
  BY <1>1 DEF IInv, TypeOK, HeaterNeverWithoutFan, AfterReset, Relay
<1>4. (phase = "begun" => DuringBegin)'
  BY <1>1, <1>2 DEF IInv, DuringBegin, Relay
<1>5. (phase = "commanded" => DuringApply)'
  BY DEF IInv, DuringApply, FirstRelay, Other, Shows, Preloaded, Remaining, Set, Target,
         IsAssigned, PinHigh, LatchWrite
<1> QED BY <1>3, <1>4, <1>5 DEF IInv

\* So the invariant holds from the first reset on.
LEMMA NextKeepsIInv == IInv /\ [Next]_vars => IInv'
<1> SUFFICES ASSUME IInv, [Next]_vars PROVE IInv' OBVIOUS
<1> QED
  BY BeginKeepsIInv, CommandKeepsIInv, ExecuteKeepsIInv, ResetKeepsIInv,
     StutterKeepsIInv DEF Next

\* Off until the first command, as the invariant has it.
LEMMA IInvMeansOff == IInv => OffUntilCommanded
<1> SUFFICES ASSUME IInv, phase # "commanded"
             PROVE  \A relay \in Relay : ~Energised(relay)
  BY DEF OffUntilCommanded
<1>1. CASE phase = "reset"
  BY <1>1 DEF IInv, AfterReset, Energised
<1>2. CASE phase = "begun"
  BY <1>2, NothingDuringBegin DEF IInv
<1> QED BY <1>1, <1>2 DEF IInv, TypeOK, Phase

\* And as commanded once everything is written.
LEMMA IInvMeansShown == IInv => SettledRelaysShowCommand
<1> SUFFICES ASSUME IInv, phase # "reset", Idle
             PROVE  /\ Energised("fan") <=> command.fanOn /\ IsAssigned("fan")
                    /\ Energised("heater") <=>
                         command.heaterOn /\ IsAssigned("heater") /\ IsAssigned("fan")
  BY DEF SettledRelaysShowCommand
<1>0. TypeOK
  BY DEF IInv
<1>1. CASE phase = "begun"
  <2>1. DuringBegin
    BY <1>1 DEF IInv
  <2>2. ~Energised("heater") /\ ~Energised("fan")
    BY <1>0, <2>1, NothingDuringBegin DEF Relay
  <2> QED BY <2>1, <2>2 DEF DuringBegin, AllOff
<1>2. CASE phase = "commanded"
  <2>1. DuringApply
    BY <1>2 DEF IInv
  <2>2. \A relay \in Relay : Target(relay) \in BOOLEAN
    BY <1>0 DEF TypeOK, OutputCommand, Target, HardwareConfig,
                RelayOutputsAssumption, IsAssigned, Relay
  <2>3. \A relay \in Relay : Shows(relay)
    BY <1>0, <2>1, EverythingWritten
  <2>4. \A relay \in Relay : Energised(relay) <=> IsAssigned(relay) /\ Target(relay)
    BY <1>0, <2>2, <2>3, ShownMeansEnergised
  <2> QED BY <2>2, <2>4 DEF Target, Relay
<1> QED BY <1>1, <1>2 DEF IInv, TypeOK, Phase

\* The strengthened invariant holds of every use of the relays.
THEOREM SpecIInv == Spec => []IInv
BY InitIInv, NextKeepsIInv, PTL DEF Spec

\* REQ-SAFE-004: between any two register writes, for every wiring and through
\* every reset, the heater is only energised together with the fan.
THEOREM HeaterHasItsFan == Spec => []HeaterNeverWithoutFan
<1>1. IInv => HeaterNeverWithoutFan
  BY DEF IInv
<1> QED BY <1>1, SpecIInv, PTL

\* REQ-SAFE-013: whatever the polarity of a relay, it is off until a command
\* is given, all through begin().
THEOREM OffBeforeCommand == Spec => []OffUntilCommanded
BY IInvMeansOff, SpecIInv, PTL

\* When an operation has made its last write, each relay is what the sanitized
\* command asks of it as far as the wiring allows.
THEOREM SettledShows == Spec => []SettledRelaysShowCommand
BY IInvMeansShown, SpecIInv, PTL
==============================================================================
