----------------------------- MODULE RelayOutputs -----------------------------
(***************************************************************************)
(* The heater and fan relays: hardware/RelayOutputs.h and the pin writes   *)
(* of main.cpp's ArduinoDigitalOutput.                                     *)
(*                                                                         *)
(* An operation is a sequence of register writes.  The writes are executed *)
(* one by one, so that what the relays do between two of them is visible,  *)
(* and a reset of the microcontroller may come between any two.  A pin     *)
(* that is no output floats and energises nothing (the relay board is not  *)
(* part of the repository).                                                *)
(***************************************************************************)
EXTENDS Sequences

CONSTANT Hardware        \* the wirings the adapter may be configured for

Relay == {"heater", "fan"}

ActiveLevel == {"ActiveLow", "ActiveHigh"}

\* HardwareConfig: whether each relay has a pin, and the polarity of each.
HardwareConfig == [assigned : [Relay -> BOOLEAN], active : [Relay -> ActiveLevel]]

ASSUME RelayOutputsAssumption == Hardware \subseteq HardwareConfig

VARIABLES
  hardware,              \* hardware_: chosen at build time
  isOutput,              \* pins switched to OUTPUT since the last reset
  latch,                 \* the output latch of each pin: driven high?
  pending,               \* the writes the running operation still has to do
  phase,                 \* whether begin() was called, a command given
  command                \* the last command given, sanitized

vars == <<hardware, isOutput, latch, pending, phase, command>>

OutputCommand == [heaterOn : BOOLEAN, fanOn : BOOLEAN]
AllOff == [heaterOn |-> FALSE, fanOn |-> FALSE]

Write == [relay : Relay, register : {"latch", "mode"}, high : BOOLEAN]

\* What has happened since the last reset.
Phase == {"reset", "begun", "commanded"}

Idle == pending = <<>>

\* No write is ever on its way to a relay that has no pin.
TypeOK ==
  /\ hardware \in Hardware
  /\ isOutput \in [Relay -> BOOLEAN]
  /\ latch \in [Relay -> BOOLEAN]
  /\ pending \in Seq({w \in Write : hardware.assigned[w.relay]})
  /\ phase \in Phase
  /\ command \in OutputCommand

------------------------------------------------------------------------------
\* sanitizeOutputCommand() of interfaces/OutputController.h.
Sanitize(c) == [c EXCEPT !.heaterOn = c.heaterOn /\ c.fanOn]

IsAssigned(relay) == hardware.assigned[relay]

\* Mutant: every relay is taken for an active-high one.
PinHighAlways(relay, on) == on

\* activeLevelToPinHigh()
PinHigh(relay, on) ==
  IF hardware.active[relay] = "ActiveHigh" THEN on ELSE ~on

LatchWrite(relay, on) ==
  [relay |-> relay, register |-> "latch", high |-> PinHigh(relay, on)]

\* pinMode(pin, OUTPUT); the level field is not used.
ModeWrite(relay) == [relay |-> relay, register |-> "mode", high |-> FALSE]

Set(relay, on) == IF IsAssigned(relay) THEN <<LatchWrite(relay, on)>> ELSE <<>>

\* Mutant: the pin drives its relay before its level is known.
ConfigureModeFirst(relay) ==
  IF IsAssigned(relay) THEN <<ModeWrite(relay), LatchWrite(relay, FALSE)>> ELSE <<>>

\* configureIfAssigned(): the level is preloaded before the pin drives it.
Configure(relay) ==
  IF IsAssigned(relay) THEN <<LatchWrite(relay, FALSE), ModeWrite(relay)>> ELSE <<>>

ConfigureBoth == Configure("heater") \o Configure("fan")

\* Mutant: one order of writes for every command.
ApplyWritesOneOrder(c) ==
  Set("fan", c.fanOn) \o Set("heater", c.heaterOn /\ IsAssigned("fan"))

\* The writes of apply(): the fan goes on before the heater, and off after it.
ApplyWrites(c) ==
  IF c.heaterOn /\ IsAssigned("fan")
    THEN Set("fan", TRUE) \o Set("heater", TRUE)
    ELSE Set("heater", FALSE) \o Set("fan", c.fanOn)

------------------------------------------------------------------------------
\* A pin is an input with its latch low after a reset.
Init ==
  /\ hardware \in Hardware
  /\ isOutput = [r \in Relay |-> FALSE]
  /\ latch = [r \in Relay |-> FALSE]
  /\ pending = <<>>
  /\ phase = "reset"
  /\ command = AllOff

Begin ==
  /\ phase = "reset"
  /\ phase' = "begun"
  /\ pending' = ConfigureBoth
  /\ UNCHANGED <<hardware, isOutput, latch, command>>

Apply(c) ==
  /\ phase # "reset" /\ Idle
  /\ phase' = "commanded"
  /\ command' = Sanitize(c)
  /\ pending' = ApplyWrites(command')
  /\ UNCHANGED <<hardware, isOutput, latch>>

ForceOff ==
  /\ phase # "reset" /\ Idle
  /\ phase' = "commanded"
  /\ command' = AllOff
  /\ pending' = Set("heater", FALSE) \o Set("fan", FALSE)
  /\ UNCHANGED <<hardware, isOutput, latch>>

\* The next write of the running operation reaches its register.
Execute ==
  /\ ~Idle
  /\ LET w == Head(pending)
     IN  IF w.register = "latch"
           THEN /\ latch' = [latch EXCEPT ![w.relay] = w.high]
                /\ UNCHANGED isOutput
           ELSE /\ isOutput' = [isOutput EXCEPT ![w.relay] = TRUE]
                /\ UNCHANGED latch
  /\ pending' = Tail(pending)
  /\ UNCHANGED <<hardware, phase, command>>

\* Brown-out, reset or power cycle, possibly between two writes.
Reset ==
  /\ isOutput' = [r \in Relay |-> FALSE]
  /\ latch' = [r \in Relay |-> FALSE]
  /\ pending' = <<>>
  /\ phase' = "reset"
  /\ command' = AllOff
  /\ UNCHANGED hardware

Next ==
  \/ Begin
  \/ \E c \in OutputCommand : Apply(c)
  \/ ForceOff
  \/ Execute
  \/ Reset

Spec == Init /\ [][Next]_vars

------------------------------------------------------------------------------
\* An active-low relay draws current while its pin is driven low.
Energised(relay) ==
  /\ IsAssigned(relay) /\ isOutput[relay]
  /\ latch[relay] <=> hardware.active[relay] = "ActiveHigh"

\* REQ-SAFE-004 at the relays and at every moment, between the two writes of
\* an operation included: the heater is never energised without the fan,
\* whatever command was asked for, for each polarity, with either pin left
\* unassigned, and through a reset (RelayOutputs::apply, "This prevents
\* transient writes from energizing the heater without fan").
HeaterNeverWithoutFan == Energised("heater") => Energised("fan")

\* REQ-SAFE-013: from a reset until a command is given no relay is energised,
\* not even for the moment between writing a level and enabling the output,
\* although the cleared latch of an active-low relay means ON
\* (RelayOutputs::begin, ArduinoDigitalOutput::configureOutput).
OffUntilCommanded == phase # "commanded" => \A relay \in Relay : ~Energised(relay)

\* When an operation has finished, the relays show the sanitized command as
\* far as they are wired: a relay without a pin is off, and a heater whose fan
\* has no pin is off too.
SettledRelaysShowCommand ==
  phase # "reset" /\ Idle =>
    /\ Energised("fan") <=> command.fanOn /\ IsAssigned("fan")
    /\ Energised("heater") <=>
         command.heaterOn /\ IsAssigned("heater") /\ IsAssigned("fan")
==============================================================================
