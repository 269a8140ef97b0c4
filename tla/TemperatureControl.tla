-------------------------- MODULE TemperatureControl --------------------------
(***************************************************************************)
(* The hysteresis controller of domain/TemperatureControl.h: a heater      *)
(* command remembered between calls, and the time since it last changed.   *)
(*                                                                         *)
(* Temperatures handed to update() are tenths of a degree; the configured  *)
(* thresholds are whole degrees.  The reason flags of the output (waiting, *)
(* blocked, forced) only feed logs and tests and are left out; the heater  *)
(* command it returns is the remembered one on every path.                 *)
(***************************************************************************)
EXTENDS Integers

CONSTANTS
  HYSTERESIS_C,                    \* hysteresisC
  MIN_HEATER_ON_SECONDS,           \* minHeaterOnSeconds
  MIN_HEATER_OFF_SECONDS,          \* minHeaterOffSeconds
  HEATER_FORCE_OFF_ABOVE_TEMP_C,   \* heaterForceOffAboveTempC
  TIMER_MAX                        \* UINT16_MAX, where the timer saturates

ASSUME TemperatureControlAssumption ==
  /\ HYSTERESIS_C \in Nat \ {0}
  /\ MIN_HEATER_ON_SECONDS \in Nat \ {0}
  /\ MIN_HEATER_OFF_SECONDS \in Nat \ {0}
  /\ HEATER_FORCE_OFF_ABOVE_TEMP_C \in Int
  /\ TIMER_MAX \in Nat
  /\ MIN_HEATER_ON_SECONDS <= TIMER_MAX
  /\ MIN_HEATER_OFF_SECONDS <= TIMER_MAX

VARIABLES heaterOn, secondsSinceSwitch

vars == <<heaterOn, secondsSinceSwitch>>

\* TemperatureControlInput, with the two fields of the run policy it reads.
Input == [currentTempDeciC : Int, targetTempDeciC : Int,
          fanOn : BOOLEAN, heaterControlAllowed : BOOLEAN,
          deltaSeconds : Nat]

TypeOK ==
  /\ heaterOn \in BOOLEAN
  /\ secondsSinceSwitch \in 0..TIMER_MAX

Init == heaterOn = FALSE /\ secondsSinceSwitch = 0

------------------------------------------------------------------------------
\* Mutant: a reset forgets the heater but not its timer.
ResetKeepsTimer(on) == heaterOn' = on /\ UNCHANGED secondsSinceSwitch

\* reset(): the timer restarts even when the heater was already off.
Reset(on) ==
  /\ heaterOn' = on
  /\ secondsSinceSwitch' = 0

Permitted(input) == input.fanOn /\ input.heaterControlAllowed

ForcedOff(input) ==
  input.currentTempDeciC > HEATER_FORCE_OFF_ABOVE_TEMP_C * 10

AtTarget(input) == input.currentTempDeciC >= input.targetTempDeciC

BelowBand(input) ==
  input.currentTempDeciC <= input.targetTempDeciC - HYSTERESIS_C * 10

\* advanceTimer(): the timer sticks at its largest value.
AdvancedTimer(deltaSeconds) ==
  LET next == secondsSinceSwitch + deltaSeconds
  IN  IF next > TIMER_MAX THEN TIMER_MAX ELSE next

\* Mutant: every decision restarts the timer.
SwitchHeaterRestarts(on, since) == heaterOn' = on /\ secondsSinceSwitch' = 0

\* switchHeater() and forceHeaterOff(): only a change restarts the timer.
SwitchHeater(on, since) ==
  /\ heaterOn' = on
  /\ secondsSinceSwitch' = IF on = heaterOn THEN since ELSE 0

\* Mutants of NextHeater: the hysteresis ignores the minimum on time; it
\* compares the on time with the minimum off time.
NextHeaterHasty(input, since) ==
  /\ Permitted(input)
  /\ ~ForcedOff(input)
  /\ IF heaterOn
       THEN ~AtTarget(input)
       ELSE BelowBand(input) /\ since >= MIN_HEATER_OFF_SECONDS

NextHeaterWrongMinimum(input, since) ==
  /\ Permitted(input)
  /\ ~ForcedOff(input)
  /\ IF heaterOn
       THEN ~(AtTarget(input) /\ since >= MIN_HEATER_OFF_SECONDS)
       ELSE BelowBand(input) /\ since >= MIN_HEATER_OFF_SECONDS

\* Permissions and the temperature limit come before the hysteresis band and
\* are not held up by the minimum switching times.
NextHeater(input, since) ==
  /\ Permitted(input)
  /\ ~ForcedOff(input)
  /\ IF heaterOn
       THEN ~(AtTarget(input) /\ since >= MIN_HEATER_ON_SECONDS)
       ELSE BelowBand(input) /\ since >= MIN_HEATER_OFF_SECONDS

Update(input) ==
  LET since == AdvancedTimer(input.deltaSeconds)
  IN  SwitchHeater(NextHeater(input, since), since)
==============================================================================
