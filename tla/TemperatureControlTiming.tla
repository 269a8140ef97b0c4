----------------------- MODULE TemperatureControlTiming -----------------------
(***************************************************************************)
(* The temperature controller driven by arbitrary calls, with a record of  *)
(* what has really happened to the relay since: how long it has been on or *)
(* off, and for how long the chamber has been asking for heat or for none. *)
(*                                                                         *)
(* The controller decides with one saturating timer that resets and        *)
(* switches both restart; the properties speak of the recorded durations.  *)
(***************************************************************************)
EXTENDS TemperatureControl

CONSTANTS
  Inputs,          \* the inputs update() is called with
  HISTORY_MAX      \* durations are recorded up to here

ASSUME TimingAssumption ==
  /\ Inputs \subseteq Input
  /\ HISTORY_MAX \in Nat
  /\ MIN_HEATER_ON_SECONDS <= HISTORY_MAX
  /\ MIN_HEATER_OFF_SECONDS <= HISTORY_MAX

VARIABLES
  onFor,           \* seconds the heater command has been on
  offFor,          \* seconds it has been off
  coldFor,         \* seconds of uninterrupted calls that permit and want heat
  hotFor,          \* seconds of uninterrupted calls at or above the target
  override         \* whether the last call overrides the minimum times

timingVars == <<heaterOn, secondsSinceSwitch, onFor, offFor, coldFor, hotFor,
                override>>

Capped(n) == IF n > HISTORY_MAX THEN HISTORY_MAX ELSE n

TimingTypeOK ==
  /\ TypeOK
  /\ onFor \in 0..HISTORY_MAX
  /\ offFor \in 0..HISTORY_MAX
  /\ coldFor \in 0..HISTORY_MAX
  /\ hotFor \in 0..HISTORY_MAX
  /\ override \in BOOLEAN

TimingInit ==
  /\ Init
  /\ onFor = 0 /\ offFor = 0
  /\ coldFor = 0 /\ hotFor = 0
  /\ override = FALSE

\* The heater was in its present position during the delta of this call; a
\* switch starts a new duration with the next call.
Record(delta) ==
  /\ onFor' = IF heaterOn' /\ heaterOn THEN Capped(onFor + delta) ELSE 0
  /\ offFor' = IF ~heaterOn' /\ ~heaterOn THEN Capped(offFor + delta) ELSE 0

WantsHeat(input) ==
  Permitted(input) /\ ~ForcedOff(input) /\ BelowBand(input)

Call(input) ==
  /\ Update(input)
  /\ Record(input.deltaSeconds)
  /\ coldFor' = IF WantsHeat(input)
                  THEN Capped(coldFor + input.deltaSeconds) ELSE 0
  /\ hotFor' = IF AtTarget(input)
                 THEN Capped(hotFor + input.deltaSeconds) ELSE 0
  /\ override' = (~Permitted(input) \/ ForcedOff(input))

\* Every caller resets the controller with the heater off.
CallReset ==
  /\ Reset(FALSE)
  /\ Record(0)
  /\ coldFor' = 0
  /\ hotFor' = 0
  /\ override' = TRUE

TimingNext == CallReset \/ \E input \in Inputs : Call(input)

TimingSpec == TimingInit /\ [][TimingNext]_timingVars

------------------------------------------------------------------------------
\* The relay is never switched on before it has been off for the configured
\* minimum, counting every second the scheduler reported since it was last on
\* and however the run was reset, blocked or paused in between
\* (TemperatureControl::update, reset; ControlConfig::minHeaterOffSeconds).
\* The delta of the switching call is part of the time spent off.
MinimumOffTime ==
  [][~heaterOn /\ heaterOn' =>
       \E input \in Inputs :
          /\ Call(input)
          /\ offFor + input.deltaSeconds >= MIN_HEATER_OFF_SECONDS]_timingVars

\* The relay is switched off before it has been on for the configured minimum
\* only by a call that withdraws the permission, reports more than the limit
\* or resets the controller, never by the hysteresis
\* (ControlConfig::minHeaterOnSeconds, "normal hysteresis switching").
MinimumOnTime ==
  [][heaterOn /\ ~heaterOn' /\ ~override' =>
       \E input \in Inputs :
          /\ Call(input)
          /\ onFor + input.deltaSeconds >= MIN_HEATER_ON_SECONDS]_timingVars

\* The minimum times delay the heater but cannot starve it: a chamber that has
\* permitted and wanted heat for the minimum off time is being heated.
ColdChamberIsHeated == coldFor >= MIN_HEATER_OFF_SECONDS => heaterOn

\* Nor can they overheat the chamber: at or above its target for the minimum
\* on time, it is no longer heated.
HotChamberIsNotHeated == hotFor >= MIN_HEATER_ON_SECONDS => ~heaterOn
==============================================================================
