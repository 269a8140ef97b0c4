---------------------------- MODULE FaultDetector ----------------------------
(***************************************************************************)
(* domain/FaultDetector.h: the first hard fault seen is latched until a    *)
(* reset.  Three detectors need time: a button that is held, a heater that *)
(* does not heat and a heater that heats when it should not.  Each sums up *)
(* the seconds between calls in a 16-bit counter that saturates.           *)
(*                                                                         *)
(* Temperatures are whole degrees.  The firmware does not call the         *)
(* detector yet: its inputs are those its tests and SafetyConfig name.     *)
(***************************************************************************)
EXTENDS Integers, FiniteSets

CONSTANTS
  Temperatures,             \* what the thermistor reports
  Deltas,                   \* seconds between two updates
  NTC_MIN_VALID, NTC_MAX_VALID, HARD_FAULT_TEMP,
  NO_RISE_MIN_INCREASE, NO_RISE_WINDOW,
  STUCK_HEATER_GRACE, STUCK_HEATER_RISE, STUCK_HEATER_WINDOW,
  BUTTON_STUCK,
  UINT_MAX                  \* UINT16_MAX

\* The counters count past every time they are compared with.
ASSUME LimitsAssumption ==
  /\ Temperatures \subseteq Int /\ {NTC_MIN_VALID, NTC_MAX_VALID, HARD_FAULT_TEMP} \subseteq Int
  /\ Deltas \subseteq Nat /\ Deltas # {}
  /\ {NO_RISE_MIN_INCREASE, STUCK_HEATER_RISE} \subseteq Nat \ {0} /\ UINT_MAX \in Nat
  /\ {NO_RISE_WINDOW, STUCK_HEATER_GRACE, STUCK_HEATER_WINDOW, BUTTON_STUCK}
       \subseteq 1..UINT_MAX - 1

VARIABLES
  latchedCode,
  noRise,                   \* noRiseTracking_, ...BaselineTempDeciC_, ...Seconds_
  heaterWasCommandedOn,
  heaterOffSeconds,
  stuck,                    \* stuckMonitoring_, stuckBaseline..., stuckMonitorSeconds_
  buttonActiveSeconds,
  flat,                     \* history: the heating since the last rise
  cooling                   \* history: the readings since the heater went off

heaterVars == <<heaterWasCommandedOn, heaterOffSeconds, stuck>>
detectorVars == <<latchedCode, noRise, heaterVars, buttonActiveSeconds, flat, cooling>>

SaturatingAdd(value, increment) ==
  IF value + increment > UINT_MAX THEN UINT_MAX ELSE value + increment

NotTracking == [active |-> FALSE, baseline |-> 0, seconds |-> 0]

DetectorInit ==
  /\ latchedCode = "None"
  /\ noRise = NotTracking /\ stuck = NotTracking
  /\ heaterWasCommandedOn = FALSE /\ heaterOffSeconds = 0
  /\ buttonActiveSeconds = 0
  /\ flat = [seconds |-> 0, lowest |-> NTC_MAX_VALID]
  /\ cooling = [seconds |-> 0, readings |-> {}]

ResetDetector ==
  /\ latchedCode' = "None"
  /\ noRise' = NotTracking /\ stuck' = NotTracking
  /\ heaterWasCommandedOn' = FALSE /\ heaterOffSeconds' = 0
  /\ buttonActiveSeconds' = 0
  /\ flat' = [seconds |-> 0, lowest |-> NTC_MAX_VALID]
  /\ cooling' = [seconds |-> 0, readings |-> {}]

------------------------------------------------------------------------------
(* One update.  An input has the fields of FaultDetectorInput. *)

DetectorInputs == [ntcValid : BOOLEAN, temp : Temperatures, heaterOn : BOOLEAN,
                   button : BOOLEAN, watchdogReset : BOOLEAN, delta : Deltas]

IsNtcUsable(in) == in.ntcValid /\ in.temp \in NTC_MIN_VALID..NTC_MAX_VALID

\* The fault an input shows by itself.
ImmediateFault(in) ==
  IF in.watchdogReset THEN "WatchdogResetDuringRun"
  ELSE IF ~IsNtcUsable(in) THEN "NtcInvalid"
  ELSE IF in.temp >= HARD_FAULT_TEMP THEN "OverTemperature"
  ELSE "None"

ButtonSeconds(in) ==
  IF in.button THEN SaturatingAdd(buttonActiveSeconds, in.delta) ELSE 0

\* Mutant: the window starts again whenever the heater is off.
NoRiseAfterContinuous(in) ==
  LET start == IF noRise.active THEN noRise
               ELSE [active |-> TRUE, baseline |-> in.temp, seconds |-> 0]
  IN  IF ~in.heaterOn THEN NotTracking
      ELSE IF in.temp >= start.baseline + NO_RISE_MIN_INCREASE
      THEN [active |-> TRUE, baseline |-> in.temp, seconds |-> 0]
      ELSE [start EXCEPT !.seconds = SaturatingAdd(@, in.delta)]

NoRiseAfter(in) ==
  LET start == IF noRise.active THEN noRise
               ELSE [active |-> TRUE, baseline |-> in.temp, seconds |-> 0]
  IN  IF ~in.heaterOn THEN noRise
      ELSE IF in.temp >= start.baseline + NO_RISE_MIN_INCREASE
      THEN [active |-> TRUE, baseline |-> in.temp, seconds |-> 0]
      ELSE [start EXCEPT !.seconds = SaturatingAdd(@, in.delta)]

IsNotRising(in) == in.heaterOn /\ NoRiseAfter(in).seconds >= NO_RISE_WINDOW

\* Mutant: switching the heater on does not end the monitoring.
MonitoringKept == stuck

MonitoringEnded == [stuck EXCEPT !.active = FALSE, !.seconds = 0]

\* The heater has been off long enough for its chamber to cool.
Monitor(in) ==
  LET seconds == SaturatingAdd(stuck.seconds, in.delta)
      restart == [active |-> TRUE, baseline |-> in.temp, seconds |-> 0]
  IN  \/ ~stuck.active /\ stuck' = restart /\ UNCHANGED latchedCode
      \/ /\ stuck.active
         /\ in.temp >= stuck.baseline + STUCK_HEATER_RISE /\ seconds <= STUCK_HEATER_WINDOW
         /\ latchedCode' = "HeaterStuckOnSuspected"
         /\ stuck' = [stuck EXCEPT !.seconds = seconds]
      \/ /\ stuck.active
         /\ ~(in.temp >= stuck.baseline + STUCK_HEATER_RISE /\ seconds <= STUCK_HEATER_WINDOW)
         /\ stuck' = IF seconds >= STUCK_HEATER_WINDOW
                     THEN restart ELSE [stuck EXCEPT !.seconds = seconds]
         /\ UNCHANGED latchedCode

UpdateStuckHeater(in) ==
  \/ /\ in.heaterOn
     /\ heaterWasCommandedOn' = TRUE /\ heaterOffSeconds' = 0
     /\ stuck' = MonitoringEnded
     /\ UNCHANGED latchedCode
  \/ /\ ~in.heaterOn /\ ~heaterWasCommandedOn
     /\ UNCHANGED <<latchedCode, heaterVars>>
  \/ /\ ~in.heaterOn /\ heaterWasCommandedOn
     /\ heaterOffSeconds' = SaturatingAdd(heaterOffSeconds, in.delta)
     /\ IF heaterOffSeconds' < STUCK_HEATER_GRACE
        THEN UNCHANGED <<latchedCode, stuck>> ELSE Monitor(in)
     /\ UNCHANGED heaterWasCommandedOn

\* The histories are kept for the properties.
Remember(in) ==
  /\ flat' = IF ~in.heaterOn THEN flat
             ELSE IF in.temp >= flat.lowest + NO_RISE_MIN_INCREASE
             THEN [seconds |-> 0, lowest |-> in.temp]
             ELSE [seconds |-> flat.seconds + in.delta,
                   lowest  |-> IF in.temp < flat.lowest THEN in.temp ELSE flat.lowest]
  /\ cooling' =
       IF in.heaterOn THEN [seconds |-> 0, readings |-> {}]
       ELSE LET off  == SaturatingAdd(cooling.seconds, in.delta)
                aged == {[r EXCEPT !.age = @ + in.delta] : r \in cooling.readings}
            IN  [seconds  |-> off,
                 readings |-> {r \in aged : r.age <= STUCK_HEATER_WINDOW} \cup
                   (IF off < STUCK_HEATER_GRACE THEN {} ELSE {[age |-> 0, temp |-> in.temp]})]

\* The detectors are asked in this order, and only until one latches.
UpdateDetector(in) ==
  /\ latchedCode = "None"
  /\ \/ /\ ImmediateFault(in) # "None"
        /\ latchedCode' = ImmediateFault(in)
        /\ UNCHANGED <<buttonActiveSeconds, noRise, heaterVars>>
     \/ /\ ImmediateFault(in) = "None"
        /\ buttonActiveSeconds' = ButtonSeconds(in)
        /\ \/ /\ ButtonSeconds(in) >= BUTTON_STUCK
              /\ latchedCode' = "ButtonStuck"
              /\ UNCHANGED <<noRise, heaterVars>>
           \/ /\ ButtonSeconds(in) < BUTTON_STUCK
              /\ noRise' = NoRiseAfter(in)
              /\ \/ /\ IsNotRising(in)
                    /\ latchedCode' = "TemperatureNotRising" /\ UNCHANGED heaterVars
                 \/ ~IsNotRising(in) /\ UpdateStuckHeater(in)
  /\ Remember(in)

DetectorNext == ResetDetector \/ \E in \in DetectorInputs : UpdateDetector(in)

DetectorSpec == DetectorInit /\ [][DetectorNext]_detectorVars

------------------------------------------------------------------------------
(* Properties *)

\* REQ-SAFE-006: heating without effect is a fault, however the heater is
\* switched in between.  The detector compares with the lowest reading of the
\* last window only as long as nothing rose: a rise that began before it may
\* start the window a second time, with an update of any length.  Twice the
\* window and the longest update is what it promises.
NoRiseIsNoticed ==
  (\A delta \in Deltas : flat.seconds >= 2 * NO_RISE_WINDOW + delta) => latchedCode # "None"

\* REQ-SAFE-007: the heater is suspected only on readings taken with it off,
\* after the grace period, of which one within the window is lower by the
\* rise: the heat left from regular heating never raises the suspicion.
StuckSuspicionIsFounded ==
  latchedCode = "HeaterStuckOnSuspected" =>
    \E old, new \in cooling.readings :
      new.age = 0 /\ new.temp >= old.temp + STUCK_HEATER_RISE
==============================================================================
