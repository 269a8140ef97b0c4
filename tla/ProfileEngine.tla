---------------------------- MODULE ProfileEngine ----------------------------
(***************************************************************************)
(* The pure profile evaluator of domain/ProfileEngine.h: which drying      *)
(* profiles are accepted, and which target temperature an accepted profile *)
(* asks for after a number of active seconds.                              *)
(*                                                                         *)
(* Temperatures are whole degrees Celsius and durations minutes, as in the *)
(* code.  A minute is 60 seconds there; it is a parameter here so that TLC *)
(* can walk through whole profiles.  UINT_RANGE is the range of the        *)
(* target's `unsigned int`: 2^16 on the ATmega2560 the firmware is built   *)
(* for, 2^32 on the machine its native tests run on.                       *)
(***************************************************************************)
EXTENDS Integers

CONSTANTS
  MAX_TARGET_TEMP_C,      \* highest setpoint a profile may ask for
  MAX_DURATION_MINUTES,   \* longest profile (99 h)
  SECONDS_PER_MINUTE,
  UINT_RANGE              \* `unsigned int` arithmetic is modulo this

ASSUME ProfileEngineAssumption ==
  /\ MAX_TARGET_TEMP_C \in Nat
  /\ MAX_DURATION_MINUTES \in Nat
  /\ SECONDS_PER_MINUTE \in Nat \ {0}
  /\ UINT_RANGE \in Nat \ {0}

ProfileMode == {"Fixed", "Boost", "Fluctuating"}

ProfileConfig ==
  [mode : ProfileMode,
   targetTempC : Int, lowTempC : Int, highTempC : Int,
   durationMinutes : Nat, highPhaseMinutes : Nat, lowPhaseMinutes : Nat]

\* A default-constructed ProfileConfig.
EmptyProfile ==
  [mode |-> "Fixed", targetTempC |-> 0, lowTempC |-> 0, highTempC |-> 0,
   durationMinutes |-> 0, highPhaseMinutes |-> 0, lowPhaseMinutes |-> 0]

------------------------------------------------------------------------------
IsAllowedTemp(tempC) == tempC >= 0 /\ tempC <= MAX_TARGET_TEMP_C

\* `config.highPhaseMinutes * 2U`: an unsigned int product.
TwiceHighPhase(config) == (config.highPhaseMinutes * 2) % UINT_RANGE

IsValid(config) ==
  /\ config.durationMinutes > 0
  /\ config.durationMinutes <= MAX_DURATION_MINUTES
  /\ IsAllowedTemp(config.targetTempC)
  /\ \/ config.mode = "Fixed"
     \/ /\ config.mode = "Boost"
        /\ IsAllowedTemp(config.highTempC)
        /\ config.targetTempC <= config.highTempC
        /\ config.highPhaseMinutes > 0
        /\ TwiceHighPhase(config) <= config.durationMinutes
     \/ /\ config.mode = "Fluctuating"
        /\ IsAllowedTemp(config.lowTempC)
        /\ IsAllowedTemp(config.highTempC)
        /\ config.lowTempC <= config.highTempC
        /\ config.highPhaseMinutes > 0
        /\ config.lowPhaseMinutes > 0

PhaseSeconds(minutes) == minutes * SECONDS_PER_MINUTE

DurationSeconds(config) == PhaseSeconds(config.durationMinutes)

BoostTarget(config, elapsed) ==
  IF elapsed < PhaseSeconds(config.highPhaseMinutes)
    THEN config.highTempC
    ELSE config.targetTempC

\* Mutant: the high phase lasts one second longer than configured.
FluctuatingTargetLong(config, elapsed) ==
  LET high == PhaseSeconds(config.highPhaseMinutes)
      cycle == high + PhaseSeconds(config.lowPhaseMinutes)
  IN  IF elapsed % cycle <= high THEN config.highTempC ELSE config.lowTempC

FluctuatingTarget(config, elapsed) ==
  LET high == PhaseSeconds(config.highPhaseMinutes)
      cycle == high + PhaseSeconds(config.lowPhaseMinutes)
  IN  IF elapsed % cycle < high THEN config.highTempC ELSE config.lowTempC

TargetTempC(config, elapsed) ==
  CASE config.mode = "Fixed"       -> config.targetTempC
    [] config.mode = "Boost"       -> BoostTarget(config, elapsed)
    [] config.mode = "Fluctuating" -> FluctuatingTarget(config, elapsed)

\* ProfileTarget: an invalid profile yields the default-constructed result.
Evaluate(config, elapsed) ==
  IF ~IsValid(config)
    THEN [targetTempC |-> 0, complete |-> FALSE, valid |-> FALSE]
    ELSE [targetTempC |-> TargetTempC(config, elapsed),
          complete |-> elapsed >= DurationSeconds(config),
          valid |-> TRUE]
==============================================================================
