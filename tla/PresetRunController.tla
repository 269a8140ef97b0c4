------------------------- MODULE PresetRunController -------------------------
(***************************************************************************)
(* The run coordinator of app/PresetRunController.h.  It owns a run state  *)
(* machine and a temperature controller, keeps its own copy of the active  *)
(* profile, and recomputes the output command after every operation.       *)
(*                                                                         *)
(* fault() of the state machine is not called by this class, so the Fault  *)
(* state is not reachable here and acknowledgeFault() always refuses.      *)
(***************************************************************************)
EXTENDS RunInputs

CONSTANTS
  FINISH_COOLDOWN_SECONDS,
  HYSTERESIS_C, MIN_HEATER_ON_SECONDS, MIN_HEATER_OFF_SECONDS,
  HEATER_FORCE_OFF_ABOVE_TEMP_C, TIMER_MAX,
  Deltas                \* times between two updates

VARIABLES
  \* stateMachine_
  state, profile, activeElapsedSeconds, cooldownElapsedSeconds,
  resumeAllowed, profileValid,
  \* temperatureControl_
  heaterOn, secondsSinceSwitch,
  \* the controller's own fields
  activePreset, activeProfile, activeProfileValid, activeRunToken,
  currentCommand, lastTargetTempC

SM == INSTANCE RunStateMachine
TC == INSTANCE TemperatureControl

ownVars == <<activePreset, activeProfile, activeProfileValid, activeRunToken,
             currentCommand, lastTargetTempC>>

vars == <<SM!vars, TC!vars, ownVars>>

OutputCommand == [heaterOn : BOOLEAN, fanOn : BOOLEAN, buzzerOn : BOOLEAN,
                  backlightOn : BOOLEAN]

\* A default-constructed OutputCommand.
NoCommand == [heaterOn |-> FALSE, fanOn |-> FALSE, buzzerOn |-> FALSE,
              backlightOn |-> FALSE]

TypeOK ==
  /\ SM!TypeOK /\ TC!TypeOK
  /\ activePreset \in Presets \cup {NoPreset}
  /\ activeProfile \in ProfileConfig
  /\ activeProfileValid \in BOOLEAN
  /\ activeRunToken \in Presets \cup UserTokens \cup {NoToken}
  /\ currentCommand \in OutputCommand
  /\ lastTargetTempC \in Int

Init ==
  /\ SM!Init /\ TC!Init
  /\ activePreset = NoPreset
  /\ activeProfile = EmptyProfile
  /\ activeProfileValid = FALSE
  /\ activeRunToken = NoToken
  /\ currentCommand = NoCommand
  /\ lastTargetTempC = 0

------------------------------------------------------------------------------
\* The command for lifecycle state s with the heater as given, sanitized:
\* what the policy of s does not permit is off.
CommandFor(s, heater) ==
  LET policy == SM!OutputPolicy(s)
  IN  [heaterOn    |-> heater /\ policy.fanOn,
       fanOn       |-> policy.fanOn,
       buzzerOn    |-> policy.finishAlarmOn \/ policy.faultAlarmOn,
       backlightOn |-> TRUE]

ControlInput(target, tempDeciC, delta) ==
  LET policy == SM!OutputPolicy(state')
  IN  [currentTempDeciC |-> tempDeciC, targetTempDeciC |-> target * 10,
       fanOn |-> policy.fanOn,
       heaterControlAllowed |-> policy.heaterControlAllowed,
       deltaSeconds |-> delta]

\* Mutants of UpdateCommand: the target is only computed for a usable reading;
\* an unusable reading leaves the heater as it is.
UpdateCommandTargetLate(delta, reading) ==
  /\ IF state' = "Running" /\ activeProfileValid' /\ reading.valid
       THEN /\ lastTargetTempC' =
                 Evaluate(activeProfile', activeElapsedSeconds').targetTempC
            /\ TC!Update(ControlInput(lastTargetTempC', reading.tempDeciC, delta))
       ELSE /\ TC!Reset(FALSE)
            /\ UNCHANGED lastTargetTempC
  /\ currentCommand' = CommandFor(state', heaterOn')

UpdateCommandHoldsHeater(delta, reading) ==
  /\ IF state' = "Running" /\ activeProfileValid'
       THEN /\ lastTargetTempC' =
                 Evaluate(activeProfile', activeElapsedSeconds').targetTempC
            /\ IF reading.valid
                 THEN TC!Update(ControlInput(lastTargetTempC',
                                             reading.tempDeciC, delta))
                 ELSE UNCHANGED <<heaterOn, secondsSinceSwitch>>
       ELSE /\ TC!Reset(FALSE)
            /\ UNCHANGED lastTargetTempC
  /\ currentCommand' = CommandFor(state', heaterOn')

\* updateCommand(), which every operation calls last.  It sees the state and
\* the active profile the operation has left behind (the primed ones).  The
\* heater follows the temperature controller only while a run is running and
\* the reading may be used; otherwise the controller is reset.
UpdateCommand(delta, reading) ==
  /\ IF state' = "Running" /\ activeProfileValid'
       THEN /\ lastTargetTempC' =
                 Evaluate(activeProfile', activeElapsedSeconds').targetTempC
            /\ IF reading.valid
                 THEN TC!Update(ControlInput(lastTargetTempC',
                                             reading.tempDeciC, delta))
                 ELSE TC!Reset(FALSE)
       ELSE /\ TC!Reset(FALSE)
            /\ UNCHANGED lastTargetTempC
  /\ currentCommand' = CommandFor(state', heaterOn')

\* The operations of the user recompute the command without a reading.
NoReading == [valid |-> FALSE, tempDeciC |-> 0]

\* Mutant: the preset of the run that is gone stays selected.
ClearRunContextKeepsPreset ==
  /\ activeProfile' = EmptyProfile
  /\ activeProfileValid' = FALSE
  /\ activeRunToken' = NoToken
  /\ currentCommand' = NoCommand
  /\ lastTargetTempC' = 0
  /\ TC!Reset(FALSE)
  /\ UNCHANGED activePreset

ClearRunContext ==
  /\ activePreset' = NoPreset
  /\ activeProfile' = EmptyProfile
  /\ activeProfileValid' = FALSE
  /\ activeRunToken' = NoToken
  /\ currentCommand' = NoCommand
  /\ lastTargetTempC' = 0
  /\ TC!Reset(FALSE)

\* What startProfile() does once the state machine has started the profile,
\* and the last line of startPreset().
TakeRunContext(p, token, preset) ==
  /\ activePreset' = preset
  /\ activeProfile' = p
  /\ activeProfileValid' = TRUE
  /\ activeRunToken' = token
  /\ UpdateCommand(0, NoReading)

StartRun(p, token, preset) == SM!Start(p) /\ TakeRunContext(p, token, preset)

StartProfile(p, token) == StartRun(p, token, NoPreset)

StartPreset(preset) == StartRun(PresetProfile[preset], preset, preset)

Update(delta, reading) ==
  /\ SM!Update(delta)
  /\ IF state' = "Idle"
       THEN activePreset' = NoPreset /\ activeProfileValid' = FALSE
       ELSE UNCHANGED <<activePreset, activeProfileValid>>
  /\ UNCHANGED <<activeProfile, activeRunToken>>
  /\ UpdateCommand(delta, reading)

\* Mutant: a pause waits for the next update to switch the outputs.
PauseQuietly ==
  /\ SM!Pause
  /\ UNCHANGED <<activePreset, activeProfile, activeProfileValid, activeRunToken,
                 heaterOn, secondsSinceSwitch, lastTargetTempC, currentCommand>>

Pause ==
  /\ SM!Pause
  /\ UNCHANGED <<activePreset, activeProfile, activeProfileValid, activeRunToken>>
  /\ UpdateCommand(0, NoReading)

Resume ==
  /\ SM!Resume
  /\ UNCHANGED <<activePreset, activeProfile, activeProfileValid, activeRunToken>>
  /\ UpdateCommand(0, NoReading)

StopConfirmed == SM!StopConfirmed /\ ClearRunContext

AcknowledgeFinished == SM!AcknowledgeFinished /\ ClearRunContext

------------------------------------------------------------------------------
Next ==
  \/ \E p \in Profiles, token \in UserTokens : StartProfile(p, token)
  \/ \E preset \in Presets : StartPreset(preset)
  \/ \E delta \in Deltas, reading \in Readings : Update(delta, reading)
  \/ Pause \/ Resume
  \/ StopConfirmed
  \/ AcknowledgeFinished

Spec == Init /\ [][Next]_vars

------------------------------------------------------------------------------
(* Properties *)

\* The state machine times the run by its copy of the profile, the controller
\* heats by its own, and the status pages show the preset the run came from:
\* while a run exists the three agree, and when it is gone nothing is left of
\* it that a later operation could use (startProfile, startPreset,
\* clearRunContext; RunStateMachine keeps profile_ after a run).
ProfileCopiesAgree ==
  /\ state # "Idle" =>
       /\ activeProfileValid /\ activeProfile = profile
       /\ activePreset # NoPreset =>
            /\ activeProfile = PresetProfile[activePreset]
            /\ activeRunToken = activePreset
  /\ state = "Idle" =>
       /\ ~activeProfileValid /\ activePreset = NoPreset
       /\ activeRunToken = NoToken
       /\ ~heaterOn /\ ~currentCommand.heaterOn /\ ~currentCommand.fanOn

\* The target on which the heater is controlled, and which the status page
\* shows, belongs to the second the run clock is in, after a resume and after
\* a late update as well as after every tick (lastTargetTempC_).
TargetFollowsRunClock ==
  state = "Running" =>
    lastTargetTempC =
      Evaluate(profile, activeElapsedSeconds).targetTempC

\* The abstract run: its phase is the lifecycle state, its outputs are the
\* commanded ones, its remaining times are what the timers leave over.
DR == INSTANCE DryingRun WITH
  AIRING_SECONDS <- FINISH_COOLDOWN_SECONDS,
  phase <- CASE state = "Idle"           -> "Off"
             [] state = "Running"        -> "Drying"
             [] state = "Paused"         -> "Held"
             [] state = "FinishCooldown" -> "Airing"
             [] state = "FinishedAlarm"  -> "Announcing"
             [] OTHER                    -> "none",
  remaining <- IF state \in {"Running", "Paused"}
                 THEN SM!DurationSeconds(activeProfile) - activeElapsedSeconds
                 ELSE 0,
  airing <- IF state = "FinishCooldown"
              THEN FINISH_COOLDOWN_SECONDS - cooldownElapsedSeconds ELSE 0,
  fan <- currentCommand.fanOn,
  heater <- currentCommand.heaterOn,
  alarm <- currentCommand.buzzerOn

\* Every sequence of operations on the controller is a drying run as promised:
\* phase, remaining time and outputs change together and in the promised
\* order, and what is promised to be off is off after every operation.
ImplementsDryingRun == DR!Spec
==============================================================================
