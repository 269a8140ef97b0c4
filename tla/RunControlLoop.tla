---------------------------- MODULE RunControlLoop ----------------------------
(***************************************************************************)
(* The part of main.cpp that runs the dryer: loop() with the sensor task,  *)
(* the run-control task and the operations of the input task on the run,   *)
(* composed with the run controller and the relays.                        *)
(*                                                                         *)
(* loop() is one thread.  The sensor and the control task have the same    *)
(* period and are called with the same time, so they are due together and  *)
(* the control task uses the reading taken just before it.  Between two of *)
(* their periods the input task scans the button several times, and each   *)
(* scan performs at most one operation.  Navigation between screens is     *)
(* left out except for the two confirmation prompts, which stay open while *)
(* the run goes on underneath.                                             *)
(***************************************************************************)
EXTENDS RunInputs, Sequences

CONSTANTS
  FINISH_COOLDOWN_SECONDS,
  HYSTERESIS_C, MIN_HEATER_ON_SECONDS, MIN_HEATER_OFF_SECONDS,
  HEATER_FORCE_OFF_ABOVE_TEMP_C, TIMER_MAX,
  HARDWARE,              \* the wiring the firmware is built for
  SCANS                  \* input scans in one control period (50 in the code)

VARIABLES
  \* presetRunController
  state, profile, activeElapsedSeconds, cooldownElapsedSeconds,
  resumeAllowed, profileValid, heaterOn, secondsSinceSwitch,
  activePreset, activeProfile, activeProfileValid, activeRunToken,
  currentCommand, lastTargetTempC,
  \* relayOutputs and the pins
  isOutput, latch, pending, phase, command,
  \* globals of main.cpp
  latestNtc,
  activeProgramDisplay,        \* whose label the status screen shows
  prompt,                      \* the confirmation prompt that is open
  pendingPresetSelection, pendingManualProgramStart,
  pendingManualProgramProfile, pendingRunDisplay,
  \* time
  sinceControl,                \* scans since the control task last ran
  scanned,                     \* the input task has used the present scan
  heaterOffFor                 \* scans the heater relay has been off (capped)

\* updateRunControlTask always passes 1U.
PRC == INSTANCE PresetRunController WITH Deltas <- {1}
RO == INSTANCE RelayOutputs WITH hardware <- HARDWARE, Hardware <- {HARDWARE}

runVars == <<state, profile, activeElapsedSeconds, cooldownElapsedSeconds,
             resumeAllowed, profileValid, heaterOn, secondsSinceSwitch,
             activePreset, activeProfile, activeProfileValid, activeRunToken,
             currentCommand, lastTargetTempC>>
pendingVars == <<pendingPresetSelection, pendingManualProgramStart,
                 pendingManualProgramProfile, pendingRunDisplay>>
uiVars == <<activeProgramDisplay, prompt, pendingVars>>
relayVars == <<isOutput, latch, pending, phase, command>>
timeVars == <<sinceControl, scanned, heaterOffFor>>

vars == <<runVars, relayVars, latestNtc, uiVars, timeVars>>

Prompt == {"None", "ReplaceRun", "StopProgram"}

\* ActiveProgramDisplayContext: a preset, or the kind of a user's program,
\* whose slot number or mode, which are only displayed, are left out.
Displays == {"Manual", "UserProfile"}
Inactive == "Inactive"

RunTokenForDisplayContext(display) ==
  IF display = "UserProfile" THEN "user_profile" ELSE "manual"

\* The run token that belongs to what is displayed.
TokenOf(display) ==
  IF display \in Displays THEN RunTokenForDisplayContext(display) ELSE display

ClearActiveProgramDisplay == activeProgramDisplay' = Inactive

\* The constants of config::RUNTIME and config::HARDWARE, which wires both
\* relays; a preset is not mistaken for another kind of program.
ASSUME RunControlLoopAssumption ==
  /\ Profiles \subseteq ProfileConfig
  /\ FINISH_COOLDOWN_SECONDS \in Nat \ {0}
  /\ HYSTERESIS_C \in Nat \ {0}
  /\ MIN_HEATER_ON_SECONDS \in Nat \ {0}
  /\ MIN_HEATER_OFF_SECONDS \in Nat \ {0}
  /\ HEATER_FORCE_OFF_ABOVE_TEMP_C \in Int
  /\ TIMER_MAX \in Nat
  /\ MIN_HEATER_ON_SECONDS <= TIMER_MAX /\ MIN_HEATER_OFF_SECONDS <= TIMER_MAX
  /\ HARDWARE \in RO!HardwareConfig
  /\ \A relay \in RO!Relay : HARDWARE.assigned[relay]
  /\ SCANS \in Nat \ {0}
  /\ Presets \cap (Displays \cup {Inactive}) = {}

\* A switch-on is compared with the minimum off time, so scans beyond it need
\* not be told apart.
OFF_FOR_MAX == MIN_HEATER_OFF_SECONDS * SCANS

TypeOK ==
  /\ PRC!TypeOK
  /\ RO!TypeOK
  /\ latestNtc \in Reading
  /\ activeProgramDisplay \in Presets \cup Displays \cup {Inactive}
  /\ prompt \in Prompt
  /\ pendingPresetSelection \in Presets \cup {NoPreset}
  /\ pendingManualProgramStart \in BOOLEAN
  /\ pendingManualProgramProfile \in ProfileConfig
  /\ pendingRunDisplay \in Displays \cup {Inactive}
  /\ sinceControl \in 0..SCANS
  /\ scanned \in BOOLEAN
  /\ heaterOffFor \in 0..OFF_FOR_MAX

\* setup() has taken one reading; both tasks are due in the first loop().
Init ==
  /\ PRC!Init
  /\ RO!Init
  /\ latestNtc \in Readings
  /\ activeProgramDisplay = Inactive
  /\ prompt = "None"
  /\ pendingPresetSelection = NoPreset
  /\ pendingManualProgramStart = FALSE
  /\ pendingManualProgramProfile = EmptyProfile
  /\ pendingRunDisplay = Inactive
  /\ sinceControl = SCANS
  /\ scanned = FALSE
  /\ heaterOffFor = OFF_FOR_MAX

------------------------------------------------------------------------------
\* relayOutputs.begin() in setup().
SetupRelays ==
  /\ RO!Begin
  /\ UNCHANGED <<runVars, latestNtc, uiVars, timeVars>>

\* The next register write of a running relay operation.
ExecuteWrite ==
  /\ RO!Execute
  /\ heaterOffFor' = IF RO!Energised("heater")' THEN 0 ELSE heaterOffFor
  /\ UNCHANGED <<runVars, latestNtc, uiVars, sinceControl, scanned>>

\* activeOutputCommand = outputCommand(); relayOutputs.apply(...)
ApplyOutputs == RO!Apply([heaterOn |-> currentCommand'.heaterOn,
                          fanOn |-> currentCommand'.fanOn])

\* Mutants of ControlPeriod: an open prompt blocks the loop; the relays are only
\* driven while a run needs the fan.
ControlPeriodBlocked(reading) ==
  /\ sinceControl = SCANS /\ prompt = "None"
  /\ latestNtc' = reading
  /\ PRC!Update(1, reading)
  /\ ApplyOutputs
  /\ sinceControl' = 0
  /\ scanned' = FALSE
  /\ UNCHANGED <<uiVars, heaterOffFor>>

ControlPeriodWhileActive(reading) ==
  /\ sinceControl = SCANS /\ phase # "reset" /\ RO!Idle
  /\ latestNtc' = reading
  /\ PRC!Update(1, reading)
  /\ IF currentCommand'.fanOn THEN ApplyOutputs ELSE UNCHANGED relayVars
  /\ sinceControl' = 0
  /\ scanned' = FALSE
  /\ UNCHANGED <<uiVars, heaterOffFor>>

\* updateSensorTask() and updateRunControlTask() of one loop iteration.
ControlPeriod(reading) ==
  /\ sinceControl = SCANS
  /\ latestNtc' = reading
  /\ PRC!Update(1, reading)
  /\ ApplyOutputs
  /\ sinceControl' = 0
  /\ scanned' = FALSE
  /\ UNCHANGED <<uiVars, heaterOffFor>>

\* Time passes to the next scan.
NextScan ==
  /\ phase # "reset" /\ RO!Idle
  /\ sinceControl < SCANS
  /\ sinceControl' = sinceControl + 1
  /\ scanned' = FALSE
  /\ heaterOffFor' = IF RO!Energised("heater") THEN 0
                     ELSE IF heaterOffFor < OFF_FOR_MAX
                            THEN heaterOffFor + 1 ELSE heaterOffFor
  /\ UNCHANGED <<runVars, relayVars, latestNtc, uiVars>>

------------------------------------------------------------------------------
(* updateInputTask(): operations on the run.  A scan uses one press.       *)

Scan ==
  /\ phase # "reset" /\ RO!Idle
  /\ sinceControl < SCANS
  /\ ~scanned
  /\ scanned' = TRUE
  /\ UNCHANGED <<sinceControl, heaterOffFor>>

ClearPending ==
  /\ pendingPresetSelection' = NoPreset
  /\ pendingManualProgramStart' = FALSE
  /\ pendingManualProgramProfile' = EmptyProfile
  /\ pendingRunDisplay' = Inactive

\* A preset is selected while no run exists.
StartSelectedPreset(preset) ==
  /\ Scan /\ prompt = "None" /\ state = "Idle"
  /\ PRC!StartPreset(preset)
  /\ ApplyOutputs
  /\ activeProgramDisplay' = preset
  /\ UNCHANGED <<latestNtc, prompt, pendingVars>>

\* A manual or saved profile is started while no run exists; one the state
\* machine refuses is rejected without effect.
StartSelectedProfile(p, display) ==
  /\ Scan /\ prompt = "None" /\ state = "Idle"
  /\ PRC!StartProfile(p, RunTokenForDisplayContext(display))
  /\ ApplyOutputs
  /\ activeProgramDisplay' = display
  /\ UNCHANGED <<latestNtc, prompt, pendingVars>>

\* The same selections while a run exists open the replacement prompt.
PromptReplaceByPreset(preset) ==
  /\ Scan /\ prompt = "None" /\ state # "Idle"
  /\ prompt' = "ReplaceRun"
  /\ pendingPresetSelection' = preset
  /\ pendingManualProgramStart' = FALSE
  /\ pendingManualProgramProfile' = EmptyProfile
  /\ UNCHANGED <<runVars, relayVars, latestNtc, activeProgramDisplay,
                 pendingRunDisplay>>

PromptReplaceByProfile(p, display) ==
  /\ Scan /\ prompt = "None" /\ state # "Idle"
  /\ prompt' = "ReplaceRun"
  /\ pendingPresetSelection' = NoPreset
  /\ pendingManualProgramStart' = TRUE
  /\ pendingManualProgramProfile' = p
  /\ pendingRunDisplay' = display
  /\ UNCHANGED <<runVars, relayVars, latestNtc, activeProgramDisplay>>

Candidate ==
  IF pendingPresetSelection # NoPreset
    THEN [profile |-> PresetProfile[pendingPresetSelection],
          display |-> pendingPresetSelection]
    ELSE [profile |-> pendingManualProgramProfile,
          display |-> pendingRunDisplay]

\* Mutant: the label of the replaced run stays.
ReplaceRunKeepsLabel ==
  /\ Scan /\ prompt = "ReplaceRun"
  /\ PRC!SM!Stoppable
  /\ IsValid(Candidate.profile)
  /\ PRC!SM!BeginRun(Candidate.profile)
  /\ PRC!TakeRunContext(Candidate.profile, TokenOf(Candidate.display),
                        pendingPresetSelection)
  /\ ApplyOutputs
  /\ prompt' = "None"
  /\ ClearPending
  /\ UNCHANGED <<latestNtc, activeProgramDisplay>>

\* stopConfirmed() && startPreset()/startProfile() in one handler: the new run
\* is taken over from the idle state the stop leaves, and the outputs, the
\* label and the relays follow.
ReplaceRun ==
  /\ Scan /\ prompt = "ReplaceRun"
  /\ PRC!SM!Stoppable
  /\ IsValid(Candidate.profile)
  /\ PRC!SM!BeginRun(Candidate.profile)
  /\ PRC!TakeRunContext(Candidate.profile, TokenOf(Candidate.display),
                        pendingPresetSelection)
  /\ ApplyOutputs
  /\ activeProgramDisplay' = Candidate.display
  /\ prompt' = "None"
  /\ ClearPending
  /\ UNCHANGED latestNtc

\* The "rejected" branch.  When the stop succeeds and only the start is refused,
\* the old run is gone, but its label and the relays stay as they are.
RejectedReplacement ==
  /\ Scan /\ prompt = "ReplaceRun"
  /\ ~(PRC!SM!Stoppable /\ IsValid(Candidate.profile))
  /\ IF PRC!SM!Stoppable THEN PRC!StopConfirmed ELSE UNCHANGED runVars
  /\ prompt' = "None"
  /\ ClearPending
  /\ UNCHANGED <<relayVars, latestNtc, activeProgramDisplay>>

DeclineReplacement ==
  /\ Scan /\ prompt = "ReplaceRun"
  /\ prompt' = "None"
  /\ ClearPending
  /\ UNCHANGED <<runVars, relayVars, latestNtc, activeProgramDisplay>>

\* `Oprire program` is offered while a run exists.
PromptStop ==
  /\ Scan /\ prompt = "None" /\ PRC!SM!Stoppable
  /\ prompt' = "StopProgram"
  /\ UNCHANGED <<runVars, relayVars, latestNtc, activeProgramDisplay,
                 pendingVars>>

\* Mutant: a confirmed stop leaves the relays to the next control period.
ConfirmStopLazily ==
  /\ Scan /\ prompt = "StopProgram"
  /\ PRC!StopConfirmed
  /\ ClearActiveProgramDisplay
  /\ prompt' = "None"
  /\ UNCHANGED <<relayVars, latestNtc, pendingVars>>

ConfirmStop ==
  /\ Scan /\ prompt = "StopProgram"
  /\ IF PRC!SM!Stoppable
       THEN /\ PRC!StopConfirmed
            /\ ApplyOutputs
            /\ ClearActiveProgramDisplay
       ELSE UNCHANGED <<runVars, relayVars, activeProgramDisplay>>
  /\ prompt' = "None"
  /\ UNCHANGED <<latestNtc, pendingVars>>

DeclineStop ==
  /\ Scan /\ prompt = "StopProgram"
  /\ prompt' = "None"
  /\ UNCHANGED <<runVars, relayVars, latestNtc, activeProgramDisplay,
                 pendingVars>>

PauseProgram ==
  /\ Scan /\ prompt = "None"
  /\ PRC!Pause
  /\ ApplyOutputs
  /\ UNCHANGED <<latestNtc, uiVars>>

ResumeProgram ==
  /\ Scan /\ prompt = "None"
  /\ PRC!Resume
  /\ ApplyOutputs
  /\ UNCHANGED <<latestNtc, uiVars>>

\* A press on the status screen while the finish alarm is active.
AcknowledgeFinished ==
  /\ Scan /\ prompt = "None"
  /\ PRC!AcknowledgeFinished
  /\ ApplyOutputs
  /\ ClearActiveProgramDisplay
  /\ UNCHANGED <<latestNtc, prompt, pendingVars>>

\* Saving a calibration takes a reading between two control periods.
RereadNtc(reading) ==
  /\ Scan /\ prompt = "None"
  /\ latestNtc' = reading
  /\ UNCHANGED <<runVars, relayVars, uiVars>>

Input ==
  \/ \E preset \in Presets :
       StartSelectedPreset(preset) \/ PromptReplaceByPreset(preset)
  \/ \E p \in Profiles, display \in Displays :
       StartSelectedProfile(p, display) \/ PromptReplaceByProfile(p, display)
  \/ ReplaceRun \/ RejectedReplacement \/ DeclineReplacement
  \/ PromptStop \/ ConfirmStop \/ DeclineStop
  \/ PauseProgram \/ ResumeProgram \/ AcknowledgeFinished
  \/ \E reading \in Readings : RereadNtc(reading)

------------------------------------------------------------------------------
Control == \E reading \in Readings : ControlPeriod(reading)

Next == SetupRelays \/ ExecuteWrite \/ Control \/ NextScan \/ Input

Spec == Init /\ [][Next]_vars

\* loop() never stops and millis() goes on; nothing is assumed of the user.
Fairness ==
  WF_vars(SetupRelays) /\ WF_vars(ExecuteWrite)
    /\ WF_vars(Control) /\ WF_vars(NextScan)

FairSpec == Spec /\ Fairness

------------------------------------------------------------------------------
(* Properties *)

Settled == phase # "reset" /\ RO!Idle

RelaysShowCommand ==
  /\ RO!Energised("fan") <=> currentCommand.fanOn
  /\ RO!Energised("heater") <=> currentCommand.heaterOn

\* Outside a relay operation the relays show the command of the controller,
\* for a handler that changes the run also drives the relays in the same
\* scan.  The one exception is a replacement whose start was refused: the
\* relays then keep the outputs of the run that is gone, under its label, and
\* the next control period corrects them (updateInputTask,
\* updateRunControlTask).
RelaysFollowController ==
  Settled /\ ~RelaysShowCommand =>
    /\ state = "Idle" /\ activeProgramDisplay # Inactive
    /\ scanned \/ sinceControl > 0

\* The minimum off time as the relay sees it.  The controller counts control
\* periods and a scan falls anywhere between two of them, so a relay switched
\* off by a pause or a replacement may be on again less than one period before
\* the configured minimum, and never sooner, however the user pauses, resumes
\* and replaces runs (minHeaterOffSeconds).
RelayRestsBetweenRuns ==
  [][~RO!Energised("heater") /\ RO!Energised("heater")' =>
       heaterOffFor > (MIN_HEATER_OFF_SECONDS - 1) * SCANS]_vars

\* The status screen names the run that is really there, whichever of the
\* five places in the input task that start, replace or end a run was the
\* last one to act (activeProgramDisplay and activeRunToken are written
\* separately, by main.cpp and by the controller).
LabelNamesTheRun == state # "Idle" => TokenOf(activeProgramDisplay) = activeRunToken

\* Whatever prompts the user leaves open, the loop ends a run that has begun
\* to dry, unless the user pauses it or puts a fresh one in its place, and the
\* fan of a finished run stops turning unless another run has been started.
RunComesToAnEnd ==
  state = "Running" /\ activeElapsedSeconds > 0
    ~> state # "Running" \/ activeElapsedSeconds = 0
FanComesToRest ==
  state = "FinishCooldown" ~> ~RO!Energised("fan") \/ state = "Running"

\* The target on which the heater is controlled, and which the status page
\* shows, belongs to the second the run clock is in, after a start, a resume
\* and a replacement as well as after every control period (lastTargetTempC_).
TargetFollowsRunClock == PRC!TargetFollowsRunClock

\* The state machine times the run by its copy of the profile, the controller
\* heats by its own, and the status pages show the preset it came from: while
\* a run exists the three agree, and when it is gone nothing is left of it
\* that a later operation could use (startProfile, clearRunContext).
ProfileCopiesAgree == PRC!ProfileCopiesAgree

\* REQ-SAFE-002, REQ-SAFE-012: the heater command is on after a step only if
\* the step was a control period with a usable reading not above the limit,
\* or left the command alone: no start, resume, replacement or other press of
\* the user switches it on or carries it over.
HeaterOnlyByUsableReading ==
  [][currentCommand'.heaterOn /\ ~UNCHANGED runVars =>
       \E reading \in Readings :
         /\ ControlPeriod(reading)
         /\ reading.valid
         /\ reading.tempDeciC <= HEATER_FORCE_OFF_ABOVE_TEMP_C * 10]_vars

\* Everything the loop and the input task do to the run, in whatever order,
\* is a drying run as DryingRun promises it: phase, remaining time and outputs
\* change together and in the promised order.
ImplementsDryingRun == PRC!ImplementsDryingRun

\* architecture.md, Runtime State Model: "`Idle`: no active run; outputs OFF",
\* and REQ-FUNC-013: a confirmed stop "shall command heater OFF and fan OFF
\* immediately".
IdleMeansOutputsOff ==
  Settled /\ state = "Idle" =>
    ~RO!Energised("heater") /\ ~RO!Energised("fan")
==============================================================================
