------------------------ MODULE RunControlLoop_proofs ------------------------
(***************************************************************************)
(* Proofs about the loop that runs the dryer, for every catalogue, every   *)
(* set of user profiles and readings, every cooldown and all minimum       *)
(* times, every number of scans in a control period, and both polarities   *)
(* of each relay.                                                          *)
(*                                                                         *)
(* The run itself comes first: what the operations of the controller leave *)
(* of the run, its outputs and its clock (RunInv), and that every step of  *)
(* the loop is a step of the promised drying run.  Then what the loop adds *)
(* (LoopInv): the relays, the label and the time the heater has rested.    *)
(* The facts about the run lifecycle and about the register writes are     *)
(* those of RunStateMachine_proofs and RelayOutputs_proofs, for the        *)
(* machine and the relays the loop uses.                                   *)
(***************************************************************************)
EXTENDS RunControlLoop, TLAPS

SMP == INSTANCE RunStateMachine_proofs WITH Deltas <- {1}
ROP == INSTANCE RelayOutputs_proofs WITH hardware <- HARDWARE,
                                         Hardware <- {HARDWARE}

------------------------------------------------------------------------------
(* The inductive invariant                                                    *)

\* fault() is called by nobody, and the command is what the lifecycle permits.
OutputsFollowLifecycle ==
  /\ state # "Fault"
  /\ heaterOn => state = "Running"
  /\ currentCommand.heaterOn <=> heaterOn
  /\ currentCommand.fanOn <=> state \in {"Running", "FinishCooldown"}
  /\ currentCommand.buzzerOn <=> state = "FinishedAlarm"

\* The fields of the controller that are not the state machine's.
OwnTypeOK ==
  /\ heaterOn \in BOOLEAN
  /\ secondsSinceSwitch \in 0..TIMER_MAX
  /\ activePreset \in Presets \cup {NoPreset}
  /\ activeProfile \in ProfileConfig
  /\ activeProfileValid \in BOOLEAN
  /\ activeRunToken \in Presets \cup UserTokens \cup {NoToken}
  /\ currentCommand \in PRC!OutputCommand
  /\ lastTargetTempC \in Int

RunInv ==
  /\ SMP!IInv
  /\ OwnTypeOK
  /\ ProfileCopiesAgree
  /\ TargetFollowsRunClock
  /\ OutputsFollowLifecycle

\* The globals of main.cpp and the time.
LoopTypeOK ==
  /\ latestNtc \in Reading
  /\ activeProgramDisplay \in Presets \cup Displays \cup {Inactive}
  /\ prompt \in Prompt
  /\ pendingPresetSelection \in Presets \cup {NoPreset}
  /\ pendingManualProgramStart \in BOOLEAN
  /\ pendingManualProgramProfile \in ProfileConfig
  /\ pendingRunDisplay \in Displays \cup {Inactive}
  /\ sinceControl \in 0..SCANS
  /\ scanned \in BOOLEAN
  /\ heaterOffFor \in 0..OFF_FOR_MAX

\* Both tasks are due in the first loop(), before anything has been started.
NothingBeforeFirstPeriod ==
  phase # "commanded" => state = "Idle" /\ sinceControl = SCANS

\* An open replacement prompt knows whom to start.
PromptHasCandidate ==
  prompt = "ReplaceRun" =>
    pendingPresetSelection # NoPreset \/ pendingRunDisplay \in Displays

LabelIsKept == state # "Idle" => activeProgramDisplay # Inactive

\* After a refused replacement, until the next control period.
RelaysLag ==
  /\ state = "Idle" /\ activeProgramDisplay # Inactive
  /\ scanned \/ sinceControl > 0

RelaysAreTold ==
  phase = "commanded" =>
    \/ command = [heaterOn |-> currentCommand.heaterOn,
                  fanOn    |-> currentCommand.fanOn]
    \/ RelaysLag

\* The timer of the controller is at most a period ahead of the relay.
TimerIsHonest ==
  state = "Running" /\ ~heaterOn =>
    \/ heaterOffFor = OFF_FOR_MAX
    \/ heaterOffFor > (secondsSinceSwitch - 1) * SCANS + sinceControl

\* A relay that is about to be switched on has rested.
RestedBeforeOn ==
  phase = "commanded" /\ command.heaterOn /\ ~RO!Energised("heater") =>
    heaterOffFor > (MIN_HEATER_OFF_SECONDS - 1) * SCANS

LoopInv ==
  /\ LoopTypeOK
  /\ ROP!IInv
  /\ NothingBeforeFirstPeriod
  /\ PromptHasCandidate
  /\ LabelNamesTheRun
  /\ LabelIsKept
  /\ RelaysAreTold
  /\ TimerIsHonest
  /\ RestedBeforeOn

IInv == RunInv /\ LoopInv

------------------------------------------------------------------------------
(* The machine and the evaluator inside the controller                        *)

\* The evaluator is one and the same for everybody who calls it.
LEMMA OneEvaluator ==
  /\ \A p : /\ PRC!SM!IsValid(p) = IsValid(p)
           /\ SMP!IsValid(p) = IsValid(p)
           /\ SMP!DurationSeconds(p) = DurationSeconds(p)
           /\ PRC!SM!DurationSeconds(p) = DurationSeconds(p)
  /\ \A p, t : /\ PRC!SM!Evaluate(p, t) = SMP!Evaluate(p, t)
              /\ SMP!Evaluate(p, t) = Evaluate(p, t)
              /\ PRC!Evaluate(p, t) = Evaluate(p, t)
  /\ SMP!ProfileConfig = ProfileConfig
  /\ PRC!ProfileConfig = ProfileConfig
BY DEF PRC!SM!IsValid, SMP!IsValid, IsValid, PRC!SM!IsAllowedTemp, SMP!IsAllowedTemp,
       IsAllowedTemp, PRC!SM!TwiceHighPhase, SMP!TwiceHighPhase, TwiceHighPhase,
       PRC!IsValid, PRC!IsAllowedTemp, PRC!TwiceHighPhase,
       PRC!SM!DurationSeconds, SMP!DurationSeconds, DurationSeconds,
       PRC!SM!PhaseSeconds, SMP!PhaseSeconds, PhaseSeconds, PRC!PhaseSeconds,
       PRC!DurationSeconds,
       PRC!SM!Evaluate, SMP!Evaluate, PRC!Evaluate, Evaluate,
       PRC!SM!TargetTempC, SMP!TargetTempC, PRC!TargetTempC, TargetTempC,
       PRC!SM!BoostTarget, SMP!BoostTarget, PRC!BoostTarget, BoostTarget,
       PRC!SM!FluctuatingTarget, SMP!FluctuatingTarget, PRC!FluctuatingTarget,
       FluctuatingTarget, SMP!ProfileConfig, PRC!ProfileConfig, ProfileConfig,
       SMP!ProfileMode, PRC!ProfileMode, ProfileMode

\* What the facts about the run lifecycle ask of the constants.
LEMMA LifecycleConstants ==
  /\ FINISH_COOLDOWN_SECONDS \in Nat \ {0}
  /\ Profiles \subseteq SMP!ProfileConfig
  /\ {1} \subseteq Nat
  /\ MAX_TARGET_TEMP_C \in Nat /\ MAX_DURATION_MINUTES \in Nat
  /\ SECONDS_PER_MINUTE \in Nat \ {0} /\ UINT_RANGE \in Nat \ {0}
BY RunControlLoopAssumption, OneEvaluator, ProfileEngineAssumption

\* A profile asks for a temperature of its own, or for none (evaluate).
LEMMA TargetIsNumber ==
  ASSUME NEW p \in ProfileConfig, NEW t
  PROVE  Evaluate(p, t).targetTempC \in Int
BY DEF Evaluate, TargetTempC, BoostTarget, FluctuatingTarget, ProfileConfig, ProfileMode

\* The operations of the machine in the controller are those of the machine.
LEMMA OneMachine ==
  /\ \A p : PRC!SM!BeginRun(p) => SMP!BeginRun(p)
  /\ \A d : PRC!SM!Update(d) => SMP!Update(d)
  /\ PRC!SM!Pause => SMP!Pause
  /\ PRC!SM!Resume => SMP!Resume
  /\ PRC!SM!StopConfirmed => SMP!StopConfirmed
  /\ PRC!SM!AcknowledgeFinished => SMP!AcknowledgeFinished
BY OneEvaluator
   DEF PRC!SM!BeginRun, SMP!BeginRun, PRC!SM!Update, SMP!Update, PRC!SM!AdvanceRun,
       SMP!AdvanceRun, PRC!SM!AdvanceCooldown, SMP!AdvanceCooldown, PRC!SM!vars,
       SMP!vars, PRC!SM!Pause, SMP!Pause, PRC!SM!Resume, SMP!Resume,
       PRC!SM!StopConfirmed, SMP!StopConfirmed, PRC!SM!Stoppable, SMP!Stoppable,
       PRC!SM!ResetToIdle, SMP!ResetToIdle, PRC!SM!AcknowledgeFinished,
       SMP!AcknowledgeFinished

------------------------------------------------------------------------------
(* What the controller does to the run                                        *)

\* A run taken over by startProfile() or startPreset(), in whichever state.
StartsRun(p, token, preset) ==
  /\ IsValid(p)
  /\ preset # NoPreset => p = PresetProfile[preset] /\ token = preset
  /\ PRC!SM!BeginRun(p)
  /\ PRC!TakeRunContext(p, token, preset)

SomeRunStarts ==
  \E p \in ProfileConfig, token \in Presets \cup UserTokens,
     preset \in Presets \cup {NoPreset} : StartsRun(p, token, preset)

PeriodPasses == \E reading \in Readings : PRC!Update(1, reading)

RunEnds == PRC!StopConfirmed \/ PRC!AcknowledgeFinished

RunStep ==
  \/ SomeRunStarts
  \/ PeriodPasses
  \/ PRC!Pause \/ PRC!Resume
  \/ RunEnds
  \/ UNCHANGED runVars

\* The lifecycle part of the invariant is kept by all of them.
LEMMA RunStepKeepsLifecycle ==
  ASSUME SMP!IInv, RunStep
  PROVE  SMP!IInv'
<1>1. CASE SomeRunStarts
  <2>1. PICK p \in ProfileConfig : IsValid(p) /\ PRC!SM!BeginRun(p)
    BY <1>1 DEF SomeRunStarts, StartsRun
  <2>2. p \in SMP!ProfileConfig /\ SMP!IsValid(p) /\ SMP!BeginRun(p)
    BY <2>1, OneEvaluator, OneMachine
  <2> QED BY <2>2, LifecycleConstants, SMP!BeginRunKeepsIInv
<1>2. CASE PeriodPasses
  <2>1. SMP!Update(1)
    BY <1>2, OneMachine DEF PeriodPasses, PRC!Update
  <2> QED BY <2>1, LifecycleConstants, SMP!UpdateKeepsIInv
<1>3. CASE PRC!Pause \/ PRC!Resume \/ RunEnds
  <2>1. SMP!Next
    BY <1>3, OneMachine
       DEF RunEnds, PRC!Pause, PRC!Resume, PRC!StopConfirmed, PRC!AcknowledgeFinished,
           SMP!Next
  <2> QED BY <2>1, LifecycleConstants, SMP!NextKeepsIInv
<1>4. CASE UNCHANGED runVars
  <2>1. UNCHANGED SMP!vars
    BY <1>4 DEF runVars, SMP!vars
  <2> QED BY <2>1, LifecycleConstants, SMP!NextKeepsIInv
<1> QED BY <1>1, <1>2, <1>3, <1>4 DEF RunStep

\* What updateCommand() leaves, for whatever operation has called it.
LEMMA UpdateCommandSets ==
  ASSUME NEW d \in Nat, NEW reading \in Reading, PRC!UpdateCommand(d, reading),
         OwnTypeOK, activeProfile' \in ProfileConfig, activeProfileValid' \in BOOLEAN,
         state' \in SMP!RunState, state' # "Fault"
  PROVE  /\ heaterOn' \in BOOLEAN /\ secondsSinceSwitch' \in 0..TIMER_MAX
         /\ currentCommand' \in PRC!OutputCommand /\ lastTargetTempC' \in Int
         /\ OutputsFollowLifecycle'
         /\ state' = "Running" /\ activeProfileValid' =>
              lastTargetTempC' = Evaluate(activeProfile', activeElapsedSeconds').targetTempC
         /\ heaterOn' => reading.valid /\ state' = "Running"
                      /\ reading.tempDeciC <= HEATER_FORCE_OFF_ABOVE_TEMP_C * 10
<1> DEFINE t == Evaluate(activeProfile', activeElapsedSeconds').targetTempC
           input == PRC!ControlInput(t, reading.tempDeciC, d)
<1>1. t \in Int
  BY TargetIsNumber
<1>2. currentCommand' = PRC!CommandFor(state', heaterOn')
  BY DEF PRC!UpdateCommand
<1>3. /\ state' = "Running" /\ activeProfileValid' => lastTargetTempC' = t
      /\ ~(state' = "Running" /\ activeProfileValid') => UNCHANGED lastTargetTempC
      /\ \/ /\ state' = "Running" /\ reading.valid
            /\ PRC!TC!Update(input)
         \/ PRC!TC!Reset(FALSE)
  BY OneEvaluator DEF PRC!UpdateCommand
<1>4. ASSUME PRC!TC!Update(input)
      PROVE  /\ heaterOn' \in BOOLEAN /\ secondsSinceSwitch' \in 0..TIMER_MAX
             /\ heaterOn' => reading.tempDeciC <= HEATER_FORCE_OFF_ABOVE_TEMP_C * 10
  <2>1. input.currentTempDeciC = reading.tempDeciC /\ input.deltaSeconds = d
    BY DEF PRC!ControlInput
  <2>2. reading.tempDeciC \in Int /\ HEATER_FORCE_OFF_ABOVE_TEMP_C * 10 \in Int
    BY RunControlLoopAssumption DEF Reading
  <2>3. TIMER_MAX \in Nat
    BY RunControlLoopAssumption
  <2>4. /\ heaterOn' = PRC!TC!NextHeater(input, PRC!TC!AdvancedTimer(d))
        /\ secondsSinceSwitch' \in {0, PRC!TC!AdvancedTimer(d)}
    BY <1>4, <2>1 DEF PRC!TC!Update, PRC!TC!SwitchHeater
  <2>5. PRC!TC!AdvancedTimer(d) \in 0..TIMER_MAX
    BY <2>3 DEF PRC!TC!AdvancedTimer, OwnTypeOK
  <2>6. PRC!TC!NextHeater(input, PRC!TC!AdvancedTimer(d)) \in BOOLEAN
    BY DEF PRC!TC!NextHeater
  <2>7. heaterOn' => ~PRC!TC!ForcedOff(input)
    BY <2>4 DEF PRC!TC!NextHeater
  <2> QED BY <2>1, <2>2, <2>3, <2>4, <2>5, <2>6, <2>7 DEF PRC!TC!ForcedOff
<1>5. /\ heaterOn' \in BOOLEAN /\ secondsSinceSwitch' \in 0..TIMER_MAX
      /\ heaterOn' => /\ reading.valid /\ state' = "Running"
                      /\ reading.tempDeciC <= HEATER_FORCE_OFF_ABOVE_TEMP_C * 10
  <2>1. 0 \in 0..TIMER_MAX
    BY RunControlLoopAssumption
  <2> QED BY <1>3, <1>4, <2>1 DEF PRC!TC!Reset
<1>6. currentCommand' \in PRC!OutputCommand /\ OutputsFollowLifecycle'
  <2>1. currentCommand' = [heaterOn    |-> heaterOn' /\ state' \in {"Running", "FinishCooldown"},
                           fanOn       |-> state' \in {"Running", "FinishCooldown"},
                           buzzerOn    |-> state' = "FinishedAlarm" \/ state' = "Fault",
                           backlightOn |-> TRUE]
    BY <1>2 DEF PRC!CommandFor, PRC!SM!OutputPolicy
  <2>2. currentCommand' \in PRC!OutputCommand
    BY <1>5, <2>1 DEF PRC!OutputCommand
  <2>3. /\ currentCommand'.heaterOn = (heaterOn' /\ state' \in {"Running", "FinishCooldown"})
        /\ currentCommand'.fanOn = (state' \in {"Running", "FinishCooldown"})
        /\ currentCommand'.buzzerOn = (state' = "FinishedAlarm" \/ state' = "Fault")
    BY <2>1
  <2>4. OutputsFollowLifecycle'
    BY <1>5, <2>3, Zenon DEF OutputsFollowLifecycle
  <2> QED BY <2>2, <2>4
<1>7. lastTargetTempC' \in Int
  BY <1>1, <1>3 DEF OwnTypeOK
<1> QED BY <1>3, <1>5, <1>6, <1>7

\* What clearRunContext() leaves.
LEMMA ClearRunContextSets ==
  ASSUME PRC!ClearRunContext, state' = "Idle", OwnTypeOK
  PROVE  OwnTypeOK' /\ ProfileCopiesAgree' /\ TargetFollowsRunClock'
           /\ OutputsFollowLifecycle'
<1>1. EmptyProfile \in ProfileConfig /\ 0 \in 0..TIMER_MAX
  BY RunControlLoopAssumption DEF EmptyProfile, ProfileConfig, ProfileMode
<1>2. /\ activePreset' = NoPreset /\ activeProfile' = EmptyProfile
      /\ activeProfileValid' = FALSE /\ activeRunToken' = NoToken
      /\ currentCommand' = PRC!NoCommand /\ lastTargetTempC' = 0
      /\ heaterOn' = FALSE /\ secondsSinceSwitch' = 0
  BY DEF PRC!ClearRunContext, PRC!TC!Reset, PRC!EmptyProfile, EmptyProfile
<1>3. OwnTypeOK'
  <2>1. PRC!NoCommand \in PRC!OutputCommand
    BY DEF PRC!NoCommand, PRC!OutputCommand
  <2>2. /\ heaterOn' \in BOOLEAN /\ activeProfileValid' \in BOOLEAN
        /\ activeProfile' \in ProfileConfig /\ currentCommand' \in PRC!OutputCommand
    BY <1>1, <1>2, <2>1, Zenon
  <2>3. secondsSinceSwitch' \in 0..TIMER_MAX /\ lastTargetTempC' \in Int
    BY <1>1, <1>2
  <2> QED BY <1>2, <2>2, <2>3 DEF OwnTypeOK
<1>4. ProfileCopiesAgree' /\ TargetFollowsRunClock'
  BY <1>2 DEF ProfileCopiesAgree, PRC!ProfileCopiesAgree, TargetFollowsRunClock,
              PRC!TargetFollowsRunClock, PRC!NoCommand
<1>5. OutputsFollowLifecycle'
  BY <1>2 DEF OutputsFollowLifecycle, PRC!NoCommand
<1> QED BY <1>3, <1>4, <1>5

\* The run after an operation that recomputes the command last.
LEMMA UpdateCommandKeepsRunInv ==
  ASSUME NEW d \in Nat, NEW reading \in Reading, PRC!UpdateCommand(d, reading),
         OwnTypeOK, SMP!IInv', state' # "Fault",
         activePreset' \in Presets \cup {NoPreset}, activeProfile' \in ProfileConfig,
         activeProfileValid' \in BOOLEAN,
         activeRunToken' \in Presets \cup UserTokens \cup {NoToken},
         state' # "Idle" =>
           /\ activeProfileValid' /\ activeProfile' = profile'
           /\ activePreset' # NoPreset =>
                activeProfile' = PresetProfile[activePreset'] /\ activeRunToken' = activePreset',
         state' = "Idle" =>
           ~activeProfileValid' /\ activePreset' = NoPreset /\ activeRunToken' = NoToken
  PROVE  RunInv'
<1>1. state' \in SMP!RunState
  BY DEF SMP!IInv, SMP!TypeOK
<1>2. /\ heaterOn' \in BOOLEAN /\ secondsSinceSwitch' \in 0..TIMER_MAX
      /\ currentCommand' \in PRC!OutputCommand /\ lastTargetTempC' \in Int
      /\ OutputsFollowLifecycle'
      /\ state' = "Running" /\ activeProfileValid' =>
           lastTargetTempC' = Evaluate(activeProfile', activeElapsedSeconds').targetTempC
  BY <1>1, UpdateCommandSets
<1>3. OwnTypeOK'
  BY <1>2 DEF OwnTypeOK
<1>4. ProfileCopiesAgree'
  <2>1. CASE state' # "Idle"
    BY <2>1 DEF ProfileCopiesAgree, PRC!ProfileCopiesAgree
  <2>2. CASE state' = "Idle"
    <3>1. ~heaterOn' /\ ~currentCommand'.heaterOn /\ ~currentCommand'.fanOn
      BY <1>2, <2>2 DEF OutputsFollowLifecycle
    <3> QED BY <2>2, <3>1 DEF ProfileCopiesAgree, PRC!ProfileCopiesAgree
  <2> QED BY <2>1, <2>2
<1>5. TargetFollowsRunClock'
  BY <1>2, OneEvaluator DEF TargetFollowsRunClock, PRC!TargetFollowsRunClock
<1> QED BY <1>2, <1>3, <1>4, <1>5 DEF RunInv

\* The reading the operations of the user hand over is one (updateCommand).
LEMMA NoReadingIsReading == PRC!NoReading \in Reading
BY DEF PRC!NoReading, Reading

\* A run that exists keeps its context in a pause, a resume and an update.
LEMMA ContextOfRun ==
  ASSUME RunInv, state # "Idle"
  PROVE  /\ activeProfileValid /\ activeProfile = profile
         /\ activePreset # NoPreset =>
              activeProfile = PresetProfile[activePreset] /\ activeRunToken = activePreset
BY DEF RunInv, ProfileCopiesAgree, PRC!ProfileCopiesAgree

\* Every operation of the controller keeps what it promises of the run.
LEMMA RunStepKeepsRunInv ==
  ASSUME RunInv, RunStep
  PROVE  RunInv'
<1>0. SMP!IInv' /\ OwnTypeOK /\ state # "Fault"
  BY RunStepKeepsLifecycle DEF RunInv, OutputsFollowLifecycle
<1>1. CASE SomeRunStarts
  <2>1. PICK p \in ProfileConfig, token \in Presets \cup UserTokens,
             preset \in Presets \cup {NoPreset} : StartsRun(p, token, preset)
    BY <1>1 DEF SomeRunStarts
  <2>2. /\ state' = "Running" /\ profile' = p /\ activeProfile' = p
        /\ activeProfileValid' = TRUE /\ activePreset' = preset /\ activeRunToken' = token
        /\ PRC!UpdateCommand(0, PRC!NoReading)
    BY <2>1 DEF StartsRun, PRC!SM!BeginRun, PRC!TakeRunContext
  <2>3. preset # NoPreset => p = PresetProfile[preset] /\ token = preset
    BY <2>1 DEF StartsRun
  <2> QED BY <1>0, <2>2, <2>3, NoReadingIsReading, UpdateCommandKeepsRunInv
<1>2. CASE PeriodPasses
  <2>1. PICK reading \in Readings : PRC!Update(1, reading)
    BY <1>2 DEF PeriodPasses
  <2>2. reading \in Reading
    BY RunInputsAssumption
  <2>3. /\ PRC!UpdateCommand(1, reading) /\ UNCHANGED <<activeProfile, activeRunToken, profile>>
        /\ state' # "Fault" /\ (state' = "Idle" <=> state = "Idle")
    BY <1>0, <2>1
       DEF PRC!Update, PRC!SM!Update, PRC!SM!AdvanceRun, PRC!SM!AdvanceCooldown, PRC!SM!vars
  <2>4. IF state' = "Idle" THEN activePreset' = NoPreset /\ activeProfileValid' = FALSE
                           ELSE UNCHANGED <<activePreset, activeProfileValid>>
    BY <2>1 DEF PRC!Update
  <2>5. /\ activePreset' \in Presets \cup {NoPreset} /\ activeProfile' \in ProfileConfig
        /\ activeRunToken' \in Presets \cup UserTokens \cup {NoToken}
    BY <1>0, <2>3, <2>4 DEF OwnTypeOK
  <2>6. activeProfileValid' \in BOOLEAN
    BY <1>0, <2>4 DEF OwnTypeOK
  <2>7. CASE state' = "Idle"
    <3>1. activeRunToken' = NoToken
      BY <2>3, <2>7 DEF RunInv, ProfileCopiesAgree, PRC!ProfileCopiesAgree
    <3> QED
      BY <1>0, <2>2, <2>3, <2>4, <2>5, <2>6, <2>7, <3>1, UpdateCommandKeepsRunInv
  <2>8. CASE state' # "Idle"
    BY <1>0, <2>2, <2>3, <2>4, <2>5, <2>6, <2>8, ContextOfRun, UpdateCommandKeepsRunInv
  <2> QED BY <2>7, <2>8
<1>3. CASE PRC!Pause \/ PRC!Resume
  <2>1. /\ state # "Idle" /\ state' # "Idle" /\ state' # "Fault"
        /\ UNCHANGED <<profile, activePreset, activeProfile, activeProfileValid, activeRunToken>>
        /\ PRC!UpdateCommand(0, PRC!NoReading)
    BY <1>3 DEF PRC!Pause, PRC!Resume, PRC!SM!Pause, PRC!SM!Resume
  <2>2. /\ activePreset' \in Presets \cup {NoPreset} /\ activeProfile' \in ProfileConfig
        /\ activeRunToken' \in Presets \cup UserTokens \cup {NoToken}
        /\ activeProfileValid' \in BOOLEAN
    BY <1>0, <2>1 DEF OwnTypeOK
  <2> QED
    BY <1>0, <2>1, <2>2, ContextOfRun, NoReadingIsReading, UpdateCommandKeepsRunInv
<1>4. CASE RunEnds
  <2>1. PRC!ClearRunContext /\ state' = "Idle"
    BY <1>4 DEF RunEnds, PRC!StopConfirmed, PRC!AcknowledgeFinished,
                PRC!SM!StopConfirmed, PRC!SM!AcknowledgeFinished, PRC!SM!ResetToIdle
  <2> QED BY <1>0, <2>1, ClearRunContextSets DEF RunInv
<1>5. CASE UNCHANGED runVars
  <2>1. OwnTypeOK' /\ OutputsFollowLifecycle'
    BY <1>5 DEF RunInv, runVars, OwnTypeOK, OutputsFollowLifecycle
  <2>2. ProfileCopiesAgree' /\ TargetFollowsRunClock'
    BY <1>5, OneEvaluator DEF RunInv, runVars, ProfileCopiesAgree, PRC!ProfileCopiesAgree,
                TargetFollowsRunClock, PRC!TargetFollowsRunClock
  <2> QED BY <1>0, <2>1, <2>2 DEF RunInv
<1> QED BY <1>1, <1>2, <1>3, <1>4, <1>5 DEF RunStep

\* Nothing runs when the controller has been constructed.
LEMMA InitRunInv == Init => RunInv
<1> SUFFICES ASSUME Init PROVE RunInv OBVIOUS
<1>1. PRC!SM!Init /\ PRC!TC!Init /\ PRC!Init
  BY DEF Init, PRC!Init
<1>2. SMP!IInv
  <2>1. SMP!Init
    BY <1>1 DEF PRC!SM!Init, SMP!Init, PRC!SM!EmptyProfile, SMP!EmptyProfile
  <2> QED BY <2>1, LifecycleConstants, SMP!InitIInv
<1>3. OwnTypeOK
  <2>1. EmptyProfile \in ProfileConfig /\ 0 \in 0..TIMER_MAX /\ PRC!EmptyProfile = EmptyProfile
    BY RunControlLoopAssumption DEF EmptyProfile, ProfileConfig, ProfileMode, PRC!EmptyProfile
  <2>2. PRC!NoCommand \in PRC!OutputCommand
    BY DEF PRC!NoCommand, PRC!OutputCommand
  <2>3. /\ heaterOn = FALSE /\ secondsSinceSwitch = 0 /\ activePreset = NoPreset
        /\ activeProfile = EmptyProfile /\ activeProfileValid = FALSE
        /\ activeRunToken = NoToken /\ currentCommand = PRC!NoCommand
        /\ lastTargetTempC = 0
    BY <1>1, <2>1 DEF PRC!Init, PRC!TC!Init
  <2>4. heaterOn \in BOOLEAN /\ activeProfileValid \in BOOLEAN
    BY <2>3, Zenon
  <2>5. secondsSinceSwitch \in 0..TIMER_MAX /\ lastTargetTempC \in Int
    BY <2>1, <2>3
  <2> QED BY <2>1, <2>2, <2>3, <2>4, <2>5 DEF OwnTypeOK
<1>4. ProfileCopiesAgree /\ TargetFollowsRunClock /\ OutputsFollowLifecycle
  BY <1>1 DEF PRC!SM!Init, PRC!TC!Init, PRC!Init, ProfileCopiesAgree, PRC!ProfileCopiesAgree,
              TargetFollowsRunClock, PRC!TargetFollowsRunClock, OutputsFollowLifecycle,
              PRC!NoCommand
<1> QED BY <1>2, <1>3, <1>4 DEF RunInv

------------------------------------------------------------------------------
(* The loop does nothing else to the run                                      *)

\* The candidate of an open replacement prompt, and the context it is started
\* in.
LEMMA CandidateIsProgram ==
  ASSUME LoopTypeOK, PromptHasCandidate, prompt = "ReplaceRun"
  PROVE  /\ Candidate.profile \in ProfileConfig
         /\ Candidate.display \in Presets \cup Displays
         /\ TokenOf(Candidate.display) \in Presets \cup UserTokens
         /\ pendingPresetSelection # NoPreset =>
              /\ Candidate.profile = PresetProfile[pendingPresetSelection]
              /\ TokenOf(Candidate.display) = pendingPresetSelection
<1>1. CASE pendingPresetSelection # NoPreset
  <2>1. pendingPresetSelection \in Presets \ Displays
    BY <1>1, RunControlLoopAssumption DEF LoopTypeOK
  <2> QED BY <1>1, <2>1, RunInputsAssumption DEF Candidate, TokenOf
<1>2. CASE pendingPresetSelection = NoPreset
  BY <1>2 DEF LoopTypeOK, PromptHasCandidate, Candidate, TokenOf, UserTokens,
              RunTokenForDisplayContext
<1> QED BY <1>1, <1>2

\* Starting a program while no run exists (updateInputTask).
LEMMA StartRunIsStart ==
  ASSUME NEW p \in ProfileConfig, NEW token \in Presets \cup UserTokens,
         NEW preset \in Presets \cup {NoPreset},
         preset # NoPreset => p = PresetProfile[preset] /\ token = preset,
         PRC!StartRun(p, token, preset)
  PROVE  StartsRun(p, token, preset)
BY OneEvaluator DEF PRC!StartRun, PRC!SM!Start, StartsRun

\* Each step of the loop is an operation of the controller or leaves the run
\* alone; a replacement starts its run in one step.
LEMMA LoopStepIsRunStep ==
  ASSUME LoopTypeOK, PromptHasCandidate, [Next]_vars
  PROVE  RunStep
<1>1. CASE SetupRelays \/ ExecuteWrite \/ NextScan \/ UNCHANGED vars
  BY <1>1 DEF SetupRelays, ExecuteWrite, NextScan, vars, RunStep
<1>2. CASE Control
  BY <1>2 DEF Control, ControlPeriod, RunStep, PeriodPasses
<1>3. ASSUME NEW preset \in Presets, StartSelectedPreset(preset) PROVE RunStep
  <2>1. PRC!StartRun(PresetProfile[preset], preset, preset)
    BY <1>3 DEF StartSelectedPreset, PRC!StartPreset
  <2>2. PresetProfile[preset] \in ProfileConfig
    BY RunInputsAssumption
  <2>3. StartsRun(PresetProfile[preset], preset, preset)
    BY <2>1, <2>2, StartRunIsStart
  <2> QED BY <2>2, <2>3 DEF RunStep, SomeRunStarts
<1>4. ASSUME NEW p \in Profiles, NEW display \in Displays, StartSelectedProfile(p, display)
      PROVE  RunStep
  <2>1. PRC!StartRun(p, RunTokenForDisplayContext(display), NoPreset)
    BY <1>4 DEF StartSelectedProfile, PRC!StartProfile
  <2>2. p \in ProfileConfig /\ RunTokenForDisplayContext(display) \in UserTokens
    BY RunControlLoopAssumption DEF RunTokenForDisplayContext, UserTokens
  <2>3. StartsRun(p, RunTokenForDisplayContext(display), NoPreset)
    BY <2>1, <2>2, StartRunIsStart
  <2> QED BY <2>2, <2>3 DEF RunStep, SomeRunStarts
<1>5. CASE ReplaceRun
  <2>1. StartsRun(Candidate.profile, TokenOf(Candidate.display), pendingPresetSelection)
    BY <1>5, CandidateIsProgram DEF ReplaceRun, StartsRun
  <2>2. pendingPresetSelection \in Presets \cup {NoPreset} /\ prompt = "ReplaceRun"
    BY <1>5 DEF ReplaceRun, LoopTypeOK
  <2> QED BY <2>1, <2>2, CandidateIsProgram DEF RunStep, SomeRunStarts
<1>6. CASE RejectedReplacement \/ ConfirmStop
  BY <1>6 DEF RejectedReplacement, ConfirmStop, RunStep, RunEnds
<1>7. CASE PauseProgram \/ ResumeProgram \/ AcknowledgeFinished
  BY <1>7 DEF PauseProgram, ResumeProgram, AcknowledgeFinished, RunStep, RunEnds
<1>8. CASE DeclineReplacement \/ PromptStop \/ DeclineStop
  BY <1>8 DEF DeclineReplacement, PromptStop, DeclineStop, RunStep
<1>9. CASE \/ \E preset \in Presets : PromptReplaceByPreset(preset)
           \/ \E p \in Profiles, display \in Displays : PromptReplaceByProfile(p, display)
           \/ \E reading \in Readings : RereadNtc(reading)
  BY <1>9 DEF PromptReplaceByPreset, PromptReplaceByProfile, RereadNtc, RunStep
<1> QED
  BY <1>1, <1>2, <1>3, <1>4, <1>5, <1>6, <1>7, <1>8, <1>9 DEF Next, Input

------------------------------------------------------------------------------
(* Every step of the run is a step of the promised drying run                 *)

\* What a run looks like from outside: its outputs, and the time that is left.
OutputsOfRun ==
  /\ currentCommand.fanOn = (state \in {"Running", "FinishCooldown"})
  /\ currentCommand.heaterOn = heaterOn
  /\ currentCommand.buzzerOn = (state = "FinishedAlarm")
  /\ state # "Running" => heaterOn = FALSE
  /\ state \in {"Idle", "Running", "Paused", "FinishCooldown", "FinishedAlarm"}

TimeOfRun ==
  /\ DurationSeconds(activeProfile) \in Nat /\ activeElapsedSeconds \in Nat
  /\ state # "Idle" => activeProfile = profile
  /\ state \in {"Running", "Paused"} =>
       activeElapsedSeconds < DurationSeconds(activeProfile)
  /\ cooldownElapsedSeconds \in 0..FINISH_COOLDOWN_SECONDS
  /\ FINISH_COOLDOWN_SECONDS \in Nat

\* The command is what the drying run promises of the outputs, and time is left.
LEMMA RunIsPromised == RunInv => OutputsOfRun /\ TimeOfRun
<1> SUFFICES ASSUME RunInv PROVE OutputsOfRun /\ TimeOfRun OBVIOUS
<1>1. /\ currentCommand.fanOn \in BOOLEAN /\ currentCommand.heaterOn \in BOOLEAN
      /\ currentCommand.buzzerOn \in BOOLEAN /\ heaterOn \in BOOLEAN
  BY DEF RunInv, OwnTypeOK, PRC!OutputCommand
<1>2. state \in {"Idle", "Running", "Paused", "FinishCooldown", "FinishedAlarm"}
  BY DEF RunInv, OutputsFollowLifecycle, SMP!IInv, SMP!TypeOK, SMP!RunState
<1>3. SMP!DurationSeconds(activeProfile) \in Nat
  BY LifecycleConstants, OneEvaluator, SMP!DurationIsPositive DEF RunInv, OwnTypeOK
<1>4. state # "Idle" => activeProfile = profile
  BY ContextOfRun
<1>5. OutputsOfRun
  BY <1>1, <1>2 DEF RunInv, OutputsFollowLifecycle, OutputsOfRun
<1>6. TimeOfRun
  BY <1>3, <1>4, OneEvaluator, LifecycleConstants
     DEF RunInv, SMP!IInv, SMP!TypeOK, SMP!NeverRunsPastDuration, TimeOfRun
<1> QED BY <1>5, <1>6

\* A run begins, in place of none or of another one.
LEMMA StartIsPromised ==
  ASSUME RunInv, RunInv', SomeRunStarts
  PROVE  PRC!DR!Begin \/ PRC!DR!Replace
<1>0. OutputsOfRun /\ TimeOfRun /\ OutputsOfRun' /\ TimeOfRun'
  BY RunIsPromised, PTL
<1>1. state' = "Running" /\ activeElapsedSeconds' = 0
  BY DEF SomeRunStarts, StartsRun, PRC!SM!BeginRun
<1>2. heaterOn' = FALSE
  BY DEF SomeRunStarts, StartsRun, PRC!TakeRunContext, PRC!UpdateCommand, PRC!TC!Reset,
         PRC!NoReading
<1>3. /\ currentCommand'.fanOn = TRUE /\ currentCommand'.buzzerOn = FALSE
      /\ currentCommand'.heaterOn = FALSE
  BY <1>0, <1>1, <1>2 DEF OutputsOfRun
<1>4. PRC!SM!DurationSeconds(activeProfile)' - activeElapsedSeconds' > 0
  BY <1>0, <1>1, OneEvaluator DEF TimeOfRun
<1>5. CASE state = "Idle"
  BY <1>1, <1>3, <1>4, <1>5 DEF PRC!DR!Begin, PRC!DR!Outputs
<1>6. CASE state # "Idle"
  BY <1>0, <1>1, <1>3, <1>4, <1>6 DEF PRC!DR!Replace, PRC!DR!Outputs, OutputsOfRun
<1> QED BY <1>5, <1>6

\* A pause, its end, and the end of a run.
LEMMA PauseIsPromised ==
  ASSUME RunInv, RunInv', PRC!Pause
  PROVE  PRC!DR!Hold
<1>0. OutputsOfRun /\ TimeOfRun /\ OutputsOfRun' /\ TimeOfRun'
  BY RunIsPromised, PTL
<1>1. /\ state = "Running" /\ state' = "Paused"
      /\ UNCHANGED <<activeProfile, activeElapsedSeconds>>
  BY DEF PRC!Pause, PRC!SM!Pause
<1>2. /\ currentCommand'.fanOn = FALSE /\ currentCommand'.buzzerOn = FALSE
      /\ currentCommand'.heaterOn = FALSE
  <2>1. /\ (state' \in {"Running", "FinishCooldown"}) = FALSE
        /\ (state' = "FinishedAlarm") = FALSE /\ state' # "Running"
    BY <1>1
  <2> QED BY <1>0, <2>1, Zenon DEF OutputsOfRun
<1>3. PRC!SM!DurationSeconds(activeProfile)' = PRC!SM!DurationSeconds(activeProfile)
  BY <1>1 DEF PRC!SM!DurationSeconds, PRC!SM!PhaseSeconds
<1> QED BY <1>1, <1>2, <1>3 DEF PRC!DR!Hold, PRC!DR!Outputs

\* A resumed run continues with the time it was paused with.
LEMMA ResumeIsPromised ==
  ASSUME RunInv, RunInv', PRC!Resume
  PROVE  PRC!DR!Continue
<1>0. OutputsOfRun /\ TimeOfRun /\ OutputsOfRun' /\ TimeOfRun'
  BY RunIsPromised, PTL
<1>1. /\ state = "Paused" /\ state' = "Running"
      /\ UNCHANGED <<activeProfile, activeElapsedSeconds>>
  BY DEF PRC!Resume, PRC!SM!Resume
<1>2. heaterOn' = FALSE
  BY DEF PRC!Resume, PRC!UpdateCommand, PRC!TC!Reset, PRC!NoReading
<1>3. /\ currentCommand'.fanOn = TRUE /\ currentCommand'.buzzerOn = FALSE
      /\ currentCommand'.heaterOn = FALSE
  BY <1>0, <1>1, <1>2 DEF OutputsOfRun
<1>4. PRC!SM!DurationSeconds(activeProfile)' = PRC!SM!DurationSeconds(activeProfile)
  BY <1>1 DEF PRC!SM!DurationSeconds, PRC!SM!PhaseSeconds
<1> QED BY <1>1, <1>3, <1>4 DEF PRC!DR!Continue, PRC!DR!Outputs

\* A stopped or acknowledged run is off at once.
LEMMA EndIsPromised ==
  ASSUME RunInv, RunInv', RunEnds
  PROVE  PRC!DR!End
<1>0. OutputsOfRun /\ TimeOfRun /\ OutputsOfRun' /\ TimeOfRun'
  BY RunIsPromised, PTL
<1>1. state # "Idle" /\ state' = "Idle"
  BY DEF RunEnds, PRC!StopConfirmed, PRC!AcknowledgeFinished, PRC!SM!StopConfirmed,
         PRC!SM!Stoppable, PRC!SM!AcknowledgeFinished, PRC!SM!ResetToIdle
<1>2. /\ currentCommand'.fanOn = FALSE /\ currentCommand'.buzzerOn = FALSE
      /\ currentCommand'.heaterOn = FALSE
  <2>1. /\ (state' \in {"Running", "FinishCooldown"}) = FALSE
        /\ (state' = "FinishedAlarm") = FALSE /\ state' # "Running"
    BY <1>1
  <2> QED BY <1>0, <2>1, Zenon DEF OutputsOfRun
<1> QED BY <1>0, <1>1, <1>2 DEF PRC!DR!End, PRC!DR!Outputs, OutputsOfRun

\* A control period dries on, finishes the run, airs it or changes nothing.
LEMMA PeriodIsPromised ==
  ASSUME RunInv, RunInv', PeriodPasses
  PROVE  PRC!DR!Dry \/ PRC!DR!Finish \/ PRC!DR!Air \/ UNCHANGED PRC!DR!vars
<1> DEFINE left == PRC!SM!DurationSeconds(activeProfile) - activeElapsedSeconds
<1>0. OutputsOfRun /\ TimeOfRun /\ OutputsOfRun' /\ TimeOfRun'
  BY RunIsPromised, PTL
<1>1. PRC!SM!Update(1) /\ UNCHANGED activeProfile
  BY DEF PeriodPasses, PRC!Update
<1>2. /\ PRC!SM!DurationSeconds(activeProfile)' = PRC!SM!DurationSeconds(activeProfile)
      /\ PRC!SM!DurationSeconds(activeProfile) = DurationSeconds(activeProfile)
  BY <1>1, OneEvaluator DEF PRC!SM!DurationSeconds, PRC!SM!PhaseSeconds
<1>3. CASE PRC!SM!AdvanceRun(1) /\ state' = "Running"
  <2>1. left' > 0 /\ left' <= left /\ state = "Running" /\ UNCHANGED cooldownElapsedSeconds
    BY <1>0, <1>2, <1>3 DEF PRC!SM!AdvanceRun, TimeOfRun
  <2>2. /\ currentCommand'.fanOn = TRUE /\ currentCommand'.buzzerOn = FALSE
        /\ currentCommand'.heaterOn \in BOOLEAN
    BY <1>0, <1>3 DEF OutputsOfRun, RunInv, OwnTypeOK
  <2> QED BY <1>3, <2>1, <2>2 DEF PRC!DR!Dry, PRC!DR!Outputs
<1>4. CASE PRC!SM!AdvanceRun(1) /\ state' # "Running"
  <2>1. state = "Running" /\ state' = "FinishCooldown" /\ cooldownElapsedSeconds' = 0
    BY <1>4 DEF PRC!SM!AdvanceRun
  <2>2. /\ currentCommand'.fanOn = TRUE /\ currentCommand'.buzzerOn = FALSE
        /\ currentCommand'.heaterOn = FALSE
    BY <1>0, <2>1 DEF OutputsOfRun
  <2> QED BY <1>0, <2>1, <2>2 DEF PRC!DR!Finish, PRC!DR!Outputs, TimeOfRun
<1>5. CASE PRC!SM!AdvanceCooldown(1)
  <2>1. /\ state = "FinishCooldown"
        /\ cooldownElapsedSeconds' \in 0..FINISH_COOLDOWN_SECONDS
        /\ cooldownElapsedSeconds' >= cooldownElapsedSeconds
        /\ state' = IF cooldownElapsedSeconds' = FINISH_COOLDOWN_SECONDS
                      THEN "FinishedAlarm" ELSE "FinishCooldown"
    BY <1>0, <1>5 DEF PRC!SM!AdvanceCooldown, TimeOfRun
  <2>2. CASE cooldownElapsedSeconds' = FINISH_COOLDOWN_SECONDS
    <3>1. state' = "FinishedAlarm"
      BY <2>1, <2>2
    <3>2. (state' \in {"Running", "FinishCooldown"}) = FALSE /\ (state' = "FinishedAlarm") = TRUE
            /\ state' # "Running"
      BY <3>1
    <3>3. /\ currentCommand'.fanOn = FALSE /\ currentCommand'.buzzerOn = TRUE
          /\ currentCommand'.heaterOn = FALSE
      BY <1>0, <3>2, Zenon DEF OutputsOfRun
    <3> QED BY <1>0, <2>1, <3>1, <3>3 DEF PRC!DR!Air, PRC!DR!Outputs, TimeOfRun
  <2>3. CASE cooldownElapsedSeconds' # FINISH_COOLDOWN_SECONDS
    <3>1. state' = "FinishCooldown"
      BY <2>1, <2>3
    <3>2. /\ currentCommand'.fanOn = TRUE /\ currentCommand'.buzzerOn = FALSE
          /\ currentCommand'.heaterOn = FALSE
      BY <1>0, <3>1 DEF OutputsOfRun
    <3>3. FINISH_COOLDOWN_SECONDS - cooldownElapsedSeconds' > 0
            /\ FINISH_COOLDOWN_SECONDS - cooldownElapsedSeconds' <=
                 FINISH_COOLDOWN_SECONDS - cooldownElapsedSeconds
      <4> DEFINE f == FINISH_COOLDOWN_SECONDS
                 a == cooldownElapsedSeconds
                 b == cooldownElapsedSeconds'
      <4>1. f \in Int /\ a \in Int /\ b \in Int /\ b >= a /\ b <= f /\ b # f
        BY <1>0, <2>1, <2>3 DEF TimeOfRun
      <4> HIDE DEF f, a, b
      <4>2. f - b > 0 /\ f - b <= f - a
        BY <4>1
      <4> QED BY <4>2 DEF f, a, b
    <3> QED BY <2>1, <3>1, <3>2, <3>3 DEF PRC!DR!Air, PRC!DR!Outputs
  <2> QED BY <2>2, <2>3
<1>6. CASE state \notin {"Running", "FinishCooldown"} /\ UNCHANGED PRC!SM!vars
  <2>1. /\ state' = state /\ state # "Running" /\ state # "FinishCooldown"
        /\ UNCHANGED <<activeElapsedSeconds, cooldownElapsedSeconds>>
    BY <1>6 DEF PRC!SM!vars
  <2>2. UNCHANGED <<currentCommand.fanOn, currentCommand.heaterOn, currentCommand.buzzerOn>>
    BY <1>0, <2>1 DEF OutputsOfRun
  <2> QED BY <1>2, <2>1, <2>2 DEF PRC!DR!vars
<1> QED BY <1>1, <1>3, <1>4, <1>5, <1>6 DEF PRC!SM!Update

\* Nobody else has any influence on it.
LEMMA RunStepIsPromised ==
  ASSUME RunInv, RunInv', RunStep
  PROVE  [PRC!DR!Next]_PRC!DR!vars
<1>1. CASE UNCHANGED runVars
  BY <1>1 DEF runVars, PRC!DR!vars, PRC!SM!DurationSeconds, PRC!SM!PhaseSeconds
<1> QED
  BY <1>1, StartIsPromised, PauseIsPromised, ResumeIsPromised, EndIsPromised,
     PeriodIsPromised DEF RunStep, PRC!DR!Next

------------------------------------------------------------------------------
(* The steps of the loop, as far as the relays and the label are concerned    *)

\* A scan that opens or closes a prompt, or no step at all.
QuietStep ==
  /\ UNCHANGED <<runVars, relayVars, activeProgramDisplay, sinceControl, heaterOffFor>>
  /\ scanned' \in {scanned, TRUE}

\* A scan whose operation drives the relays in the same handler.
TellingScan ==
  /\ Scan /\ ApplyOutputs
  /\ heaterOn' = FALSE /\ secondsSinceSwitch' = 0
  /\ state' # "Idle" =>
       TokenOf(activeProgramDisplay') = activeRunToken' /\ activeProgramDisplay' # Inactive

\* A replacement that only ends the old run.
SilentEnd ==
  Scan /\ PRC!StopConfirmed /\ UNCHANGED <<relayVars, activeProgramDisplay>>

LoopStep ==
  \/ QuietStep \/ TellingScan \/ SilentEnd
  \/ Control \/ NextScan \/ SetupRelays \/ ExecuteWrite

\* The operations of the user switch the heater command off (updateCommand
\* without a reading, clearRunContext).
LEMMA UserResetsHeater ==
  ASSUME SomeRunStarts \/ PRC!Pause \/ PRC!Resume \/ RunEnds
  PROVE  heaterOn' = FALSE /\ secondsSinceSwitch' = 0
<1>1. CASE SomeRunStarts \/ PRC!Pause \/ PRC!Resume
  <2>1. PRC!UpdateCommand(0, PRC!NoReading)
    BY <1>1 DEF SomeRunStarts, StartsRun, PRC!TakeRunContext, PRC!Pause, PRC!Resume
  <2> QED BY <2>1 DEF PRC!UpdateCommand, PRC!NoReading, PRC!TC!Reset
<1>2. CASE RunEnds
  BY <1>2 DEF RunEnds, PRC!StopConfirmed, PRC!AcknowledgeFinished, PRC!ClearRunContext,
              PRC!TC!Reset
<1> QED BY <1>1, <1>2

\* A preset, a user's program and no program are told apart.
LEMMA TokensOfPrograms ==
  /\ \A display \in Presets \cup Displays : display # Inactive
  /\ \A preset \in Presets : TokenOf(preset) = preset
  /\ \A display \in Displays : TokenOf(display) = RunTokenForDisplayContext(display)
BY RunControlLoopAssumption DEF TokenOf, Displays, Inactive

\* Every step of the loop is one of these kinds: a handler that changes the
\* run drives the relays in the same scan, but for a replacement whose start
\* is refused.
LEMMA LoopStepKinds ==
  ASSUME LoopTypeOK, PromptHasCandidate, LabelNamesTheRun, LabelIsKept, [Next]_vars
  PROVE  LoopStep
<1> USE DEF LoopStep
<1>1. CASE SetupRelays \/ ExecuteWrite \/ NextScan \/ Control
  BY <1>1
<1>2. CASE UNCHANGED vars
  BY <1>2 DEF vars, uiVars, timeVars, QuietStep
<1>3. ASSUME NEW preset \in Presets, StartSelectedPreset(preset) PROVE TellingScan
  <2>1. /\ Scan /\ ApplyOutputs /\ activeProgramDisplay' = preset
        /\ PRC!StartRun(PresetProfile[preset], preset, preset)
    BY <1>3 DEF StartSelectedPreset, PRC!StartPreset
  <2>2. PresetProfile[preset] \in ProfileConfig
    BY RunInputsAssumption
  <2>3. StartsRun(PresetProfile[preset], preset, preset)
    BY <2>1, <2>2, StartRunIsStart
  <2>4. heaterOn' = FALSE /\ secondsSinceSwitch' = 0
    BY <2>2, <2>3, UserResetsHeater DEF SomeRunStarts
  <2>5. activeRunToken' = preset
    BY <2>1 DEF PRC!StartRun, PRC!TakeRunContext
  <2> QED BY <2>1, <2>4, <2>5, TokensOfPrograms DEF TellingScan
<1>4. ASSUME NEW p \in Profiles, NEW display \in Displays, StartSelectedProfile(p, display)
      PROVE  TellingScan
  <2>1. /\ Scan /\ ApplyOutputs /\ activeProgramDisplay' = display
        /\ PRC!StartRun(p, RunTokenForDisplayContext(display), NoPreset)
    BY <1>4 DEF StartSelectedProfile, PRC!StartProfile
  <2>2. p \in ProfileConfig /\ RunTokenForDisplayContext(display) \in UserTokens
    BY RunControlLoopAssumption DEF RunTokenForDisplayContext, UserTokens
  <2>3. StartsRun(p, RunTokenForDisplayContext(display), NoPreset)
    BY <2>1, <2>2, StartRunIsStart
  <2>4. heaterOn' = FALSE /\ secondsSinceSwitch' = 0
    BY <2>2, <2>3, UserResetsHeater DEF SomeRunStarts
  <2>5. activeRunToken' = RunTokenForDisplayContext(display)
    BY <2>1 DEF PRC!StartRun, PRC!TakeRunContext
  <2> QED BY <2>1, <2>4, <2>5, TokensOfPrograms DEF TellingScan
<1>5. CASE ReplaceRun
  <2>1. /\ Scan /\ ApplyOutputs /\ activeProgramDisplay' = Candidate.display
        /\ activeRunToken' = TokenOf(Candidate.display)
        /\ StartsRun(Candidate.profile, TokenOf(Candidate.display), pendingPresetSelection)
    BY <1>5, CandidateIsProgram DEF ReplaceRun, StartsRun, PRC!TakeRunContext
  <2>2. /\ pendingPresetSelection \in Presets \cup {NoPreset}
        /\ Candidate.profile \in ProfileConfig /\ Candidate.display # Inactive
        /\ TokenOf(Candidate.display) \in Presets \cup UserTokens
    BY <1>5, CandidateIsProgram, TokensOfPrograms DEF ReplaceRun, LoopTypeOK
  <2>3. heaterOn' = FALSE /\ secondsSinceSwitch' = 0
    BY <2>1, <2>2, UserResetsHeater DEF SomeRunStarts
  <2> QED BY <2>1, <2>2, <2>3 DEF TellingScan
<1>6. CASE PauseProgram \/ ResumeProgram
  <2>1. /\ Scan /\ ApplyOutputs /\ (PRC!Pause \/ PRC!Resume)
        /\ UNCHANGED activeProgramDisplay
    BY <1>6 DEF PauseProgram, ResumeProgram, uiVars
  <2>2. state # "Idle" /\ UNCHANGED activeRunToken
    BY <2>1 DEF PRC!Pause, PRC!Resume, PRC!SM!Pause, PRC!SM!Resume
  <2> QED
    BY <2>1, <2>2, UserResetsHeater
       DEF TellingScan, LabelNamesTheRun, LabelIsKept, TokenOf
<1>7. CASE AcknowledgeFinished \/ (ConfirmStop /\ PRC!SM!Stoppable)
  <2>1. Scan /\ ApplyOutputs /\ RunEnds
    BY <1>7 DEF AcknowledgeFinished, ConfirmStop, RunEnds
  <2>2. state' = "Idle"
    BY <2>1 DEF RunEnds, PRC!StopConfirmed, PRC!AcknowledgeFinished,
                PRC!SM!StopConfirmed, PRC!SM!AcknowledgeFinished, PRC!SM!ResetToIdle
  <2> QED BY <2>1, <2>2, UserResetsHeater DEF TellingScan
<1>8. CASE ConfirmStop /\ ~PRC!SM!Stoppable
  BY <1>8 DEF ConfirmStop, Scan, QuietStep
<1>9. CASE RejectedReplacement
  BY <1>9 DEF RejectedReplacement, Scan, SilentEnd, QuietStep
<1>10. CASE DeclineReplacement \/ PromptStop \/ DeclineStop
  BY <1>10 DEF DeclineReplacement, PromptStop, DeclineStop, Scan, QuietStep
<1>11. CASE \/ \E preset \in Presets : PromptReplaceByPreset(preset)
            \/ \E p \in Profiles, display \in Displays : PromptReplaceByProfile(p, display)
            \/ \E reading \in Readings : RereadNtc(reading)
  BY <1>11 DEF PromptReplaceByPreset, PromptReplaceByProfile, RereadNtc, Scan, QuietStep,
               uiVars
<1> QED
  BY <1>1, <1>2, <1>3, <1>4, <1>5, <1>6, <1>7, <1>8, <1>9, <1>10, <1>11 DEF Next, Input

------------------------------------------------------------------------------
(* The loop keeps its own variables in order                                  *)

\* The scans an off time is compared with, and their products.
LEMMA ScansAreNumbers ==
  /\ SCANS \in Nat /\ SCANS > 0
  /\ MIN_HEATER_OFF_SECONDS \in Nat /\ MIN_HEATER_OFF_SECONDS > 0
  /\ OFF_FOR_MAX \in Nat
  /\ (MIN_HEATER_OFF_SECONDS - 1) * SCANS = OFF_FOR_MAX - SCANS
  /\ (0 - 1) * SCANS = 0 - SCANS
  /\ \A n \in Nat : n * SCANS \in Nat /\ (n - 1) * SCANS = n * SCANS - SCANS
  /\ \A m, n \in Nat : m <= n => m * SCANS <= n * SCANS
<1> DEFINE k == SCANS
           m0 == MIN_HEATER_OFF_SECONDS
<1>1. k \in Nat /\ k > 0 /\ m0 \in Nat /\ m0 > 0 /\ OFF_FOR_MAX = m0 * k
  BY RunControlLoopAssumption DEF OFF_FOR_MAX
<1> HIDE DEF k, m0
<1>2. \A n \in Nat : n * k \in Nat /\ (n - 1) * k = n * k - k
  BY <1>1
<1>3. \A m, n \in Nat : m <= n => m * k <= n * k
  BY <1>1
<1> QED BY <1>1, <1>2, <1>3 DEF k, m0

\* The globals keep their types, and a replacement prompt its candidate.
LEMMA LoopStepKeepsTypes ==
  ASSUME LoopTypeOK, PromptHasCandidate, [Next]_vars
  PROVE  LoopTypeOK' /\ PromptHasCandidate'
<1> USE DEF LoopTypeOK, PromptHasCandidate
<1>1. CASE UNCHANGED vars
  BY <1>1 DEF vars, uiVars, pendingVars, timeVars
<1>2. CASE SetupRelays
  BY <1>2 DEF SetupRelays, uiVars, pendingVars, timeVars
<1>3. CASE ExecuteWrite
  BY <1>3, ScansAreNumbers DEF ExecuteWrite, uiVars, pendingVars
<1>4. CASE NextScan
  <2>1. SCANS \in Nat /\ OFF_FOR_MAX \in Nat
    BY ScansAreNumbers
  <2>2. sinceControl' \in 0..SCANS /\ heaterOffFor' \in 0..OFF_FOR_MAX /\ scanned' = FALSE
    BY <1>4, <2>1 DEF NextScan
  <2> QED BY <1>4, <2>2 DEF NextScan, uiVars, pendingVars
<1>5. CASE Control
  <2>1. 0 \in 0..SCANS
    BY ScansAreNumbers
  <2>2. latestNtc' \in Reading
    BY <1>5, RunInputsAssumption DEF Control, ControlPeriod
  <2> QED BY <1>5, <2>1, <2>2 DEF Control, ControlPeriod, uiVars, pendingVars
<1>6. ASSUME Input PROVE LoopTypeOK' /\ PromptHasCandidate'
  <2>1. Scan /\ UNCHANGED <<sinceControl, heaterOffFor>> /\ scanned' = TRUE
    BY <1>6 DEF Input, Scan, StartSelectedPreset, PromptReplaceByPreset,
                StartSelectedProfile, PromptReplaceByProfile, ReplaceRun,
                RejectedReplacement, DeclineReplacement, PromptStop, ConfirmStop,
                DeclineStop, PauseProgram, ResumeProgram, AcknowledgeFinished, RereadNtc
  <2>2. latestNtc' \in Reading
    BY <1>6, RunInputsAssumption
       DEF Input, StartSelectedPreset, PromptReplaceByPreset,
                StartSelectedProfile, PromptReplaceByProfile, ReplaceRun,
                RejectedReplacement, DeclineReplacement, PromptStop, ConfirmStop,
                DeclineStop, PauseProgram, ResumeProgram, AcknowledgeFinished, RereadNtc
  <2>3. activeProgramDisplay' \in Presets \cup Displays \cup {Inactive}
    <3>1. CASE ReplaceRun
      BY <3>1, CandidateIsProgram DEF ReplaceRun
    <3>2. CASE ~ReplaceRun
      BY <1>6, <3>2
         DEF Input, StartSelectedPreset, PromptReplaceByPreset, ClearActiveProgramDisplay,
             StartSelectedProfile, PromptReplaceByProfile, RejectedReplacement,
             DeclineReplacement, PromptStop, ConfirmStop, DeclineStop, PauseProgram,
             ResumeProgram, AcknowledgeFinished, RereadNtc, uiVars
    <3> QED BY <3>1, <3>2
  <2>4. /\ prompt' \in Prompt /\ pendingPresetSelection' \in Presets \cup {NoPreset}
        /\ pendingManualProgramStart' \in BOOLEAN
        /\ pendingManualProgramProfile' \in ProfileConfig
        /\ pendingRunDisplay' \in Displays \cup {Inactive}
        /\ PromptHasCandidate'
    <3>1. EmptyProfile \in ProfileConfig
      BY DEF EmptyProfile, ProfileConfig, ProfileMode
    <3>2. ASSUME NEW preset \in Presets, PromptReplaceByPreset(preset)
          PROVE  /\ prompt' = "ReplaceRun" /\ pendingPresetSelection' = preset
                 /\ preset # NoPreset /\ pendingManualProgramStart' = FALSE
                 /\ pendingManualProgramProfile' = EmptyProfile
                 /\ UNCHANGED pendingRunDisplay
      BY <3>2, RunInputsAssumption DEF PromptReplaceByPreset
    <3>3. ASSUME NEW p \in Profiles, NEW display \in Displays, PromptReplaceByProfile(p, display)
          PROVE  /\ prompt' = "ReplaceRun" /\ pendingPresetSelection' = NoPreset
                 /\ pendingManualProgramStart' = TRUE
                 /\ pendingManualProgramProfile' = p /\ p \in ProfileConfig
                 /\ pendingRunDisplay' = display
      BY <3>3, RunControlLoopAssumption DEF PromptReplaceByProfile
    <3>4. CASE ReplaceRun \/ RejectedReplacement \/ DeclineReplacement
      BY <3>1, <3>4 DEF ReplaceRun, RejectedReplacement, DeclineReplacement, ClearPending,
                        Prompt
    <3>5. CASE PromptStop \/ ConfirmStop \/ DeclineStop
      BY <3>5 DEF PromptStop, ConfirmStop, DeclineStop, pendingVars, Prompt
    <3>6. CASE PauseProgram \/ ResumeProgram \/ AcknowledgeFinished
                 \/ \E reading \in Readings : RereadNtc(reading)
      BY <3>6 DEF PauseProgram, ResumeProgram, AcknowledgeFinished, RereadNtc, uiVars,
                  pendingVars
    <3>7. CASE \/ \E preset \in Presets : StartSelectedPreset(preset)
               \/ \E p \in Profiles, display \in Displays : StartSelectedProfile(p, display)
      BY <3>7 DEF StartSelectedPreset, StartSelectedProfile, pendingVars
    <3>8. CASE \E preset \in Presets : PromptReplaceByPreset(preset)
      BY <3>1, <3>2, <3>8 DEF Prompt
    <3>9. CASE \E p \in Profiles, display \in Displays : PromptReplaceByProfile(p, display)
      BY <3>3, <3>9 DEF Prompt
    <3> QED BY <1>6, <3>4, <3>5, <3>6, <3>7, <3>8, <3>9 DEF Input
  <2> QED BY <2>1, <2>2, <2>3, <2>4
<1> QED BY <1>1, <1>2, <1>3, <1>4, <1>5, <1>6 DEF Next

------------------------------------------------------------------------------
(* The relays of the loop                                                     *)

\* What the facts about the relays ask of the wiring; both relays have a pin.
LEMMA Wiring ==
  /\ {HARDWARE} \subseteq ROP!HardwareConfig
  /\ \A relay \in ROP!Relay : ROP!IsAssigned(relay)
  /\ ROP!Relay = {"heater", "fan"}
BY RunControlLoopAssumption
   DEF RO!HardwareConfig, ROP!HardwareConfig, RO!ActiveLevel, ROP!ActiveLevel, RO!Relay,
       ROP!Relay, ROP!IsAssigned

\* The relays of the loop are those of RelayOutputs.
LEMMA OneRelays ==
  /\ RO!Begin => ROP!Begin
  /\ RO!Execute => ROP!Execute
  /\ \A c : RO!Apply(c) => ROP!Apply(c)
  /\ \A relay : RO!Energised(relay) = ROP!Energised(relay)
  /\ RO!Idle = ROP!Idle
  /\ RO!OutputCommand = ROP!OutputCommand
  /\ RO!Init => ROP!Init
BY DEF RO!Begin, ROP!Begin, RO!Execute, ROP!Execute, RO!Apply, ROP!Apply,
       RO!Energised, ROP!Energised, RO!Idle, ROP!Idle, RO!OutputCommand,
       ROP!OutputCommand, RO!Init, ROP!Init, RO!ConfigureBoth, ROP!ConfigureBoth,
       RO!Configure, ROP!Configure, RO!IsAssigned, ROP!IsAssigned, RO!LatchWrite,
       ROP!LatchWrite, RO!ModeWrite, ROP!ModeWrite, RO!PinHigh, ROP!PinHigh,
       RO!Sanitize, ROP!Sanitize, RO!ApplyWrites, ROP!ApplyWrites, RO!Set, ROP!Set,
       RO!Relay, ROP!Relay, RO!AllOff, ROP!AllOff

CommandOfRun == [heaterOn |-> currentCommand.heaterOn, fanOn |-> currentCommand.fanOn]

\* A handler that drives the relays hands them the command of the controller,
\* which sanitizing leaves as it is.
LEMMA ApplyTellsRelays ==
  ASSUME RunInv', ApplyOutputs
  PROVE  /\ phase # "reset" /\ RO!Idle /\ phase' = "commanded"
         /\ command' = CommandOfRun'
         /\ UNCHANGED <<isOutput, latch>>
         /\ ROP!Next
<1>1. RO!Apply(CommandOfRun')
  BY DEF ApplyOutputs, CommandOfRun
<1>2. /\ currentCommand'.heaterOn \in BOOLEAN /\ currentCommand'.fanOn \in BOOLEAN
      /\ (currentCommand'.heaterOn => currentCommand'.fanOn)
  <2>1. OutputsOfRun'
    BY RunIsPromised, PTL
  <2>2. currentCommand' \in PRC!OutputCommand
    BY DEF RunInv, OwnTypeOK
  <2>3. currentCommand'.heaterOn \in BOOLEAN /\ currentCommand'.fanOn \in BOOLEAN
    BY <2>2 DEF PRC!OutputCommand
  <2> QED BY <2>1, <2>3 DEF OutputsOfRun
<1>3. CommandOfRun' \in ROP!OutputCommand
  BY <1>2 DEF CommandOfRun, ROP!OutputCommand
<1>4. RO!Sanitize(CommandOfRun') = CommandOfRun'
  BY <1>2 DEF RO!Sanitize, CommandOfRun
<1>5. ROP!Next
  BY <1>1, <1>3, OneRelays DEF ROP!Next
<1> QED BY <1>1, <1>4, <1>5 DEF RO!Apply

\* Each step of the loop is a step of the relays.
LEMMA LoopStepKeepsRelays ==
  ASSUME RunInv', ROP!IInv, LoopStep
  PROVE  ROP!IInv'
<1>1. [ROP!Next]_ROP!vars
  <2>1. CASE TellingScan \/ Control
    BY <2>1, ApplyTellsRelays DEF TellingScan, Control, ControlPeriod
  <2>2. CASE QuietStep \/ SilentEnd \/ NextScan
    BY <2>2 DEF QuietStep, SilentEnd, NextScan, relayVars, ROP!vars
  <2>3. CASE SetupRelays \/ ExecuteWrite
    BY <2>3, OneRelays DEF SetupRelays, ExecuteWrite, ROP!Next
  <2> QED BY <2>1, <2>2, <2>3 DEF LoopStep
<1> QED BY <1>1, Wiring, ROP!NextKeepsIInv

\* Outside an operation the relays are as the last command asks.
LEMMA SettledRelays ==
  ASSUME ROP!IInv, Settled
  PROVE  /\ RO!Energised("fan") <=> command.fanOn
         /\ RO!Energised("heater") <=> command.heaterOn
         /\ command.heaterOn \in BOOLEAN
<1>1. ROP!SettledRelaysShowCommand
  BY Wiring, ROP!IInvMeansShown
<1>2. ROP!IsAssigned("fan") /\ ROP!IsAssigned("heater")
  BY Wiring
<1>3. phase # "reset" /\ ROP!Idle
  BY OneRelays DEF Settled
<1>4. /\ ROP!Energised("fan") <=> command.fanOn
      /\ ROP!Energised("heater") <=> command.heaterOn
  BY <1>1, <1>2, <1>3 DEF ROP!SettledRelaysShowCommand
<1>5. command.heaterOn \in BOOLEAN
  BY DEF ROP!IInv, ROP!TypeOK, ROP!OutputCommand
<1> QED BY <1>4, <1>5, OneRelays

------------------------------------------------------------------------------
(* The label and the command given to the relays                              *)

\* A scan comes after the first control period, which has told the relays.
LEMMA ScansComeLater ==
  ASSUME ROP!IInv, LoopTypeOK, NothingBeforeFirstPeriod,
         phase # "reset", sinceControl < SCANS
  PROVE  phase = "commanded"
<1>1. SCANS \in Nat /\ sinceControl \in Nat
  BY ScansAreNumbers DEF LoopTypeOK
<1> QED BY <1>1 DEF NothingBeforeFirstPeriod

\* A step that gives the run another program gives the status screen its name,
\* and the relays its command.
LEMMA LoopStepKeepsLabelAndCommand ==
  ASSUME IInv, RunInv', LoopTypeOK', LoopStep
  PROVE  /\ NothingBeforeFirstPeriod' /\ LabelNamesTheRun' /\ LabelIsKept'
         /\ RelaysAreTold'
<1> USE DEF IInv, LoopInv
<1>1. CASE QuietStep
  <2>1. UNCHANGED <<state, activeRunToken, currentCommand, phase, command,
                    activeProgramDisplay, sinceControl>>
    BY <1>1 DEF QuietStep, runVars, relayVars
  <2>2. CommandOfRun' = CommandOfRun /\ TokenOf(activeProgramDisplay)' = TokenOf(activeProgramDisplay)
    BY <2>1 DEF CommandOfRun, TokenOf
  <2>3. scanned \/ sinceControl > 0 => (scanned \/ sinceControl > 0)'
    BY <1>1, <2>1 DEF QuietStep
  <2> QED
    BY <2>1, <2>2, <2>3
       DEF NothingBeforeFirstPeriod, LabelNamesTheRun, LabelIsKept, RelaysAreTold, RelaysLag,
           CommandOfRun
<1>2. CASE TellingScan
  <2>1. phase' = "commanded" /\ command' = CommandOfRun'
    BY <1>2, ApplyTellsRelays DEF TellingScan
  <2> QED
    BY <1>2, <2>1
       DEF TellingScan, NothingBeforeFirstPeriod, LabelNamesTheRun, LabelIsKept,
           RelaysAreTold, CommandOfRun, TokenOf
<1>3. CASE Control
  <2>1. /\ phase' = "commanded" /\ command' = CommandOfRun'
        /\ UNCHANGED <<activeRunToken, activeProgramDisplay>>
    BY <1>3, ApplyTellsRelays DEF Control, ControlPeriod, uiVars, PRC!Update
  <2>2. state' = "Idle" <=> state = "Idle"
    BY <1>3
       DEF Control, ControlPeriod, PRC!Update, PRC!SM!Update, PRC!SM!AdvanceRun,
           PRC!SM!AdvanceCooldown, PRC!SM!vars
  <2> QED
    BY <2>1, <2>2
       DEF NothingBeforeFirstPeriod, LabelNamesTheRun, LabelIsKept, RelaysAreTold,
           CommandOfRun, TokenOf
<1>4. CASE SilentEnd
  <2>1. /\ phase # "reset" /\ sinceControl < SCANS /\ scanned' = TRUE
        /\ UNCHANGED <<phase, command, activeProgramDisplay>>
        /\ state # "Idle" /\ state' = "Idle"
    BY <1>4 DEF SilentEnd, Scan, relayVars, PRC!StopConfirmed, PRC!SM!StopConfirmed,
                PRC!SM!Stoppable, PRC!SM!ResetToIdle
  <2>2. phase = "commanded"
    BY <2>1, ScansComeLater
  <2> QED
    BY <2>1, <2>2
       DEF NothingBeforeFirstPeriod, LabelNamesTheRun, LabelIsKept, RelaysAreTold, RelaysLag
<1>5. CASE NextScan
  <2>1. /\ phase # "reset" /\ sinceControl < SCANS /\ sinceControl' = sinceControl + 1
        /\ UNCHANGED <<state, activeRunToken, currentCommand, phase, command,
                       activeProgramDisplay>>
    BY <1>5 DEF NextScan, runVars, relayVars, uiVars
  <2>2. phase = "commanded" /\ sinceControl' > 0
    BY <2>1, ScansComeLater DEF LoopTypeOK
  <2> QED
    BY <2>1, <2>2
       DEF NothingBeforeFirstPeriod, LabelNamesTheRun, LabelIsKept, RelaysAreTold, RelaysLag,
           TokenOf
<1>6. CASE SetupRelays \/ ExecuteWrite
  <2>1. UNCHANGED <<state, activeRunToken, currentCommand, command, activeProgramDisplay,
                    sinceControl, scanned>>
    BY <1>6 DEF SetupRelays, ExecuteWrite, RO!Begin, RO!Execute, runVars, uiVars, timeVars
  <2>2. (phase' = "commanded" => phase = "commanded") /\ (phase = "commanded" => phase' = "commanded")
    BY <1>6 DEF SetupRelays, ExecuteWrite, RO!Begin, RO!Execute
  <2> QED
    BY <2>1, <2>2
       DEF NothingBeforeFirstPeriod, LabelNamesTheRun, LabelIsKept, RelaysAreTold, RelaysLag,
           TokenOf
<1> QED BY <1>1, <1>2, <1>3, <1>4, <1>5, <1>6 DEF LoopStep

------------------------------------------------------------------------------
(* The time the heater relay has rested                                       *)

\* A scan that switches the heater command off starts the timer again, which
\* is then not ahead of anything.
LEMMA FreshTimerIsHonest ==
  ASSUME NEW off \in Nat, NEW c \in Nat, c < SCANS
  PROVE  off > (0 - 1) * SCANS + c
<1> DEFINE k == SCANS
           m == (0 - 1) * SCANS
<1>1. k \in Nat /\ m \in Int /\ m = 0 - k
  BY ScansAreNumbers
<1> HIDE DEF k, m
<1>2. off > m + c
  <2>1. c < k
    BY DEF k
  <2> QED BY <1>1, <2>1
<1> QED BY <1>2 DEF m

\* A whole period of SCANS scans makes up for the second the timer gains.
LEMMA PeriodOfRest ==
  ASSUME NEW off \in Nat, NEW s \in Nat, NEW t \in Nat, t <= s + 1,
         off > (s - 1) * SCANS + SCANS
  PROVE  off > (t - 1) * SCANS + 0
<1> DEFINE k == SCANS
           ms == s * SCANS
           mt == t * SCANS
           m1 == (s + 1) * SCANS
           s1 == (s - 1) * SCANS
           t1 == (t - 1) * SCANS
<1>1. k \in Nat /\ s1 = ms - k /\ t1 = mt - k /\ ms \in Nat /\ mt \in Nat /\ m1 \in Nat
  BY ScansAreNumbers
<1>2. mt <= m1
  BY ScansAreNumbers
<1>3. m1 = ms + k
  <2>1. s + 1 \in Nat /\ (s + 1) - 1 = s
    OBVIOUS
  <2>2. ((s + 1) - 1) * SCANS = m1 - k
    BY <2>1, ScansAreNumbers
  <2> QED BY <1>1, <2>1, <2>2
<1> HIDE DEF k, ms, mt, m1, s1, t1
<1>4. off > s1 + k => off > t1 + 0
  BY <1>1, <1>2, <1>3
<1> QED BY <1>4 DEF s1, t1, k

\* A timer that has reached the minimum off time tells that the relay has
\* rested for all but the last period of it.
LEMMA LongEnough ==
  /\ OFF_FOR_MAX > (MIN_HEATER_OFF_SECONDS - 1) * SCANS
  /\ \A off \in Nat, s \in Nat :
       s + 1 >= MIN_HEATER_OFF_SECONDS /\ off > (s - 1) * SCANS + SCANS =>
         off > (MIN_HEATER_OFF_SECONDS - 1) * SCANS
<1>1. OFF_FOR_MAX > (MIN_HEATER_OFF_SECONDS - 1) * SCANS
  BY ScansAreNumbers
<1>2. ASSUME NEW off \in Nat, NEW s \in Nat, s + 1 >= MIN_HEATER_OFF_SECONDS,
             off > (s - 1) * SCANS + SCANS
      PROVE  off > (MIN_HEATER_OFF_SECONDS - 1) * SCANS
  <2>1. MIN_HEATER_OFF_SECONDS \in Nat /\ MIN_HEATER_OFF_SECONDS <= s + 1
    BY <1>2, ScansAreNumbers
  <2>2. off > (MIN_HEATER_OFF_SECONDS - 1) * SCANS + 0
    BY <1>2, <2>1, PeriodOfRest
  <2>3. (MIN_HEATER_OFF_SECONDS - 1) * SCANS \in Int
    BY ScansAreNumbers
  <2> QED BY <2>2, <2>3
<1> QED BY <1>1, <1>2

\* What a control period does to the heater command and its timer.
LEMMA ControlMovesTimer ==
  ASSUME RunInv, RunInv', Control
  PROVE  /\ state' = "Running" => state = "Running"
         /\ ~heaterOn' => \/ secondsSinceSwitch' = 0
                          \/ ~heaterOn /\ secondsSinceSwitch' <= secondsSinceSwitch + 1
         /\ heaterOn' /\ ~heaterOn => /\ state = "Running"
                                      /\ secondsSinceSwitch + 1 >= MIN_HEATER_OFF_SECONDS
<1>1. PICK reading \in Readings : PRC!Update(1, reading)
  BY DEF Control, ControlPeriod
<1>2. state' = "Running" => state = "Running"
  BY <1>1 DEF PRC!Update, PRC!SM!Update, PRC!SM!AdvanceRun, PRC!SM!AdvanceCooldown,
              PRC!SM!vars
<1>3. heaterOn' => state' = "Running"
  BY DEF RunInv, OutputsFollowLifecycle
<1>4. /\ heaterOn \in BOOLEAN /\ heaterOn' \in BOOLEAN /\ secondsSinceSwitch \in Nat
      /\ TIMER_MAX \in Nat /\ secondsSinceSwitch <= TIMER_MAX
      /\ MIN_HEATER_OFF_SECONDS \in Nat
  BY RunControlLoopAssumption DEF RunInv, OwnTypeOK
<1>5. CASE PRC!TC!Reset(FALSE)
  BY <1>2, <1>5 DEF PRC!TC!Reset
<1>6. ASSUME NEW t, PRC!TC!Update(PRC!ControlInput(t, reading.tempDeciC, 1))
      PROVE  /\ ~heaterOn' => \/ secondsSinceSwitch' = 0
                              \/ ~heaterOn /\ secondsSinceSwitch' <= secondsSinceSwitch + 1
             /\ heaterOn' /\ ~heaterOn => secondsSinceSwitch + 1 >= MIN_HEATER_OFF_SECONDS
  <2> DEFINE input == PRC!ControlInput(t, reading.tempDeciC, 1)
             since == PRC!TC!AdvancedTimer(1)
  <2>1. /\ heaterOn' = PRC!TC!NextHeater(input, since)
        /\ secondsSinceSwitch' = IF heaterOn' = heaterOn THEN since ELSE 0
    BY <1>6 DEF PRC!TC!Update, PRC!TC!SwitchHeater, PRC!ControlInput
  <2>2. since \in Nat /\ since <= secondsSinceSwitch + 1
    BY <1>4 DEF PRC!TC!AdvancedTimer
  <2>3. ASSUME heaterOn', ~heaterOn PROVE since >= MIN_HEATER_OFF_SECONDS
    BY <2>1, <2>3 DEF PRC!TC!NextHeater
  <2> HIDE DEF input, since
  <2>4. ASSUME ~heaterOn', heaterOn PROVE secondsSinceSwitch' = 0
    BY <2>1, <2>4
  <2>5. ASSUME ~heaterOn', ~heaterOn PROVE secondsSinceSwitch' <= secondsSinceSwitch + 1
    BY <1>4, <2>1, <2>2, <2>5
  <2>6. ASSUME heaterOn', ~heaterOn
        PROVE  secondsSinceSwitch + 1 >= MIN_HEATER_OFF_SECONDS
    BY <1>4, <2>2, <2>3, <2>6
  <2> QED BY <2>4, <2>5, <2>6
<1>7. \/ PRC!TC!Reset(FALSE)
      \/ \E t : PRC!TC!Update(PRC!ControlInput(t, reading.tempDeciC, 1))
  BY <1>1 DEF PRC!Update, PRC!UpdateCommand
<1> QED BY <1>2, <1>3, <1>5, <1>6, <1>7

\* While the registers are left alone, so are the relays.
LEMMA RegistersMoveRelays ==
  ASSUME UNCHANGED <<isOutput, latch>>
  PROVE  RO!Energised("heater")' = RO!Energised("heater")
BY DEF RO!Energised, RO!IsAssigned

\* The next write of an operation moves the heater relay towards the command.
LEMMA WriteMovesHeater ==
  ASSUME ROP!IInv, ExecuteWrite, phase = "commanded"
  PROVE  /\ ~command.heaterOn => ~RO!Energised("heater")'
         /\ command.heaterOn /\ RO!Energised("heater") => RO!Energised("heater")'
<1>1. ROP!Execute
  BY OneRelays DEF ExecuteWrite
<1>2. /\ ~ROP!Target("heater") => ~ROP!Energised("heater")'
      /\ ROP!Target("heater") /\ ROP!Energised("heater") => ROP!Energised("heater")'
  BY <1>1, Wiring, ROP!ExecuteMovesHeater
<1>3. ROP!Target("heater") <=> command.heaterOn
  BY Wiring DEF ROP!Target
<1>4. RO!Energised("heater") = ROP!Energised("heater")
  BY OneRelays
<1>5. RO!Energised("heater")' = ROP!Energised("heater")'
  BY DEF RO!Energised, ROP!Energised, RO!IsAssigned, ROP!IsAssigned
<1> QED BY <1>2, <1>3, <1>4, <1>5

\* In the middle of a run the command of the controller has been given to the
\* relays.
LEMMA RunIsTold ==
  ASSUME IInv, state # "Idle"
  PROVE  phase = "commanded" /\ (command.heaterOn <=> heaterOn)
BY DEF IInv, LoopInv, NothingBeforeFirstPeriod, RelaysAreTold, RelaysLag, RunInv,
       OutputsFollowLifecycle

\* The timer does not run ahead of the relay by more than a period.
LEMMA LoopStepKeepsTimerHonest ==
  ASSUME IInv, RunInv', LoopTypeOK', LoopStep
  PROVE  TimerIsHonest'
<1> DEFINE ahead == (secondsSinceSwitch - 1) * SCANS + sinceControl
<1>0. /\ heaterOffFor \in Nat /\ heaterOffFor' \in Nat /\ heaterOffFor <= OFF_FOR_MAX
      /\ OFF_FOR_MAX \in Nat /\ SCANS \in Nat /\ SCANS > 0
      /\ sinceControl \in Nat /\ secondsSinceSwitch \in Nat /\ secondsSinceSwitch' \in Nat
  BY ScansAreNumbers, RunControlLoopAssumption
     DEF IInv, LoopInv, LoopTypeOK, RunInv, OwnTypeOK
<1>1. TimerIsHonest /\ ROP!IInv
  BY DEF IInv, LoopInv
<1> SUFFICES ASSUME state' = "Running", ~heaterOn'
             PROVE  heaterOffFor' = OFF_FOR_MAX \/ heaterOffFor' > ahead'
  BY DEF TimerIsHonest, OFF_FOR_MAX
<1>2. CASE QuietStep
  <2>1. UNCHANGED <<state, heaterOn, secondsSinceSwitch, sinceControl, heaterOffFor>>
    BY <1>2 DEF QuietStep, runVars
  <2> QED BY <1>1, <2>1 DEF TimerIsHonest
<1>3. CASE TellingScan
  <2>1. /\ secondsSinceSwitch' = 0 /\ UNCHANGED <<sinceControl, heaterOffFor>>
        /\ sinceControl < SCANS
    BY <1>3 DEF TellingScan, Scan
  <2> QED BY <1>0, <2>1, FreshTimerIsHonest
<1>4. CASE SilentEnd
  BY <1>4 DEF SilentEnd, PRC!StopConfirmed, PRC!SM!StopConfirmed, PRC!SM!ResetToIdle
<1>5. CASE Control
  <2>1. sinceControl = SCANS /\ sinceControl' = 0 /\ UNCHANGED heaterOffFor
    BY <1>5 DEF Control, ControlPeriod
  <2>2. /\ state = "Running"
        /\ \/ secondsSinceSwitch' = 0
           \/ ~heaterOn /\ secondsSinceSwitch' <= secondsSinceSwitch + 1
    BY <1>5, ControlMovesTimer DEF IInv
  <2>3. CASE secondsSinceSwitch' = 0
    BY <1>0, <2>1, <2>3, FreshTimerIsHonest
  <2>4. CASE ~heaterOn /\ secondsSinceSwitch' <= secondsSinceSwitch + 1
    <3>1. heaterOffFor = OFF_FOR_MAX \/ heaterOffFor > (secondsSinceSwitch - 1) * SCANS + SCANS
      BY <1>1, <2>1, <2>2, <2>4 DEF TimerIsHonest
    <3> QED BY <1>0, <2>1, <2>4, <3>1, PeriodOfRest
  <2> QED BY <2>2, <2>3, <2>4
<1>6. CASE NextScan
  <2>1. /\ UNCHANGED <<state, heaterOn, secondsSinceSwitch>> /\ Settled
        /\ sinceControl' = sinceControl + 1
        /\ heaterOffFor' = IF RO!Energised("heater") THEN 0
                           ELSE IF heaterOffFor < OFF_FOR_MAX
                                  THEN heaterOffFor + 1 ELSE heaterOffFor
    BY <1>6 DEF NextScan, runVars, Settled
  <2>2. ~RO!Energised("heater")
    BY <1>1, <2>1, RunIsTold, SettledRelays
  <2>3. CASE heaterOffFor = OFF_FOR_MAX
    BY <1>0, <2>1, <2>2, <2>3
  <2>4. CASE heaterOffFor # OFF_FOR_MAX
    <3> DEFINE m == (secondsSinceSwitch - 1) * SCANS
    <3>1. m \in Int
      BY <1>0
    <3>2. heaterOffFor > m + sinceControl /\ ahead' = m + (sinceControl + 1)
      BY <1>1, <2>1, <2>4 DEF TimerIsHonest
    <3>3. heaterOffFor' = heaterOffFor + 1
      BY <1>0, <2>1, <2>2, <2>4
    <3> HIDE DEF m, ahead
    <3> QED BY <1>0, <3>1, <3>2, <3>3
  <2> QED BY <2>3, <2>4
<1>7. CASE SetupRelays
  <2>1. UNCHANGED <<state, heaterOn, secondsSinceSwitch, sinceControl, heaterOffFor>>
    BY <1>7 DEF SetupRelays, runVars, timeVars
  <2> QED BY <1>1, <2>1 DEF TimerIsHonest
<1>8. CASE ExecuteWrite
  <2>1. /\ UNCHANGED <<state, heaterOn, secondsSinceSwitch, sinceControl>>
        /\ heaterOffFor' = IF RO!Energised("heater")' THEN 0 ELSE heaterOffFor
    BY <1>8 DEF ExecuteWrite, runVars
  <2>2. ~RO!Energised("heater")'
    BY <1>1, <1>8, <2>1, RunIsTold, WriteMovesHeater
  <2> QED BY <1>1, <2>1, <2>2 DEF TimerIsHonest
<1> QED BY <1>2, <1>3, <1>4, <1>5, <1>6, <1>7, <1>8 DEF LoopStep

\* The heater relay has rested whenever it is about to be switched on: the
\* controller only asks for it when its timer, which is honest, has reached
\* the minimum off time.
LEMMA LoopStepKeepsRest ==
  ASSUME IInv, RunInv', LoopTypeOK', LoopStep
  PROVE  RestedBeforeOn'
<1> DEFINE enough == (MIN_HEATER_OFF_SECONDS - 1) * SCANS
<1>0. heaterOffFor \in Nat /\ secondsSinceSwitch \in Nat
  BY ScansAreNumbers, RunControlLoopAssumption
     DEF IInv, LoopInv, LoopTypeOK, RunInv, OwnTypeOK
<1>1. RestedBeforeOn /\ TimerIsHonest /\ ROP!IInv /\ RunInv
  BY DEF IInv, LoopInv
<1> SUFFICES ASSUME phase' = "commanded", command'.heaterOn, ~RO!Energised("heater")'
             PROVE  heaterOffFor' > enough
  BY DEF RestedBeforeOn
<1> HIDE DEF enough
<1>2. CASE QuietStep \/ SilentEnd
  <2>1. UNCHANGED <<isOutput, latch, phase, command, heaterOffFor>>
    BY <1>2 DEF QuietStep, SilentEnd, Scan, relayVars
  <2> QED BY <1>1, <2>1, RegistersMoveRelays DEF RestedBeforeOn, enough
<1>3. CASE TellingScan
  <2>1. command' = CommandOfRun' /\ heaterOn' = FALSE
    BY <1>3, ApplyTellsRelays DEF TellingScan
  <2>2. ~command'.heaterOn
    BY <2>1 DEF CommandOfRun, RunInv, OutputsFollowLifecycle
  <2> QED BY <2>2
<1>4. CASE Control
  <2>1. /\ phase # "reset" /\ RO!Idle /\ command' = CommandOfRun'
        /\ UNCHANGED <<isOutput, latch, heaterOffFor>> /\ sinceControl = SCANS
    BY <1>4, ApplyTellsRelays DEF Control, ControlPeriod
  <2>2. heaterOn'
    BY <2>1 DEF CommandOfRun, RunInv, OutputsFollowLifecycle
  <2>3. ~heaterOn
    <3>1. SUFFICES ASSUME heaterOn PROVE FALSE
      OBVIOUS
    <3>2. state # "Idle"
      BY <1>1, <3>1 DEF RunInv, OutputsFollowLifecycle
    <3>3. command.heaterOn
      BY <3>1, <3>2, RunIsTold
    <3>4. RO!Energised("heater")
      BY <1>1, <2>1, <3>3, SettledRelays DEF Settled
    <3> QED BY <2>1, <3>4, RegistersMoveRelays
  <2>4. state = "Running" /\ secondsSinceSwitch + 1 >= MIN_HEATER_OFF_SECONDS
    BY <1>1, <1>4, <2>2, <2>3, ControlMovesTimer
  <2>5. heaterOffFor = OFF_FOR_MAX \/ heaterOffFor > (secondsSinceSwitch - 1) * SCANS + SCANS
    BY <1>1, <2>1, <2>3, <2>4 DEF TimerIsHonest
  <2>6. heaterOffFor > enough
    BY <1>0, <2>4, <2>5, LongEnough DEF enough
  <2> QED BY <2>1, <2>6
<1>5. CASE NextScan
  <2>1. Settled /\ UNCHANGED <<isOutput, latch, phase, command>>
    BY <1>5 DEF NextScan, relayVars, Settled
  <2>2. RO!Energised("heater")
    BY <1>1, <2>1, SettledRelays
  <2> QED BY <2>1, <2>2, RegistersMoveRelays
<1>6. CASE SetupRelays
  BY <1>6 DEF SetupRelays, RO!Begin
<1>7. CASE ExecuteWrite
  <2>1. /\ UNCHANGED <<phase, command>>
        /\ heaterOffFor' = IF RO!Energised("heater")' THEN 0 ELSE heaterOffFor
    BY <1>7 DEF ExecuteWrite, RO!Execute
  <2>2. ~RO!Energised("heater")
    BY <1>1, <1>7, <2>1, WriteMovesHeater
  <2> QED BY <1>1, <2>1, <2>2 DEF RestedBeforeOn, enough
<1> QED BY <1>2, <1>3, <1>4, <1>5, <1>6, <1>7 DEF LoopStep

------------------------------------------------------------------------------
(* The invariant                                                              *)

\* Nothing has been started, and the relays have not been set up.
LEMMA InitIInv == Init => IInv
<1> SUFFICES ASSUME Init PROVE IInv OBVIOUS
<1>1. RunInv
  BY InitRunInv
<1>2. ROP!IInv
  <2>1. ROP!Init
    BY OneRelays DEF Init
  <2> QED BY <2>1, Wiring, ROP!InitIInv
<1>3. phase = "reset" /\ state = "Idle"
  BY DEF Init, RO!Init, PRC!Init, PRC!SM!Init
<1>4. LoopTypeOK
  <2>1. EmptyProfile \in ProfileConfig
    BY DEF EmptyProfile, ProfileConfig, ProfileMode
  <2>2. SCANS \in 0..SCANS /\ OFF_FOR_MAX \in 0..OFF_FOR_MAX
    BY ScansAreNumbers
  <2>3. latestNtc \in Reading
    BY RunInputsAssumption DEF Init
  <2> QED BY <2>1, <2>2, <2>3 DEF Init, LoopTypeOK, Prompt
<1>5. PromptHasCandidate /\ sinceControl = SCANS
  BY DEF Init, PromptHasCandidate
<1> QED
  BY <1>1, <1>2, <1>3, <1>4, <1>5
     DEF IInv, LoopInv, NothingBeforeFirstPeriod, LabelNamesTheRun, LabelIsKept,
         RelaysAreTold, TimerIsHonest, RestedBeforeOn

\* Each step of the loop keeps all of it.
LEMMA NextKeepsIInv == IInv /\ [Next]_vars => IInv'
<1> SUFFICES ASSUME IInv, [Next]_vars PROVE IInv' OBVIOUS
<1>1. LoopStep /\ RunStep
  BY LoopStepKinds, LoopStepIsRunStep DEF IInv, LoopInv
<1>2. RunInv'
  BY <1>1, RunStepKeepsRunInv DEF IInv
<1>3. LoopTypeOK' /\ PromptHasCandidate'
  BY LoopStepKeepsTypes DEF IInv, LoopInv
<1>4. ROP!IInv'
  BY <1>1, <1>2, LoopStepKeepsRelays DEF IInv, LoopInv
<1>5. /\ NothingBeforeFirstPeriod' /\ LabelNamesTheRun' /\ LabelIsKept'
      /\ RelaysAreTold'
  BY <1>1, <1>2, <1>3, LoopStepKeepsLabelAndCommand
<1>6. TimerIsHonest' /\ RestedBeforeOn'
  BY <1>1, <1>2, <1>3, LoopStepKeepsTimerHonest, LoopStepKeepsRest
<1> QED BY <1>2, <1>3, <1>4, <1>5, <1>6 DEF IInv, LoopInv

\* The strengthened invariant holds of every sequence of control periods,
\* scans and register writes.
THEOREM SpecIInv == Spec => []IInv
BY InitIInv, NextKeepsIInv, PTL DEF Spec

------------------------------------------------------------------------------
(* What the loop promises                                                     *)

\* Every variable of the loop stays within its type: no timer wraps, no write
\* goes to a missing pin, and every profile, token and label is a known one.
THEOREM TypeCorrect == Spec => []TypeOK
<1>1. IInv => TypeOK
  <2>1. SMP!IInv => PRC!SM!TypeOK
    BY DEF SMP!IInv, SMP!TypeOK, PRC!SM!TypeOK, SMP!RunState, PRC!SM!RunState,
           PRC!SM!ProfileConfig, PRC!SM!ProfileMode, SMP!ProfileConfig, SMP!ProfileMode
  <2>2. OwnTypeOK /\ PRC!SM!TypeOK => PRC!TypeOK
    BY DEF OwnTypeOK, PRC!TypeOK, PRC!TC!TypeOK, PRC!ProfileConfig, PRC!ProfileMode,
           ProfileConfig, ProfileMode, PRC!UserTokens, UserTokens
  <2>3. ROP!IInv => RO!TypeOK
    BY DEF ROP!IInv, ROP!TypeOK, RO!TypeOK, RO!Relay, ROP!Relay, RO!Write, ROP!Write,
           RO!Phase, ROP!Phase, RO!OutputCommand, ROP!OutputCommand
  <2> QED BY <2>1, <2>2, <2>3 DEF IInv, RunInv, LoopInv, LoopTypeOK, TypeOK
<1> QED BY <1>1, SpecIInv, PTL

\* The state machine, the controller and the status page agree on the profile
\* of the run, whatever the user selects while runs come and go.
THEOREM ProfileCopies == Spec => []ProfileCopiesAgree
<1>1. IInv => ProfileCopiesAgree
  BY DEF IInv, RunInv
<1> QED BY <1>1, SpecIInv, PTL

\* The target in use belongs to the second the run clock is in, for every
\* profile the evaluator accepts.
THEOREM TargetFollows == Spec => []TargetFollowsRunClock
<1>1. IInv => TargetFollowsRunClock
  BY DEF IInv, RunInv
<1> QED BY <1>1, SpecIInv, PTL

\* And it is the one the schedule of the profile has for that second, laid out
\* phase by phase.
THEOREM TargetIsScheduled ==
  Spec => [](state = "Running" =>
               lastTargetTempC = SMP!Scheduled(profile, activeElapsedSeconds))
<1>1. IInv => (state = "Running" =>
                 lastTargetTempC = SMP!Scheduled(profile, activeElapsedSeconds))
  <2> SUFFICES ASSUME IInv, state = "Running"
               PROVE  lastTargetTempC = SMP!Scheduled(profile, activeElapsedSeconds)
    OBVIOUS
  <2>1. /\ profile \in SMP!ProfileConfig /\ SMP!IsValid(profile)
        /\ activeElapsedSeconds \in Nat
    BY DEF IInv, RunInv, SMP!IInv, SMP!TypeOK, SMP!NeverRunsPastDuration
  <2>2. SMP!Evaluate(profile, activeElapsedSeconds).targetTempC =
          SMP!Scheduled(profile, activeElapsedSeconds)
    BY <2>1, LifecycleConstants, SMP!EvaluatorFollowsSchedule
  <2>3. lastTargetTempC = PRC!Evaluate(profile, activeElapsedSeconds).targetTempC
    BY DEF IInv, RunInv, TargetFollowsRunClock, PRC!TargetFollowsRunClock
  <2>4. PRC!Evaluate(profile, activeElapsedSeconds) =
          SMP!Evaluate(profile, activeElapsedSeconds)
    BY OneEvaluator
  <2> QED BY <2>2, <2>3, <2>4
<1> QED BY <1>1, SpecIInv, PTL

\* The status screen never names a run that is not there.
THEOREM Label == Spec => []LabelNamesTheRun
<1>1. IInv => LabelNamesTheRun
  BY DEF IInv, LoopInv
<1> QED BY <1>1, SpecIInv, PTL

\* Before the first control period no relay of the loop is on (begin).
LEMMA RelaysOffUntilCommanded == ROP!IInv => ROP!OffUntilCommanded
BY Wiring, ROP!IInvMeansOff

\* Outside an operation the relays show the controller's command, except after
\* a refused replacement, until the next control period.
LEMMA IInvMeansRelaysFollow == IInv => RelaysFollowController
<1> SUFFICES ASSUME IInv, Settled PROVE RelaysShowCommand \/ RelaysLag
  BY DEF RelaysFollowController, RelaysLag
<1>1. ROP!IInv /\ RelaysAreTold /\ NothingBeforeFirstPeriod /\ OutputsFollowLifecycle
  BY DEF IInv, LoopInv, RunInv
<1>2. /\ RO!Energised("fan") <=> command.fanOn
      /\ RO!Energised("heater") <=> command.heaterOn
  BY <1>1, SettledRelays
<1>3. CASE phase = "commanded"
  BY <1>1, <1>2, <1>3 DEF RelaysAreTold, RelaysShowCommand
<1>4. CASE phase # "commanded"
  <2>1. state = "Idle"
    BY <1>1, <1>4 DEF NothingBeforeFirstPeriod
  <2>2. ~currentCommand.fanOn /\ ~currentCommand.heaterOn
    BY <1>1, <2>1 DEF OutputsFollowLifecycle
  <2>3. ~ROP!Energised("fan") /\ ~ROP!Energised("heater")
    BY <1>1, <1>4, Wiring, RelaysOffUntilCommanded DEF ROP!OffUntilCommanded
  <2> QED BY <2>2, <2>3, OneRelays DEF RelaysShowCommand
<1> QED BY <1>3, <1>4

\* The relays and the controller agree whenever the writes of an operation are
\* done, for every wiring with both relays and every length of a period.
THEOREM RelaysFollow == Spec => []RelaysFollowController
BY IInvMeansRelaysFollow, SpecIInv, PTL

\* REQ-SAFE-004 in the running firmware: whatever the user does between two
\* control periods, no register write leaves the heater on without the fan.
THEOREM HeaterHasItsFan == Spec => [](RO!Energised("heater") => RO!Energised("fan"))
<1>1. IInv => (RO!Energised("heater") => RO!Energised("fan"))
  BY OneRelays DEF IInv, LoopInv, ROP!IInv, ROP!HeaterNeverWithoutFan
<1> QED BY <1>1, SpecIInv, PTL

\* Only a control period with a usable reading leaves the heater command on.
LEMMA HeaterNeedsReading ==
  ASSUME IInv, IInv', [Next]_vars, currentCommand'.heaterOn, ~UNCHANGED runVars
  PROVE  \E reading \in Readings :
           /\ ControlPeriod(reading)
           /\ reading.valid
           /\ reading.tempDeciC <= HEATER_FORCE_OFF_ABOVE_TEMP_C * 10
<1>1. heaterOn' /\ state' \in SMP!RunState /\ state' # "Fault"
  BY DEF IInv, RunInv, OutputsFollowLifecycle, SMP!IInv, SMP!TypeOK
<1>2. LoopStep
  BY LoopStepKinds DEF IInv, LoopInv
<1>3. ~(QuietStep \/ NextScan \/ SetupRelays \/ ExecuteWrite)
  BY DEF QuietStep, NextScan, SetupRelays, ExecuteWrite
<1>4. ~(TellingScan \/ SilentEnd)
  BY <1>1, UserResetsHeater DEF TellingScan, SilentEnd, RunEnds
<1>5. PICK reading \in Readings : ControlPeriod(reading)
  BY <1>2, <1>3, <1>4 DEF LoopStep, Control
<1>6. reading \in Reading /\ PRC!UpdateCommand(1, reading)
  BY <1>5, RunInputsAssumption DEF ControlPeriod, PRC!Update
<1>7. /\ OwnTypeOK /\ activeProfile' \in ProfileConfig
      /\ activeProfileValid' \in BOOLEAN
  BY DEF IInv, RunInv, OwnTypeOK
<1>8. reading.valid /\ reading.tempDeciC <= HEATER_FORCE_OFF_ABOVE_TEMP_C * 10
  BY <1>1, <1>6, <1>7, UpdateCommandSets
<1> QED BY <1>5, <1>8

\* REQ-SAFE-002, REQ-SAFE-012: no press of the user switches the heater on or
\* carries it over; only a control period does, on a usable reading that is
\* not above the limit.
THEOREM HeaterNeedsUsableReading == Spec => HeaterOnlyByUsableReading
<1>1. IInv /\ IInv' /\ [Next]_vars =>
        [currentCommand'.heaterOn /\ ~UNCHANGED runVars =>
           \E reading \in Readings :
             /\ ControlPeriod(reading)
             /\ reading.valid
             /\ reading.tempDeciC <= HEATER_FORCE_OFF_ABOVE_TEMP_C * 10]_vars
  BY HeaterNeedsReading
<1> QED BY <1>1, SpecIInv, PTL DEF Spec, HeaterOnlyByUsableReading

\* The heater relay is switched on by a write of the running operation, and
\* the operation has it rested.
LEMMA RelayRises ==
  ASSUME IInv, [Next]_vars, ~RO!Energised("heater"), RO!Energised("heater")'
  PROVE  heaterOffFor > (MIN_HEATER_OFF_SECONDS - 1) * SCANS
<1>1. LoopStep /\ ROP!IInv /\ RestedBeforeOn
  BY LoopStepKinds DEF IInv, LoopInv
<1>2. ~UNCHANGED <<isOutput, latch>>
  BY RegistersMoveRelays
<1>3. ExecuteWrite
  <2>1. ~(QuietStep \/ SilentEnd \/ NextScan \/ SetupRelays)
    BY <1>2 DEF QuietStep, SilentEnd, NextScan, SetupRelays, RO!Begin, relayVars
  <2>2. ~(TellingScan \/ Control)
    BY <1>2 DEF TellingScan, Control, ControlPeriod, ApplyOutputs, RO!Apply
  <2> QED BY <1>1, <2>1, <2>2 DEF LoopStep
<1>4. phase = "commanded"
  <2>1. CASE phase # "commanded"
    <3>1. phase' # "commanded"
      BY <1>3, <2>1 DEF ExecuteWrite, RO!Execute
    <3>2. ROP!IInv'
      <4>1. ROP!Next
        BY <1>3, OneRelays DEF ExecuteWrite, ROP!Next
      <4> QED BY <1>1, <4>1, Wiring, ROP!NextKeepsIInv
    <3>3. ROP!IInv' => ROP!OffUntilCommanded'
      BY RelaysOffUntilCommanded, PTL
    <3>4. ~ROP!Energised("heater")'
      BY <3>1, <3>2, <3>3, Wiring DEF ROP!OffUntilCommanded, ROP!Relay
    <3> QED
      BY <3>4 DEF RO!Energised, ROP!Energised, RO!IsAssigned, ROP!IsAssigned
  <2> QED BY <2>1
<1>5. command.heaterOn
  BY <1>1, <1>3, <1>4, WriteMovesHeater
<1> QED BY <1>1, <1>4, <1>5 DEF RestedBeforeOn

\* However the user pauses, resumes and replaces runs, the heater relay has
\* been off for more than the minimum less one control period when it is
\* switched on.
THEOREM RelayRests == Spec => RelayRestsBetweenRuns
<1>1. IInv /\ [Next]_vars =>
        [~RO!Energised("heater") /\ RO!Energised("heater")' =>
           heaterOffFor > (MIN_HEATER_OFF_SECONDS - 1) * SCANS]_vars
  BY RelayRises
<1> QED BY <1>1, SpecIInv, PTL DEF Spec, RelayRestsBetweenRuns

\* Whatever happens in the loop is a drying run as promised: the abstract
\* phase, the time that remains and the outputs only move together, and in
\* the promised order.
THEOREM IsDryingRun == Spec => ImplementsDryingRun
<1>1. Init => PRC!DR!Init
  BY DEF Init, PRC!Init, PRC!DR!Init, PRC!SM!Init, PRC!TC!Init, PRC!NoCommand
<1>2. IInv /\ IInv' /\ [Next]_vars => [PRC!DR!Next]_PRC!DR!vars
  BY LoopStepIsRunStep, RunStepIsPromised DEF IInv, LoopInv
<1> QED
  BY <1>1, <1>2, SpecIInv, PTL
     DEF Spec, ImplementsDryingRun, PRC!ImplementsDryingRun, PRC!DR!Spec
==============================================================================
