# TLA+ models of the dehydrator controller

The firmware in this repository runs a food dehydrator on an ATmega2560: a
heater and a fan behind two relays, a thermistor, a rotary encoder with a
button, an LCD and an EEPROM.  These modules model what decides when the chamber
is heated and ventilated, from the drying profile down to the single pin write,
the screens through which the user runs it, and the records that survive a power
cut.  TLC checks them on small instances; TLAPS proves most of what they check
for every value of the constants.

Paths below are relative to the firmware's source tree (`src/main.cpp`,
`include/dehydrator/...`); `PROJECT.json` maps every definition to its lines and
lists the hazards of the code with the properties that are about them.

## The system

The program is one thread.  `loop()` calls seven tasks with one `millis()`
value; each decides with a `PeriodicTask` whether it is due.  There are no
interrupts that touch the run, so what interleaves are tasks of different
periods: the sensor and the run-control task once per second, the input task
every 20 ms.  The hard part is that state lives in several objects that are
updated by separate calls (`PresetRunController`, `activeProgramDisplay`,
`RelayOutputs`, pending prompts, the menu), that time passes underneath open
screens, and that relays and EEPROM keep or lose state across a reset.

| Component | State | Operations | What makes it correct |
|---|---|---|---|
| `ProfileEngine` | none | `evaluate`, `isValid` | the target follows the phases exactly; no accepted profile asks for more than 75 C |
| `RunStateMachine` | lifecycle state, profile, two timers, resume permission | start, update, pause, resume, stop, fault, two acknowledgements | no heating past the duration; alarm only after the whole cooldown; only active runs are resumable |
| `TemperatureControl` | heater command, time since it changed | reset, update | minimum on and off times, yet no starvation |
| `PresetRunController` | both of the above, its own copy of the profile, preset, token, command, target | start, update, pause, resume, stop, acknowledge | copies agree; outputs always those of the present state; heat only by a usable reading |
| `RelayOutputs` | pin latches and modes | begin, apply, forceOff | heater never energised without the fan; nothing energised before the first command |
| run control of `main.cpp` | latest reading, label, open prompt with its candidate | sensor, control and input task | relays, label and prompts fit the run at every scan; the run ends whatever is left open |
| `ManualProgramController` | draft profile, field, dirty flag, slot, baseline | rotate, press, save, load, discard | a valid program stays valid within its mode; discarding returns to what was saved |
| `MenuController` and the screen controllers | selection, screen | rotate, press | the entry drawn is the entry selected; a late press does no harm; unsaved work is never lost unasked |
| `UserProfileStore`, `NtcCalibrationStore` | EEPROM records | save, clear, load | what was saved is read back; a cut-short write harms no other record |
| `ControlStateMachine` | startup state | boot, self-check, resume offer | a failed check leads to a fault |
| `FaultDetector` | baselines and timers of three detectors | update, reset | heating without effect is reported; residual heat is not |
| `AlarmOutputs` | blink phase | update | buzzer and backlight end off |
| `NtcReader`, `TempRhReader` | last readings | read | invalid readings are marked |
| `PeriodicTask`, `EncoderStepFilter` | last time; accumulated counts | shouldRun; update | never early and late by less than a pass, wraparound included; a step is a whole detent |
| views, logging, catalogue, configuration | none | formatting | - |

`main.cpp` owns one object of each and is the only place where they meet.
`FaultDetector` and `AlarmOutputs` are built and tested but not called by it,
and the verdict of `ControlStateMachine` is only logged.

## Modules

| Module | Models | Kind |
|---|---|---|
| `ProfileEngine` | `domain/ProfileEngine.h` | pure operators |
| `ProfileSchedule` | - | reference: the phases as a countdown, run beside the lifecycle |
| `RunStateMachine` | `domain/RunStateMachine.h` | component |
| `TemperatureControl` | `domain/TemperatureControl.h` | component |
| `TemperatureControlTiming` | - | the controller under arbitrary calls with a record of real durations |
| `RelayOutputs` | `hardware/RelayOutputs.h`, the pin adapter of `main.cpp` | component |
| `RunInputs` | presets, profiles and readings, as constants | parameters |
| `PresetRunController` | `app/PresetRunController.h` | composes lifecycle and temperature control |
| `DryingRun` | - | abstract specification of a drying run |
| `RunControlLoop` | `loop()` and the run operations of the input task in `src/main.cpp` | composes coordinator and relays |
| `ByteStorage` | `interfaces/ByteStorage.h`, `hardware/ArduinoEepromStorage.h` | the bytes of the EEPROM |
| `UserProfileStore`, `NtcCalibrationStore` | `persistence/*.h` | records as sequences of byte updates |
| `NtcCalibrationController` | `ui/NtcCalibrationController.h` | component |
| `PersistentSettings` | saving, deleting, loading and booting in `src/main.cpp` | composes the two stores, the calibration editor and the copies in RAM, with resets |
| `DurableRecords` | - | abstract specification of storage that survives resets |
| `ManualProgramController` | `ui/ManualProgramController.h`, `domain/ManualProgramDraft.h` | component |
| `UserInterface` | the screens, prompts and save flow of `updateInputTask()` | composes the editor, the prompts and the slot screens |
| `ListScreens` | the cursors: `ui/MenuController.h` and the other list controllers, the status pages, the windows the `Lcd*View`s draw | composes the lists with a run and a display |
| `FaultDetector` | `domain/FaultDetector.h` | component |
| `LoopTiming` | `app/PeriodicTask.h`, `app/EncoderStepFilter.h` in the passes of `loop()` | composes clock, tasks and filter |
| `..._proofs` | - | theorems about the module they are named after, except that `RunStateMachine_proofs` has also those about `ProfileSchedule`; `Timing_proofs` is about `TemperatureControlTiming`, `LoopTiming` and `FaultDetector`, the three that measure time, `RunControlLoop_proofs` also has those about `PresetRunController` and `DryingRun` |
| `MC...` | - | values of the constants for TLC |

### How state and actions correspond to the code

* A variable has the name of the field or global it stands for, without the
  trailing underscore.  Nested objects are instances over the variables of the
  composing module.
* An operation that returns `false` changes nothing; a refusal is a stuttering
  step and has no action of its own.
* `updateCommand()` is called last by the operations of the coordinator and
  reads what they have left behind, so its operator is written over the primed
  variables of the same step.
* `RelayOutputs` is finer than an action per call: an operation puts its
  register writes into `pending`, and `Execute` performs one.  In
  `RunControlLoop` the writes run to completion before time passes, as in the
  code, but the properties see every state in between.
* In `RunControlLoop` a control period is one action (sensor reading, lifecycle
  update, command, `apply`), because both tasks have the same period, are called
  with the same `millis()` and are adjacent up to the humidity task, which
  touches neither.  Between two control periods there are `SCANS` input scans,
  each of which handles at most one press.  Navigation that does not touch the
  run is left out: every operation is offered whenever its own guard (the run
  state, the menu item that is only listed in it) holds, which allows more
  orders than the screens do.
* The input task replaces a run by two calls, stop and start.  When both succeed
  nothing can happen in between, and `ReplaceRun` writes what the second leaves;
  when only the first does, `RejectedReplacement` leaves the stop behind.
* `PersistentSettings` queues the `update()` calls of a save and performs one per
  step; a reset may fall between any two.  Records have their real layout, all 17
  and 9 bytes, and the checksum is the same sum as in the code.  `update()` is one
  step, because the part writes a byte or does not.
* The screens are modelled twice, each time keeping what the other leaves out.
  `UserInterface` has the flows: which screen follows, which prompt, what it is
  about, what becomes of the draft, with a list reduced to the entries one may
  select and a program to whether it is accepted.  There `binaryConfirmPurpose`
  is "None" also for a replacement, which the code stores and never tests.
  `ListScreens` has the cursors: where a list opens, which entry a press selects,
  what is drawn.  There a screen that is no list has any of its outcomes, and the
  menu controller's own screen variable is left out because `ScreensAgree`, which
  the other module checks, makes it equal to `currentScreen`.
* A reading is a pair of a validity and a temperature in tenths of a degree; the
  conversion from the ADC is not modelled.

Auxiliary variables, which the code does not have, record what has happened;
most are marked `history` where they are declared: the time the heater relay
has been off, the durations of `TemperatureControlTiming`, the last command of
`RelayOutputs`, the running write in `PersistentSettings`, what the user asked
for and declined in `UserInterface`, what the display last showed in
`ListScreens`, the readings given to `FaultDetector`, the true age of a task
and the travel of the encoder in `LoopTiming`. `scanned` and `sinceControl` in
`RunControlLoop` are its time, and `cell` in `PersistentSettings` says which
save the program is in.

The operators marked `Mutant` are plausible mistakes in the code they stand next
to; they are part of no specification, and every checked property is violated
when one of them takes the place of the original.

## Model checking

| Run | Question | Result |
|---|---|---|
| `RunStateMachine` | Is the lifecycle safe under every order of operations, late updates included, and does the division-based phase lookup agree with counting the phases down? | holds, 1 551 states |
| `TemperatureControl` | Minimum on and off times and absence of starvation | holds, 368 states |
| `RelayOutputs` | Relay safety write by write, with resets, for 16 wirings | holds, 208 states |
| `RunControlLoop` | Do relays, label, command and copies of the profile fit the run at every scan; does the loop implement `DryingRun`; does a run end and the fan stop whatever is left open? | holds, 109 073 states |
| `Storage` | Do profiles and calibration, written byte by byte with resets, implement `DurableRecords`; what does a cut-short write leave? | holds, 574 722 states |
| `ManualEditor` | Does the editor keep a valid program valid, and can changes be discarded exactly? | holds, 129 819 states |
| `UserInterface` | Do the flows between the screens keep the user's work and his consent? | holds, 2 828 120 states |
| `ListScreens` | Do cursors, entries on offer and display fit together while the run changes? | holds, 1 068 172 states |
| `FaultDetector` | Is heating without effect noticed, and is a stuck heater only suspected with a reason? | holds, 374 063 states |
| `LoopTiming` | Are tasks never early, and late by less than a pass, across the wrap of the clock; is every encoder step a detent? | holds, 123 984 states |
| `StopOutputs` | Are the outputs off whenever the machine is idle? | violated |
| `TornRecord` | Is every profile offered for a start one that somebody saved? | violated |

### What the violated runs show

* `StopOutputs`: the replacement prompt stops the old run before the new profile
  is validated.  The manual editor can hold a refused profile (70 C set in
  constant mode, then the mode turned to boost).  The old run is then gone,
  nothing is started, the relays keep driving heater and fan until the next
  control period, and the label of the old run stays (`docs/architecture.md:40`:
  "`Idle`: no active run; outputs OFF").  `RelaysFollowController` states that
  this is the only way relays and command can differ, and for how long.
* `TornRecord`: `save()` writes over the old record, and the checksum is a plain
  sum.  A reset between two bytes can leave a mixture of the two records which
  the checksum found in it accepts, here when the upper temperature goes down by
  as much as the lower goes up (`UserProfileStore.h:53`: "Invalid/corrupt records
  are treated as vacant").  Such a profile is offered, and passes `isValid()`
  before it starts, so its temperatures stay within the limits.
  `InterruptedWriteIsSafe` states what does hold: a deletion is done or not done,
  and over a cleared record a save is all or nothing.  Over a record never
  written, all 0xFF, even that is too much to ask, which came to light when the
  proof of it failed: when the first 12 bytes of a record add up to 256 and the
  power fails behind them, the 0xFF that follow pass for the upper byte of the
  first phase, the second phase and the checksum.  The editor can make such a
  program: 57 C between 50 and 60 for 75 minutes, with phases of 10 minutes, is
  then accepted with a first phase of 65290 minutes.  It is the first profile of
  the `Storage` run.  What a slot offers in this case has the mode, the
  temperatures and the duration saved; only its phases may be wrong.

### What the properties do not promise

Some properties are weaker than one might wish, because the code promises no
more.

* `CleanUpToMode`: turning the mode does not mark the program as changed, although
  `dirty()` is documented as "differs from its last saved state"
  (`ManualProgramController.h:158`) and REQ-FUNC-022 asks before unsaved changes
  are started.  A program whose mode alone was turned starts without the
  question, labelled with its slot.
* `EditsKeepProgramValid` speaks of edits within a mode.  A target moved in one
  mode is not checked against the temperatures of the others; the invalid
  program is refused by `startProfile()` and by the store.
* `BackStartsAtFirst` excepts a menu or preset list that was left otherwise than
  by its last entry: the cursor is remembered then, and may stand on that last
  entry when the list opens again.  REQ-UI-022 speaks only of lists left through
  it.
* `PagesTurnOneByOne`: REQ-UI-023 lets rotation "cycle between" the status pages.
  The code stops at the first and the last page (`navigateStatusPage()`,
  `main.cpp:811`), and the property says so.
* `LatePressSparesTheRun`: the entry pressed may not be the one on the display,
  which is drawn once a second; what holds is that such a press does not touch
  the run.
* `NoRiseIsNoticed` allows twice the window and the longest time between two
  updates: a rise that began before the window starts it a second time, at an
  update of any length.  (The bound without the update looked right on the run
  and was refuted by the proof.)  The windows of the stuck-heater detector do not
  overlap, so a slow rise across two of them is not noticed; only the converse,
  `StuckSuspicionIsFounded`, holds.
* `TasksKeepTheirIntervals`: the control task counts one second per run, whatever
  has passed.  The run clock is therefore never ahead of time, and loses the time
  of long passes.
* The check of a boost phase (`ProfileEngine.h:153`) is computed in the target's
  16-bit `unsigned int`, where 32768 minutes count twice as 0.  The model has the
  wrap (`UINT_RANGE`); the editor bounds the phase itself in wider arithmetic, so
  it does not reach the case.

### Bounds

* A minute has `SECONDS_PER_MINUTE` = 3 or 6 seconds (60 in the code) where time
  is walked through.  Phases and durations of 1 to 7 minutes then have boundaries
  inside and at the end of the run; the arithmetic is the same for every length
  of a minute, and the proofs cover all of them.
* The cooldown lasts 2 or 4 seconds, the minimum times 2 to 4; on and off times
  differ wherever they could be confused.  `TIMER_MAX` is above both (the code's
  is 65535 against 10), small enough for the timer to saturate.
* `Deltas` of `RunStateMachine` are 0, one period and a jump that skips a
  boundary.  `RunControlLoop` passes 1, as the firmware does.
* `SCANS` is 3 (50 in the code): before, between and after.
* Profiles cover every mode, values around each limit, and at least one that is
  refused; readings lie below and inside the hysteresis band, at the target, at
  and above the limit, and invalid.
* `Storage`: two slots in front of the calibration record in a memory of 59 bytes,
  so that every record has a neighbour; the profiles include one whose bytes add
  up to 256, and one the store refuses; `MAX_WRITES` = 3 records written (a write,
  a write over it, and one beside it) and `MAX_CRASHES` = 1 of them cut short.
  Resets between writes are not bounded.  `TornRecord` has one slot and no
  calibration.
* `ManualEditor`: limits on the scale of 8 C and 6 minutes, each a few edits away,
  and `MAX_EDITS` = 4 edits since a profile was loaded; navigation, saving and
  discarding are not bounded.
* `UserInterface`: two slots, two valid programs and a refused one.
* `ListScreens`: two presets, so that a cursor can stand on the first entry, on
  another and on the last; one slot, because the slot list remembers nothing.
* `FaultDetector`: six temperatures and times of 2 or 3 seconds told in steps of
  1 or 2, so that a step ends on a limit or goes past it; timers saturate at
  `UINT_MAX` = 4.
* `LoopTiming`: a clock of 16 ms, intervals of 5 and 2 ms, passes of up to 3 ms, so
  that the clock wraps at every phase of both intervals; `MAX_TRAVEL` = 7 counts
  without a step, nearly two detents.
* `HISTORY_MAX` and `OFF_FOR_MAX` cap recorded durations at values the
  properties no longer tell apart.

No run switches deadlock checking off.

### Fairness

Only `RunControlLoop` has liveness properties. `FairSpec` is weakly fair to
setup, to the single register write, to the control period and to the passing
of a scan: `loop()` has no exit, a register write is an instruction, and
`millis()` is driven by a timer. Nothing is assumed of the user, who may leave
every prompt open, so the properties name what a user may always do instead
(pause, or start over). All other runs check safety only.

## Proofs

| Theorem | States, for every value of the constants |
|---|---|
| `RunStateMachine_proofs`: `TypeCorrect` | `TypeOK` |
| `RunsEndInTime`, `AlarmFollowsCooldown` | `NeverRunsPastDuration`, `AlarmOnlyAfterFullCooldown` |
| `ResumableWhileActive` | `ResumableExactlyWhileActive` |
| `HeatingStarts`, `RunningTimeCounts` | `HeatingStartsFreshOrContinues`, `OnlyRunningTimeCounts` |
| `TargetIsScheduled` | `FollowsSchedule` |
| `Timing_proofs`: `TypeCorrect` | `TimingTypeOK` |
| `ColdChamber`, `HotChamber` | `ColdChamberIsHeated`, `HotChamberIsNotHeated` |
| `OffLongEnough`, `OnLongEnough` | `MinimumOffTime`, `MinimumOnTime` |
| `StepsComeFromDetents`, `TasksAreOnTime` | `StepsAreDetents`, `TasksKeepTheirIntervals` |
| `HeatingWithoutEffect`, `SuspicionIsFounded` | `NoRiseIsNoticed`, `StuckSuspicionIsFounded` |
| `RelayOutputs_proofs`: `HeaterHasItsFan` | `HeaterNeverWithoutFan` |
| `OffBeforeCommand`, `SettledShows` | `OffUntilCommanded`, `SettledRelaysShowCommand` |
| `RunControlLoop_proofs`: `TypeCorrect` | `TypeOK` of the loop, the controller and the relays together |
| `ProfileCopies`, `TargetFollows` | `ProfileCopiesAgree`, `TargetFollowsRunClock` |
| `TargetIsScheduled` | the target in use is the scheduled one in every second of every run |
| `Label`, `RelaysFollow` | `LabelNamesTheRun`, `RelaysFollowController` |
| `HeaterHasItsFan` | no register write of the loop leaves the heater on without the fan |
| `HeaterNeedsUsableReading`, `RelayRests` | `HeaterOnlyByUsableReading`, `RelayRestsBetweenRuns` |
| `IsDryingRun` | `ImplementsDryingRun` |
| `PersistentSettings_proofs`: `CalibrationCopies` | `CalibrationCopiesAgree` |
| `StorageIsDurable` | `ImplementsDurableRecords` |
| `InterruptedWrites` | `InterruptedWriteIsSafe` |
| `ManualProgramController_proofs`: `CleanMeansSaved` | `CleanUpToMode` |
| `EditsAreSafe`, `DiscardGoesBack` | `EditsKeepProgramValid`, `DiscardRestoresBaseline` |
| `UserInterface_proofs`: `MenuAgrees`, `UnsavedIsDeclined` | `ScreensAgree`, `UnsavedWorkWasDeclined` |
| `DestructionWasConfirmed`, `SaveFlowReturnsHome` | `DestructiveNeedsTurn`, `SaveFlowReturnsToItsOrigin` |
| `ListScreens_proofs`: `DisplayAgrees`, `PagesAreNeighbours` | `DisplayShowsSelection`, `PagesTurnOneByOne` |
| `LatePressIsHarmless`, `ListsOpenAtFirst` | `LatePressSparesTheRun`, `BackStartsAtFirst` |

Each specification has an inductive invariant, a lemma for each operation that
keeps it, and a theorem that it always holds: `IInv` and `SpecIInv`, and in
`Timing_proofs`, which has three specifications, `RelayInv`, `LoopInv` and
`DetectorInv` with `RelaySpecInv`, `LoopSpecInv` and `DetectorSpecInv`.  The action properties and the refinements
follow from it step by step.

### Assumptions

They are named in the modules that declare the constants, evaluated by TLC on
every run, and met by the shipped values (`config/RuntimeConfig.h`,
`config/HardwareConfig.h`, `main.cpp`).

* `ProfileEngineAssumption`, `RunStateMachineAssumption`: a minute and the cooldown
  have at least one second, profiles are profiles, deltas are natural numbers.
* `TemperatureControlAssumption`, `TimingAssumption`: hysteresis
  and minimum times are positive, timer and recorded history can hold them.
* `RelayOutputsAssumption`: a wiring is a wiring; any pin may be missing.
* `RunControlLoopAssumption`: those of the parts, and that both relays have pins, as
  the board has, for otherwise the relays cannot show the command.  A preset is
  not a label of a user's program.
* `LoopTimingAssumption`: interval and longest pass together fit into the
  range of the clock, which is 49 days.
* `LimitsAssumption`: the windows of the fault detector are positive and below the
  value at which its 16-bit counters saturate.
* `EditorAssumption`: the default draft is valid and of constant mode, slots hold
  valid profiles (a load refuses any other), and a phase of a fluctuation takes
  at least a minute.  Steps and upper limits of the fields are any integers.
* `ProgramsAssumption`: the default program is valid, there is a slot 0, and the
  values that stand for nothing are told apart.
* `CountsAssumption`: there is at least one preset and one slot.
* `PersistentSettingsAssumption`: the calibration lies behind the slots, offset and
  scale fit the integers that store them, the duration limit (5940) is below
  65280, and the numbers of a profile that is saved are not negative and small
  enough for its checksum not to wrap.  The editor makes no other: its
  temperatures end at 75 and its durations at 5940, and it saves zeros for what
  the mode does not use.

### Arguments

*Lifecycle.*  The three state invariants are inductive only together.  A pause
keeps the elapsed time below the duration, which makes the later resume safe; a
running profile must be known valid, for the evaluator reports no end for any
other; and `resume` looks at the permission.  `IdleIsUnclocked`, that an idle
machine has no elapsed time, is added for the action properties.  Whether a
valid profile is complete is reduced to a comparison with its duration by one
lemma, so that the proofs need not open the evaluator.

*Profiles.*  The evaluator finds the phase of a fluctuating profile by a
remainder, the schedule by laying the phases one after the other.
`RemainderFindsPhase` shows that these agree: a second lies in the first part of
some cycle just when its remainder is below the length of that part.

*Temperature control.*  The timer is restarted by resets that switch nothing and
saturates, so it is not the time since the relay last switched.  It lies between
two of the recorded durations: it is never ahead of the time the relay has been
in its position (`TimerIsHonest`, which gives the minimum times) and never
behind the time the chamber has asked for the other position
(`NobodyWaitsTooLong`, which gives the two bounds on waiting).

*Relays.*  What the relays do between two register writes depends on the writes
still to come.  The invariant says how far an operation has got: `DuringBegin`
and `DuringApply` list, for each rest of `pending`, what the writes already made
have left in the registers.  Heater and fan are then safe because the relay
written first is the fan when the heater is to be on, and the heater otherwise.

*Firmware loop.*  The invariant has two halves.  `RunInv` is about the run: the
invariant of the lifecycle, taken over by instantiating its proofs, and that
copies, target and outputs follow the lifecycle.  One lemma about
`updateCommand()` serves every operation, because all of them call it last.
The step to `DryingRun` needs only this half.  `LoopInv` is about what `main.cpp`
adds: the invariant of the relays, taken over likewise; that an open prompt
knows whom to start, without which a confirmed replacement would start nothing
under a label; that the relays have been told the present command unless a
replacement was just refused (`RelaysLag`); and two facts about the minimum off
time.  A pause resets the controller's timer at a scan and the control period
counts it in whole seconds, so the timer is ahead of the relay's own rest by less
than a period (`TimerIsHonest`), and a command to heat that is still on its way
to the pin has been given on that ground (`RestedBeforeOn`).

*Records.*  The layout comes first: what is written as words, signed words and
longs is read back as it was (`RecordReadBack`, `CalibrationReadBack`), a record
is read from its own bytes only (`ReadsItsOwnBytes`) and no two records share one
(`CellsAreDisjoint`).  The invariant then follows a write byte by byte:
what was written is the beginning of the new record (`BeginningIsWritten`), the
rest of it waits in the queue (`RestIsWaiting`), and behind it the old record is
untouched (`RestIsAsBefore`).  With these every step of the byte machine is a
step of `DurableRecords` or a stutter.  For a write that is cut short the version
is written first and the checksum last (`VersionComesFirst`).  Over a cleared
record the checksum found until then is that of the empty profile, 1, and the
fields of a record that is occupied add up to more: the slot stays vacant until
its checksum is written.  This is where a wrap of the checksum would matter.

*Editor.*  A draft holds the values of all modes, a profile those of one, so
`ValidByMode` first writes out for each mode what makes the profile of a draft
valid.  Each edit is then compared with all three (`TemperatureEdited` to
`LowerDurationEdited`): an edit of one value has to check the bounds it shares
with others, a temperature those of the boost and the fluctuation, a duration
that of the boost phase.  That phase is bounded without the wrap when it is
edited and with the wrap when it is validated; the remainder is the smaller
number, so the edit is the stricter of the two (`RemainderIsSmall`).  Discarding
goes through a draft that has lost the values of the other modes; `RoundTrip`
shows that none of them is part of the profile.  `CleanUpToMode` is inductive
once the baseline is known to be the profile of a draft and valid
(`BaselineIsProgram`): a turn of the mode leaves a draft that differs from the
saved one in its mode only, every other edit marks it.

*Screens.*  The screens share their variables, so what a press does depends on
how its screen was reached.  The invariant states for each group of screens what
the menu controller, the purposes of prompt and slot list, the origin of the
save flow and the Yes/No selection can be there.  Two of its parts were found by
steps that did not go through: the details of a slot always return to the list
for browsing (`DetailReturnsToBrowse`), and a refused start leaves a prompt
without an origin, but only with a program that cannot be saved
(`OriginIsWhatWasAsked`).

*Lists.*  The menu consists of the run controls the lifecycle allows, followed by
five entries that are always there, so every entry that is not a run control
comes after all that are (`ControlsComeFirst`).  No cursor ever leaves its list,
not even while another screen is shown (`CursorsInRange`), although the lists of
the menu and of the slot details change under it; the windows that the views draw
then contain it.  A late press is harmless because of what the run can do by
itself between drawing and press: it can only lose run controls, by finishing
(`ShownIsMarked`).  Synchronising the menu leaves the cursor at its place or puts
it on the new last entry, and either is behind the run controls that are left.
`LeftAtFirst` and `TestAtFirst` carry the fact that a list was left at its first
entry to the moment it is entered again.

*Fault detector.*  The histories of the properties look at all readings, the
detector keeps one.  `WindowCoversFlat` says which: either its baseline is below
every reading since the last rise and it has counted all the time since, or its
window has started over once meanwhile.  `BaselineIsReading` says the same of the
stuck-heater detector: its baseline is a reading of this cooling, as old as the
time it has counted.

*Timing.*  A task sees the difference of two readings of a clock that wraps.
Since the task has run less time has passed than the clock takes to wrap
(`AgeIsClockDifference`), so the difference taken modulo the range is the time
itself.  What the filter has accumulated the encoder has moved
(`AccumulatedIsTravel`).

### Only model-checked

`RunComesToAnEnd` and `FanComesToRest`: liveness under fairness is out of the
prover's reach.  Every other property of a passing run is proved.

## Not modelled

* Startup self-check (`ControlStateMachine`): `setup()` asks it once, logs its
  verdict and never reads it again.  It has no effect on anything modelled here.
* `AlarmOutputs`: not constructed by `main.cpp`, and without state that relates
  to anything else.  `FaultDetector` is not called by `main.cpp` either, and is
  modelled as a component of its own under arbitrary inputs.
* The thermistor conversion, a floating-point logarithm; the humidity sensor,
  which is only displayed and logged.
* The texts of the LCD views, log lines, the LED, Arduino adapters: formatting and
  I/O without state the run depends on.  Of the views `ListScreens` has which
  entries and which page are drawn.
* The preset catalogue and the configuration, which are tables of constants and
  appear as the constants of the models.
* The debouncing of the button: a press is one event of one scan.  The position of
  the encoder as a `long`, which wraps after 2^31 counts.
* `RunControlLoop` has no reset: `RelayOutputs` covers what a reset does to the
  relays, `PersistentSettings` what it does to the records, and a run is not
  persisted.  Every reset starts in `Init`.
* The slot number and the mode in the label of a run, which are only displayed.

## Plan

Done: the components above, the refinements of `DryingRun` and `DurableRecords`,
and the proofs of all safety properties.  Left:

1. That the loop's encoder steps and control periods (`LoopTiming`) are the scans
   and seconds `RunControlLoop` counts in, as a refinement.
