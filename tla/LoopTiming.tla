------------------------------ MODULE LoopTiming ------------------------------
(***************************************************************************)
(* The timing of loop(): every pass reads millis() once and asks each task *)
(* whether it is due (app/PeriodicTask.h).  A pass may block, the sensor   *)
(* and the display most of all, and the millisecond counter wraps.  The    *)
(* input task turns the counts of the rotary encoder into steps            *)
(* (app/EncoderStepFilter.h), whatever happened between two of its scans.  *)
(***************************************************************************)
EXTENDS Integers

CONSTANTS
  Tasks,                \* the periodic tasks of main.cpp
  IntervalMs,           \* their intervals
  InputScan,            \* the task that reads the encoder
  CLOCK_RANGE,          \* millis() is a 32-bit counter
  MAX_PASS_MS,          \* bound: the longest pass of the loop
  COUNTS_PER_STEP,
  MAX_TRAVEL            \* bound: counts the encoder moves without a step

\* Within its interval and the longest pass no task sees the clock wrap twice.
ASSUME LoopTimingAssumption ==
  /\ CLOCK_RANGE \in Nat \ {0} /\ MAX_PASS_MS \in Nat
  /\ COUNTS_PER_STEP \in Nat \ {0} /\ MAX_TRAVEL \in Nat
  /\ IntervalMs \in [Tasks -> 1..CLOCK_RANGE] /\ InputScan \in Tasks
  /\ \A task \in Tasks : IntervalMs[task] + MAX_PASS_MS <= CLOCK_RANGE

VARIABLES
  millis,
  hasRun,               \* the tasks that have run once
  lastRunMs,
  ran,                  \* history: the tasks the last pass has run
  age,                  \* history: the true time since a task has run
  accumulatedDelta,
  step,                 \* what the filter returned last
  travel                \* history: counts up and down from the extremes since a step

encoderVars == <<accumulatedDelta, step, travel>>
loopVars == <<millis, hasRun, lastRunMs, ran, age, encoderVars>>

LoopInit ==
  /\ millis \in 0..CLOCK_RANGE - 1
  /\ hasRun = {} /\ ran = {}
  /\ lastRunMs = [task \in Tasks |-> 0] /\ age = [task \in Tasks |-> 0]
  /\ accumulatedDelta = 0 /\ step = 0 /\ travel = [up |-> 0, down |-> 0]

\* Mutant: the time of the next run is compared instead of the time elapsed.
ShouldRunFromDeadline(task) ==
  task \in hasRun => millis >= (lastRunMs[task] + IntervalMs[task]) % CLOCK_RANGE

\* shouldRun()
ShouldRun(task) ==
  task \in hasRun => (millis - lastRunMs[task]) % CLOCK_RANGE >= IntervalMs[task]

------------------------------------------------------------------------------
(* The filter.  A movement against the one accumulated starts over; one scan  *)
(* gives at most one step, however far the encoder went.                      *)

Saturated(counts) == IF counts > COUNTS_PER_STEP THEN COUNTS_PER_STEP ELSE counts

Accumulated(counts) ==
  CASE counts > 0 -> Saturated(counts)  + IF accumulatedDelta > 0 THEN accumulatedDelta ELSE 0
    [] counts < 0 -> -Saturated(-counts) + IF accumulatedDelta < 0 THEN accumulatedDelta ELSE 0
    [] OTHER      -> accumulatedDelta

StepOf(delta) ==
  IF delta >= COUNTS_PER_STEP THEN 1 ELSE IF delta <= -COUNTS_PER_STEP THEN -1 ELSE 0

\* Mutant: counts beyond a step are kept for the next one.
RemainderKept(delta) == delta - StepOf(delta) * COUNTS_PER_STEP

Remainder(delta) == IF StepOf(delta) = 0 THEN delta ELSE 0

Positive(n) == IF n > 0 THEN n ELSE 0

\* The encoder has moved by so many counts since the last scan.
UpdateFilter(counts) ==
  LET moved == [up   |-> Positive((IF step = 0 THEN travel.up ELSE 0) + counts),
                down |-> Positive((IF step = 0 THEN travel.down ELSE 0) - counts)]
  IN  /\ moved.up <= MAX_TRAVEL /\ moved.down <= MAX_TRAVEL
      /\ travel' = moved
      /\ step' = StepOf(Accumulated(counts))
      /\ accumulatedDelta' = Remainder(Accumulated(counts))

------------------------------------------------------------------------------
\* One pass of the loop, which takes the given time.
Pass(ms) ==
  LET due == {task \in Tasks : ShouldRun(task)}
  IN  /\ ran' = due
      /\ hasRun' = hasRun \cup due
      /\ lastRunMs' = [task \in Tasks |-> IF task \in due THEN millis ELSE lastRunMs[task]]
      /\ age' = [task \in Tasks |-> IF task \in due THEN ms ELSE age[task] + ms]
      /\ millis' = (millis + ms) % CLOCK_RANGE
      /\ IF InputScan \in due
         THEN \E counts \in -MAX_TRAVEL..MAX_TRAVEL : UpdateFilter(counts)
         ELSE UNCHANGED encoderVars

LoopNext == \E ms \in 0..MAX_PASS_MS : Pass(ms)

LoopSpec == LoopInit /\ [][LoopNext]_loopVars

------------------------------------------------------------------------------
(* Properties *)

\* A task that has run runs again no earlier than its interval and late by
\* less than one pass, also across the wrap of the clock: the run clock,
\* which counts one second for every run of its task, is never ahead of the
\* time, and no task stops when the clock starts over.
TasksKeepTheirIntervals ==
  [][\A task \in hasRun :
       /\ task \in ran' => age[task] >= IntervalMs[task]
       /\ task \notin ran' => age[task] < IntervalMs[task]]_loopVars

\* A bouncing contact moves the encoder to and fro by less than a detent: a
\* step in a direction means that, since the last step, the encoder has come
\* a full detent in that direction from where it was furthest the other way.
StepsAreDetents ==
  /\ step = 1  => travel.up   >= COUNTS_PER_STEP
  /\ step = -1 => travel.down >= COUNTS_PER_STEP
==============================================================================
