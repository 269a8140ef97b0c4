----------------------------- MODULE Timing_proofs -----------------------------
(***************************************************************************)
(* Proofs about the three ways in which the firmware measures time: the    *)
(* timer that keeps the heater relay from switching too often, the         *)
(* millisecond counter that tells every task when it is due, and the       *)
(* windows of the fault detector.  None of them shows the time itself: the *)
(* first is restarted by more than a switch and saturates, the second      *)
(* wraps around, the third starts over with every rise; each invariant     *)
(* says how far the count can be from the truth.                           *)
(***************************************************************************)
EXTENDS TemperatureControlTiming, LoopTiming, FaultDetector, TLAPS

------------------------------------------------------------------------------
(* The heater relay, for every hysteresis, all minimum times, every set of    *)
(* inputs and every range of the timer that holds the minimum times.          *)
(*                                                                            *)
(* The controller has one timer for both positions of the relay and restarts  *)
(* it on resets that switch nothing.  The timer therefore never runs ahead of *)
(* the time the relay has really been in its position (which gives the        *)
(* minimum times) and never falls behind the time the chamber has been asking *)
(* for the other position (which gives the two bounds on waiting).            *)
(* HISTORY_MAX only caps what is recorded.                                    *)

\* The timer is at most the time spent in the present position.
TimerIsHonest ==
  /\ ~heaterOn => secondsSinceSwitch <= offFor \/ offFor = HISTORY_MAX
  /\ heaterOn => secondsSinceSwitch <= onFor \/ onFor = HISTORY_MAX

\* Nobody has waited longer than the timer, or for a whole minimum time.
NobodyWaitsTooLong ==
  /\ ~heaterOn => coldFor <= secondsSinceSwitch /\ coldFor < MIN_HEATER_OFF_SECONDS
  /\ heaterOn => hotFor <= secondsSinceSwitch /\ hotFor < MIN_HEATER_ON_SECONDS

RelayInv == TimingTypeOK /\ TimerIsHonest /\ NobodyWaitsTooLong

\* The constants are numbers, and the timers can hold the minimum times.
LEMMA ConstantsAreNumbers ==
  /\ HYSTERESIS_C \in Nat /\ HYSTERESIS_C > 0
  /\ MIN_HEATER_ON_SECONDS \in Nat /\ MIN_HEATER_ON_SECONDS > 0
  /\ MIN_HEATER_OFF_SECONDS \in Nat /\ MIN_HEATER_OFF_SECONDS > 0
  /\ TIMER_MAX \in Nat /\ HISTORY_MAX \in Nat
  /\ MIN_HEATER_ON_SECONDS <= TIMER_MAX /\ MIN_HEATER_ON_SECONDS <= HISTORY_MAX
  /\ MIN_HEATER_OFF_SECONDS <= TIMER_MAX /\ MIN_HEATER_OFF_SECONDS <= HISTORY_MAX
BY TemperatureControlAssumption, TimingAssumption

\* A recorded duration is capped, and grows as long as it is not.
LEMMA CappedDuration ==
  ASSUME NEW n \in Nat
  PROVE  /\ Capped(n) \in 0..HISTORY_MAX
         /\ Capped(n) <= n
         /\ Capped(n) = n \/ Capped(n) = HISTORY_MAX
BY ConstantsAreNumbers DEF Capped

\* The saturating timer (TemperatureControl::advanceTimer).
LEMMA AdvancedTimerBounds ==
  ASSUME TypeOK, NEW d \in Nat
  PROVE  /\ AdvancedTimer(d) \in 0..TIMER_MAX
         /\ AdvancedTimer(d) <= secondsSinceSwitch + d
         /\ AdvancedTimer(d) < TIMER_MAX => AdvancedTimer(d) = secondsSinceSwitch + d
BY ConstantsAreNumbers DEF AdvancedTimer, TypeOK

\* A chamber below the band of its target is not at its target.
LEMMA BandBelowTarget ==
  ASSUME NEW input \in Input
  PROVE  ~(BelowBand(input) /\ AtTarget(input))
<1>1. input.currentTempDeciC \in Int /\ input.targetTempDeciC \in Int
  BY DEF Input
<1>2. HYSTERESIS_C * 10 > 0 /\ HYSTERESIS_C * 10 \in Nat
  BY ConstantsAreNumbers
<1> QED BY <1>1, <1>2 DEF BelowBand, AtTarget

\* What one call of update() does to the heater and its timer, and when.
LEMMA CallDecides ==
  ASSUME TypeOK, NEW input \in Input, Call(input)
  PROVE  LET since == AdvancedTimer(input.deltaSeconds)
         IN  /\ heaterOn' \in BOOLEAN
             /\ heaterOn' <=> NextHeater(input, since)
             /\ (heaterOn' <=> heaterOn) => secondsSinceSwitch' = since
             /\ ~(heaterOn' <=> heaterOn) => secondsSinceSwitch' = 0
<1> DEFINE since == AdvancedTimer(input.deltaSeconds)
<1>1. /\ heaterOn' = NextHeater(input, since)
      /\ secondsSinceSwitch' = IF NextHeater(input, since) = heaterOn
                                 THEN since ELSE 0
  BY DEF Call, Update, SwitchHeater
<1>2. NextHeater(input, since) \in BOOLEAN /\ heaterOn \in BOOLEAN
  BY DEF NextHeater, Permitted, ForcedOff, AtTarget, BelowBand, Input, TypeOK
<1> HIDE DEF since
<1>3. (NextHeater(input, since) <=> heaterOn) <=>
        NextHeater(input, since) = heaterOn
  BY <1>2
<1>4. (heaterOn' <=> heaterOn) <=> NextHeater(input, since) = heaterOn
  BY <1>1, <1>2, <1>3
<1> QED BY <1>1, <1>2, <1>4 DEF since

\* The invariant holds of a controller that has just been constructed.
LEMMA RelayStarts == TimingInit => RelayInv
<1> SUFFICES ASSUME TimingInit PROVE RelayInv OBVIOUS
<1>1. 0 \in 0..TIMER_MAX /\ 0 \in 0..HISTORY_MAX
  BY ConstantsAreNumbers
<1>2. TimingTypeOK
  BY <1>1 DEF TimingInit, Init, TimingTypeOK, TypeOK
<1>3. TimerIsHonest
  BY DEF TimingInit, Init, TimerIsHonest
<1>4. NobodyWaitsTooLong
  BY ConstantsAreNumbers DEF TimingInit, Init, NobodyWaitsTooLong
<1> QED BY <1>2, <1>3, <1>4 DEF RelayInv

\* A call keeps the invariant.
LEMMA CallKeepsRelayInv ==
  ASSUME RelayInv, NEW input \in Input, Call(input)
  PROVE  RelayInv'
<1> DEFINE d == input.deltaSeconds
           since == AdvancedTimer(d)
<1>1. /\ TypeOK /\ TimingTypeOK
      /\ TimerIsHonest /\ NobodyWaitsTooLong
  BY DEF RelayInv, TimingTypeOK
<1>2. /\ d \in Nat
      /\ onFor \in Nat /\ offFor \in Nat /\ coldFor \in Nat /\ hotFor \in Nat
      /\ heaterOn \in BOOLEAN
      /\ secondsSinceSwitch \in Nat
  BY <1>1, ConstantsAreNumbers DEF Input, TimingTypeOK, TypeOK
<1>3. /\ since \in 0..TIMER_MAX
      /\ since <= secondsSinceSwitch + d
      /\ since < TIMER_MAX => since = secondsSinceSwitch + d
  BY <1>1, <1>2, AdvancedTimerBounds
<1>4. /\ heaterOn' \in BOOLEAN
      /\ heaterOn' <=> NextHeater(input, since)
      /\ (heaterOn' <=> heaterOn) => secondsSinceSwitch' = since
      /\ ~(heaterOn' <=> heaterOn) => secondsSinceSwitch' = 0
  BY <1>1, CallDecides
<1>5. /\ onFor' = IF heaterOn' /\ heaterOn THEN Capped(onFor + d) ELSE 0
      /\ offFor' = IF ~heaterOn' /\ ~heaterOn THEN Capped(offFor + d) ELSE 0
  BY DEF Call, Record
<1>6. /\ coldFor' = IF WantsHeat(input) THEN Capped(coldFor + d) ELSE 0
      /\ hotFor' = IF AtTarget(input) THEN Capped(hotFor + d) ELSE 0
  BY DEF Call
<1>7. \A n \in {onFor + d, offFor + d, coldFor + d, hotFor + d} :
        /\ Capped(n) \in 0..HISTORY_MAX
        /\ Capped(n) <= n
        /\ Capped(n) = n \/ Capped(n) = HISTORY_MAX
  <2>1. \A n \in {onFor + d, offFor + d, coldFor + d, hotFor + d} : n \in Nat
    BY <1>2
  <2> QED BY <2>1, CappedDuration
<1>8. override' \in BOOLEAN
  BY DEF Call, Permitted, ForcedOff, Input
<1> HIDE DEF d, since
<1>9. TimingTypeOK'
  BY <1>3, <1>4, <1>5, <1>6, <1>7, <1>8, ConstantsAreNumbers
     DEF TimingTypeOK, TypeOK
<1>10. TimerIsHonest'
  BY <1>1, <1>2, <1>3, <1>4, <1>5, <1>7, ConstantsAreNumbers
     DEF TimerIsHonest
<1>11. ~heaterOn' => /\ coldFor' <= secondsSinceSwitch'
                     /\ coldFor' < MIN_HEATER_OFF_SECONDS
  <2> SUFFICES ASSUME ~heaterOn', WantsHeat(input)
               PROVE  /\ coldFor' <= secondsSinceSwitch'
                      /\ coldFor' < MIN_HEATER_OFF_SECONDS
    BY <1>3, <1>4, <1>6, ConstantsAreNumbers
  <2>1. ~heaterOn
    BY <1>4, BandBelowTarget DEF NextHeater, WantsHeat
  <2>2. since < MIN_HEATER_OFF_SECONDS
    BY <1>3, <1>4, <2>1, ConstantsAreNumbers DEF NextHeater, WantsHeat
  <2> QED
    BY <1>1, <1>2, <1>3, <1>4, <1>6, <1>7, <2>1, <2>2, ConstantsAreNumbers
       DEF NobodyWaitsTooLong
<1>12. heaterOn' => /\ hotFor' <= secondsSinceSwitch'
                    /\ hotFor' < MIN_HEATER_ON_SECONDS
  <2> SUFFICES ASSUME heaterOn', AtTarget(input)
               PROVE  /\ hotFor' <= secondsSinceSwitch'
                      /\ hotFor' < MIN_HEATER_ON_SECONDS
    BY <1>3, <1>4, <1>6, ConstantsAreNumbers
  <2>1. heaterOn
    BY <1>4, BandBelowTarget DEF NextHeater
  <2>2. since < MIN_HEATER_ON_SECONDS
    BY <1>3, <1>4, <2>1, ConstantsAreNumbers DEF NextHeater
  <2> QED
    BY <1>1, <1>2, <1>3, <1>4, <1>6, <1>7, <2>1, <2>2, ConstantsAreNumbers
       DEF NobodyWaitsTooLong
<1> QED BY <1>9, <1>10, <1>11, <1>12 DEF RelayInv, NobodyWaitsTooLong

\* So do a reset and a stuttering step.
LEMMA NextKeepsRelayInv == RelayInv /\ [TimingNext]_timingVars => RelayInv'
<1> SUFFICES ASSUME RelayInv, [TimingNext]_timingVars PROVE RelayInv' OBVIOUS
<1>1. ASSUME NEW input \in Inputs, Call(input) PROVE RelayInv'
  BY <1>1, TimingAssumption, CallKeepsRelayInv
<1>2. CASE CallReset
  <2>1. offFor + 0 \in Nat /\ onFor + 0 \in Nat
    BY ConstantsAreNumbers DEF RelayInv, TimingTypeOK
  <2>2. Capped(offFor + 0) \in 0..HISTORY_MAX
    BY <2>1, CappedDuration
  <2>3. /\ heaterOn' = FALSE /\ secondsSinceSwitch' = 0
        /\ onFor' = 0 /\ offFor' = IF ~heaterOn THEN Capped(offFor + 0) ELSE 0
        /\ coldFor' = 0 /\ hotFor' = 0 /\ override' = TRUE
    BY <1>2 DEF CallReset, Reset, Record
  <2>4. TimingTypeOK'
    <3>1. 0 \in 0..TIMER_MAX /\ 0 \in 0..HISTORY_MAX
      BY ConstantsAreNumbers
    <3>2. offFor' \in 0..HISTORY_MAX
      BY <2>2, <2>3, <3>1
    <3> QED BY <2>3, <3>1, <3>2 DEF TimingTypeOK, TypeOK
  <2>5. TimerIsHonest'
    BY <2>2, <2>3, ConstantsAreNumbers DEF TimerIsHonest
  <2>6. NobodyWaitsTooLong'
    BY <2>3, ConstantsAreNumbers DEF NobodyWaitsTooLong
  <2> QED BY <2>4, <2>5, <2>6 DEF RelayInv
<1>3. CASE UNCHANGED timingVars
  BY <1>3 DEF timingVars, RelayInv, TimingTypeOK, TypeOK, TimerIsHonest,
              NobodyWaitsTooLong
<1> QED BY <1>1, <1>2, <1>3 DEF TimingNext

\* The strengthened invariant holds of the controller under arbitrary calls.
THEOREM RelaySpecInv == TimingSpec => []RelayInv
BY RelayStarts, NextKeepsRelayInv, PTL DEF TimingSpec

\* All variables keep their types, the 16-bit timer its range.
THEOREM TypeCorrect == TimingSpec => []TimingTypeOK
<1>1. RelayInv => TimingTypeOK
  BY DEF RelayInv
<1> QED BY <1>1, RelaySpecInv, PTL

\* A chamber that wants heat for the minimum off time is being heated.
THEOREM ColdChamber == TimingSpec => []ColdChamberIsHeated
<1>1. RelayInv => ColdChamberIsHeated
  BY ConstantsAreNumbers
     DEF RelayInv, NobodyWaitsTooLong, ColdChamberIsHeated, TimingTypeOK, TypeOK
<1> QED BY <1>1, RelaySpecInv, PTL

\* A chamber at its target for the minimum on time is no longer heated.
THEOREM HotChamber == TimingSpec => []HotChamberIsNotHeated
<1>1. RelayInv => HotChamberIsNotHeated
  BY ConstantsAreNumbers
     DEF RelayInv, NobodyWaitsTooLong, HotChamberIsNotHeated, TimingTypeOK, TypeOK
<1> QED BY <1>1, RelaySpecInv, PTL

\* The relay is on again only after it has been off for the minimum off time.
THEOREM OffLongEnough == TimingSpec => MinimumOffTime
<1> DEFINE A == ~heaterOn /\ heaterOn' =>
                  \E input \in Inputs :
                    /\ Call(input)
                    /\ offFor + input.deltaSeconds >= MIN_HEATER_OFF_SECONDS
<1>1. RelayInv /\ [TimingNext]_timingVars => [A]_timingVars
  <2> SUFFICES ASSUME RelayInv, TimingNext, ~heaterOn, heaterOn' PROVE A
    BY DEF timingVars
  <2>1. PICK input \in Inputs : Call(input)
    BY DEF TimingNext, CallReset, Reset
  <2>2. input \in Input /\ input.deltaSeconds \in Nat /\ TypeOK
    BY TimingAssumption DEF Input, RelayInv, TimingTypeOK
  <2>3. AdvancedTimer(input.deltaSeconds) >= MIN_HEATER_OFF_SECONDS
    BY <2>1, <2>2, CallDecides DEF NextHeater
  <2>4. offFor + input.deltaSeconds >= MIN_HEATER_OFF_SECONDS
    BY <2>2, <2>3, AdvancedTimerBounds, ConstantsAreNumbers
       DEF RelayInv, TimerIsHonest, TimingTypeOK, TypeOK
  <2> QED BY <2>1, <2>4
<1> QED BY <1>1, RelaySpecInv, PTL DEF TimingSpec, MinimumOffTime

\* The hysteresis switches the relay off only after the minimum on time.
THEOREM OnLongEnough == TimingSpec => MinimumOnTime
<1> DEFINE A == heaterOn /\ ~heaterOn' /\ ~override' =>
                  \E input \in Inputs :
                    /\ Call(input)
                    /\ onFor + input.deltaSeconds >= MIN_HEATER_ON_SECONDS
<1>1. RelayInv /\ [TimingNext]_timingVars => [A]_timingVars
  <2> SUFFICES ASSUME RelayInv, TimingNext, heaterOn, ~heaterOn', ~override' PROVE A
    BY DEF timingVars
  <2>1. PICK input \in Inputs : Call(input)
    BY DEF TimingNext, CallReset
  <2>2. input \in Input /\ input.deltaSeconds \in Nat /\ TypeOK
    BY TimingAssumption DEF Input, RelayInv, TimingTypeOK
  <2>3. Permitted(input) /\ ~ForcedOff(input)
    BY <2>1 DEF Call
  <2>4. AdvancedTimer(input.deltaSeconds) >= MIN_HEATER_ON_SECONDS
    BY <2>1, <2>2, <2>3, CallDecides DEF NextHeater
  <2>5. onFor + input.deltaSeconds >= MIN_HEATER_ON_SECONDS
    BY <2>2, <2>4, AdvancedTimerBounds, ConstantsAreNumbers
       DEF RelayInv, TimerIsHonest, TimingTypeOK, TypeOK
  <2> QED BY <2>1, <2>5
<1> QED BY <1>1, RelaySpecInv, PTL DEF TimingSpec, MinimumOnTime

------------------------------------------------------------------------------
(* The tasks and the encoder, for every set of tasks and intervals, every     *)
(* range of the clock that is longer than an interval and a pass, and every   *)
(* number of counts in a detent.                                              *)
(*                                                                            *)
(* A task sees only the difference of two readings of a clock that wraps.     *)
(* The invariant says what that difference stands for: since a task has run   *)
(* less time has passed than the clock takes to wrap, so that the difference, *)
(* taken modulo the range, is the time itself.                                *)

LoopTypeOK ==
  /\ millis \in 0..CLOCK_RANGE - 1
  /\ hasRun \subseteq Tasks /\ ran \subseteq Tasks
  /\ lastRunMs \in [Tasks -> 0..CLOCK_RANGE - 1]
  /\ age \in [Tasks -> Nat]
  /\ accumulatedDelta \in Int
  /\ step \in {-1, 0, 1}
  /\ travel \in [up : Nat, down : Nat]

\* The clock has wrapped at most once since the task has run.
AgeIsClockDifference ==
  \A task \in hasRun :
    /\ age[task] < CLOCK_RANGE
    /\ \/ age[task] = millis - lastRunMs[task]
       \/ age[task] = millis - lastRunMs[task] + CLOCK_RANGE

\* What the filter has accumulated, the encoder has really moved, and a step
\* leaves nothing over.
AccumulatedIsTravel ==
  /\ accumulatedDelta < COUNTS_PER_STEP /\ -COUNTS_PER_STEP < accumulatedDelta
  /\ accumulatedDelta > 0 => travel.up >= accumulatedDelta
  /\ accumulatedDelta < 0 => travel.down >= -accumulatedDelta
  /\ step # 0 => accumulatedDelta = 0

LoopInv ==
  /\ LoopTypeOK
  /\ AgeIsClockDifference
  /\ AccumulatedIsTravel
  /\ StepsAreDetents

------------------------------------------------------------------------------
(* The clock                                                                  *)

\* A number less than twice the range above or below zero wraps once at most.
LEMMA WrapsOnce ==
  ASSUME NEW c \in Nat, c > 0, NEW x \in Int, -c < x, x < 2 * c
  PROVE  x % c = IF x < 0 THEN x + c ELSE IF x < c THEN x ELSE x - c
<1> DEFINE q == x \div c
           r == x % c
<1>1. x = q * c + r /\ q \in Int /\ r \in 0..(c - 1)
  OBVIOUS
<1> HIDE DEF q, r
<1>2. \A n \in Int : n >= 2 => n * c >= 2 * c
  OBVIOUS
<1>3. \A n \in Int : n <= -2 => n * c <= -(2 * c)
  OBVIOUS
<1>4. q \in {-1, 0, 1}
  <2>1. q * c \in Int
    BY <1>1
  <2>2. ~(q >= 2)
    BY <1>1, <1>2, <2>1
  <2>3. ~(q <= -2)
    BY <1>1, <1>3, <2>1
  <2> QED BY <1>1, <2>2, <2>3
<1>5. r = x \/ r = x + c \/ r = x - c
  <2>1. CASE q = 0
    BY <1>1, <2>1
  <2>2. CASE q = 1
    BY <1>1, <2>2
  <2>3. CASE q = -1
    BY <1>1, <2>3
  <2> QED BY <1>4, <2>1, <2>2, <2>3
<1>6. r = IF x < 0 THEN x + c ELSE IF x < c THEN x ELSE x - c
  BY <1>1, <1>5
<1> QED BY <1>6 DEF r

\* A task is due just when its interval has really passed, wherever the clock
\* stands (shouldRun).
LEMMA DueByTheTime ==
  ASSUME LoopTypeOK, AgeIsClockDifference, NEW task \in Tasks
  PROVE  ShouldRun(task) <=> (task \in hasRun => age[task] >= IntervalMs[task])
<1> SUFFICES ASSUME task \in hasRun
             PROVE  (millis - lastRunMs[task]) % CLOCK_RANGE = age[task]
  BY DEF ShouldRun
<1> DEFINE c == CLOCK_RANGE
           d == millis - lastRunMs[task]
           a == age[task]
<1>1. /\ c \in Nat /\ c > 0 /\ d \in Int /\ -c < d /\ d < c
      /\ a \in Nat /\ a < c /\ (a = d \/ a = d + c)
  BY LoopTimingAssumption DEF LoopTypeOK, AgeIsClockDifference
<1> HIDE DEF c, d, a
<1>2. d % c = IF d < 0 THEN d + c ELSE IF d < c THEN d ELSE d - c
  <2>1. d < 2 * c
    BY <1>1
  <2> QED BY <1>1, <2>1, WrapsOnce
<1>3. d % c = a
  BY <1>1, <1>2
<1> QED BY <1>3 DEF c, d, a

\* A pass of the loop adds its time to the age of every task it has not run.
LEMMA PassKeepsClock ==
  ASSUME LoopTypeOK, AgeIsClockDifference, NEW ms \in 0..MAX_PASS_MS, Pass(ms)
  PROVE  /\ millis' \in 0..CLOCK_RANGE - 1
         /\ hasRun' \subseteq Tasks /\ ran' \subseteq Tasks
         /\ lastRunMs' \in [Tasks -> 0..CLOCK_RANGE - 1]
         /\ age' \in [Tasks -> Nat]
         /\ AgeIsClockDifference'
<1> DEFINE due == {task \in Tasks : ShouldRun(task)}
           c == CLOCK_RANGE
<1>1. /\ ran' = due /\ hasRun' = hasRun \cup due
      /\ lastRunMs' = [task \in Tasks |-> IF task \in due THEN millis ELSE lastRunMs[task]]
      /\ age' = [task \in Tasks |-> IF task \in due THEN ms ELSE age[task] + ms]
      /\ millis' = (millis + ms) % CLOCK_RANGE
  BY DEF Pass
<1>2. \A task \in hasRun \ due : age[task] < IntervalMs[task]
  <2> SUFFICES ASSUME NEW task \in hasRun \ due PROVE age[task] < IntervalMs[task]
    OBVIOUS
  <2>1. task \in Tasks /\ age[task] \in Nat /\ IntervalMs[task] \in Nat
    BY LoopTimingAssumption DEF LoopTypeOK
  <2> QED BY <2>1, DueByTheTime
<1> HIDE DEF due
<1>3. /\ c \in Nat /\ c > 0 /\ MAX_PASS_MS \in Nat
      /\ \A task \in Tasks : IntervalMs[task] \in Nat /\ IntervalMs[task] > 0
                             /\ IntervalMs[task] + MAX_PASS_MS <= c
  BY LoopTimingAssumption
<1>4. due \subseteq Tasks /\ hasRun \subseteq Tasks
  BY DEF due, LoopTypeOK
<1>5. millis \in Nat /\ millis < c /\ ms \in Nat /\ ms <= MAX_PASS_MS
  BY <1>3 DEF LoopTypeOK
<1>6. ASSUME NEW task \in Tasks
      PROVE  /\ lastRunMs'[task] \in 0..CLOCK_RANGE - 1
             /\ age'[task] \in Nat
             /\ lastRunMs'[task] = IF task \in due THEN millis ELSE lastRunMs[task]
             /\ age'[task] = IF task \in due THEN ms ELSE age[task] + ms
  <2>1. /\ lastRunMs'[task] = IF task \in due THEN millis ELSE lastRunMs[task]
        /\ age'[task] = IF task \in due THEN ms ELSE age[task] + ms
    BY <1>1
  <2> QED BY <1>5, <2>1 DEF LoopTypeOK
<1>7. CASE Tasks = {}
  <2>1. /\ hasRun' = {} /\ lastRunMs' \in [Tasks -> 0..CLOCK_RANGE - 1]
        /\ age' \in [Tasks -> Nat]
    BY <1>1, <1>4, <1>7
  <2> QED BY <1>7, LoopTimingAssumption
<1>8. CASE Tasks # {}
  <2>1. ms < c
    <3>1. PICK task \in Tasks : IntervalMs[task] > 0
      BY <1>3, <1>8
    <3> QED BY <1>3, <1>5, <3>1
  <2>2. millis' = IF millis + ms < c THEN millis + ms ELSE millis + ms - c
    <3> DEFINE x == millis + ms
    <3>1. x \in Int /\ -c < x /\ x < 2 * c /\ ~(x < 0)
      BY <1>3, <1>5, <2>1
    <3> HIDE DEF x
    <3>2. x % c = IF x < 0 THEN x + c ELSE IF x < c THEN x ELSE x - c
      BY <1>3, <3>1, WrapsOnce
    <3>3. x = millis + ms /\ millis' = x % c
      BY <1>1 DEF x
    <3> QED BY <1>3, <1>5, <3>1, <3>2, <3>3
  <2>3. millis' \in 0..CLOCK_RANGE - 1
    BY <1>3, <1>5, <2>1, <2>2
  <2>4. ASSUME NEW task \in hasRun'
        PROVE  /\ age'[task] < CLOCK_RANGE
               /\ \/ age'[task] = millis' - lastRunMs'[task]
                  \/ age'[task] = millis' - lastRunMs'[task] + CLOCK_RANGE
    <3>1. task \in Tasks
      BY <1>1, <1>4, <2>4
    <3>2. CASE task \in due
      <4>1. age'[task] = ms /\ lastRunMs'[task] = millis
        BY <1>6, <3>1, <3>2
      <4> QED BY <1>3, <1>5, <2>1, <2>2, <4>1
    <3>3. CASE task \notin due
      <4> DEFINE a == age[task]
                 l == lastRunMs[task]
                 i == IntervalMs[task]
      <4>1. age'[task] = a + ms /\ lastRunMs'[task] = l
        BY <1>6, <3>1, <3>3
      <4>2. task \in hasRun
        BY <1>1, <3>3
      <4>3. /\ a \in Nat /\ l \in Nat /\ l < c /\ i \in Nat /\ a < i /\ i + MAX_PASS_MS <= c
            /\ (a = millis - l \/ a = millis - l + c)
        BY <1>2, <1>3, <1>5, <3>1, <3>3, <4>2 DEF LoopTypeOK, AgeIsClockDifference
      <4> HIDE DEF a, l, i
      <4>4. a + ms < c
        BY <1>3, <1>5, <4>3
      <4>5. a + ms = millis' - l \/ a + ms = millis' - l + c
        BY <1>3, <1>5, <2>2, <4>3, <4>4
      <4> QED BY <4>1, <4>4, <4>5
    <3> QED BY <3>2, <3>3
  <2>5. lastRunMs' \in [Tasks -> 0..CLOCK_RANGE - 1] /\ age' \in [Tasks -> Nat]
    BY <1>1, <1>6
  <2> QED BY <1>1, <1>4, <2>3, <2>4, <2>5 DEF AgeIsClockDifference
<1> QED BY <1>7, <1>8

------------------------------------------------------------------------------
(* The filter                                                                 *)

\* What a scan adds to the accumulated counts the encoder has moved: no more
\* than the travel up from its lowest point and down from its highest one
\* since the last step (EncoderStepFilter::update).
LEMMA AccumulatedWithinTravel ==
  ASSUME LoopTypeOK, AccumulatedIsTravel,
         NEW counts \in -MAX_TRAVEL..MAX_TRAVEL, UpdateFilter(counts)
  PROVE  /\ travel' \in [up : Nat, down : Nat]
         /\ Accumulated(counts) \in Int
         /\ Accumulated(counts) > 0 => travel'.up >= Accumulated(counts)
         /\ Accumulated(counts) < 0 => travel'.down >= -Accumulated(counts)
<1> DEFINE n == COUNTS_PER_STEP
           a == accumulatedDelta
           u == IF step = 0 THEN travel.up ELSE 0
           d == IF step = 0 THEN travel.down ELSE 0
           acc == Accumulated(counts)
<1>1. counts \in Int /\ n \in Nat /\ n > 0 /\ a \in Int
  BY LoopTimingAssumption DEF LoopTypeOK
<1>2. u \in Nat /\ d \in Nat
  BY DEF LoopTypeOK
<1>3. (a > 0 => u >= a) /\ (a < 0 => d >= -a)
  BY <1>1, <1>2 DEF LoopTypeOK, AccumulatedIsTravel
<1>4. travel' = [up |-> Positive(u + counts), down |-> Positive(d - counts)]
  BY DEF UpdateFilter
<1> HIDE DEF u, d
<1>5. /\ Positive(u + counts) \in Nat /\ Positive(u + counts) >= u + counts
      /\ Positive(d - counts) \in Nat /\ Positive(d - counts) >= d - counts
  BY <1>1, <1>2 DEF Positive
<1>6. acc \in Int /\ (acc > 0 => u + counts >= acc) /\ (acc < 0 => d - counts >= -acc)
  <2>1. CASE counts > 0
    <3>1. Saturated(counts) \in Int /\ 0 < Saturated(counts) /\ Saturated(counts) <= counts
      BY <1>1, <2>1 DEF Saturated
    <3>2. acc = Saturated(counts) + IF a > 0 THEN a ELSE 0
      BY <1>1, <2>1 DEF Accumulated
    <3> QED BY <1>1, <1>2, <1>3, <2>1, <3>1, <3>2
  <2>2. CASE counts < 0
    <3>1. Saturated(-counts) \in Int /\ 0 < Saturated(-counts) /\ Saturated(-counts) <= -counts
      BY <1>1, <2>2 DEF Saturated
    <3>2. acc = -Saturated(-counts) + IF a < 0 THEN a ELSE 0
      BY <1>1, <2>2 DEF Accumulated
    <3> QED BY <1>1, <1>2, <1>3, <2>2, <3>1, <3>2
  <2>3. CASE counts = 0
    <3>1. acc = a
      BY <2>3 DEF Accumulated
    <3> QED BY <1>1, <1>2, <1>3, <2>3, <3>1
  <2> QED BY <1>1, <2>1, <2>2, <2>3
<1> HIDE DEF acc
<1>7. /\ travel'.up = Positive(u + counts) /\ travel'.down = Positive(d - counts)
      /\ travel' \in [up : Nat, down : Nat]
  BY <1>4, <1>5
<1>8. /\ acc > 0 => travel'.up >= acc
      /\ acc < 0 => travel'.down >= -acc
  BY <1>1, <1>2, <1>5, <1>6, <1>7
<1> QED BY <1>6, <1>7, <1>8 DEF acc

\* The filter keeps less than a detent, and nothing after a step; a step is
\* a detent the encoder has come.
LEMMA FilterCountsDetents ==
  ASSUME LoopTypeOK, AccumulatedIsTravel,
         NEW counts \in -MAX_TRAVEL..MAX_TRAVEL, UpdateFilter(counts)
  PROVE  /\ accumulatedDelta' \in Int /\ step' \in {-1, 0, 1}
         /\ travel' \in [up : Nat, down : Nat]
         /\ AccumulatedIsTravel'
         /\ StepsAreDetents'
<1> DEFINE n == COUNTS_PER_STEP
           acc == Accumulated(counts)
<1>1. n \in Nat /\ n > 0
  BY LoopTimingAssumption
<1>2. /\ travel' \in [up : Nat, down : Nat] /\ acc \in Int
      /\ acc > 0 => travel'.up >= acc
      /\ acc < 0 => travel'.down >= -acc
  BY AccumulatedWithinTravel
<1>3. step' = StepOf(acc) /\ accumulatedDelta' = Remainder(acc)
  BY DEF UpdateFilter
<1> HIDE DEF acc
<1>4. CASE acc >= n
  <2>1. step' = 1 /\ accumulatedDelta' = 0
    BY <1>1, <1>3, <1>4 DEF StepOf, Remainder
  <2> QED BY <1>1, <1>2, <1>4, <2>1 DEF AccumulatedIsTravel, StepsAreDetents
<1>5. CASE acc <= -n
  <2>1. step' = -1 /\ accumulatedDelta' = 0
    BY <1>1, <1>2, <1>3, <1>5 DEF StepOf, Remainder
  <2> QED BY <1>1, <1>2, <1>5, <2>1 DEF AccumulatedIsTravel, StepsAreDetents
<1>6. CASE acc < n /\ -n < acc
  <2>1. step' = 0 /\ accumulatedDelta' = acc
    BY <1>1, <1>2, <1>3, <1>6 DEF StepOf, Remainder
  <2> QED BY <1>1, <1>2, <1>6, <2>1 DEF AccumulatedIsTravel, StepsAreDetents
<1> QED BY <1>1, <1>2, <1>4, <1>5, <1>6

------------------------------------------------------------------------------
(* The invariant and the properties                                           *)

\* When the loop starts no task has run and the encoder has not moved.
LEMMA LoopStarts == LoopInit => LoopInv
BY LoopTimingAssumption
DEF LoopInit, LoopInv, LoopTypeOK, AgeIsClockDifference, AccumulatedIsTravel,
    StepsAreDetents

\* The invariant survives every pass, however long it blocks within the bound.
LEMMA PassKeepsLoopInv == LoopInv /\ [LoopNext]_loopVars => LoopInv'
<1> SUFFICES ASSUME LoopInv, [LoopNext]_loopVars PROVE LoopInv'
  OBVIOUS
<1>1. LoopTypeOK /\ AgeIsClockDifference /\ AccumulatedIsTravel /\ StepsAreDetents
  BY DEF LoopInv
<1>2. ASSUME NEW ms \in 0..MAX_PASS_MS, Pass(ms) PROVE LoopInv'
  <2>1. /\ millis' \in 0..CLOCK_RANGE - 1
        /\ hasRun' \subseteq Tasks /\ ran' \subseteq Tasks
        /\ lastRunMs' \in [Tasks -> 0..CLOCK_RANGE - 1]
        /\ age' \in [Tasks -> Nat]
        /\ AgeIsClockDifference'
    BY <1>1, <1>2, PassKeepsClock
  <2>2. /\ accumulatedDelta' \in Int /\ step' \in {-1, 0, 1}
        /\ travel' \in [up : Nat, down : Nat]
        /\ AccumulatedIsTravel'
        /\ StepsAreDetents'
    <3>1. \/ \E counts \in -MAX_TRAVEL..MAX_TRAVEL : UpdateFilter(counts)
          \/ UNCHANGED encoderVars
      BY <1>2 DEF Pass
    <3>2. CASE UNCHANGED encoderVars
      BY <1>1, <3>2 DEF encoderVars, LoopTypeOK, AccumulatedIsTravel, StepsAreDetents
    <3>3. ASSUME NEW counts \in -MAX_TRAVEL..MAX_TRAVEL, UpdateFilter(counts)
          PROVE  /\ accumulatedDelta' \in Int /\ step' \in {-1, 0, 1}
                 /\ travel' \in [up : Nat, down : Nat]
                 /\ AccumulatedIsTravel'
                 /\ StepsAreDetents'
      BY <1>1, <3>3, FilterCountsDetents
    <3> QED BY <3>1, <3>2, <3>3
  <2> QED BY <2>1, <2>2 DEF LoopInv, LoopTypeOK
<1>3. CASE UNCHANGED loopVars
  BY <1>1, <1>3
  DEF loopVars, encoderVars, LoopInv, LoopTypeOK, AgeIsClockDifference, AccumulatedIsTravel,
      StepsAreDetents
<1> QED BY <1>2, <1>3 DEF LoopNext

\* The invariant holds in every state of the loop.
THEOREM LoopSpecInv == LoopSpec => []LoopInv
<1>1. LoopInit => LoopInv
  BY LoopStarts
<1>2. LoopInv /\ [LoopNext]_loopVars => LoopInv'
  BY PassKeepsLoopInv
<1> QED BY <1>1, <1>2, PTL DEF LoopSpec

\* However a contact bounces and however many scans are missed, a step in a
\* direction means that the encoder has come a detent in that direction.
THEOREM StepsComeFromDetents == LoopSpec => []StepsAreDetents
<1>1. LoopInv => StepsAreDetents
  BY DEF LoopInv
<1> QED BY <1>1, LoopSpecInv, PTL

\* Every task keeps its interval, also across the wrap of the clock: a pass
\* runs it just when its interval has passed.
THEOREM TasksAreOnTime == LoopSpec => TasksKeepTheirIntervals
<1> DEFINE OnTime == \A task \in hasRun :
                       /\ task \in ran' => age[task] >= IntervalMs[task]
                       /\ task \notin ran' => age[task] < IntervalMs[task]
<1>1. LoopInv /\ [LoopNext]_loopVars => [OnTime]_loopVars
  <2> SUFFICES ASSUME LoopInv, NEW ms \in 0..MAX_PASS_MS, Pass(ms), NEW task \in hasRun
               PROVE  /\ task \in ran' => age[task] >= IntervalMs[task]
                      /\ task \notin ran' => age[task] < IntervalMs[task]
    BY DEF LoopNext
  <2>1. task \in Tasks /\ age[task] \in Nat /\ IntervalMs[task] \in Nat
    BY LoopTimingAssumption DEF LoopInv, LoopTypeOK
  <2>2. ShouldRun(task) <=> age[task] >= IntervalMs[task]
    BY <2>1, DueByTheTime DEF LoopInv
  <2>3. task \in ran' <=> ShouldRun(task)
    BY <2>1 DEF Pass
  <2> QED BY <2>1, <2>2, <2>3
<1> QED BY <1>1, LoopSpecInv, PTL DEF LoopSpec, TasksKeepTheirIntervals

------------------------------------------------------------------------------
(* The fault detector, for all limits, temperatures and times between two     *)
(* updates.                                                                   *)
(*                                                                            *)
(* The histories of the properties look at all the readings, the detector     *)
(* keeps one of them: the invariant says which one, and how far the two       *)
(* counts of time can be apart.                                               *)

Tracking == [active : BOOLEAN, baseline : Int, seconds : Nat]

DetectorTypeOK ==
  /\ noRise \in Tracking /\ stuck \in Tracking
  /\ heaterWasCommandedOn \in BOOLEAN
  /\ heaterOffSeconds \in 0..UINT_MAX
  /\ flat \in [seconds : Nat, lowest : Int]
  /\ cooling \in [seconds : 0..UINT_MAX, readings : SUBSET [age : Nat, temp : Int]]

\* While the baseline is not above the lowest reading the detector has counted
\* all the flat heating.  Once it is above, every rise it sees is a rise of the
\* history as well: its window has started over once, in the middle of the
\* flat heating, and not again.
WindowCoversFlat ==
  latchedCode = "None" =>
    \/ ~noRise.active /\ flat.seconds = 0 /\ flat.lowest = NTC_MAX_VALID
    \/ /\ noRise.active /\ noRise.seconds < NO_RISE_WINDOW
       /\ \/ noRise.baseline < flat.lowest /\ flat.seconds <= noRise.seconds
          \/ /\ noRise.baseline >= flat.lowest
             /\ \E delta \in Deltas :
                  flat.seconds <= noRise.seconds + NO_RISE_WINDOW + delta

\* While no fault is latched the baseline of the monitoring is a reading of
\* this cooling, as old as the time monitored.
BaselineIsReading ==
  latchedCode = "None" =>
    /\ heaterWasCommandedOn => heaterOffSeconds = cooling.seconds
    /\ stuck.active =>
         /\ heaterWasCommandedOn /\ heaterOffSeconds >= STUCK_HEATER_GRACE
         /\ stuck.seconds < STUCK_HEATER_WINDOW
         /\ [age |-> stuck.seconds, temp |-> stuck.baseline] \in cooling.readings

DetectorInv ==
  /\ DetectorTypeOK
  /\ WindowCoversFlat
  /\ BaselineIsReading
  /\ StuckSuspicionIsFounded

------------------------------------------------------------------------------
(* The counters and the types                                                 *)

\* Below its limit a counter holds the true sum (saturatingAdd).
LEMMA CountsUpToLimit ==
  ASSUME NEW value \in 0..UINT_MAX, NEW increment \in Nat
  PROVE  /\ SaturatingAdd(value, increment) \in 0..UINT_MAX
         /\ SaturatingAdd(value, increment) >= value
         /\ SaturatingAdd(value, increment) < UINT_MAX =>
              SaturatingAdd(value, increment) = value + increment
BY LimitsAssumption DEF SaturatingAdd

\* The same for a counter that a window is compared with; the window is below
\* the limit of the counter.
LEMMA CountsUpToWindow ==
  ASSUME NEW value \in Nat, NEW increment \in Nat
  PROVE  /\ SaturatingAdd(value, increment) \in Nat
         /\ SaturatingAdd(value, increment) < UINT_MAX =>
              SaturatingAdd(value, increment) = value + increment
BY LimitsAssumption DEF SaturatingAdd

\* A tracking that only counts keeps its baseline.
LEMMA CountedFurther ==
  ASSUME NEW r \in Tracking, r.active, NEW n \in Nat
  PROVE  /\ [r EXCEPT !.seconds = n].active
         /\ [r EXCEPT !.seconds = n].baseline = r.baseline
         /\ [r EXCEPT !.seconds = n].seconds = n
BY DEF Tracking

\* The limits are numbers below the largest a counter holds.
LEMMA DetectorLimits ==
  /\ UINT_MAX \in Nat /\ NO_RISE_MIN_INCREASE \in Nat /\ STUCK_HEATER_RISE \in Nat
  /\ NO_RISE_MIN_INCREASE > 0 /\ STUCK_HEATER_RISE > 0
  /\ NO_RISE_WINDOW \in Nat /\ NO_RISE_WINDOW > 0 /\ NO_RISE_WINDOW < UINT_MAX
  /\ STUCK_HEATER_GRACE \in Nat /\ STUCK_HEATER_GRACE > 0 /\ STUCK_HEATER_GRACE < UINT_MAX
  /\ STUCK_HEATER_WINDOW \in Nat /\ STUCK_HEATER_WINDOW > 0
  /\ STUCK_HEATER_WINDOW < UINT_MAX
  /\ NTC_MIN_VALID \in Int /\ NTC_MAX_VALID \in Int
BY LimitsAssumption

\* What a reading and the time since the last one are.
LEMMA InputTypes ==
  ASSUME NEW in \in DetectorInputs
  PROVE  /\ in.temp \in Int /\ in.delta \in Nat /\ in.delta \in Deltas
         /\ in.heaterOn \in BOOLEAN
BY LimitsAssumption DEF DetectorInputs

\* One update of the two detectors keeps the types they use.
LEMMA TrackingTypes ==
  ASSUME DetectorTypeOK, NEW in \in DetectorInputs
  PROVE  /\ NoRiseAfter(in) \in Tracking
         /\ UpdateStuckHeater(in) =>
              /\ stuck' \in Tracking /\ heaterWasCommandedOn' \in BOOLEAN
              /\ heaterOffSeconds' \in 0..UINT_MAX
<1>1. in.temp \in Int /\ in.delta \in Nat
  BY InputTypes
<1>2. NoRiseAfter(in) \in Tracking
  <2> DEFINE start == IF noRise.active THEN noRise
                      ELSE [active |-> TRUE, baseline |-> in.temp, seconds |-> 0]
  <2>1. start \in Tracking
    BY <1>1 DEF DetectorTypeOK, Tracking
  <2>2. SaturatingAdd(start.seconds, in.delta) \in Nat
    <3>1. start.seconds \in Nat
      BY <2>1 DEF Tracking
    <3> QED BY <1>1, <3>1, CountsUpToWindow
  <2>3. NoRiseAfter(in) =
          IF ~in.heaterOn THEN noRise
          ELSE IF in.temp >= start.baseline + NO_RISE_MIN_INCREASE
          THEN [active |-> TRUE, baseline |-> in.temp, seconds |-> 0]
          ELSE [start EXCEPT !.seconds = SaturatingAdd(@, in.delta)]
    BY DEF NoRiseAfter
  <2> HIDE DEF start
  <2>4. [start EXCEPT !.seconds = SaturatingAdd(@, in.delta)] \in Tracking
    BY <2>1, <2>2 DEF Tracking
  <2>5. [active |-> TRUE, baseline |-> in.temp, seconds |-> 0] \in Tracking
    BY <1>1 DEF Tracking
  <2>6. noRise \in Tracking
    BY DEF DetectorTypeOK
  <2> QED BY <2>3, <2>4, <2>5, <2>6
<1>3. ASSUME UpdateStuckHeater(in)
      PROVE  /\ stuck' \in Tracking /\ heaterWasCommandedOn' \in BOOLEAN
             /\ heaterOffSeconds' \in 0..UINT_MAX
  <2>1. CASE in.heaterOn
    <3>1. heaterWasCommandedOn' = TRUE /\ heaterOffSeconds' = 0 /\ stuck' = MonitoringEnded
      BY <1>3, <2>1 DEF UpdateStuckHeater
    <3>2. MonitoringEnded \in Tracking
      BY DEF MonitoringEnded, DetectorTypeOK, Tracking
    <3> QED BY <3>1, <3>2, DetectorLimits
  <2>2. CASE ~in.heaterOn /\ ~heaterWasCommandedOn
    BY <1>3, <2>2 DEF UpdateStuckHeater, heaterVars, DetectorTypeOK
  <2>3. CASE ~in.heaterOn /\ heaterWasCommandedOn
    <3>1. /\ heaterOffSeconds' = SaturatingAdd(heaterOffSeconds, in.delta)
          /\ UNCHANGED stuck \/ Monitor(in)
          /\ UNCHANGED heaterWasCommandedOn
      BY <1>3, <2>3 DEF UpdateStuckHeater
    <3>2. heaterOffSeconds' \in 0..UINT_MAX
      BY <1>1, <3>1, CountsUpToLimit DEF DetectorTypeOK
    <3>3. ASSUME Monitor(in) PROVE stuck' \in Tracking
      <4> DEFINE seconds == SaturatingAdd(stuck.seconds, in.delta)
      <4>1. seconds \in Nat
        BY <1>1, CountsUpToWindow DEF DetectorTypeOK, Tracking
      <4>2. stuck' \in {[active |-> TRUE, baseline |-> in.temp, seconds |-> 0],
                        [stuck EXCEPT !.seconds = seconds]}
        BY <3>3 DEF Monitor
      <4> HIDE DEF seconds
      <4>3. [active |-> TRUE, baseline |-> in.temp, seconds |-> 0] \in Tracking
        BY <1>1 DEF Tracking
      <4>4. [stuck EXCEPT !.seconds = seconds] \in Tracking
        BY <4>1 DEF DetectorTypeOK, Tracking
      <4> QED BY <4>2, <4>3, <4>4
    <3> QED BY <3>1, <3>2, <3>3 DEF DetectorTypeOK
  <2> QED BY <1>3, <2>1, <2>2, <2>3 DEF UpdateStuckHeater
<1> QED BY <1>2, <1>3

\* An update keeps the types.
LEMMA UpdateKeepsTypes ==
  ASSUME DetectorTypeOK, NEW in \in DetectorInputs, UpdateDetector(in)
  PROVE  DetectorTypeOK'
<1>1. in.temp \in Int /\ in.delta \in Nat
  BY InputTypes
<1>2. /\ noRise' \in Tracking /\ stuck' \in Tracking
      /\ heaterWasCommandedOn' \in BOOLEAN /\ heaterOffSeconds' \in 0..UINT_MAX
  <2>1. /\ noRise' \in {noRise, NoRiseAfter(in)}
        /\ UNCHANGED heaterVars \/ UpdateStuckHeater(in)
    BY DEF UpdateDetector
  <2> QED BY <2>1, TrackingTypes DEF DetectorTypeOK, heaterVars
<1>3. flat' \in [seconds : Nat, lowest : Int]
  BY <1>1 DEF UpdateDetector, Remember, DetectorTypeOK
<1>4. cooling' \in [seconds : 0..UINT_MAX, readings : SUBSET [age : Nat, temp : Int]]
  <2>1. CASE in.heaterOn
    BY <2>1, DetectorLimits DEF UpdateDetector, Remember
  <2>2. CASE ~in.heaterOn
    <3> DEFINE off  == SaturatingAdd(cooling.seconds, in.delta)
               aged == {[r EXCEPT !.age = @ + in.delta] : r \in cooling.readings}
               kept == {r \in aged : r.age <= STUCK_HEATER_WINDOW}
               new  == IF off < STUCK_HEATER_GRACE THEN {} ELSE {[age |-> 0, temp |-> in.temp]}
    <3>1. cooling' = [seconds |-> off, readings |-> kept \cup new]
      BY <2>2 DEF UpdateDetector, Remember
    <3>2. off \in 0..UINT_MAX
      BY <1>1, CountsUpToLimit DEF DetectorTypeOK
    <3>3. aged \subseteq [age : Nat, temp : Int]
      BY <1>1 DEF DetectorTypeOK
    <3>4. new \subseteq [age : Nat, temp : Int]
      BY <1>1
    <3> HIDE DEF off, aged, new
    <3> QED BY <3>1, <3>2, <3>3, <3>4
  <2> QED BY <2>1, <2>2, InputTypes
<1> QED BY <1>2, <1>3, <1>4 DEF DetectorTypeOK

------------------------------------------------------------------------------
(* The detectors                                                              *)

\* An update that latches nothing has seen a usable reading and has asked all
\* the detectors.
LEMMA QuietUpdate ==
  ASSUME NEW in \in DetectorInputs, UpdateDetector(in), latchedCode' = "None"
  PROVE  /\ in.temp <= NTC_MAX_VALID
         /\ noRise' = NoRiseAfter(in) /\ ~IsNotRising(in)
         /\ UpdateStuckHeater(in) /\ latchedCode = "None"
<1>1. ImmediateFault(in) = "None"
  BY DEF UpdateDetector
<1>2. IsNtcUsable(in)
  BY <1>1 DEF ImmediateFault
<1>3. in.temp <= NTC_MAX_VALID
  BY <1>2, InputTypes, DetectorLimits DEF IsNtcUsable
<1> QED BY <1>1, <1>3 DEF UpdateDetector

\* The window of the detector covers the flat heating after the update, too.
LEMMA UpdateKeepsWindow ==
  ASSUME DetectorTypeOK, WindowCoversFlat, NEW in \in DetectorInputs, UpdateDetector(in)
  PROVE  WindowCoversFlat'
<1> SUFFICES ASSUME latchedCode' = "None"
             PROVE  \/ ~noRise'.active /\ flat'.seconds = 0 /\ flat'.lowest = NTC_MAX_VALID
                    \/ /\ noRise'.active /\ noRise'.seconds < NO_RISE_WINDOW
                       /\ \/ /\ noRise'.baseline < flat'.lowest
                             /\ flat'.seconds <= noRise'.seconds
                          \/ /\ noRise'.baseline >= flat'.lowest
                             /\ \E delta \in Deltas :
                                  flat'.seconds <= noRise'.seconds + NO_RISE_WINDOW + delta
  BY DEF WindowCoversFlat
<1> DEFINE d == in.delta
           t == in.temp
           w == NO_RISE_WINDOW
           inc == NO_RISE_MIN_INCREASE
<1>1. /\ t <= NTC_MAX_VALID /\ noRise' = NoRiseAfter(in) /\ ~IsNotRising(in)
      /\ latchedCode = "None"
  BY QuietUpdate
<1>2. /\ t \in Int /\ d \in Nat /\ d \in Deltas /\ inc \in Nat /\ inc > 0
      /\ w \in Nat /\ w > 0 /\ w < UINT_MAX /\ UINT_MAX \in Nat /\ NTC_MAX_VALID \in Int
  BY InputTypes, DetectorLimits
<1>3. flat' = IF ~in.heaterOn THEN flat
              ELSE IF t >= flat.lowest + inc THEN [seconds |-> 0, lowest |-> t]
              ELSE [seconds |-> flat.seconds + d,
                    lowest  |-> IF t < flat.lowest THEN t ELSE flat.lowest]
  BY DEF UpdateDetector, Remember
<1>4. CASE ~in.heaterOn
  BY <1>1, <1>3, <1>4 DEF NoRiseAfter, WindowCoversFlat
<1>5. CASE in.heaterOn
  <2> DEFINE start == IF noRise.active THEN noRise
                      ELSE [active |-> TRUE, baseline |-> t, seconds |-> 0]
             b == start.baseline
             s == start.seconds
             f == flat.seconds
             l == flat.lowest
  <2>1. start.active /\ b \in Int /\ s \in Nat /\ f \in Nat /\ l \in Int
    BY <1>2 DEF DetectorTypeOK, Tracking
  <2>2. \/ b < l /\ f <= s /\ s < w
        \/ b >= l /\ s < w /\ \E delta \in Deltas : f <= s + w + delta
        \/ f = 0 /\ s = 0 /\ b = t
    BY <1>1, <1>2 DEF WindowCoversFlat, DetectorTypeOK, Tracking
  <2>3. /\ noRise'.active
        /\ t >= b + inc => noRise'.baseline = t /\ noRise'.seconds = 0
        /\ ~(t >= b + inc) => noRise'.baseline = b /\ noRise'.seconds = SaturatingAdd(s, d)
    <3>1. NoRiseAfter(in) =
            IF t >= b + inc THEN [active |-> TRUE, baseline |-> t, seconds |-> 0]
            ELSE [start EXCEPT !.seconds = SaturatingAdd(s, d)]
      BY <1>5 DEF NoRiseAfter
    <3>2. start \in Tracking /\ start.active /\ SaturatingAdd(s, d) \in Nat
      BY <1>2, <2>1, CountsUpToWindow DEF DetectorTypeOK, Tracking
    <3> QED BY <1>1, <3>1, <3>2, CountedFurther
  <2>4. noRise'.seconds < w
    <3>1. ~(NoRiseAfter(in).seconds >= w)
      BY <1>1, <1>5 DEF IsNotRising
    <3>2. noRise'.seconds \in Nat
      BY <1>1, TrackingTypes DEF Tracking
    <3> QED BY <1>1, <1>2, <3>1, <3>2
  <2> HIDE DEF start, b, s, f, l
  <2>5. SaturatingAdd(s, d) \in Nat /\ (SaturatingAdd(s, d) < UINT_MAX => SaturatingAdd(s, d) = s + d)
    BY <1>2, <2>1, CountsUpToWindow
  <2>6. flat' = IF t >= l + inc THEN [seconds |-> 0, lowest |-> t]
                ELSE [seconds |-> f + d, lowest |-> IF t < l THEN t ELSE l]
    BY <1>3, <1>5 DEF f, l
  <2>7. CASE t >= b + inc
    <3>1. noRise'.active /\ noRise'.baseline = t /\ noRise'.seconds = 0
      BY <2>3, <2>7
    <3>2. flat'.lowest <= t /\ flat'.seconds <= w + d
      BY <1>2, <2>1, <2>2, <2>6, <2>7
    <3>3. flat'.lowest \in Int /\ flat'.seconds \in Nat
      BY <1>2, <2>1, <2>6
    <3>4. flat'.seconds <= noRise'.seconds + w + d
      BY <1>2, <3>1, <3>2, <3>3
    <3> QED BY <1>2, <2>4, <3>1, <3>2, <3>3, <3>4
  <2>8. CASE ~(t >= b + inc)
    <3>1. noRise'.active /\ noRise'.baseline = b /\ noRise'.seconds = SaturatingAdd(s, d)
      BY <2>3, <2>8
    <3>2. noRise'.seconds = s + d
      BY <1>2, <2>4, <2>5, <3>1
    <3>3. flat'.lowest \in Int /\ flat'.seconds \in Nat
      BY <1>2, <2>1, <2>6
    <3>4. CASE t >= l + inc
      <4>1. flat'.seconds = 0
        BY <2>6, <3>4
      <4> QED BY <1>2, <2>1, <2>4, <3>1, <3>2, <3>3, <4>1
    <3>5. CASE ~(t >= l + inc)
      <4>1. flat'.seconds = f + d /\ flat'.lowest <= l /\ flat'.lowest <= t
        BY <1>2, <2>1, <2>6, <3>5
      <4>2. CASE f <= s
        <5>1. flat'.seconds <= noRise'.seconds
          BY <1>2, <2>1, <3>2, <4>1, <4>2
        <5>2. flat'.seconds <= noRise'.seconds + w + d
          BY <1>2, <2>1, <3>2, <3>3, <5>1
        <5> QED BY <1>2, <2>1, <2>4, <3>1, <3>3, <5>1, <5>2
      <4>3. CASE b >= l /\ \E delta \in Deltas : f <= s + w + delta
        <5>1. PICK delta \in Deltas : f <= s + w + delta
          BY <4>3
        <5>2. delta \in Nat
          BY LimitsAssumption
        <5>3. flat'.seconds <= noRise'.seconds + w + delta
          BY <1>2, <2>1, <3>2, <4>1, <5>1, <5>2
        <5>4. noRise'.baseline >= flat'.lowest
          BY <2>1, <3>1, <3>3, <4>1, <4>3
        <5> QED BY <2>4, <3>1, <5>3, <5>4
      <4> QED BY <1>2, <2>1, <2>2, <4>2, <4>3
    <3> QED BY <3>4, <3>5
  <2> QED BY <2>7, <2>8
<1> QED BY <1>4, <1>5, InputTypes

\* The baseline of the monitoring stays a reading of the cooling after the
\* update, and a suspicion is founded on it.
LEMMA UpdateKeepsBaseline ==
  ASSUME DetectorTypeOK, BaselineIsReading, NEW in \in DetectorInputs, UpdateDetector(in)
  PROVE  BaselineIsReading' /\ StuckSuspicionIsFounded'
<1> DEFINE d == in.delta
           t == in.temp
           off == SaturatingAdd(cooling.seconds, d)
           aged == {[r EXCEPT !.age = @ + d] : r \in cooling.readings}
           seconds == SaturatingAdd(stuck.seconds, d)
<1>1. t \in Int /\ d \in Nat /\ in.heaterOn \in BOOLEAN
  BY InputTypes
<1>2. latchedCode = "None"
  BY DEF UpdateDetector
<1>3. cooling' = IF in.heaterOn THEN [seconds |-> 0, readings |-> {}]
                 ELSE [seconds  |-> off,
                       readings |-> {r \in aged : r.age <= STUCK_HEATER_WINDOW} \cup
                         (IF off < STUCK_HEATER_GRACE THEN {}
                          ELSE {[age |-> 0, temp |-> t]})]
  BY DEF UpdateDetector, Remember
<1>4. UpdateStuckHeater(in) \/ latchedCode' \notin {"None", "HeaterStuckOnSuspected"}
  <2>1. ImmediateFault(in) # "HeaterStuckOnSuspected"
    BY DEF ImmediateFault
  <2> QED BY <2>1 DEF UpdateDetector
<1>5. CASE latchedCode' \notin {"None", "HeaterStuckOnSuspected"}
  BY <1>5 DEF BaselineIsReading, StuckSuspicionIsFounded
<1>6. CASE UpdateStuckHeater(in) /\ in.heaterOn
  <2>1. latchedCode' = "None" /\ heaterOffSeconds' = 0 /\ stuck' = MonitoringEnded
    BY <1>2, <1>6 DEF UpdateStuckHeater
  <2>2. ~stuck'.active
    BY <2>1 DEF MonitoringEnded, DetectorTypeOK, Tracking
  <2>3. cooling'.seconds = 0
    BY <1>3, <1>6
  <2> QED BY <2>1, <2>2, <2>3 DEF BaselineIsReading, StuckSuspicionIsFounded
<1>7. CASE UpdateStuckHeater(in) /\ ~in.heaterOn /\ ~heaterWasCommandedOn
  BY <1>2, <1>7 DEF UpdateStuckHeater, heaterVars, BaselineIsReading, StuckSuspicionIsFounded
<1>8. CASE UpdateStuckHeater(in) /\ ~in.heaterOn /\ heaterWasCommandedOn
  <2>1. /\ heaterOffSeconds' = off /\ cooling'.seconds = off /\ heaterWasCommandedOn'
        /\ heaterOffSeconds = cooling.seconds
        /\ cooling'.readings = {r \in aged : r.age <= STUCK_HEATER_WINDOW} \cup
             (IF off < STUCK_HEATER_GRACE THEN {} ELSE {[age |-> 0, temp |-> t]})
    BY <1>2, <1>3, <1>8 DEF UpdateStuckHeater, BaselineIsReading
  <2>2. off \in 0..UINT_MAX /\ off >= heaterOffSeconds
    BY <1>1, <2>1, CountsUpToLimit DEF DetectorTypeOK
  <2>3. stuck.active => [age |-> stuck.seconds + d, temp |-> stuck.baseline] \in aged
    <3> SUFFICES ASSUME stuck.active
                 PROVE  [age |-> stuck.seconds + d, temp |-> stuck.baseline] \in aged
      OBVIOUS
    <3> DEFINE r == [age |-> stuck.seconds, temp |-> stuck.baseline]
    <3>1. r \in cooling.readings
      BY <1>2 DEF BaselineIsReading
    <3>2. [r EXCEPT !.age = @ + d] = [age |-> stuck.seconds + d, temp |-> stuck.baseline]
      OBVIOUS
    <3> HIDE DEF r
    <3> QED BY <3>1, <3>2
  <2>4. /\ seconds \in Nat /\ stuck.seconds \in Nat
        /\ seconds <= STUCK_HEATER_WINDOW => seconds = stuck.seconds + d
    <3>1. stuck.seconds \in Nat
      BY DEF DetectorTypeOK, Tracking
    <3>2. seconds \in Nat /\ (seconds < UINT_MAX => seconds = stuck.seconds + d)
      BY <1>1, <3>1, CountsUpToWindow
    <3> HIDE DEF seconds
    <3> QED BY <3>1, <3>2, DetectorLimits
  <2> HIDE DEF off, aged, seconds
  <2>5. CASE off < STUCK_HEATER_GRACE
    <3>1. UNCHANGED <<latchedCode, stuck>>
      BY <1>8, <2>1, <2>5 DEF UpdateStuckHeater
    <3>2. ~stuck.active
      BY <1>2, <2>1, <2>2, <2>5, DetectorLimits DEF BaselineIsReading, DetectorTypeOK
    <3> QED BY <1>2, <2>1, <3>1, <3>2 DEF BaselineIsReading, StuckSuspicionIsFounded
  <2>6. CASE ~(off < STUCK_HEATER_GRACE)
    <3>1. Monitor(in)
      BY <1>8, <2>1, <2>6 DEF UpdateStuckHeater
    <3>2. /\ [age |-> 0, temp |-> t] \in cooling'.readings
          /\ off >= STUCK_HEATER_GRACE
      BY <2>1, <2>2, <2>6, DetectorLimits
    <3>3. stuck.active /\ seconds <= STUCK_HEATER_WINDOW =>
            [age |-> seconds, temp |-> stuck.baseline] \in cooling'.readings
      BY <2>1, <2>3, <2>4
    <3>4. CASE /\ stuck.active
               /\ t >= stuck.baseline + STUCK_HEATER_RISE /\ seconds <= STUCK_HEATER_WINDOW
      <4>1. latchedCode' = "HeaterStuckOnSuspected"
        BY <3>1, <3>4 DEF Monitor, seconds
      <4> DEFINE old == [age |-> seconds, temp |-> stuck.baseline]
                 new == [age |-> 0, temp |-> t]
      <4>2. /\ old \in cooling'.readings /\ new \in cooling'.readings
            /\ new.age = 0 /\ new.temp >= old.temp + STUCK_HEATER_RISE
        BY <3>2, <3>3, <3>4
      <4>3. StuckSuspicionIsFounded'
        BY <4>2 DEF StuckSuspicionIsFounded
      <4> QED BY <4>1, <4>3 DEF BaselineIsReading
    <3>5. ASSUME ~(/\ stuck.active
                   /\ t >= stuck.baseline + STUCK_HEATER_RISE
                   /\ seconds <= STUCK_HEATER_WINDOW)
          PROVE  BaselineIsReading' /\ StuckSuspicionIsFounded'
      <4>1. /\ latchedCode' = "None"
            /\ \/ stuck' = [active |-> TRUE, baseline |-> t, seconds |-> 0]
               \/ /\ stuck.active /\ ~(seconds >= STUCK_HEATER_WINDOW)
                  /\ stuck' = [stuck EXCEPT !.seconds = seconds]
        BY <1>2, <3>1, <3>5 DEF Monitor, seconds
      <4>2. /\ stuck'.active => stuck'.seconds < STUCK_HEATER_WINDOW
            /\ [age |-> stuck'.seconds, temp |-> stuck'.baseline] \in cooling'.readings
        <5>1. CASE stuck' = [active |-> TRUE, baseline |-> t, seconds |-> 0]
          BY <3>2, <5>1, DetectorLimits
        <5>2. CASE /\ stuck.active /\ ~(seconds >= STUCK_HEATER_WINDOW)
                   /\ stuck' = [stuck EXCEPT !.seconds = seconds]
          <6>1. stuck'.baseline = stuck.baseline /\ stuck'.seconds = seconds
            BY <2>4, <5>2, CountedFurther DEF DetectorTypeOK
          <6> QED BY <2>4, <3>3, <5>2, <6>1, DetectorLimits
        <5> QED BY <4>1, <5>1, <5>2
      <4> QED BY <2>1, <3>2, <4>1, <4>2 DEF BaselineIsReading, StuckSuspicionIsFounded
    <3> QED BY <3>4, <3>5
  <2> QED BY <2>5, <2>6
<1> QED BY <1>1, <1>4, <1>5, <1>6, <1>7, <1>8

------------------------------------------------------------------------------
(* The invariant and the properties                                           *)

\* Nothing is tracked at the start, nor after a reset.
LEMMA FreshDetector ==
  /\ DetectorInit => DetectorInv
  /\ ResetDetector => DetectorInv'
<1>1. NotTracking \in Tracking /\ ~NotTracking.active
  BY DEF NotTracking, Tracking
<1>2. [seconds |-> 0, lowest |-> NTC_MAX_VALID] \in [seconds : Nat, lowest : Int]
  BY DetectorLimits
<1>3. [seconds |-> 0, readings |-> {}]
        \in [seconds : 0..UINT_MAX, readings : SUBSET [age : Nat, temp : Int]]
  BY DetectorLimits
<1>4. ASSUME DetectorInit PROVE DetectorInv
  <2>1. DetectorTypeOK
    BY <1>1, <1>2, <1>3, <1>4, DetectorLimits DEF DetectorInit, DetectorTypeOK
  <2>2. WindowCoversFlat /\ BaselineIsReading /\ StuckSuspicionIsFounded
    BY <1>1, <1>4 DEF DetectorInit, WindowCoversFlat, BaselineIsReading, StuckSuspicionIsFounded
  <2> QED BY <2>1, <2>2 DEF DetectorInv
<1>5. ASSUME ResetDetector PROVE DetectorInv'
  <2>1. DetectorTypeOK'
    <3>1. heaterWasCommandedOn' \in BOOLEAN
      BY <1>5 DEF ResetDetector
    <3> QED BY <1>1, <1>2, <1>3, <1>5, <3>1, DetectorLimits DEF ResetDetector, DetectorTypeOK
  <2>2. (WindowCoversFlat /\ BaselineIsReading /\ StuckSuspicionIsFounded)'
    BY <1>1, <1>5 DEF ResetDetector, WindowCoversFlat, BaselineIsReading, StuckSuspicionIsFounded
  <2> QED BY <2>1, <2>2 DEF DetectorInv
<1> QED BY <1>4, <1>5

\* The invariant survives every update and every reset.
LEMMA NextKeepsDetectorInv == DetectorInv /\ [DetectorNext]_detectorVars => DetectorInv'
<1> SUFFICES ASSUME DetectorInv, [DetectorNext]_detectorVars PROVE DetectorInv'
  OBVIOUS
<1>1. CASE ResetDetector
  BY <1>1, FreshDetector
<1>2. ASSUME NEW in \in DetectorInputs, UpdateDetector(in) PROVE DetectorInv'
  BY <1>2, UpdateKeepsTypes, UpdateKeepsWindow, UpdateKeepsBaseline DEF DetectorInv
<1>3. CASE UNCHANGED detectorVars
  BY <1>3 DEF detectorVars, heaterVars, DetectorInv, DetectorTypeOK, WindowCoversFlat,
              BaselineIsReading, StuckSuspicionIsFounded
<1> QED BY <1>1, <1>2, <1>3 DEF DetectorNext

\* The invariant holds in every state of the detector.
THEOREM DetectorSpecInv == DetectorSpec => []DetectorInv
<1> QED BY FreshDetector, NextKeepsDetectorInv, PTL DEF DetectorSpec

\* Heating without effect is a fault after twice the window and the longest
\* update, however the heater is switched in between.
THEOREM HeatingWithoutEffect == DetectorSpec => []NoRiseIsNoticed
<1>1. DetectorInv => NoRiseIsNoticed
  <2> SUFFICES ASSUME DetectorInv, latchedCode = "None"
               PROVE  \E delta \in Deltas : ~(flat.seconds >= 2 * NO_RISE_WINDOW + delta)
    BY DEF NoRiseIsNoticed
  <2>1. flat.seconds \in Nat /\ noRise.seconds \in Nat
    BY DEF DetectorInv, DetectorTypeOK, Tracking
  <2>2. \E delta \in Deltas :
          \/ flat.seconds = 0
          \/ noRise.seconds < NO_RISE_WINDOW
             /\ flat.seconds <= noRise.seconds + NO_RISE_WINDOW + delta
    <3>1. CASE flat.seconds = 0
      BY <3>1, LimitsAssumption
    <3>2. CASE noRise.seconds < NO_RISE_WINDOW /\ flat.seconds <= noRise.seconds
      <4>1. PICK delta \in Deltas : TRUE
        BY LimitsAssumption
      <4>2. delta \in Nat
        BY LimitsAssumption
      <4> QED BY <2>1, <3>2, <4>2, DetectorLimits
    <3> QED BY <3>1, <3>2 DEF DetectorInv, WindowCoversFlat
  <2>3. PICK delta \in Deltas :
          \/ flat.seconds = 0
          \/ noRise.seconds < NO_RISE_WINDOW
             /\ flat.seconds <= noRise.seconds + NO_RISE_WINDOW + delta
    BY <2>2
  <2>4. delta \in Nat
    BY LimitsAssumption
  <2>5. ~(flat.seconds >= 2 * NO_RISE_WINDOW + delta)
    BY <2>1, <2>3, <2>4, DetectorLimits
  <2> QED BY <2>5
<1> QED BY <1>1, DetectorSpecInv, PTL

\* A stuck heater is suspected only on two readings of this cooling, taken
\* after the grace period and within the window, that rise enough.
THEOREM SuspicionIsFounded == DetectorSpec => []StuckSuspicionIsFounded
<1>1. DetectorInv => StuckSuspicionIsFounded
  BY DEF DetectorInv
<1> QED BY <1>1, DetectorSpecInv, PTL
==============================================================================
