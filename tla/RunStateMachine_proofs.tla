------------------------ MODULE RunStateMachine_proofs ------------------------
(***************************************************************************)
(* Proofs about the run lifecycle, for every set of profiles, every set of *)
(* time steps, every cooldown and every length of a minute.                *)
(*                                                                         *)
(* The three safety invariants are inductive only together: that a paused  *)
(* run still has time left is what makes resuming it safe, that a running  *)
(* profile is valid is what makes the evaluator report its end, and the    *)
(* resume permission is what resume() looks at.  IdleIsUnclocked is added  *)
(* for the action properties: only the end of a run gives its time back.   *)
(*                                                                         *)
(* That the target follows the schedule is a matter of the evaluator       *)
(* alone: the remainder of a division finds the phase the schedule finds   *)
(* by laying the phases one after the other.                               *)
(***************************************************************************)
EXTENDS ProfileSchedule, TLAPS

\* No time is left over on a machine without a run.
IdleIsUnclocked == state = "Idle" => activeElapsedSeconds = 0

IInv ==
  /\ TypeOK
  /\ IdleIsUnclocked
  /\ NeverRunsPastDuration
  /\ AlarmOnlyAfterFullCooldown
  /\ ResumableExactlyWhileActive

\* The seconds of a duration: none for zero minutes, some for any other
\* (ProfileEngine::durationSeconds).
LEMMA DurationIsPositive ==
  ASSUME NEW p \in ProfileConfig
  PROVE  /\ DurationSeconds(p) \in Nat
         /\ IsValid(p) => DurationSeconds(p) > 0
<1> DEFINE m == p.durationMinutes
           s == SECONDS_PER_MINUTE
<1>1. m \in Nat
  BY DEF ProfileConfig
<1>2. s \in Nat /\ s > 0
  BY ProfileEngineAssumption
<1>3. m * s \in Nat /\ (m > 0 => m * s > 0)
  <2> HIDE DEF m, s
  <2>1. \A x, y \in Nat : x * y \in Nat /\ (x > 0 /\ y > 0 => x * y > 0)
    BY SMT
  <2> QED BY <1>1, <1>2, <2>1
<1>4. DurationSeconds(p) = m * s
  BY DEF DurationSeconds, PhaseSeconds
<1>5. IsValid(p) => m > 0
  BY DEF IsValid
<1> QED BY <1>3, <1>4, <1>5

\* Whether a valid profile is complete is a matter of the clock alone
\* (ProfileEngine::evaluate).
LEMMA CompleteByTheClock ==
  ASSUME NEW p, NEW t, IsValid(p)
  PROVE  Evaluate(p, t).complete = (t >= DurationSeconds(p))
BY DEF Evaluate

\* The cooldown takes some time, and a timer may be restarted at zero.
LEMMA CooldownIsPositive ==
  /\ FINISH_COOLDOWN_SECONDS \in Nat
  /\ FINISH_COOLDOWN_SECONDS > 0
  /\ 0 \in 0..FINISH_COOLDOWN_SECONDS
<1>1. FINISH_COOLDOWN_SECONDS \in Nat \ {0}
  BY RunStateMachineAssumption
<1> QED BY <1>1

\* The invariant holds of a machine that has just been constructed.
LEMMA InitIInv == Init => IInv
<1> SUFFICES ASSUME Init PROVE IInv OBVIOUS
<1>1. EmptyProfile \in ProfileConfig
  BY DEF EmptyProfile, ProfileConfig, ProfileMode
<1>2. TypeOK
  BY <1>1, CooldownIsPositive DEF Init, TypeOK, RunState
<1> QED
  BY <1>2 DEF Init, IInv, NeverRunsPastDuration, IdleIsUnclocked,
              AlarmOnlyAfterFullCooldown,
              ResumableExactlyWhileActive

\* Ending a run, by whichever operation, keeps the invariant (resetToIdle).
LEMMA ResetToIdleKeepsIInv ==
  ASSUME IInv, ResetToIdle
  PROVE  IInv'
BY CooldownIsPositive
   DEF IInv, ResetToIdle, TypeOK, RunState, NeverRunsPastDuration, IdleIsUnclocked,
       AlarmOnlyAfterFullCooldown, ResumableExactlyWhileActive

\* So does the beginning of a run of any valid profile (start).
LEMMA BeginRunKeepsIInv ==
  ASSUME NEW p \in ProfileConfig, IsValid(p), BeginRun(p)
  PROVE  IInv'
<1>1. DurationSeconds(p) \in Nat /\ DurationSeconds(p) > 0
  BY DurationIsPositive
<1>2. DurationSeconds(profile)' = DurationSeconds(p)
        /\ IsValid(profile)' = IsValid(p)
  BY DEF BeginRun, DurationSeconds, IsValid, PhaseSeconds, TwiceHighPhase
<1> QED
  BY <1>1, <1>2, CooldownIsPositive
     DEF IInv, BeginRun, TypeOK, RunState, NeverRunsPastDuration, IdleIsUnclocked,
         AlarmOnlyAfterFullCooldown, ResumableExactlyWhileActive

\* So does an update of any length, in any state (update).
LEMMA UpdateKeepsIInv ==
  ASSUME IInv, NEW delta \in Nat, Update(delta)
  PROVE  IInv'
<1> USE DEF IInv
<1>0. DurationSeconds(profile) \in Nat
  BY DurationIsPositive DEF TypeOK
<1>1. CASE AdvanceRun(delta)
  <2> DEFINE t == activeElapsedSeconds + delta
  <2>1. /\ state = "Running" /\ t \in Nat /\ activeElapsedSeconds' = t
        /\ profileValid /\ IsValid(profile)
        /\ UNCHANGED <<profile, profileValid>>
    BY <1>1 DEF AdvanceRun, TypeOK, NeverRunsPastDuration
  <2>2. Evaluate(profile, t).complete = (t >= DurationSeconds(profile))
    BY <2>1, CompleteByTheClock
  <2>3. DurationSeconds(profile)' = DurationSeconds(profile)
          /\ IsValid(profile)' = IsValid(profile)
    BY <2>1 DEF DurationSeconds, IsValid, PhaseSeconds, TwiceHighPhase
  <2>4. CASE t >= DurationSeconds(profile)
    <3>1. state' = "FinishCooldown" /\ cooldownElapsedSeconds' = 0
            /\ resumeAllowed' = FALSE
      BY <1>1, <2>1, <2>2, <2>4 DEF AdvanceRun
    <3> QED
      BY <1>0, <2>1, <2>3, <2>4, <3>1, CooldownIsPositive
         DEF TypeOK, RunState, NeverRunsPastDuration, IdleIsUnclocked,
             AlarmOnlyAfterFullCooldown, ResumableExactlyWhileActive
  <2>5. CASE ~(t >= DurationSeconds(profile))
    <3>1. UNCHANGED <<state, cooldownElapsedSeconds, resumeAllowed>>
      BY <1>1, <2>1, <2>2, <2>5 DEF AdvanceRun
    <3> QED
      BY <1>0, <2>1, <2>3, <2>5, <3>1
         DEF TypeOK, RunState, NeverRunsPastDuration, IdleIsUnclocked,
             AlarmOnlyAfterFullCooldown, ResumableExactlyWhileActive
  <2> QED BY <2>4, <2>5
<1>2. CASE AdvanceCooldown(delta)
  <2>1. /\ state = "FinishCooldown"
        /\ UNCHANGED <<profile, activeElapsedSeconds, resumeAllowed, profileValid>>
    BY <1>2 DEF AdvanceCooldown
  <2>2. /\ cooldownElapsedSeconds' \in 0..FINISH_COOLDOWN_SECONDS
        /\ state' = IF cooldownElapsedSeconds' = FINISH_COOLDOWN_SECONDS
                      THEN "FinishedAlarm" ELSE "FinishCooldown"
    BY <1>2, <2>1, CooldownIsPositive DEF AdvanceCooldown, TypeOK
  <2>3. DurationSeconds(profile)' = DurationSeconds(profile)
    BY <2>1 DEF DurationSeconds, PhaseSeconds
  <2> QED
    BY <2>1, <2>2, <2>3, CooldownIsPositive
       DEF TypeOK, RunState, NeverRunsPastDuration, IdleIsUnclocked,
           AlarmOnlyAfterFullCooldown, ResumableExactlyWhileActive
<1>3. CASE UNCHANGED vars
  BY <1>3 DEF vars, TypeOK, NeverRunsPastDuration, IdleIsUnclocked,
              AlarmOnlyAfterFullCooldown,
              ResumableExactlyWhileActive, DurationSeconds, IsValid,
              PhaseSeconds, TwiceHighPhase
<1> QED BY <1>1, <1>2, <1>3 DEF Update

\* So does every other operation, and a step of somebody else.
LEMMA NextKeepsIInv == IInv /\ [Next]_vars => IInv'
<1> SUFFICES ASSUME IInv, [Next]_vars PROVE IInv' OBVIOUS
<1> USE DEF IInv
<1>0. DurationSeconds(profile) \in Nat
  BY DurationIsPositive DEF TypeOK
<1>1. ASSUME NEW p \in Profiles, Start(p) PROVE IInv'
  BY <1>1, RunStateMachineAssumption, BeginRunKeepsIInv DEF Start
<1>2. ASSUME NEW delta \in Deltas, Update(delta) PROVE IInv'
  <2>1. delta \in Nat
    BY RunStateMachineAssumption
  <2> QED BY <1>2, <2>1, UpdateKeepsIInv
<1>3. CASE Pause
  BY <1>0, <1>3
     DEF Pause, TypeOK, RunState, NeverRunsPastDuration, IdleIsUnclocked, IsValid, PhaseSeconds,
         AlarmOnlyAfterFullCooldown, ResumableExactlyWhileActive,
         DurationSeconds, TwiceHighPhase
<1>4. CASE Resume
  BY <1>0, <1>4
     DEF Resume, TypeOK, RunState, NeverRunsPastDuration, IdleIsUnclocked, IsValid, PhaseSeconds,
         AlarmOnlyAfterFullCooldown, ResumableExactlyWhileActive,
         DurationSeconds, TwiceHighPhase
<1>5. CASE StopConfirmed
  BY <1>5, ResetToIdleKeepsIInv DEF StopConfirmed
<1>6. CASE Fault
  BY <1>6 DEF Fault, TypeOK, RunState, NeverRunsPastDuration, IdleIsUnclocked,
              AlarmOnlyAfterFullCooldown, ResumableExactlyWhileActive
<1>7. CASE AcknowledgeFault
  BY <1>7, ResetToIdleKeepsIInv DEF AcknowledgeFault
<1>8. CASE AcknowledgeFinished
  BY <1>8, ResetToIdleKeepsIInv DEF AcknowledgeFinished
<1>9. CASE UNCHANGED vars
  BY <1>9 DEF vars, TypeOK, NeverRunsPastDuration, IdleIsUnclocked,
              AlarmOnlyAfterFullCooldown,
              ResumableExactlyWhileActive, DurationSeconds, IsValid,
              PhaseSeconds, TwiceHighPhase
<1> QED
  BY <1>1, <1>2, <1>3, <1>4, <1>5, <1>6, <1>7, <1>8, <1>9 DEF Next

\* The strengthened invariant holds of every run of the machine.
THEOREM SpecIInv == Spec => []IInv
BY InitIInv, NextKeepsIInv, PTL DEF Spec

\* Every variable of the run state machine keeps its type, the saturating
\* cooldown timer its range.
THEOREM TypeCorrect == Spec => []TypeOK
<1>1. IInv => TypeOK
  BY DEF IInv
<1> QED BY <1>1, SpecIInv, PTL

\* A run whose time is up is never heated again, whatever was paused, resumed,
\* stopped or faulted before.
THEOREM RunsEndInTime == Spec => []NeverRunsPastDuration
<1>1. IInv => NeverRunsPastDuration
  BY DEF IInv
<1> QED BY <1>1, SpecIInv, PTL

\* The finish alarm follows a complete profile and a complete cooldown.
THEOREM AlarmFollowsCooldown == Spec => []AlarmOnlyAfterFullCooldown
<1>1. IInv => AlarmOnlyAfterFullCooldown
  BY DEF IInv
<1> QED BY <1>1, SpecIInv, PTL

\* A run can be resumed exactly while it is running or paused.
THEOREM ResumableWhileActive == Spec => []ResumableExactlyWhileActive
<1>1. IInv => ResumableExactlyWhileActive
  BY DEF IInv
<1> QED BY <1>1, SpecIInv, PTL

\* Heating begins with the first second of a new run or goes on from the
\* paused second of the same profile.
THEOREM HeatingStarts == Spec => HeatingStartsFreshOrContinues
<1> DEFINE A == state' = "Running" /\ state # "Running" =>
                  \/ state = "Idle" /\ activeElapsedSeconds' = 0
                  \/ state = "Paused" /\ UNCHANGED <<profile, activeElapsedSeconds>>
<1>1. [Next]_vars => [A]_vars
  <2> SUFFICES ASSUME Next, state' = "Running", state # "Running" PROVE A
    BY DEF vars
  <2>1. ASSUME NEW p \in Profiles, Start(p) PROVE A
    BY <2>1 DEF Start, BeginRun
  <2>2. ASSUME NEW delta \in Deltas, Update(delta) PROVE A
    BY <2>2 DEF Update, AdvanceRun, AdvanceCooldown, vars
  <2>3. CASE Resume
    BY <2>3 DEF Resume
  <2>4. CASE Pause \/ StopConfirmed \/ Fault \/ AcknowledgeFault
               \/ AcknowledgeFinished
    BY <2>4 DEF Pause, StopConfirmed, Fault, AcknowledgeFault,
                AcknowledgeFinished, ResetToIdle
  <2> QED BY <2>1, <2>2, <2>3, <2>4 DEF Next
<1> QED BY <1>1, PTL DEF Spec, HeatingStartsFreshOrContinues

\* Only a running run uses up its drying time, and only its end gives it back.
THEOREM RunningTimeCounts == Spec => OnlyRunningTimeCounts
<1> DEFINE A == /\ activeElapsedSeconds' > activeElapsedSeconds =>
                     state = "Running"
                /\ activeElapsedSeconds' < activeElapsedSeconds =>
                     state' = "Idle"
<1>1. IInv /\ [Next]_vars => [A]_vars
  <2> SUFFICES ASSUME IInv, Next PROVE A
    BY DEF vars
  <2>0. activeElapsedSeconds \in Nat
    BY DEF IInv, TypeOK
  <2>1. ASSUME NEW p \in Profiles, Start(p) PROVE A
    BY <2>0, <2>1 DEF Start, BeginRun, IInv, IdleIsUnclocked
  <2>2. ASSUME NEW delta \in Deltas, Update(delta) PROVE A
    <3>1. delta \in Nat
      BY RunStateMachineAssumption
    <3>2. CASE AdvanceRun(delta)
      BY <2>0, <3>1, <3>2 DEF AdvanceRun
    <3>3. CASE UNCHANGED activeElapsedSeconds
      BY <2>0, <3>3
    <3> QED BY <2>2, <3>2, <3>3 DEF Update, AdvanceCooldown, vars
  <2>3. CASE Pause \/ Resume \/ Fault
    BY <2>0, <2>3 DEF Pause, Resume, Fault
  <2>4. CASE StopConfirmed \/ AcknowledgeFault \/ AcknowledgeFinished
    BY <2>0, <2>4 DEF StopConfirmed, AcknowledgeFault, AcknowledgeFinished,
                      ResetToIdle
  <2> QED BY <2>1, <2>2, <2>3, <2>4 DEF Next
<1> QED BY <1>1, SpecIInv, PTL DEF Spec, OnlyRunningTimeCounts

------------------------------------------------------------------------------
(* The schedule of a profile                                                  *)

\* Second t lies in the first h seconds of the n-th cycle of c seconds just
\* when the remainder of t by c is below h (fluctuatingTarget).
LEMMA RemainderFindsPhase ==
  ASSUME NEW t \in Nat, NEW c \in Nat, NEW h \in Nat, c > 0, h <= c
  PROVE  t % c < h <=> \E n \in 0..t : n * c <= t /\ t < n * c + h
<1> DEFINE q == t \div c
           r == t % c
<1>1. t = q * c + r /\ q \in 0..t /\ r \in 0..(c - 1)
  OBVIOUS
<1> HIDE DEF q, r
<1>2. r < h => \E n \in 0..t : n * c <= t /\ t < n * c + h
  <2> SUFFICES ASSUME r < h PROVE q * c <= t /\ t < q * c + h
    BY <1>1
  <2> DEFINE m == q * c
  <2>1. m \in Int
    BY <1>1
  <2> HIDE DEF m
  <2>2. m <= t /\ t < m + h
    BY <1>1, <2>1 DEF m
  <2> QED BY <2>2 DEF m
<1>3. ASSUME NEW n \in 0..t, n * c <= t, t < n * c + h
      PROVE  r < h
  <2>1. n = q
    <3>1. ~(n < q)
      <4> SUFFICES ASSUME n + 1 <= q PROVE FALSE
        BY <1>1
      <4>1. (n + 1) * c <= q * c /\ (n + 1) * c = n * c + c
        BY <1>1
      <4>2. n * c \in Int /\ q * c \in Int
        BY <1>1
      <4> QED BY <1>1, <1>3, <4>1, <4>2
    <3>2. ~(q < n)
      <4> SUFFICES ASSUME q + 1 <= n PROVE FALSE
        BY <1>1
      <4>1. (q + 1) * c <= n * c /\ (q + 1) * c = q * c + c
        BY <1>1
      <4>2. n * c \in Int /\ q * c \in Int
        BY <1>1
      <4> QED BY <1>1, <1>3, <4>1, <4>2
    <3> QED BY <1>1, <3>1, <3>2
  <2>2. q * c \in Int
    BY <1>1
  <2> QED BY <1>1, <1>3, <2>1, <2>2
<1> QED BY <1>2, <1>3 DEF r

\* In every second the evaluator finds the target the schedule of a valid
\* profile has.
LEMMA EvaluatorFollowsSchedule ==
  ASSUME NEW p \in ProfileConfig, IsValid(p), NEW t \in Nat
  PROVE  Evaluate(p, t).targetTempC = Scheduled(p, t)
<1>1. Evaluate(p, t).targetTempC = TargetTempC(p, t)
  BY DEF Evaluate
<1>2. CASE p.mode = "Fixed" \/ p.mode = "Boost"
  BY <1>1, <1>2 DEF TargetTempC, BoostTarget, Scheduled
<1>3. CASE p.mode = "Fluctuating"
  <2> DEFINE high == PhaseSeconds(p.highPhaseMinutes)
             low == PhaseSeconds(p.lowPhaseMinutes)
  <2>1. high \in Nat /\ low \in Nat /\ high > 0
    <3> DEFINE m == p.highPhaseMinutes
               l == p.lowPhaseMinutes
               s == SECONDS_PER_MINUTE
    <3>1. m \in Nat /\ l \in Nat /\ m > 0
      BY <1>3 DEF ProfileConfig, IsValid
    <3>2. s \in Nat /\ s > 0
      BY ProfileEngineAssumption
    <3> HIDE DEF m, l, s
    <3>3. m * s \in Nat /\ l * s \in Nat /\ m * s > 0
      BY <3>1, <3>2, SMTT(30)
    <3> QED BY <3>3 DEF m, l, s, PhaseSeconds
  <2> HIDE DEF high, low
  <2>2. t % (high + low) < high <=>
          \E n \in 0..t : n * (high + low) <= t /\ t < n * (high + low) + high
    <3>1. high + low \in Nat /\ high + low > 0 /\ high <= high + low
      BY <2>1
    <3> QED BY <2>1, <3>1, RemainderFindsPhase
  <2>3. (\E n \in 0..t : InHighPhase(p, n, t)) <=>
          \E n \in 0..t : n * (high + low) <= t /\ t < n * (high + low) + high
    BY DEF InHighPhase, high, low
  <2>4. TargetTempC(p, t) = IF t % (high + low) < high THEN p.highTempC ELSE p.lowTempC
    BY <1>3 DEF TargetTempC, FluctuatingTarget, high, low
  <2>5. Scheduled(p, t) =
          IF \E n \in 0..t : InHighPhase(p, n, t) THEN p.highTempC ELSE p.lowTempC
    BY <1>3 DEF Scheduled
  <2> QED BY <1>1, <2>2, <2>3, <2>4, <2>5
<1> QED BY <1>2, <1>3 DEF ProfileConfig, ProfileMode

\* In every second of every run the target is the scheduled one, whatever the
\* phases of the profile and however late the updates are.
THEOREM TargetIsScheduled == Spec => []FollowsSchedule
<1>1. IInv => FollowsSchedule
  BY EvaluatorFollowsSchedule
     DEF IInv, TypeOK, NeverRunsPastDuration, FollowsSchedule, Target
<1> QED BY <1>1, SpecIInv, PTL
==============================================================================
