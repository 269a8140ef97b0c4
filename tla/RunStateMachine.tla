--------------------------- MODULE RunStateMachine ---------------------------
(***************************************************************************)
(* The lifecycle of one drying run: domain/RunStateMachine.h.              *)
(*                                                                         *)
(* The machine reads no clock: update(deltaSeconds) is handed the time     *)
(* that has passed.  A call the machine refuses returns false and changes  *)
(* nothing, so a refusal is a stuttering step.                             *)
(***************************************************************************)
EXTENDS ProfileEngine

CONSTANTS
  FINISH_COOLDOWN_SECONDS,  \* fan-only cooldown after a finished profile
  Profiles,                 \* profiles callers try to start
  Deltas                    \* times callers let pass between two updates

ASSUME RunStateMachineAssumption ==
  /\ FINISH_COOLDOWN_SECONDS \in Nat \ {0}
  /\ Profiles \subseteq ProfileConfig
  /\ Deltas \subseteq Nat

VARIABLES
  state,                    \* state_
  profile,                  \* profile_: not cleared when a run ends
  activeElapsedSeconds,
  cooldownElapsedSeconds,
  resumeAllowed,
  profileValid

vars == <<state, profile, activeElapsedSeconds, cooldownElapsedSeconds,
          resumeAllowed, profileValid>>

\* The states of RunState this machine enters; Boot, SelfCheck, ResumeOffer
\* and Stopping belong to the startup state machine or to nobody.
RunState == {"Idle", "Running", "Paused", "FinishCooldown", "FinishedAlarm",
             "Fault"}

TypeOK ==
  /\ state \in RunState
  /\ profile \in ProfileConfig
  /\ activeElapsedSeconds \in Nat
  /\ cooldownElapsedSeconds \in 0..FINISH_COOLDOWN_SECONDS
  /\ resumeAllowed \in BOOLEAN
  /\ profileValid \in BOOLEAN

Init ==
  /\ state = "Idle"
  /\ profile = EmptyProfile
  /\ activeElapsedSeconds = 0
  /\ cooldownElapsedSeconds = 0
  /\ resumeAllowed = FALSE
  /\ profileValid = FALSE

------------------------------------------------------------------------------
ResetToIdle ==
  /\ state' = "Idle"
  /\ activeElapsedSeconds' = 0
  /\ cooldownElapsedSeconds' = 0
  /\ resumeAllowed' = FALSE
  /\ profileValid' = FALSE
  /\ UNCHANGED profile

\* What an accepted start() writes.
BeginRun(p) ==
  /\ profile' = p
  /\ state' = "Running"
  /\ activeElapsedSeconds' = 0
  /\ cooldownElapsedSeconds' = 0
  /\ resumeAllowed' = TRUE
  /\ profileValid' = TRUE

\* Mutant: any state accepts a start.
StartAnytime(p) == IsValid(p) /\ BeginRun(p)

Start(p) == state = "Idle" /\ IsValid(p) /\ BeginRun(p)

\* Mutants of AdvanceRun: the end is looked up at the time before the update;
\* a paused run is counted too.
AdvanceRunLooksBack(delta) ==
  /\ state = "Running"
  /\ activeElapsedSeconds' = activeElapsedSeconds + delta
  /\ IF Evaluate(profile, activeElapsedSeconds).complete
       THEN state' = "FinishCooldown" /\ resumeAllowed' = FALSE
       ELSE UNCHANGED <<state, resumeAllowed>>
  /\ UNCHANGED <<profile, profileValid, cooldownElapsedSeconds>>

AdvanceRunOrPause(delta) ==
  /\ state \in {"Running", "Paused"}
  /\ activeElapsedSeconds' = activeElapsedSeconds + delta
  /\ activeElapsedSeconds' < DurationSeconds(profile)
  /\ UNCHANGED <<state, profile, profileValid, cooldownElapsedSeconds,
                 resumeAllowed>>

\* update() while the profile runs.
AdvanceRun(delta) ==
  /\ state = "Running"
  /\ activeElapsedSeconds' = activeElapsedSeconds + delta
  /\ IF Evaluate(profile, activeElapsedSeconds').complete
       THEN /\ state' = "FinishCooldown"
            /\ cooldownElapsedSeconds' = 0
            /\ resumeAllowed' = FALSE
       ELSE UNCHANGED <<state, cooldownElapsedSeconds, resumeAllowed>>
  /\ UNCHANGED <<profile, profileValid>>

\* update() while the fan cools the chamber down.
AdvanceCooldown(delta) ==
  /\ state = "FinishCooldown"
  /\ LET next == cooldownElapsedSeconds + delta
     IN  cooldownElapsedSeconds' =
           IF next >= FINISH_COOLDOWN_SECONDS
             THEN FINISH_COOLDOWN_SECONDS ELSE next
  /\ state' = IF cooldownElapsedSeconds' >= FINISH_COOLDOWN_SECONDS
                THEN "FinishedAlarm" ELSE state
  /\ UNCHANGED <<profile, activeElapsedSeconds, resumeAllowed, profileValid>>

Update(delta) ==
  \/ AdvanceRun(delta)
  \/ AdvanceCooldown(delta)
  \/ state \notin {"Running", "FinishCooldown"} /\ UNCHANGED vars

Pause ==
  /\ state = "Running"
  /\ state' = "Paused"
  /\ resumeAllowed' = TRUE
  /\ UNCHANGED <<profile, activeElapsedSeconds, cooldownElapsedSeconds,
                 profileValid>>

Resume ==
  /\ state = "Paused"
  /\ resumeAllowed
  /\ state' = "Running"
  /\ UNCHANGED <<profile, activeElapsedSeconds, cooldownElapsedSeconds,
                 resumeAllowed, profileValid>>

Stoppable == state \in {"Running", "Paused", "FinishCooldown", "FinishedAlarm"}

\* Mutant: a stop by the user airs and announces like a finished profile.
StopWithCooldown ==
  /\ Stoppable
  /\ state' = "FinishCooldown" /\ resumeAllowed' = FALSE
  /\ cooldownElapsedSeconds' = 0
  /\ UNCHANGED <<profile, activeElapsedSeconds, profileValid>>

StopConfirmed == Stoppable /\ ResetToIdle

\* Mutant: a fault leaves the permission to resume.
FaultKeepsResume ==
  /\ state' = "Fault"
  /\ UNCHANGED <<profile, activeElapsedSeconds, cooldownElapsedSeconds,
                 resumeAllowed, profileValid>>

\* fault() may be called in any state, Fault included.
Fault ==
  /\ state' = "Fault"
  /\ resumeAllowed' = FALSE
  /\ UNCHANGED <<profile, activeElapsedSeconds, cooldownElapsedSeconds,
                 profileValid>>

AcknowledgeFault == state = "Fault" /\ ResetToIdle

AcknowledgeFinished == state = "FinishedAlarm" /\ ResetToIdle

\* outputPolicy(): what the lifecycle permits the outputs in state s.
OutputPolicy(s) ==
  [fanOn                |-> s \in {"Running", "FinishCooldown"},
   heaterControlAllowed |-> s = "Running",
   finishAlarmOn        |-> s = "FinishedAlarm",
   faultAlarmOn         |-> s = "Fault"]

------------------------------------------------------------------------------
Next ==
  \/ \E p \in Profiles : Start(p)
  \/ \E delta \in Deltas : Update(delta)
  \/ Pause \/ Resume
  \/ StopConfirmed
  \/ Fault
  \/ AcknowledgeFault \/ AcknowledgeFinished

Spec == Init /\ [][Next]_vars

------------------------------------------------------------------------------
(* Properties *)

\* A run whose time is up is never heated again: while a run is running, or
\* waits in a pause to be running again, its profile is one the evaluator
\* accepts and its duration has not passed, whatever was started, paused,
\* stopped or faulted before (start, update, resume; profile_ is left stale
\* by resetToIdle).
NeverRunsPastDuration ==
  state \in {"Running", "Paused"} =>
    /\ profileValid /\ IsValid(profile)
    /\ activeElapsedSeconds < DurationSeconds(profile)

\* REQ-FUNC-014: the finish alarm comes after the whole profile and after the
\* whole fan cooldown, and the cooldown is only entered by a finished profile
\* (update; the cooldown timer is reset by two different calls).
AlarmOnlyAfterFullCooldown ==
  /\ state \in {"FinishCooldown", "FinishedAlarm"} =>
       activeElapsedSeconds >= DurationSeconds(profile)
  /\ state = "FinishCooldown" =>
       cooldownElapsedSeconds < FINISH_COOLDOWN_SECONDS
  /\ state = "FinishedAlarm" =>
       cooldownElapsedSeconds = FINISH_COOLDOWN_SECONDS

\* REQ-FUNC-007, REQ-FUNC-013 and the comment of fault(): exactly a running
\* or paused run may be resumed; finishing, stopping and faulting each clear
\* the permission, and a pause is never left without it, which would strand
\* the run (resumeAllowed_ is written by five operations).
ResumableExactlyWhileActive == resumeAllowed <=> state \in {"Running", "Paused"}

\* REQ-FUNC-011, REQ-FUNC-012: heating begins either with a new run, from its
\* first second and with cleared timers, or by continuing the paused run with
\* the same profile from the paused second.
HeatingStartsFreshOrContinues ==
  [][state' = "Running" /\ state # "Running" =>
       \/ state = "Idle" /\ activeElapsedSeconds' = 0
       \/ state = "Paused" /\ UNCHANGED <<profile, activeElapsedSeconds>>]_vars

\* REQ-FUNC-011: from one step to the next the time counted for a run grows
\* only by a step taken while it is running, and never shrinks while the run
\* exists: a pause, a cooldown or a fault is not counted as drying time.
OnlyRunningTimeCounts ==
  [][/\ activeElapsedSeconds' > activeElapsedSeconds => state = "Running"
     /\ activeElapsedSeconds' < activeElapsedSeconds => state' = "Idle"]_vars
==============================================================================
