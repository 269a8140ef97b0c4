--------------------------- MODULE ProfileSchedule ---------------------------
(***************************************************************************)
(* What a drying profile promises, second by second, and the promise       *)
(* checked along every run of the state machine.                           *)
(*                                                                         *)
(* The evaluator finds the phase of a profile from the elapsed time with a *)
(* division; here it is found the way the requirements describe it         *)
(* (REQ-FUNC-015, REQ-FUNC-019): the phases are laid one after the other   *)
(* from the first second on.                                               *)
(***************************************************************************)
EXTENDS RunStateMachine

\* Second t of a fluctuating profile lies in its n-th high phase.
InHighPhase(p, n, t) ==
  LET high == PhaseSeconds(p.highPhaseMinutes)
      begin == n * (high + PhaseSeconds(p.lowPhaseMinutes))
  IN  begin <= t /\ t < begin + high

Scheduled(p, t) ==
  CASE p.mode = "Fixed"       -> p.targetTempC
    [] p.mode = "Boost"       -> IF t < PhaseSeconds(p.highPhaseMinutes)
                                   THEN p.highTempC ELSE p.targetTempC
    [] p.mode = "Fluctuating" -> IF \E n \in 0..t : InHighPhase(p, n, t)
                                   THEN p.highTempC ELSE p.lowTempC

Target == Evaluate(profile, activeElapsedSeconds).targetTempC

\* The target the evaluator computes from the run clock is the scheduled one,
\* in every second of every run, after a late update and after a pause as
\* well: no phase is one second longer or shorter than configured, and a
\* fluctuating profile alternates until its duration expires
\* (ProfileEngine::boostTarget, fluctuatingTarget).
FollowsSchedule ==
  state \in {"Running", "Paused"} =>
    Target = Scheduled(profile, activeElapsedSeconds)

==============================================================================
