-------------------- MODULE ManualProgramController_proofs --------------------
(***************************************************************************)
(* Proofs about the editor of a manual program, for all limits and steps   *)
(* of its fields, every default and every set of saved profiles.           *)
(*                                                                         *)
(* A draft holds the values of all modes, a profile those of one.  What    *)
(* makes a draft valid is therefore written out for each mode, and each    *)
(* edit is compared with it; what is lost on the way from a draft to a     *)
(* profile and back is never part of the profile.                          *)
(***************************************************************************)
EXTENDS ManualProgramController, TLAPS

TypeOK ==
  /\ draft \in ManualProgramDraft
  /\ dirty \in BOOLEAN
  /\ edits \in Nat

\* Discarding goes back to a valid program that a draft stands for.
BaselineIsProgram ==
  \E d \in ManualProgramDraft :
    baseline.profile = ProfileOf(d) /\ IsValid(ProfileOf(d))

IInv == TypeOK /\ BaselineIsProgram /\ CleanUpToMode

------------------------------------------------------------------------------
(* Drafts and profiles                                                        *)

\* What makes the program of a draft valid, mode by mode (isValid, profile).
ValidConstant(d) ==
  /\ d.durationMinutes > 0 /\ d.durationMinutes <= MAX_DURATION_MINUTES
  /\ IsAllowedTemp(d.targetTempC)

ValidBoost(d) ==
  /\ ValidConstant(d)
  /\ IsAllowedTemp(d.targetTempC + d.boostDeltaC) /\ d.boostDeltaC >= 0
  /\ d.boostDurationMinutes > 0
  /\ (d.boostDurationMinutes * 2) % UINT_RANGE <= d.durationMinutes

ValidFluctuating(d) ==
  /\ ValidConstant(d)
  /\ IsAllowedTemp(d.lowerTempC) /\ IsAllowedTemp(d.upperTempC)
  /\ d.lowerTempC <= d.upperTempC
  /\ d.upperDurationMinutes > 0 /\ d.lowerDurationMinutes > 0

\* The fields of a draft, as the provers need them.
LEMMA DraftFields ==
  ASSUME NEW d \in ManualProgramDraft
  PROVE  /\ d.mode \in {"Constant", "Boost", "Fluctuating"}
         /\ d.targetTempC \in Int /\ d.durationMinutes \in Nat
         /\ d.boostDeltaC \in Int /\ d.boostDurationMinutes \in Nat
         /\ d.upperTempC \in Int /\ d.lowerTempC \in Int
         /\ d.upperDurationMinutes \in Nat /\ d.lowerDurationMinutes \in Nat
BY DEF ManualProgramDraft

\* The profile of a draft, mode by mode.
LEMMA ProfileFields ==
  ASSUME NEW d \in ManualProgramDraft
  PROVE  /\ d.mode = "Constant" =>
              ProfileOf(d) = [EmptyProfile EXCEPT !.targetTempC = d.targetTempC,
                                                  !.durationMinutes = d.durationMinutes]
         /\ d.mode = "Boost" =>
              ProfileOf(d) =
                [EmptyProfile EXCEPT !.mode = "Boost", !.targetTempC = d.targetTempC,
                                     !.highTempC = d.targetTempC + d.boostDeltaC,
                                     !.durationMinutes = d.durationMinutes,
                                     !.highPhaseMinutes = d.boostDurationMinutes]
         /\ d.mode = "Fluctuating" =>
              ProfileOf(d) =
                [mode |-> "Fluctuating", targetTempC |-> d.targetTempC,
                 lowTempC |-> d.lowerTempC, highTempC |-> d.upperTempC,
                 durationMinutes |-> d.durationMinutes,
                 highPhaseMinutes |-> d.upperDurationMinutes,
                 lowPhaseMinutes |-> d.lowerDurationMinutes]
BY DEF ProfileOf

\* A draft of a mode is valid just when the values of that mode are.
LEMMA ValidByMode ==
  ASSUME NEW d \in ManualProgramDraft
  PROVE  /\ d.mode = "Constant" => (IsValid(ProfileOf(d)) <=> ValidConstant(d))
         /\ d.mode = "Boost" => (IsValid(ProfileOf(d)) <=> ValidBoost(d))
         /\ d.mode = "Fluctuating" => (IsValid(ProfileOf(d)) <=> ValidFluctuating(d))
<1>1. CASE d.mode = "Constant"
  <2>1. /\ ProfileOf(d).mode = "Fixed" /\ ProfileOf(d).targetTempC = d.targetTempC
        /\ ProfileOf(d).durationMinutes = d.durationMinutes
    BY <1>1, ProfileFields DEF EmptyProfile
  <2> QED BY <1>1, <2>1 DEF IsValid, ValidConstant
<1>2. CASE d.mode = "Boost"
  <2>1. /\ ProfileOf(d).mode = "Boost" /\ ProfileOf(d).targetTempC = d.targetTempC
        /\ ProfileOf(d).highTempC = d.targetTempC + d.boostDeltaC
        /\ ProfileOf(d).durationMinutes = d.durationMinutes
        /\ ProfileOf(d).highPhaseMinutes = d.boostDurationMinutes
    BY <1>2, ProfileFields DEF EmptyProfile
  <2>2. d.targetTempC <= d.targetTempC + d.boostDeltaC <=> d.boostDeltaC >= 0
    BY DraftFields
  <2> QED BY <1>2, <2>1, <2>2 DEF IsValid, ValidConstant, ValidBoost, TwiceHighPhase
<1>3. CASE d.mode = "Fluctuating"
  <2>1. /\ ProfileOf(d).mode = "Fluctuating" /\ ProfileOf(d).targetTempC = d.targetTempC
        /\ ProfileOf(d).lowTempC = d.lowerTempC /\ ProfileOf(d).highTempC = d.upperTempC
        /\ ProfileOf(d).durationMinutes = d.durationMinutes
        /\ ProfileOf(d).highPhaseMinutes = d.upperDurationMinutes
        /\ ProfileOf(d).lowPhaseMinutes = d.lowerDurationMinutes
    <3>1. ProfileOf(d) = [mode |-> "Fluctuating", targetTempC |-> d.targetTempC,
                          lowTempC |-> d.lowerTempC, highTempC |-> d.upperTempC,
                          durationMinutes |-> d.durationMinutes,
                          highPhaseMinutes |-> d.upperDurationMinutes,
                          lowPhaseMinutes |-> d.lowerDurationMinutes]
      BY <1>3, ProfileFields
    <3> QED BY <3>1
  <2> QED BY <1>3, <2>1 DEF IsValid, ValidConstant, ValidFluctuating
<1> QED BY <1>1, <1>2, <1>3

\* The draft loadProfile() makes of a profile is a draft, and a valid one of a
\* valid profile.
LEMMA LoadedDraft ==
  ASSUME NEW p \in ProfileConfig
  PROVE  /\ DraftOf(p) \in ManualProgramDraft
         /\ IsValid(p) => IsValid(ProfileOf(DraftOf(p)))
<1> DEFINE d == [DefaultDraft EXCEPT !.targetTempC = p.targetTempC,
                                     !.durationMinutes = p.durationMinutes]
<1>1. /\ p.mode \in {"Fixed", "Boost", "Fluctuating"}
      /\ p.targetTempC \in Int /\ p.lowTempC \in Int /\ p.highTempC \in Int
      /\ p.durationMinutes \in Nat /\ p.highPhaseMinutes \in Nat /\ p.lowPhaseMinutes \in Nat
  BY DEF ProfileConfig, ProfileMode
<1>2. DefaultDraft \in ManualProgramDraft
  BY EditorAssumption
<1>3. /\ d \in ManualProgramDraft
      /\ d.targetTempC = p.targetTempC /\ d.durationMinutes = p.durationMinutes
  BY <1>1, <1>2 DEF ManualProgramDraft
<1> HIDE DEF d
<1>4. CASE p.mode = "Fixed"
  <2>1. DraftOf(p) = d /\ d.mode = "Constant"
    BY <1>2, <1>4, EditorAssumption DEF DraftOf, d, ManualProgramDraft
  <2>2. IsValid(p) => ValidConstant(d)
    BY <1>3 DEF IsValid, ValidConstant
  <2> QED BY <1>3, <2>1, <2>2, ValidByMode
<1>5. CASE p.mode = "Boost"
  <2> DEFINE delta == p.highTempC - p.targetTempC
             e == [d EXCEPT !.mode = "Boost", !.boostDeltaC = delta,
                            !.boostDurationMinutes = p.highPhaseMinutes]
  <2>1. DraftOf(p) = e /\ delta = p.highTempC - p.targetTempC /\ delta \in Int
    BY <1>1, <1>5 DEF DraftOf, d
  <2> HIDE DEF delta
  <2>2. /\ e \in ManualProgramDraft /\ e.mode = "Boost"
        /\ e.targetTempC = p.targetTempC /\ e.durationMinutes = p.durationMinutes
        /\ e.boostDeltaC = delta
        /\ e.boostDurationMinutes = p.highPhaseMinutes
    BY <1>1, <1>3, <2>1 DEF ManualProgramDraft
  <2> HIDE DEF e
  <2>3. /\ e.targetTempC + e.boostDeltaC = p.highTempC
        /\ p.targetTempC <= p.highTempC <=> e.boostDeltaC >= 0
    BY <1>1, <2>1, <2>2
  <2>4. IsValid(p) => ValidBoost(e)
    BY <1>5, <2>2, <2>3 DEF IsValid, ValidConstant, ValidBoost, TwiceHighPhase
  <2> QED BY <2>1, <2>2, <2>4, ValidByMode
<1>6. CASE p.mode = "Fluctuating"
  <2> DEFINE e == [d EXCEPT !.mode = "Fluctuating", !.upperTempC = p.highTempC,
                            !.lowerTempC = p.lowTempC,
                            !.upperDurationMinutes = p.highPhaseMinutes,
                            !.lowerDurationMinutes = p.lowPhaseMinutes]
  <2>1. DraftOf(p) = e
    BY <1>6 DEF DraftOf, d
  <2>2. /\ e \in ManualProgramDraft /\ e.mode = "Fluctuating"
        /\ e.targetTempC = p.targetTempC /\ e.durationMinutes = p.durationMinutes
        /\ e.upperTempC = p.highTempC /\ e.lowerTempC = p.lowTempC
        /\ e.upperDurationMinutes = p.highPhaseMinutes
        /\ e.lowerDurationMinutes = p.lowPhaseMinutes
    BY <1>1, <1>3 DEF ManualProgramDraft
  <2> HIDE DEF e
  <2>3. IsValid(p) => ValidFluctuating(e)
    BY <1>6, <2>2 DEF IsValid, ValidConstant, ValidFluctuating
  <2> QED BY <2>1, <2>2, <2>3, ValidByMode
<1> QED BY <1>1, <1>4, <1>5, <1>6

\* The profile of a draft is a profile, and comes back from the draft that is
\* loaded from it, although that draft has lost the values of other modes.
LEMMA RoundTrip ==
  ASSUME NEW d \in ManualProgramDraft
  PROVE  /\ ProfileOf(d) \in ProfileConfig
         /\ ProfileOf(DraftOf(ProfileOf(d))) = ProfileOf(d)
<1> DEFINE p == ProfileOf(d)
           e == DraftOf(p)
<1>1. /\ d.mode \in {"Constant", "Boost", "Fluctuating"}
      /\ d.targetTempC \in Int /\ d.durationMinutes \in Nat
      /\ d.boostDeltaC \in Int /\ d.boostDurationMinutes \in Nat
      /\ d.upperTempC \in Int /\ d.lowerTempC \in Int
      /\ d.upperDurationMinutes \in Nat /\ d.lowerDurationMinutes \in Nat
  BY DraftFields
<1>2. p \in ProfileConfig
  <2>1. EmptyProfile \in ProfileConfig
    BY DEF EmptyProfile, ProfileConfig, ProfileMode
  <2>2. CASE d.mode = "Constant"
    <3>1. p = [EmptyProfile EXCEPT !.targetTempC = d.targetTempC,
                                   !.durationMinutes = d.durationMinutes]
      BY <2>2, ProfileFields
    <3> HIDE DEF p
    <3> QED BY <1>1, <2>1, <3>1 DEF ProfileConfig
  <2>3. CASE d.mode = "Boost"
    <3> DEFINE high == d.targetTempC + d.boostDeltaC
    <3>1. high \in Int
      BY <1>1
    <3>2. p = [EmptyProfile EXCEPT !.mode = "Boost", !.targetTempC = d.targetTempC,
                                   !.highTempC = high,
                                   !.durationMinutes = d.durationMinutes,
                                   !.highPhaseMinutes = d.boostDurationMinutes]
      BY <2>3, ProfileFields
    <3> HIDE DEF high, p
    <3> QED BY <1>1, <2>1, <3>1, <3>2 DEF ProfileConfig, ProfileMode
  <2>4. CASE d.mode = "Fluctuating"
    <3>1. p = [mode |-> "Fluctuating", targetTempC |-> d.targetTempC,
               lowTempC |-> d.lowerTempC, highTempC |-> d.upperTempC,
               durationMinutes |-> d.durationMinutes,
               highPhaseMinutes |-> d.upperDurationMinutes,
               lowPhaseMinutes |-> d.lowerDurationMinutes]
      BY <2>4, ProfileFields
    <3> HIDE DEF p
    <3> QED BY <1>1, <3>1 DEF ProfileConfig, ProfileMode
  <2> QED BY <1>1, <2>2, <2>3, <2>4
<1>3. e \in ManualProgramDraft
  BY <1>2, LoadedDraft
<1>4. DefaultDraft \in ManualProgramDraft /\ DefaultDraft.mode = "Constant"
  BY EditorAssumption
<1>5. CASE d.mode = "Constant"
  <2>1. p.mode = "Fixed" /\ p.targetTempC = d.targetTempC
        /\ p.durationMinutes = d.durationMinutes
    BY <1>5 DEF ProfileOf, EmptyProfile
  <2>2. /\ e.mode = "Constant" /\ e.targetTempC = d.targetTempC
        /\ e.durationMinutes = d.durationMinutes
    BY <1>4, <2>1 DEF DraftOf, ManualProgramDraft
  <2> QED BY <1>2, <1>3, <1>5, <2>2, ProfileFields
<1>6. CASE d.mode = "Boost"
  <2>1. /\ p.mode = "Boost" /\ p.targetTempC = d.targetTempC
        /\ p.durationMinutes = d.durationMinutes
        /\ p.highTempC = d.targetTempC + d.boostDeltaC
        /\ p.highPhaseMinutes = d.boostDurationMinutes
    BY <1>6 DEF ProfileOf, EmptyProfile
  <2>2. /\ e.mode = "Boost" /\ e.targetTempC = d.targetTempC
        /\ e.durationMinutes = d.durationMinutes
        /\ e.boostDeltaC = p.highTempC - p.targetTempC
        /\ e.boostDurationMinutes = d.boostDurationMinutes
    BY <1>4, <2>1 DEF DraftOf, ManualProgramDraft
  <2>3. e.boostDeltaC = d.boostDeltaC
    BY <1>1, <2>1, <2>2
  <2>4. e.targetTempC + e.boostDeltaC = d.targetTempC + d.boostDeltaC
    BY <2>2, <2>3
  <2>5. ProfileOf(e) =
          [EmptyProfile EXCEPT !.mode = "Boost", !.targetTempC = e.targetTempC,
                               !.highTempC = e.targetTempC + e.boostDeltaC,
                               !.durationMinutes = e.durationMinutes,
                               !.highPhaseMinutes = e.boostDurationMinutes]
    BY <1>3, <2>2, ProfileFields
  <2>6. p = [EmptyProfile EXCEPT !.mode = "Boost", !.targetTempC = d.targetTempC,
                                 !.highTempC = d.targetTempC + d.boostDeltaC,
                                 !.durationMinutes = d.durationMinutes,
                                 !.highPhaseMinutes = d.boostDurationMinutes]
    BY <1>6, ProfileFields
  <2> HIDE DEF p, e
  <2>7. ProfileOf(e) = p
    BY <2>2, <2>4, <2>5, <2>6, Zenon
  <2> QED BY <1>2, <2>7 DEF p, e
<1>7. CASE d.mode = "Fluctuating"
  <2>1. p = [mode |-> "Fluctuating", targetTempC |-> d.targetTempC,
             lowTempC |-> d.lowerTempC, highTempC |-> d.upperTempC,
             durationMinutes |-> d.durationMinutes,
             highPhaseMinutes |-> d.upperDurationMinutes,
             lowPhaseMinutes |-> d.lowerDurationMinutes]
    BY <1>7, ProfileFields
  <2>2. /\ e.mode = "Fluctuating" /\ e.targetTempC = d.targetTempC
        /\ e.durationMinutes = d.durationMinutes
        /\ e.upperTempC = d.upperTempC /\ e.lowerTempC = d.lowerTempC
        /\ e.upperDurationMinutes = d.upperDurationMinutes
        /\ e.lowerDurationMinutes = d.lowerDurationMinutes
    <3>1. e = [[DefaultDraft EXCEPT !.targetTempC = p.targetTempC,
                                    !.durationMinutes = p.durationMinutes]
                 EXCEPT !.mode = "Fluctuating", !.upperTempC = p.highTempC,
                        !.lowerTempC = p.lowTempC,
                        !.upperDurationMinutes = p.highPhaseMinutes,
                        !.lowerDurationMinutes = p.lowPhaseMinutes]
      BY <2>1 DEF DraftOf
    <3>2. /\ p.targetTempC = d.targetTempC /\ p.durationMinutes = d.durationMinutes
          /\ p.highTempC = d.upperTempC /\ p.lowTempC = d.lowerTempC
          /\ p.highPhaseMinutes = d.upperDurationMinutes
          /\ p.lowPhaseMinutes = d.lowerDurationMinutes
      BY <2>1
    <3> HIDE DEF p, e
    <3> QED BY <1>4, <3>1, <3>2 DEF ManualProgramDraft
  <2> QED BY <1>2, <1>3, <2>1, <2>2, ProfileFields
<1> QED BY <1>1, <1>2, <1>5, <1>6, <1>7

------------------------------------------------------------------------------
(* The edits                                                                  *)

\* What every edit of a value promises: the draft stays a draft of its mode, a
\* valid program stays valid and within reach of its reference.
Edited ==
  /\ draft' \in ManualProgramDraft /\ draft'.mode = draft.mode
  /\ dirty' = TRUE /\ edits' = edits + 1 /\ baseline' = baseline
  /\ IsValid(ProfileOf(draft)) => IsValid(ProfileOf(draft'))
  /\ WithinReach(draft) => WithinReach(draft')

\* A remainder is no larger than the number.
LEMMA RemainderIsSmall ==
  ASSUME NEW n \in Nat, NEW range \in Nat \ {0}
  PROVE  n % range <= n
<1> DEFINE q == n \div range
           r == n % range
<1>1. n = range * q + r /\ q \in Int /\ r \in 0..range - 1
  OBVIOUS
<1>2. q >= 0
  <2> HIDE DEF q, r
  <2>1. \A k \in Int : k < 0 => range * k <= -range
    OBVIOUS
  <2> QED BY <1>1, <2>1
<1>3. range * q \in Nat
  <2> HIDE DEF q, r
  <2>1. \A j, k \in Nat : j * k \in Nat
    OBVIOUS
  <2> QED BY <1>1, <1>2, <2>1
<1> HIDE DEF q
<1> QED BY <1>1, <1>3

\* One turn of the encoder moves a value by a step up or down.
LEMMA NextIsInteger ==
  ASSUME NEW delta \in {-1, 1}, NEW value \in Int, NEW increment \in Int
  PROVE  value + delta * increment \in Int /\ value + delta \in Int
OBVIOUS

\* A change of one value, that of a field of the draft.
LEMMA ChangeSets ==
  ASSUME NEW field, NEW d, Change(field, d)
  PROVE  draft' = d /\ dirty' = TRUE /\ edits' = edits + 1 /\ baseline' = baseline
BY DEF Change, Edit

\* The reference stays allowed, under the boost and between the temperatures
\* of the fluctuation.
LEMMA TemperatureEdited ==
  ASSUME TypeOK, NEW delta \in {-1, 1}, EditTemperature(delta)
  PROVE  Edited
<1> DEFINE next == draft.targetTempC + delta
<1>1. /\ draft \in ManualProgramDraft /\ next \in Int
  BY DraftFields DEF TypeOK
<1>2. /\ IsAllowedTemp(next)
      /\ draft.mode = "Boost" => next + draft.boostDeltaC <= MAX_TARGET_TEMP_C
      /\ draft.mode = "Fluctuating" =>
           /\ IsUpperTempValidForReference(draft.upperTempC, next)
           /\ IsLowerTempValidForReference(draft.lowerTempC, next)
      /\ Change("Temperature", [draft EXCEPT !.targetTempC = next])
  BY DEF EditTemperature
<1> HIDE DEF next
<1>3. /\ draft' = [draft EXCEPT !.targetTempC = next]
      /\ dirty' = TRUE /\ edits' = edits + 1 /\ baseline' = baseline
  BY <1>2, ChangeSets
<1>4. /\ draft' \in ManualProgramDraft /\ draft'.mode = draft.mode
      /\ draft'.targetTempC = next /\ draft'.durationMinutes = draft.durationMinutes
      /\ draft'.boostDeltaC = draft.boostDeltaC
      /\ draft'.boostDurationMinutes = draft.boostDurationMinutes
      /\ draft'.upperTempC = draft.upperTempC /\ draft'.lowerTempC = draft.lowerTempC
      /\ draft'.upperDurationMinutes = draft.upperDurationMinutes
      /\ draft'.lowerDurationMinutes = draft.lowerDurationMinutes
  BY <1>1, <1>3 DEF ManualProgramDraft
<1>5. ValidConstant(draft) => ValidConstant(draft')
  BY <1>2, <1>4 DEF ValidConstant
<1>6. draft.mode = "Boost" /\ ValidBoost(draft) => ValidBoost(draft')
  <2>1. draft.boostDeltaC \in Int /\ MAX_TARGET_TEMP_C \in Int
    BY <1>1, DraftFields, ProfileEngineAssumption
  <2>2. next >= 0 /\ draft.boostDeltaC >= 0 => next + draft.boostDeltaC >= 0
    BY <1>1, <2>1
  <2> QED BY <1>2, <1>4, <1>5, <2>2 DEF ValidBoost, IsAllowedTemp
<1>7. ValidFluctuating(draft) => ValidFluctuating(draft')
  BY <1>4, <1>5 DEF ValidFluctuating
<1>8. IsValid(ProfileOf(draft)) => IsValid(ProfileOf(draft'))
  BY <1>1, <1>4, <1>5, <1>6, <1>7, ValidByMode, DraftFields
<1>9. WithinReach(draft')
  BY <1>2, <1>4 DEF WithinReach
<1> QED BY <1>3, <1>4, <1>8, <1>9 DEF Edited

\* The duration stays above twice the boost phase, as isValid() counts it.
LEMMA DurationEdited ==
  ASSUME TypeOK, NEW delta \in {-1, 1}, EditDuration(delta)
  PROVE  Edited
<1> DEFINE next == draft.durationMinutes + delta * DURATION_STEP_MINUTES
<1>1. draft \in ManualProgramDraft /\ next \in Int
  BY DraftFields, NextIsInteger, EditorAssumption DEF TypeOK
<1>2. /\ next \in 1..MAX_DURATION_MINUTES
      /\ draft.mode = "Boost" =>
           (draft.boostDurationMinutes * 2) % UINT_RANGE <= next
      /\ Change("Duration", [draft EXCEPT !.durationMinutes = next])
  BY DEF EditDuration
<1> HIDE DEF next
<1>3. /\ draft' = [draft EXCEPT !.durationMinutes = next]
      /\ dirty' = TRUE /\ edits' = edits + 1 /\ baseline' = baseline
  BY <1>2, ChangeSets
<1>4. next \in Nat
  BY <1>1, <1>2, EditorAssumption
<1>5. /\ draft' \in ManualProgramDraft
      /\ draft'.mode = draft.mode
      /\ draft'.targetTempC = draft.targetTempC
      /\ draft'.durationMinutes = next
      /\ draft'.boostDeltaC = draft.boostDeltaC
      /\ draft'.boostDurationMinutes = draft.boostDurationMinutes
      /\ draft'.upperTempC = draft.upperTempC
      /\ draft'.lowerTempC = draft.lowerTempC
      /\ draft'.upperDurationMinutes = draft.upperDurationMinutes
      /\ draft'.lowerDurationMinutes = draft.lowerDurationMinutes
  BY <1>1, <1>3, <1>4 DEF ManualProgramDraft
<1>6. ValidConstant(draft) => ValidConstant(draft')
  BY <1>2, <1>5, ProfileEngineAssumption DEF ValidConstant
<1>7. draft.mode = "Boost" /\ ValidBoost(draft) => ValidBoost(draft')
  BY <1>2, <1>5, <1>6 DEF ValidBoost
<1>8. ValidFluctuating(draft) => ValidFluctuating(draft')
  BY <1>5, <1>6 DEF ValidFluctuating
<1>9. IsValid(ProfileOf(draft)) => IsValid(ProfileOf(draft'))
  BY <1>1, <1>5, <1>6, <1>7, <1>8, ValidByMode, DraftFields
<1>10. WithinReach(draft) => WithinReach(draft')
  BY <1>2, <1>5 DEF WithinReach
<1> QED BY <1>3, <1>5, <1>9, <1>10 DEF Edited

\* The boost stays below the highest setpoint.
LEMMA BoostDeltaEdited ==
  ASSUME TypeOK, NEW delta \in {-1, 1}, EditBoostDelta(delta)
  PROVE  Edited
<1> DEFINE next == draft.boostDeltaC + delta * BOOST_DELTA_STEP_C
<1>1. draft \in ManualProgramDraft /\ next \in Int
  BY DraftFields, NextIsInteger, EditorAssumption DEF TypeOK
<1>2. /\ next \in 0..MAX_BOOST_DELTA_C
      /\ draft.targetTempC + next <= MAX_TARGET_TEMP_C
      /\ Change("BoostDelta", [draft EXCEPT !.boostDeltaC = next])
  BY DEF EditBoostDelta
<1> HIDE DEF next
<1>3. /\ draft' = [draft EXCEPT !.boostDeltaC = next]
      /\ dirty' = TRUE /\ edits' = edits + 1 /\ baseline' = baseline
  BY <1>2, ChangeSets
<1>4. next \in Int
  BY <1>1
<1>5. /\ draft' \in ManualProgramDraft
      /\ draft'.mode = draft.mode
      /\ draft'.targetTempC = draft.targetTempC
      /\ draft'.durationMinutes = draft.durationMinutes
      /\ draft'.boostDeltaC = next
      /\ draft'.boostDurationMinutes = draft.boostDurationMinutes
      /\ draft'.upperTempC = draft.upperTempC
      /\ draft'.lowerTempC = draft.lowerTempC
      /\ draft'.upperDurationMinutes = draft.upperDurationMinutes
      /\ draft'.lowerDurationMinutes = draft.lowerDurationMinutes
  BY <1>1, <1>3, <1>4 DEF ManualProgramDraft
<1>6. ValidConstant(draft) => ValidConstant(draft')
  BY <1>5 DEF ValidConstant
<1>7. ValidBoost(draft) => ValidBoost(draft')
  <2>1. draft.targetTempC \in Int
    BY <1>1, DraftFields
  <2>2. draft.targetTempC >= 0 => draft.targetTempC + next >= 0
    BY <1>2, <1>4, <2>1
  <2> QED BY <1>2, <1>4, <1>5, <1>6, <2>2, EditorAssumption
          DEF ValidBoost, ValidConstant, IsAllowedTemp
<1>8. ValidFluctuating(draft) => ValidFluctuating(draft')
  BY <1>5, <1>6 DEF ValidFluctuating
<1>9. IsValid(ProfileOf(draft)) => IsValid(ProfileOf(draft'))
  BY <1>1, <1>5, <1>6, <1>7, <1>8, ValidByMode, DraftFields
<1>10. WithinReach(draft) => WithinReach(draft')
  BY <1>2, <1>5 DEF WithinReach
<1> QED BY <1>3, <1>5, <1>9, <1>10 DEF Edited

\* The boost phase is bounded without the wrap, which is the stricter bound.
LEMMA BoostDurationEdited ==
  ASSUME TypeOK, NEW delta \in {-1, 1}, EditBoostDuration(delta)
  PROVE  Edited
<1> DEFINE next == draft.boostDurationMinutes + delta * BOOST_DURATION_STEP_MINUTES
<1>1. draft \in ManualProgramDraft /\ next \in Int
  BY DraftFields, NextIsInteger, EditorAssumption DEF TypeOK
<1>2. /\ next > 0
      /\ next * 2 <= draft.durationMinutes
      /\ Change("BoostDuration", [draft EXCEPT !.boostDurationMinutes = next])
  BY DEF EditBoostDuration
<1> HIDE DEF next
<1>3. /\ draft' = [draft EXCEPT !.boostDurationMinutes = next]
      /\ dirty' = TRUE /\ edits' = edits + 1 /\ baseline' = baseline
  BY <1>2, ChangeSets
<1>4. next \in Nat
  BY <1>1, <1>2, EditorAssumption
<1>5. /\ draft' \in ManualProgramDraft
      /\ draft'.mode = draft.mode
      /\ draft'.targetTempC = draft.targetTempC
      /\ draft'.durationMinutes = draft.durationMinutes
      /\ draft'.boostDeltaC = draft.boostDeltaC
      /\ draft'.boostDurationMinutes = next
      /\ draft'.upperTempC = draft.upperTempC
      /\ draft'.lowerTempC = draft.lowerTempC
      /\ draft'.upperDurationMinutes = draft.upperDurationMinutes
      /\ draft'.lowerDurationMinutes = draft.lowerDurationMinutes
  BY <1>1, <1>3, <1>4 DEF ManualProgramDraft
<1>6. ValidConstant(draft) => ValidConstant(draft')
  BY <1>5 DEF ValidConstant
<1>7. ValidBoost(draft) => ValidBoost(draft')
  <2>1. next * 2 \in Nat /\ UINT_RANGE \in Nat \ {0}
    BY <1>4, ProfileEngineAssumption
  <2>2. (next * 2) % UINT_RANGE <= next * 2 /\ (next * 2) % UINT_RANGE \in Nat
    BY <2>1, RemainderIsSmall
  <2>3. draft.durationMinutes \in Nat
    BY <1>1, DraftFields
  <2>4. (next * 2) % UINT_RANGE <= draft.durationMinutes
    BY <1>2, <2>1, <2>2, <2>3
  <2> QED BY <1>2, <1>5, <1>6, <2>4 DEF ValidBoost
<1>8. ValidFluctuating(draft) => ValidFluctuating(draft')
  BY <1>5, <1>6 DEF ValidFluctuating
<1>9. IsValid(ProfileOf(draft)) => IsValid(ProfileOf(draft'))
  BY <1>1, <1>5, <1>6, <1>7, <1>8, ValidByMode, DraftFields
<1>10. WithinReach(draft) => WithinReach(draft')
  BY <1>2, <1>5 DEF WithinReach
<1> QED BY <1>3, <1>5, <1>9, <1>10 DEF Edited

\* The upper temperature stays above the lower one and near the reference.
LEMMA UpperTempEdited ==
  ASSUME TypeOK, NEW delta \in {-1, 1}, EditUpperTemp(delta)
  PROVE  Edited
<1> DEFINE next == draft.upperTempC + delta
<1>1. draft \in ManualProgramDraft /\ next \in Int
  BY DraftFields, NextIsInteger, EditorAssumption DEF TypeOK
<1>2. /\ next >= draft.lowerTempC /\ IsAllowedTemp(next)
      /\ IsUpperTempValidForReference(next, draft.targetTempC)
      /\ Change("UpperTemp", [draft EXCEPT !.upperTempC = next])
  BY DEF EditUpperTemp
<1> HIDE DEF next
<1>3. /\ draft' = [draft EXCEPT !.upperTempC = next]
      /\ dirty' = TRUE /\ edits' = edits + 1 /\ baseline' = baseline
  BY <1>2, ChangeSets
<1>4. next \in Int
  BY <1>1
<1>5. /\ draft' \in ManualProgramDraft
      /\ draft'.mode = draft.mode
      /\ draft'.targetTempC = draft.targetTempC
      /\ draft'.durationMinutes = draft.durationMinutes
      /\ draft'.boostDeltaC = draft.boostDeltaC
      /\ draft'.boostDurationMinutes = draft.boostDurationMinutes
      /\ draft'.upperTempC = next
      /\ draft'.lowerTempC = draft.lowerTempC
      /\ draft'.upperDurationMinutes = draft.upperDurationMinutes
      /\ draft'.lowerDurationMinutes = draft.lowerDurationMinutes
  BY <1>1, <1>3, <1>4 DEF ManualProgramDraft
<1>6. ValidConstant(draft) => ValidConstant(draft')
  BY <1>5 DEF ValidConstant
<1>7. ValidBoost(draft) => ValidBoost(draft')
  BY <1>5, <1>6 DEF ValidBoost
<1>8. ValidFluctuating(draft) => ValidFluctuating(draft')
  <2>1. draft.lowerTempC \in Int /\ draft.upperTempC \in Int
    BY <1>1, DraftFields
  <2> QED BY <1>2, <1>4, <1>5, <1>6, <2>1 DEF ValidFluctuating
<1>9. IsValid(ProfileOf(draft)) => IsValid(ProfileOf(draft'))
  BY <1>1, <1>5, <1>6, <1>7, <1>8, ValidByMode, DraftFields
<1>10. WithinReach(draft) => WithinReach(draft')
  BY <1>2, <1>5 DEF WithinReach
<1> QED BY <1>3, <1>5, <1>9, <1>10 DEF Edited

\* So does the lower one, from below.
LEMMA LowerTempEdited ==
  ASSUME TypeOK, NEW delta \in {-1, 1}, EditLowerTemp(delta)
  PROVE  Edited
<1> DEFINE next == draft.lowerTempC + delta
<1>1. draft \in ManualProgramDraft /\ next \in Int
  BY DraftFields, NextIsInteger, EditorAssumption DEF TypeOK
<1>2. /\ next <= draft.upperTempC /\ IsAllowedTemp(next)
      /\ IsLowerTempValidForReference(next, draft.targetTempC)
      /\ Change("LowerTemp", [draft EXCEPT !.lowerTempC = next])
  BY DEF EditLowerTemp
<1> HIDE DEF next
<1>3. /\ draft' = [draft EXCEPT !.lowerTempC = next]
      /\ dirty' = TRUE /\ edits' = edits + 1 /\ baseline' = baseline
  BY <1>2, ChangeSets
<1>4. next \in Int
  BY <1>1
<1>5. /\ draft' \in ManualProgramDraft
      /\ draft'.mode = draft.mode
      /\ draft'.targetTempC = draft.targetTempC
      /\ draft'.durationMinutes = draft.durationMinutes
      /\ draft'.boostDeltaC = draft.boostDeltaC
      /\ draft'.boostDurationMinutes = draft.boostDurationMinutes
      /\ draft'.upperTempC = draft.upperTempC
      /\ draft'.lowerTempC = next
      /\ draft'.upperDurationMinutes = draft.upperDurationMinutes
      /\ draft'.lowerDurationMinutes = draft.lowerDurationMinutes
  BY <1>1, <1>3, <1>4 DEF ManualProgramDraft
<1>6. ValidConstant(draft) => ValidConstant(draft')
  BY <1>5 DEF ValidConstant
<1>7. ValidBoost(draft) => ValidBoost(draft')
  BY <1>5, <1>6 DEF ValidBoost
<1>8. ValidFluctuating(draft) => ValidFluctuating(draft')
  <2>1. draft.lowerTempC \in Int /\ draft.upperTempC \in Int
    BY <1>1, DraftFields
  <2> QED BY <1>2, <1>4, <1>5, <1>6, <2>1 DEF ValidFluctuating
<1>9. IsValid(ProfileOf(draft)) => IsValid(ProfileOf(draft'))
  BY <1>1, <1>5, <1>6, <1>7, <1>8, ValidByMode, DraftFields
<1>10. WithinReach(draft) => WithinReach(draft')
  BY <1>2, <1>5 DEF WithinReach
<1> QED BY <1>3, <1>5, <1>9, <1>10 DEF Edited

\* The first phase of a fluctuation takes some time.
LEMMA UpperDurationEdited ==
  ASSUME TypeOK, NEW delta \in {-1, 1}, EditUpperDuration(delta)
  PROVE  Edited
<1> DEFINE next == draft.upperDurationMinutes + delta * FLUCT_DURATION_STEP_MINUTES
<1>1. draft \in ManualProgramDraft /\ next \in Int
  BY DraftFields, NextIsInteger, EditorAssumption DEF TypeOK
<1>2. /\ next > 0
      /\ Change("UpperDuration", [draft EXCEPT !.upperDurationMinutes = next])
  BY <1>1, EditorAssumption DEF EditUpperDuration, PhaseDurations
<1> HIDE DEF next
<1>3. /\ draft' = [draft EXCEPT !.upperDurationMinutes = next]
      /\ dirty' = TRUE /\ edits' = edits + 1 /\ baseline' = baseline
  BY <1>2, ChangeSets
<1>4. next \in Nat
  BY <1>1, <1>2, EditorAssumption
<1>5. /\ draft' \in ManualProgramDraft
      /\ draft'.mode = draft.mode
      /\ draft'.targetTempC = draft.targetTempC
      /\ draft'.durationMinutes = draft.durationMinutes
      /\ draft'.boostDeltaC = draft.boostDeltaC
      /\ draft'.boostDurationMinutes = draft.boostDurationMinutes
      /\ draft'.upperTempC = draft.upperTempC
      /\ draft'.lowerTempC = draft.lowerTempC
      /\ draft'.upperDurationMinutes = next
      /\ draft'.lowerDurationMinutes = draft.lowerDurationMinutes
  BY <1>1, <1>3, <1>4 DEF ManualProgramDraft
<1>6. ValidConstant(draft) => ValidConstant(draft')
  BY <1>5 DEF ValidConstant
<1>7. ValidBoost(draft) => ValidBoost(draft')
  BY <1>5, <1>6 DEF ValidBoost
<1>8. ValidFluctuating(draft) => ValidFluctuating(draft')
  BY <1>2, <1>5, <1>6 DEF ValidFluctuating
<1>9. IsValid(ProfileOf(draft)) => IsValid(ProfileOf(draft'))
  BY <1>1, <1>5, <1>6, <1>7, <1>8, ValidByMode, DraftFields
<1>10. WithinReach(draft) => WithinReach(draft')
  BY <1>2, <1>5 DEF WithinReach
<1> QED BY <1>3, <1>5, <1>9, <1>10 DEF Edited

\* The second phase takes some time.
LEMMA LowerDurationEdited ==
  ASSUME TypeOK, NEW delta \in {-1, 1}, EditLowerDuration(delta)
  PROVE  Edited
<1> DEFINE next == draft.lowerDurationMinutes + delta * FLUCT_DURATION_STEP_MINUTES
<1>1. draft \in ManualProgramDraft /\ next \in Int
  BY DraftFields, NextIsInteger, EditorAssumption DEF TypeOK
<1>2. /\ next > 0
      /\ Change("LowerDuration", [draft EXCEPT !.lowerDurationMinutes = next])
  BY <1>1, EditorAssumption DEF EditLowerDuration, PhaseDurations
<1> HIDE DEF next
<1>3. /\ draft' = [draft EXCEPT !.lowerDurationMinutes = next]
      /\ dirty' = TRUE /\ edits' = edits + 1 /\ baseline' = baseline
  BY <1>2, ChangeSets
<1>4. next \in Nat
  BY <1>1, <1>2, EditorAssumption
<1>5. /\ draft' \in ManualProgramDraft
      /\ draft'.mode = draft.mode
      /\ draft'.targetTempC = draft.targetTempC
      /\ draft'.durationMinutes = draft.durationMinutes
      /\ draft'.boostDeltaC = draft.boostDeltaC
      /\ draft'.boostDurationMinutes = draft.boostDurationMinutes
      /\ draft'.upperTempC = draft.upperTempC
      /\ draft'.lowerTempC = draft.lowerTempC
      /\ draft'.upperDurationMinutes = draft.upperDurationMinutes
      /\ draft'.lowerDurationMinutes = next
  BY <1>1, <1>3, <1>4 DEF ManualProgramDraft
<1>6. ValidConstant(draft) => ValidConstant(draft')
  BY <1>5 DEF ValidConstant
<1>7. ValidBoost(draft) => ValidBoost(draft')
  BY <1>5, <1>6 DEF ValidBoost
<1>8. ValidFluctuating(draft) => ValidFluctuating(draft')
  BY <1>2, <1>5, <1>6 DEF ValidFluctuating
<1>9. IsValid(ProfileOf(draft)) => IsValid(ProfileOf(draft'))
  BY <1>1, <1>5, <1>6, <1>7, <1>8, ValidByMode, DraftFields
<1>10. WithinReach(draft) => WithinReach(draft')
  BY <1>2, <1>5 DEF WithinReach
<1> QED BY <1>3, <1>5, <1>9, <1>10 DEF Edited

------------------------------------------------------------------------------
(* The steps of the editor                                                    *)

\* A draft put in its own mode is that draft.
LEMMA OwnMode ==
  ASSUME NEW d \in ManualProgramDraft
  PROVE  [d EXCEPT !.mode = d.mode] = d
BY DEF ManualProgramDraft

\* Loading a valid draft leaves nothing unsaved and a valid program to go back
\* to.
LEMMA LoadKeepsIInv ==
  ASSUME NEW d \in ManualProgramDraft, IsValid(ProfileOf(d)),
         NEW slot, Load(d, slot), edits' \in Nat
  PROVE  IInv'
<1>1. /\ draft' = d /\ dirty' = FALSE
      /\ baseline'.profile = ProfileOf(d)
  BY DEF Load
<1>2. ProfileOf([draft' EXCEPT !.mode = d.mode]) = baseline'.profile
  BY <1>1, OwnMode
<1>3. CleanUpToMode'
  BY <1>2, DraftFields DEF CleanUpToMode
<1> QED BY <1>1, <1>3 DEF IInv, TypeOK, BaselineIsProgram

\* The draft that discarding goes back to: it is valid, and the program it
\* stands for is the one last loaded or saved.
LEMMA BaselineDraft ==
  ASSUME BaselineIsProgram
  PROVE  /\ DraftOf(baseline.profile) \in ManualProgramDraft
         /\ ProfileOf(DraftOf(baseline.profile)) = baseline.profile
         /\ IsValid(baseline.profile)
<1>1. PICK d \in ManualProgramDraft :
        baseline.profile = ProfileOf(d) /\ IsValid(ProfileOf(d))
  BY DEF BaselineIsProgram
<1>2. /\ ProfileOf(d) \in ProfileConfig
      /\ ProfileOf(DraftOf(ProfileOf(d))) = ProfileOf(d)
  BY RoundTrip
<1>3. DraftOf(ProfileOf(d)) \in ManualProgramDraft
  BY <1>2, LoadedDraft
<1> QED BY <1>1, <1>2, <1>3

\* What a turn on the mode does: another mode, and nothing else.
LEMMA ModeEdited ==
  ASSUME TypeOK, NEW delta \in {-1, 1}, EditMode(delta)
  PROVE  /\ \E m \in {"Constant", "Boost", "Fluctuating"} :
              m # draft.mode /\ draft' = [draft EXCEPT !.mode = m]
         /\ draft' \in ManualProgramDraft /\ draft'.mode # draft.mode
         /\ dirty' = dirty /\ edits' = edits + 1 /\ baseline' = baseline
<1> DEFINE at == CHOOSE i \in 1..3 : ManualProgramMode[i] = draft.mode
<1>1. draft \in ManualProgramDraft /\ draft.mode \in {"Constant", "Boost", "Fluctuating"}
  BY DraftFields DEF TypeOK
<1>2. /\ ManualProgramMode[1] = "Constant" /\ ManualProgramMode[2] = "Boost"
      /\ ManualProgramMode[3] = "Fluctuating"
  BY DEF ManualProgramMode
<1>3. \E i \in 1..3 : ManualProgramMode[i] = draft.mode
  BY <1>1, <1>2
<1>4. at \in 1..3 /\ ManualProgramMode[at] = draft.mode
  BY <1>3
<1>5. /\ at + delta \in 1..3
      /\ draft' = [draft EXCEPT !.mode = ManualProgramMode[at + delta]]
      /\ dirty' = dirty /\ edits' = edits + 1 /\ baseline' = baseline
  BY DEF EditMode, Edit
<1> DEFINE m == ManualProgramMode[at + delta]
<1>6. /\ m \in {"Constant", "Boost", "Fluctuating"}
      /\ m # draft.mode
  <2> HIDE DEF at
  <2> QED BY <1>2, <1>4, <1>5
<1>7. draft' = [draft EXCEPT !.mode = m]
  BY <1>5
<1> HIDE DEF at, m
<1>8. draft' \in ManualProgramDraft /\ draft'.mode = m
  BY <1>1, <1>6, <1>7 DEF ManualProgramDraft
<1> QED BY <1>5, <1>6, <1>7, <1>8

\* The edits of one value, taken together.
LEMMA ValueEdited ==
  ASSUME TypeOK, NEW delta \in {-1, 1},
         EditSelectedField(delta), ~EditMode(delta)
  PROVE  Edited
BY TemperatureEdited, DurationEdited, BoostDeltaEdited, BoostDurationEdited,
   UpperTempEdited, LowerTempEdited, UpperDurationEdited, LowerDurationEdited
   DEF EditSelectedField

\* Steps that move in the screen only.
Moved == UNCHANGED <<draft, dirty, baseline, edits>>

\* A step loads a draft, saves the program, edits it or moves in the screen.
LEMMA Steps ==
  ASSUME [Next]_vars
  PROVE  \/ ResetToDefaults
         \/ \E p \in SavedProfiles, slot \in EditorSlots : LoadProfile(p, slot)
         \/ \E slot \in EditorSlots : MarkSaved(slot)
         \/ DiscardChanges
         \/ \E delta \in {-1, 1} : EditSelectedField(delta)
         \/ Moved
<1>1. ASSUME NEW delta \in {-1, 1}, OnNavigate(delta) PROVE Moved
  BY <1>1 DEF OnNavigate, Moved
<1>2. CASE OnShortPress
  BY <1>2 DEF OnShortPress, ToggleEditing, PressBack, Moved
<1>3. CASE UNCHANGED vars
  BY <1>3 DEF vars, Moved
<1> QED BY <1>1, <1>2, <1>3 DEF Next, OnRotate

\* A clean draft is the saved program up to the mode, and turning the mode
\* keeps it so; every other change of the draft marks it.
LEMMA NextKeepsIInv ==
  ASSUME IInv, [Next]_vars
  PROVE  IInv'
<1> USE DEF IInv
<1>1. CASE ResetToDefaults
  BY <1>1, LoadKeepsIInv, EditorAssumption DEF ResetToDefaults
<1>2. ASSUME NEW p \in SavedProfiles, NEW slot \in EditorSlots, LoadProfile(p, slot)
      PROVE  IInv'
  <2>1. DraftOf(p) \in ManualProgramDraft /\ IsValid(ProfileOf(DraftOf(p)))
    BY LoadedDraft, EditorAssumption
  <2> QED BY <1>2, <2>1, LoadKeepsIInv DEF LoadProfile
<1>3. ASSUME NEW slot \in EditorSlots, MarkSaved(slot) PROVE IInv'
  <2>1. /\ draft' = draft /\ dirty' = FALSE /\ edits' = edits
        /\ baseline'.profile = ProfileOf(draft) /\ IsValid(ProfileOf(draft))
    BY <1>3 DEF MarkSaved, Profile
  <2>2. TypeOK' /\ BaselineIsProgram'
    BY <2>1 DEF TypeOK, BaselineIsProgram
  <2>3. ProfileOf([draft' EXCEPT !.mode = draft.mode]) = baseline'.profile
    BY <2>1, OwnMode DEF TypeOK
  <2>4. CleanUpToMode'
    BY <2>3, DraftFields DEF TypeOK, CleanUpToMode
  <2> QED BY <2>2, <2>4
<1>4. CASE DiscardChanges
  <2>1. /\ Load(DraftOf(baseline.profile), baseline.slot) /\ edits' \in Nat
    BY <1>4 DEF DiscardChanges, TypeOK
  <2>2. /\ DraftOf(baseline.profile) \in ManualProgramDraft
        /\ IsValid(ProfileOf(DraftOf(baseline.profile)))
    BY BaselineDraft
  <2> QED BY <2>1, <2>2, LoadKeepsIInv
<1>5. ASSUME NEW delta \in {-1, 1}, EditMode(delta) PROVE IInv'
  <2>1. PICK m \in {"Constant", "Boost", "Fluctuating"} :
          draft' = [draft EXCEPT !.mode = m]
    BY <1>5, ModeEdited
  <2>2. /\ draft' \in ManualProgramDraft /\ dirty' = dirty
        /\ edits' = edits + 1 /\ baseline' = baseline
    BY <1>5, ModeEdited
  <2>3. \A n : [draft' EXCEPT !.mode = n] = [draft EXCEPT !.mode = n]
    BY <2>1 DEF TypeOK, ManualProgramDraft
  <2>4. CleanUpToMode'
    BY <2>2, <2>3 DEF CleanUpToMode
  <2> QED BY <2>2, <2>4 DEF TypeOK, BaselineIsProgram
<1>6. ASSUME NEW delta \in {-1, 1}, EditSelectedField(delta), ~EditMode(delta)
      PROVE  IInv'
  <2>1. /\ draft' \in ManualProgramDraft /\ dirty' = TRUE
        /\ edits' = edits + 1 /\ baseline' = baseline
    BY <1>6, ValueEdited DEF Edited
  <2> QED BY <2>1 DEF TypeOK, BaselineIsProgram, CleanUpToMode
<1>7. CASE Moved
  BY <1>7 DEF Moved, TypeOK, BaselineIsProgram, CleanUpToMode
<1> QED BY <1>1, <1>2, <1>3, <1>4, <1>5, <1>6, <1>7, Steps

\* The editor starts with the defaults, which are valid and count as saved.
LEMMA InitIInv ==
  ASSUME Init
  PROVE  IInv
<1>1. /\ draft = DefaultDraft /\ dirty = FALSE /\ edits = 0
      /\ baseline.profile = ProfileOf(DefaultDraft)
  BY DEF Init
<1>2. DefaultDraft \in ManualProgramDraft /\ IsValid(ProfileOf(DefaultDraft))
  BY EditorAssumption
<1>3. ProfileOf([draft EXCEPT !.mode = draft.mode]) = baseline.profile
  BY <1>1, <1>2, OwnMode
<1>4. CleanUpToMode
  BY <1>1, <1>2, <1>3, DraftFields DEF CleanUpToMode
<1> QED BY <1>1, <1>2, <1>4 DEF IInv, TypeOK, BaselineIsProgram

\* The editor's invariant.
THEOREM SpecIInv == Spec => []IInv
<1>1. Init => IInv
  BY InitIInv
<1>2. IInv /\ [Next]_vars => IInv'
  BY NextKeepsIInv
<1> QED BY <1>1, <1>2, PTL DEF Spec

------------------------------------------------------------------------------
(* The properties                                                             *)

\* While the editor says that nothing is unsaved, at most the mode differs
\* from what was saved.
THEOREM CleanMeansSaved == Spec => []CleanUpToMode
<1>1. IInv => CleanUpToMode
  BY DEF IInv
<1> QED BY <1>1, SpecIInv, PTL

\* No sequence of edits within a mode makes a valid program invalid, or takes
\* a fluctuation out of reach of its reference.
THEOREM EditsAreSafe == Spec => EditsKeepProgramValid
<1> DEFINE Kept == draft'.mode = draft.mode =>
                     /\ IsValid(Profile) => IsValid(Profile')
                     /\ edits' > edits /\ WithinReach(draft) => WithinReach(draft)'
<1>1. ASSUME IInv, [Next]_vars PROVE Kept
  <2> USE DEF Profile
  <2>1. /\ edits \in Nat /\ draft \in ManualProgramDraft
        /\ BaselineIsProgram /\ TypeOK
    BY <1>1 DEF IInv, TypeOK
  <2>2. CASE ResetToDefaults
    <3>1. draft' = DefaultDraft /\ edits' = 0
      BY <2>2 DEF ResetToDefaults, Load
    <3> QED BY <2>1, <3>1, EditorAssumption
  <2>3. ASSUME NEW p \in SavedProfiles, NEW slot \in EditorSlots, LoadProfile(p, slot)
        PROVE  Kept
    <3>1. draft' = DraftOf(p) /\ edits' = 0
      BY <2>3 DEF LoadProfile, Load
    <3>2. IsValid(ProfileOf(DraftOf(p)))
      BY LoadedDraft, EditorAssumption
    <3> QED BY <2>1, <3>1, <3>2
  <2>4. ASSUME NEW slot \in EditorSlots, MarkSaved(slot) PROVE Kept
    BY <2>1, <2>4 DEF MarkSaved
  <2>5. CASE DiscardChanges
    <3>1. draft' = DraftOf(baseline.profile) /\ edits' = edits
      BY <2>5 DEF DiscardChanges, Load
    <3>2. IsValid(ProfileOf(DraftOf(baseline.profile)))
      BY <2>1, BaselineDraft
    <3> QED BY <2>1, <3>1, <3>2
  <2>6. ASSUME NEW delta \in {-1, 1}, EditMode(delta) PROVE Kept
    BY <2>1, <2>6, ModeEdited
  <2>7. ASSUME NEW delta \in {-1, 1}, EditSelectedField(delta), ~EditMode(delta)
        PROVE  Kept
    BY <2>1, <2>7, ValueEdited DEF Edited
  <2>8. CASE Moved
    BY <2>1, <2>8 DEF Moved
  <2> QED BY <1>1, <2>2, <2>3, <2>4, <2>5, <2>6, <2>7, <2>8, Steps
<1>2. IInv /\ [Next]_vars => [Kept]_vars
  BY <1>1
<1> QED BY <1>2, SpecIInv, PTL DEF Spec, EditsKeepProgramValid

\* Discarding goes back to exactly the program last loaded or saved, and that
\* program is valid.
THEOREM DiscardGoesBack == Spec => DiscardRestoresBaseline
<1> DEFINE Restored == DiscardChanges =>
                         /\ Profile' = baseline.profile /\ IsValid(Profile')
                         /\ associatedSlot' = baseline.slot
<1>1. ASSUME IInv PROVE Restored
  <2> SUFFICES ASSUME DiscardChanges PROVE /\ Profile' = baseline.profile
                                           /\ IsValid(Profile')
                                           /\ associatedSlot' = baseline.slot
    OBVIOUS
  <2>1. draft' = DraftOf(baseline.profile) /\ associatedSlot' = baseline.slot
    BY DEF DiscardChanges, Load
  <2> QED BY <1>1, <2>1, BaselineDraft DEF IInv, Profile
<1>2. IInv /\ [Next]_vars => [Restored]_vars
  BY <1>1
<1> QED BY <1>2, SpecIInv, PTL DEF Spec, DiscardRestoresBaseline
==============================================================================
