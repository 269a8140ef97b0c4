------------------------------ MODULE RunInputs ------------------------------
(***************************************************************************)
(* What the run controller is given from outside: the presets of the       *)
(* catalogue, the profiles of the user, and the readings of the            *)
(* thermistor.                                                             *)
(***************************************************************************)
EXTENDS ProfileEngine

CONSTANTS
  Presets,             \* the presets of the catalogue
  PresetProfile,       \* the profile of each preset
  Profiles,            \* manual and saved profiles offered to startProfile
  Readings,            \* what the thermistor may report
  NoPreset, NoToken    \* the null pointers

\* The tokens main.cpp gives to runs that are no presets.
UserTokens == {"manual", "user_profile"}

Reading == [valid : BOOLEAN, tempDeciC : Int]

ASSUME RunInputsAssumption ==
  /\ PresetProfile \in [Presets -> ProfileConfig]
  /\ Readings \subseteq Reading
  /\ NoPreset \notin Presets
  /\ NoToken \notin Presets \cup UserTokens
==============================================================================
