--------------------------- MODULE MCUserInterface ---------------------------
(* Two slots and two valid programs, so that every mix-up shows, and a third  *)
(* program that an edit of the mode reaches and the evaluator refuses.        *)
EXTENDS UserInterface

TwoSlots == {0, 1}
==============================================================================
