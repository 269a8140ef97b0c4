---------------------------- MODULE MCListScreens ----------------------------
(* Two presets, so that a remembered cursor may stand on the first entry, on  *)
(* another one or on Inapoi; one slot, for the slot lists remember nothing.   *)
EXTENDS ListScreens
==============================================================================
