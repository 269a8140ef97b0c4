------------------------ MODULE MCTemperatureControl ------------------------
(* Readings around the switching points of two targets and above the limit. *)
EXTENDS TemperatureControlTiming

SmallInputs ==
  [currentTempDeciC : {390, 391, 400, 590, 750, 751},
   targetTempDeciC : {400, 750}, fanOn : BOOLEAN,
   heaterControlAllowed : BOOLEAN, deltaSeconds : {0, 1, 2}]
==============================================================================
