------------------------------ MODULE DryingRun ------------------------------
(***************************************************************************)
(* What a drying run promises its user, without saying how (REQ-FUNC-005,  *)
(* 011 to 014, REQ-SAFE-004 and the runtime states of architecture.md):    *)
(* the chamber is dried for the time asked for, a pause suspends that time *)
(* with both outputs off, a finished run is aired with the heater off and  *)
(* then announced, and a cancelled run switches everything off at once.    *)
(***************************************************************************)
EXTENDS Integers

CONSTANT AIRING_SECONDS

VARIABLES
  phase,        \* where the run is
  remaining,    \* drying seconds still to come
  airing,       \* airing seconds still to come
  fan, heater, alarm

vars == <<phase, remaining, airing, fan, heater, alarm>>

Phase == {"Off", "Drying", "Held", "Airing", "Announcing"}

Outputs(f, h, a) == fan' = f /\ heater' = h /\ alarm' = a

Init ==
  /\ phase = "Off" /\ remaining = 0 /\ airing = 0
  /\ fan = FALSE /\ heater = FALSE /\ alarm = FALSE

------------------------------------------------------------------------------
\* A run begins with the fan and without heat.
Begin ==
  /\ phase = "Off"
  /\ phase' = "Drying"
  /\ remaining' > 0
  /\ Outputs(TRUE, FALSE, FALSE)
  /\ UNCHANGED airing

\* Time passes; only now may the heater change, and only under the fan.
Dry ==
  /\ phase = "Drying" /\ phase' = "Drying"
  /\ remaining' > 0 /\ remaining' <= remaining
  /\ heater' \in BOOLEAN
  /\ Outputs(TRUE, heater', FALSE)
  /\ UNCHANGED airing

\* The last drying second is over.
Finish ==
  /\ phase = "Drying"
  /\ phase' = "Airing"
  /\ remaining' = 0
  /\ airing' = AIRING_SECONDS
  /\ Outputs(TRUE, FALSE, FALSE)

Air ==
  /\ phase = "Airing"
  /\ airing' <= airing
  /\ \/ phase' = "Airing" /\ airing' > 0 /\ Outputs(TRUE, FALSE, FALSE)
     \/ phase' = "Announcing" /\ airing' = 0 /\ Outputs(FALSE, FALSE, TRUE)
  /\ UNCHANGED remaining

Hold ==
  /\ phase = "Drying"
  /\ phase' = "Held"
  /\ Outputs(FALSE, FALSE, FALSE)
  /\ UNCHANGED <<remaining, airing>>

\* The run goes on where it was held, without heat at first.
Continue ==
  /\ phase = "Held"
  /\ phase' = "Drying"
  /\ Outputs(TRUE, FALSE, FALSE)
  /\ UNCHANGED <<remaining, airing>>

\* The user cancels the run or acknowledges its end.
End ==
  /\ phase # "Off"
  /\ phase' = "Off" /\ remaining' = 0 /\ airing' = 0
  /\ Outputs(FALSE, FALSE, FALSE)

\* The user puts a new run in the place of the present one.
Replace ==
  /\ phase # "Off"
  /\ phase' = "Drying" /\ remaining' > 0 /\ airing' = 0
  /\ Outputs(TRUE, FALSE, FALSE)

Next ==
  \/ Begin \/ Dry \/ Finish \/ Air \/ Hold \/ Continue
  \/ End \/ Replace

Spec == Init /\ [][Next]_vars
==============================================================================
