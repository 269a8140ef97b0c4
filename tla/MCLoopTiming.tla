---------------------------- MODULE MCLoopTiming ----------------------------
(* A clock of 16 ms on which the control task runs every 5 ms, the input task *)
(* every 2 ms, and a pass takes up to 3 ms: the clock wraps at every phase of *)
(* both intervals.                                                            *)
EXTENDS LoopTiming

SmallIntervalMs == [task \in Tasks |-> IF task = InputScan THEN 2 ELSE 5]
=============================================================================
