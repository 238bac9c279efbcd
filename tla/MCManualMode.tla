---------------------------- MODULE MCManualMode ----------------------------
(***************************************************************************)
(* Finite instances of ManualMode: one controller that can turn the motor  *)
(* both ways, or two that share it.                                        *)
(***************************************************************************)
EXTENDS ManualMode

OneController == {"c1"}
TwoControllers == {"c1", "c2"}
BothWays == {"CW", "CCW"}
OneWay == {"CW"}
TwoSpeeds == {"slow", "fast"}
OneSpeed == {"slow"}
NoFaults == {}
ThreadFaults == {"thread", "EBADF"}
=============================================================================
