---------------------------- MODULE MCModbusSend ----------------------------
(***************************************************************************)
(* The two threads that send commands while the server is in manual mode:  *)
(* the controller moves the motor, the main thread stops it or resets      *)
(* errors.                                                                 *)
(***************************************************************************)
EXTENDS ModbusSend

MCSenders == {"main", "controller"}
MCDirections == {"CW"}
MCArgs == {"slow", "fast"}
MCFaults == FaultKinds
MCCallsOf == [main |-> {"immediate_stop", "reset_errors", "drive_enable"},
              controller |-> {"jog", "hold_move", "find_home"}]
=============================================================================
