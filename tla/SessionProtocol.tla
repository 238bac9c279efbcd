--------------------------- MODULE SessionProtocol ---------------------------
(***************************************************************************)
(* What the control server promises about a session, without sockets,      *)
(* buffers, Modbus or return codes: which mode it is in, which orders it   *)
(* may give the drive in that mode, and which mode may follow.  The        *)
(* comment in SMD_SocketOps.c that describes "Scenario 1" to "Scenario 3"  *)
(* is the informal version of this module; SessionServer implements it.    *)
(***************************************************************************)

\* Orders that move, configure or re-program the drive.
MotionOrders == {"jog", "find_home", "relative_move", "hold_move", "run_assembled_move",
                 "drive_enable", "drive_disable", "preset_motor", "preset_encoder",
                 "set_configuration", "load_configuration", "program_first_block"}

\* Orders that only stop the drive or clear its error bits.
StopOrders == {"immediate_stop", "reset_errors"}

\* Orders that put an assembled move, segment by segment, into the drive.
UploadOrders == {"program_move_segment", "prepare_for_next_segment", "reset_errors"}

Orders == MotionOrders \cup StopOrders \cup UploadOrders

VARIABLES
    mode,      \* what the server is doing for its one client
    orders     \* what it told the drive while serving the current request

vars == <<mode, orders>>

\* offline: no client is served; noDrive: a client, but no drive connection;
\* ready, manual, awaitMove: the three scenarios of a connected session.
Modes == {"offline", "noDrive", "ready", "manual", "awaitMove"}

TypeOK == /\ mode \in Modes
          /\ orders \in SUBSET Orders

\* The orders a request may cause, by the mode in which it is served.
Allowed == [m \in Modes |->
    CASE m = "ready"     -> MotionOrders \cup StopOrders
      [] m = "manual"    -> StopOrders
      [] m = "awaitMove" -> UploadOrders
      [] OTHER           -> {}]

\* The modes serving a request may lead to.  Neither a failed upload nor a
\* failed stop can leave the session in the mode it was in.
Successors == [m \in Modes |->
    CASE m = "noDrive"   -> {"noDrive", "ready"}
      [] m = "ready"     -> {"ready", "noDrive", "manual"}
      [] m = "manual"    -> {"manual", "ready", "noDrive"}
      [] m = "awaitMove" -> {"ready"}
      [] OTHER           -> {}]

Init == mode = "offline" /\ orders = {}

\* A client is accepted: it never inherits a drive connection.
Admit == /\ mode = "offline"
         /\ mode' = "noDrive"
         /\ orders' = {}

\* The next request is taken from the client.
Hear == /\ mode # "offline"
        /\ orders' = {}
        /\ UNCHANGED mode

\* The request is carried out.
Serve == /\ mode # "offline"
         /\ orders' \in SUBSET Allowed[mode]
         /\ mode' \in Successors[mode]

\* The drive has accepted an assembled move block and the client is told to
\* send the move: the answer, not the order, changes the mode.
AskForMove == /\ mode = "ready"
              /\ mode' = "awaitMove"
              /\ UNCHANGED orders

\* The client is gone, or the process is.
Dismiss == /\ mode' = "offline"
           /\ orders' = {}

Next == Admit \/ Hear \/ Serve \/ AskForMove \/ Dismiss

Spec == Init /\ [][Next]_vars
=============================================================================
