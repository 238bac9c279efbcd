---------------------------- MODULE SessionServer ----------------------------
(***************************************************************************)
(* The main thread of SMDServer: it serves one TCP client at a time,       *)
(* turns what the client wrote into calls of the SMD_* functions, and      *)
(* turns their return codes into texts for the client.                     *)
(*                                                                         *)
(* Modelled: the accept/read loop and its error paths, the dispatch of     *)
(* parse_socket_input over its three scenarios, the global flags, the      *)
(* Modbus "command connection" and the replies.  A Modbus command is one   *)
(* step here with either of its results (module ModbusSend opens it up),   *)
(* and the manual-mode thread is left to module ManualMode.                *)
(***************************************************************************)
EXTENDS Naturals, Sequences, SequencesExt

CONSTANTS
    Drives,          \* drives that answer on the network
    Inputs,          \* what a client may write: records, see InputType
    MaxPipeline,     \* bound: inputs the client has written and the server not read
    Pipelining,      \* may the client write before it has the previous answer?
    UploadMayFail,   \* may the upload of an assembled move break off half-way?
    UploadMayLie     \* may a move be accepted that the drive does not hold?

ASSUME SessionAssumption ==
    /\ MaxPipeline \in Nat \ {0}
    /\ {Pipelining, UploadMayFail, UploadMayLie} \subseteq BOOLEAN
    /\ "none" \notin Drives
    /\ "freed" \notin Drives

(***************************************************************************)
(* One input, as the parser tells inputs apart: the command it starts      *)
(* with, its number of commas, whether its numbers are within the limits   *)
(* (of connect: whether it ends in a newline), and the drive it names      *)
(* (connect) or the type of move (JSON).                                   *)
(***************************************************************************)
InputType == [cmd : STRING, commas : Nat, valid : BOOLEAN, arg : STRING]

ASSUME InputAssumption == \A i \in Inputs :
    /\ DOMAIN i = {"cmd", "commas", "valid", "arg"}
    /\ i.commas \in Nat
    /\ i.valid \in BOOLEAN

VARIABLES
    pc,          \* where the main thread is: "accept", "read", "execute", "reply", "dead"
    cl,          \* the client socket: "none", "open", or "closed" by the server itself
    peer,        \* the client at the other end: "none", "here", "left", or vanished
                 \* without a word: "lost", or "overdue" if something was written to it
    stream,      \* inputs written by the client and not yet read
    buf,         \* inputs the last read returned, in one piece
    code,        \* SMD_RESPONSE_CODES of the request being served
    told,        \* texts written to the client for the current request
    orders,      \* Modbus commands sent to the drive for the current request
    SMD_CONNECTED, smd_command_connection, DEVICE_IP,
    STATUS_WAITING_FOR_ASSEMBLED_MOVE, STATUS_MANUAL_MODE_ENABLE,
    STATUS_TYPE_ASSEMBLED_MOVE,
    profile,     \* per drive: the assembled move it holds, "partial" if unfinished
    misuse       \* a closed handle or a freed string was used, or freed again

client == <<cl, peer, stream>>
request == <<buf, code, told, orders>>
connection == <<SMD_CONNECTED, smd_command_connection, DEVICE_IP, misuse>>
status == <<STATUS_WAITING_FOR_ASSEMBLED_MOVE, STATUS_MANUAL_MODE_ENABLE>>
move == <<STATUS_TYPE_ASSEMBLED_MOVE, profile>>
vars == <<pc, client, request, connection, status, move>>

MoveTypes == {"blend", "dwell"}

Codes == {"none", "COMMAND_SUCCESS", "COMMAND_FAILED", "CONNECT_SUCCESS",
    "DISCONNECT_SUCCESS", "HANDLED_BY_CLIENT", "ENABLE_SUCCESS", "DISABLE_SUCCESS",
    "INVALID_INPUT", "NO_ROUTE_TO_HOST", "INVALID_PARAMETER", "PRESET_POS_SUCCESS",
    "PRESET_ENC_SUCCESS", "PRESET_POS_FAIL", "PRESET_ENC_FAIL", "SAVE_CONFIG_SUCCESS",
    "SAVE_CONFIG_FAIL", "READ_CURRENT_CONFIG_FAIL", "READY_TO_READ_CONFIG",
    "READY_FOR_ASSEMBLED_MOVE", "ASSEMBLED_MOVE_ACCEPTED"}

Init ==
    /\ pc = "accept" /\ cl = "none" /\ peer = "none" /\ stream = <<>>
    /\ buf = <<>> /\ code = "none" /\ told = {} /\ orders = {}
    /\ SMD_CONNECTED = 0 /\ smd_command_connection = "NULL" /\ DEVICE_IP = "none"
    /\ misuse = FALSE
    /\ STATUS_WAITING_FOR_ASSEMBLED_MOVE = 0 /\ STATUS_MANUAL_MODE_ENABLE = 0
    /\ STATUS_TYPE_ASSEMBLED_MOVE = "none"
    /\ profile = [d \in Drives |-> "none"]

-----------------------------------------------------------------------------
(* The process ends: exit(-1), a segmentation fault, or SIGPIPE, which      *)
(* nothing in main.c catches.  The kernel closes its sockets; the drives    *)
(* keep what was uploaded.                                                  *)
Die ==
    /\ pc' = "dead" /\ cl' = "none" /\ peer' = "none" /\ stream' = <<>>
    /\ buf' = <<>> /\ code' = "none" /\ told' = {} /\ orders' = {}
    /\ SMD_CONNECTED' = 0 /\ smd_command_connection' = "NULL" /\ DEVICE_IP' = "none"
    /\ STATUS_WAITING_FOR_ASSEMBLED_MOVE' = 0 /\ STATUS_MANUAL_MODE_ENABLE' = 0
    /\ STATUS_TYPE_ASSEMBLED_MOVE' = "none"
    /\ UNCHANGED misuse

Restart == /\ pc = "dead"
           /\ pc' = "accept"
           /\ UNCHANGED <<client, request, connection, status, move>>

(* What write() on the client's socket may do once the kernel knows that    *)
(* the client has left: be buffered, fail, or raise SIGPIPE.  Before, it is *)
(* buffered.                                                                *)
WriteResults == IF peer = "left" THEN {"ok", "error", "SIGPIPE"} ELSE {"ok"}

\* write_to_client of text, when the process survives it.  What is written to a
\* client that has vanished waits for an acknowledgement that will not come.
Tell(text) == /\ told' = IF peer = "here" THEN told \cup {text} ELSE told
              /\ peer' = IF peer = "lost" THEN "overdue" ELSE peer

-----------------------------------------------------------------------------
(* The client and the listening socket. *)

ClientWrites ==
    /\ peer = "here"
    /\ Len(stream) < MaxPipeline
    /\ Pipelining \/ (pc = "read" /\ stream = <<>>)
    /\ \E i \in Inputs : stream' = Append(stream, i)
    /\ UNCHANGED <<pc, cl, peer, request, connection, status, move>>

\* The client closes its socket or its process ends, and its kernel says so;
\* unread input may be lost (RST).
ClientLeaves ==
    /\ peer = "here"
    /\ peer' = "left"
    /\ stream' \in {stream, <<>>}
    /\ UNCHANGED <<pc, cl, request, connection, status, move>>

\* The client loses its power or its network, and nobody tells the server; an
\* answer may still be under way to it.
ClientVanishes ==
    /\ peer = "here"
    /\ peer' \in {"lost", "overdue"}
    /\ UNCHANGED <<pc, cl, stream, request, connection, status, move>>

\* The server's kernel gives up on what is not acknowledged: it is the only way
\* a vanished client is noticed, as the socket has no keepalive and no timeout.
TransportGivesUp ==
    /\ peer = "overdue"
    /\ peer' = "left"
    /\ stream' \in {stream, <<>>}
    /\ UNCHANGED <<pc, cl, request, connection, status, move>>

Accept ==
    /\ pc = "accept"
    /\ pc' = "read" /\ cl' = "open" /\ peer' = "here"
    /\ UNCHANGED <<stream, request, connection, status, move>>

AcceptFails == pc = "accept" /\ Die /\ UNCHANGED profile

-----------------------------------------------------------------------------
(* SMD_open_command_connection and SMD_close_command_connection.            *)

\* Fault: connected is noted before the connection is tried.
OpenNotesTooEarly(ip) ==
    /\ DEVICE_IP' = IF ip \in Drives THEN ip ELSE "unreachable"
    /\ SMD_CONNECTED' = 1
    /\ \/ /\ ip \in Drives
          /\ smd_command_connection' = "open" /\ code' = "CONNECT_SUCCESS"
       \/ smd_command_connection' = "freed" /\ code' = "NO_ROUTE_TO_HOST"

\* modbus_connect succeeds only if there is such a drive, and if nothing follows
\* the address in DEVICE_IP, whose end is not marked.  On failure the handle is
\* freed but the pointer keeps its value.
OpenCommandConnection(ip) ==
    \/ /\ ip \in Drives
       /\ DEVICE_IP' = ip
       /\ SMD_CONNECTED' = 1
       /\ smd_command_connection' = "open"
       /\ code' = "CONNECT_SUCCESS"
    \/ /\ DEVICE_IP' = IF ip \in Drives THEN ip ELSE "unreachable"
       /\ SMD_CONNECTED' = 0
       /\ smd_command_connection' = "freed"
       /\ code' = "NO_ROUTE_TO_HOST"

\* The last byte of the address is dropped, newline or not: without one, another
\* drive or none is named.
Named(connect) == IF connect.valid THEN {connect.arg}
                  ELSE (Drives \ {connect.arg}) \cup {"unreachable"}

\* Fault: the pointer alone decides whether there is something to close.
CloseTrustsPointer(manual) ==
    IF smd_command_connection # "NULL"
    THEN /\ misuse' = (misuse \/ smd_command_connection = "freed" \/ DEVICE_IP = "freed")
         /\ smd_command_connection' = "NULL"
         /\ SMD_CONNECTED' = 0
         /\ STATUS_MANUAL_MODE_ENABLE' = 0
         /\ STATUS_WAITING_FOR_ASSEMBLED_MOVE' = 0
         /\ DEVICE_IP' = "freed"
    ELSE /\ STATUS_MANUAL_MODE_ENABLE' = manual
         /\ UNCHANGED <<connection, STATUS_WAITING_FOR_ASSEMBLED_MOVE>>

\* Fault: the mode flags survive the connection.
CloseKeepsModes(manual) ==
    /\ STATUS_MANUAL_MODE_ENABLE' = manual
    /\ UNCHANGED STATUS_WAITING_FOR_ASSEMBLED_MOVE
    /\ IF smd_command_connection # "NULL" /\ SMD_CONNECTED = 1
       THEN /\ smd_command_connection' = "NULL"
            /\ SMD_CONNECTED' = 0
            /\ DEVICE_IP' = "freed"
            /\ UNCHANGED misuse
       ELSE UNCHANGED connection

\* manual is the value of STATUS_MANUAL_MODE_ENABLE at the time of the call.
CloseCommandConnection(manual) ==
    IF smd_command_connection # "NULL" /\ SMD_CONNECTED = 1
    THEN /\ misuse' = (misuse \/ smd_command_connection = "freed" \/ DEVICE_IP = "freed")
         /\ smd_command_connection' = "NULL"
         /\ SMD_CONNECTED' = 0
         /\ STATUS_MANUAL_MODE_ENABLE' = 0
         /\ STATUS_WAITING_FOR_ASSEMBLED_MOVE' = 0
         /\ DEVICE_IP' = "freed"
    ELSE /\ STATUS_MANUAL_MODE_ENABLE' = manual
         /\ UNCHANGED <<connection, STATUS_WAITING_FOR_ASSEMBLED_MOVE>>

\* send_modbus_command for each command of cmds; every call opens a
\* connection of its own to DEVICE_IP.
Send(cmds) == /\ orders' = cmds
              /\ misuse' = (misuse \/ DEVICE_IP \notin Drives)

-----------------------------------------------------------------------------
(* The read loop of open_server_socket. *)

\* Fault: the server goes on reading a client it has rejected.
ReadAfterReject ==
    /\ pc = "read" /\ stream # <<>>
    /\ buf' = stream /\ stream' = <<>>
    /\ pc' = "execute" /\ code' = "none" /\ told' = {} /\ orders' = {}
    /\ UNCHANGED <<cl, peer, connection, status, move>>

\* read() returns any non-empty part of what has arrived, in one buffer.
Read ==
    /\ pc = "read" /\ cl = "open" /\ stream # <<>>
    /\ \E n \in 1 .. Len(stream) :
          /\ buf' = SubSeq(stream, 1, n)
          /\ stream' = SubSeq(stream, n + 1, Len(stream))
    /\ pc' = "execute" /\ code' = "none" /\ told' = {} /\ orders' = {}
    /\ UNCHANGED <<cl, peer, connection, status, move>>

\* Fault: the drive connection is kept for the next client.
ReadEndsKeepsDrive ==
    /\ pc = "read"
    /\ cl = "closed" \/ (peer = "left" /\ stream = <<>>)
    /\ pc' = "accept" /\ cl' = "none" /\ peer' = "none" /\ stream' = <<>>
    /\ buf' = <<>> /\ code' = "none" /\ told' = {} /\ orders' = {}
    /\ UNCHANGED <<connection, status, move>>

\* read() returns 0 (the client left) or -1 (its connection broke, or the server
\* closed the socket after INVALID_INPUT): the drive connection is closed "for
\* safety".  Of a client that vanished without a word, it does not return.
ReadEnds ==
    /\ pc = "read"
    /\ cl = "closed" \/ (peer = "left" /\ stream = <<>>)
    /\ CloseCommandConnection(STATUS_MANUAL_MODE_ENABLE)
    /\ pc' = "accept" /\ cl' = "none" /\ peer' = "none" /\ stream' = <<>>
    /\ buf' = <<>> /\ code' = "none" /\ told' = {} /\ orders' = {}
    /\ UNCHANGED move

-----------------------------------------------------------------------------
(* parse_socket_input: what the buffer means in each scenario. *)

NotConnected == SMD_CONNECTED = 0
Standard == /\ SMD_CONNECTED = 1
            /\ STATUS_WAITING_FOR_ASSEMBLED_MOVE = 0
            /\ STATUS_MANUAL_MODE_ENABLE = 0
Manual == /\ SMD_CONNECTED = 1
          /\ STATUS_WAITING_FOR_ASSEMBLED_MOVE = 0
          /\ STATUS_MANUAL_MODE_ENABLE = 1
Awaiting == SMD_CONNECTED = 1 /\ STATUS_WAITING_FOR_ASSEMBLED_MOVE = 1

Holds(cmd) == \E k \in DOMAIN buf : buf[k].cmd = cmd

\* jog and home are searched for anywhere in the buffer (strstr), every other
\* command only at its start (strncmp).
Command == IF Holds("jog") THEN "jog"
           ELSE IF Holds("home") THEN "home"
           ELSE Head(buf).cmd

\* number_of_tokens counts the commas of the whole buffer.
Tokens == 1 + FoldSeq(LAMBDA i, n : i.commas + n, 0, buf)

\* The tokens after the first comma: those of the first input that has any.
Parameters == SelectSeq(buf, LAMBDA i : i.commas > 0)[1]

WellFormed(n) == Tokens = n /\ Parameters.valid

Return(c) == pc' = "reply" /\ code' = c

\* Fault: the columns of the table are swapped.
EntrySwapped(n, cmd, ok, failed) == [tokens |-> n, order |-> ok, ok |-> cmd, failed |-> failed]

(***************************************************************************)
(* The commands of Scenario 1 that check their parameters and send one     *)
(* Modbus command: the tokens they require (0: not looked at), the name    *)
(* of the command, and the return codes.                                   *)
(***************************************************************************)
Entry(n, cmd, ok, failed) == [tokens |-> n, order |-> cmd, ok |-> ok, failed |-> failed]

MotorCommand == [
    jog          |-> Entry(5, "jog", "COMMAND_SUCCESS", "COMMAND_FAILED"),
    home         |-> Entry(5, "find_home", "COMMAND_SUCCESS", "COMMAND_FAILED"),
    relativeMove |-> Entry(6, "relative_move", "COMMAND_SUCCESS", "COMMAND_FAILED"),
    driveEnable  |-> Entry(0, "drive_enable", "ENABLE_SUCCESS", "COMMAND_FAILED"),
    driveDisable |-> Entry(0, "drive_disable", "DISABLE_SUCCESS", "COMMAND_FAILED"),
    holdMove     |-> Entry(0, "hold_move", "COMMAND_SUCCESS", "COMMAND_FAILED"),
    immedStop    |-> Entry(0, "immediate_stop", "COMMAND_SUCCESS", "COMMAND_FAILED"),
    resetErrors  |-> Entry(0, "reset_errors", "COMMAND_SUCCESS", "COMMAND_FAILED"),
    saveConfig   |-> Entry(8, "set_configuration", "SAVE_CONFIG_SUCCESS", "SAVE_CONFIG_FAIL"),
    loadCurrentConfiguration |->
        Entry(0, "load_configuration", "READY_TO_READ_CONFIG", "READ_CURRENT_CONFIG_FAIL"),
    presetMotorPosition |->
        Entry(2, "preset_motor", "PRESET_POS_SUCCESS", "PRESET_POS_FAIL"),
    presetEncoderPosition |->
        Entry(2, "preset_encoder", "PRESET_ENC_SUCCESS", "PRESET_ENC_FAIL")]

\* The commands that run the assembled move, by the type they insist on.
RunCommand == [runAssembledBlendMove |-> "blend", runAssembledDwellMove |-> "dwell"]

ReadCommands == {"readInputRegisters", "readCurrentConfiguration"}

OtherCommands == {"disconnect", "programAssembledMove", "startManualMode"}

-----------------------------------------------------------------------------
(* Not connected: only connect is understood. *)

Connect ==
    /\ pc = "execute" /\ NotConnected
    /\ Head(buf).cmd = "connect"
    /\ pc' = "reply"
    /\ IF Tokens = 2
       THEN \E ip \in Named(Parameters) : OpenCommandConnection(ip)
       ELSE code' = "INVALID_PARAMETER"
            /\ UNCHANGED <<SMD_CONNECTED, smd_command_connection, DEVICE_IP>>
    /\ UNCHANGED <<client, buf, told, orders, misuse, status, move>>

\* In every scenario, what is not understood is INVALID_INPUT.
Reject ==
    /\ pc = "execute"
    /\ \/ NotConnected /\ Head(buf).cmd # "connect"
       \/ Standard /\ Command \notin DOMAIN MotorCommand \cup DOMAIN RunCommand
                                        \cup ReadCommands \cup OtherCommands
       \/ Manual /\ Head(buf).cmd \notin {"stopManualMode", "resetErrors",
                                          "readInputRegisters"}
    /\ Return("INVALID_INPUT")
    /\ UNCHANGED <<client, buf, told, orders, connection, status, move>>

-----------------------------------------------------------------------------
(* Scenario 1: connected, no special mode. *)

MoveMotor ==
    /\ pc = "execute" /\ Standard
    /\ Command \in DOMAIN MotorCommand
    /\ LET m == MotorCommand[Command] IN
       IF m.tokens # 0 /\ ~WellFormed(m.tokens)
       THEN Return("INVALID_PARAMETER") /\ UNCHANGED <<orders, misuse>>
       ELSE Send({m.order}) /\ \E c \in {m.ok, m.failed} : Return(c)
    /\ UNCHANGED <<client, buf, told, SMD_CONNECTED, smd_command_connection, DEVICE_IP,
                   status, move>>

\* Fault: the type of the uploaded move is not looked at.
RunAnyMove ==
    /\ pc = "execute" /\ Standard
    /\ Command \in DOMAIN RunCommand
    /\ IF WellFormed(2)
       THEN Send({"run_assembled_move"}) /\ Return("COMMAND_SUCCESS")
       ELSE Return("INVALID_PARAMETER") /\ UNCHANGED <<orders, misuse>>
    /\ UNCHANGED <<client, buf, told, SMD_CONNECTED, smd_command_connection, DEVICE_IP,
                   status, move>>

RunAssembledMove ==
    /\ pc = "execute" /\ Standard
    /\ Command \in DOMAIN RunCommand
    /\ IF WellFormed(2) /\ STATUS_TYPE_ASSEMBLED_MOVE = RunCommand[Command]
       THEN /\ Send({"run_assembled_move"})
            /\ \E c \in {"COMMAND_SUCCESS", "COMMAND_FAILED"} : Return(c)
       ELSE Return("INVALID_PARAMETER") /\ UNCHANGED <<orders, misuse>>
    /\ UNCHANGED <<client, buf, told, SMD_CONNECTED, smd_command_connection, DEVICE_IP,
                   status, move>>

Disconnect ==
    /\ pc = "execute" /\ Standard /\ Command = "disconnect"
    /\ CloseCommandConnection(STATUS_MANUAL_MODE_ENABLE)
    /\ Return("DISCONNECT_SUCCESS")
    /\ UNCHANGED <<client, buf, told, orders, move>>

(***************************************************************************)
(* The registers are read by a thread that writes them to the client       *)
(* itself.  No thread or no connection: the command failed.  A failing     *)
(* modbus_read_registers is reported as handled, with nothing written.     *)
(***************************************************************************)
ReadRegisters ==
    /\ pc = "execute"
    /\ \/ Standard /\ Command \in ReadCommands
       \/ Manual /\ Head(buf).cmd = "readInputRegisters"
    /\ \/ Return("COMMAND_FAILED") /\ UNCHANGED <<told, peer>>
       \/ Return("HANDLED_BY_CLIENT") /\ UNCHANGED <<told, peer>>
       \/ Return("HANDLED_BY_CLIENT") /\ Tell("registers")
    /\ Send({})
    /\ UNCHANGED <<cl, stream, buf, SMD_CONNECTED, smd_command_connection, DEVICE_IP,
                   status, move>>

\* The drive now holds one of these moves.
HoldsOneOf(moves) == \E m \in moves : profile' = [profile EXCEPT ![DEVICE_IP] = m]

\* An order that begins a move anew, unless it is lost, or the drive was still
\* in the programming of the move before and goes on with it.
BeginsMove == HoldsOneOf({profile[DEVICE_IP], "partial"})

\* The first block is sent and the status word read back; a drive that is not
\* ready has its errors reset.  The type of the move before stays noted.
ProgramAssembledMove ==
    /\ pc = "execute" /\ Standard /\ Command = "programAssembledMove"
    /\ \/ Send({"program_first_block"}) /\ Return("READY_FOR_ASSEMBLED_MOVE")
       \/ Send({"program_first_block", "reset_errors"}) /\ Return("COMMAND_FAILED")
    /\ BeginsMove
    /\ UNCHANGED <<client, buf, told, SMD_CONNECTED, smd_command_connection, DEVICE_IP,
                   status, STATUS_TYPE_ASSEMBLED_MOVE>>

\* The flag is set before the thread is created, and stays set if that fails.
StartManualMode ==
    /\ pc = "execute" /\ Standard /\ Command = "startManualMode"
    /\ STATUS_MANUAL_MODE_ENABLE' = 1
    /\ \E c \in {"COMMAND_SUCCESS", "COMMAND_FAILED"} : Return(c)
    /\ UNCHANGED <<client, buf, told, orders, connection,
                   STATUS_WAITING_FOR_ASSEMBLED_MOVE, move>>

-----------------------------------------------------------------------------
(* Scenario 2: manual mode. *)

\* Fault: a stop that failed is only reported.
StopReportsFailure ==
    /\ pc = "execute" /\ Manual /\ Head(buf).cmd = "stopManualMode"
    /\ STATUS_MANUAL_MODE_ENABLE' = 0
    /\ Send({"immediate_stop"})
    /\ \E c \in {"COMMAND_SUCCESS", "COMMAND_FAILED"} : Return(c)
    /\ UNCHANGED <<client, buf, told, SMD_CONNECTED, smd_command_connection, DEVICE_IP,
                   STATUS_WAITING_FOR_ASSEMBLED_MOVE, move>>

\* The drive is stopped at once; if it cannot be, it is disconnected.
StopManualMode ==
    /\ pc = "execute" /\ Manual /\ Head(buf).cmd = "stopManualMode"
    /\ orders' = {"immediate_stop"}
    /\ \/ /\ Return("COMMAND_SUCCESS")
          /\ STATUS_MANUAL_MODE_ENABLE' = 0
          /\ misuse' = (misuse \/ DEVICE_IP \notin Drives)
          /\ UNCHANGED <<SMD_CONNECTED, smd_command_connection, DEVICE_IP,
                         STATUS_WAITING_FOR_ASSEMBLED_MOVE>>
       \/ /\ Return("COMMAND_FAILED")
          /\ CloseCommandConnection(0)
    /\ UNCHANGED <<client, buf, told, move>>

ManualResetErrors ==
    /\ pc = "execute" /\ Manual /\ Head(buf).cmd = "resetErrors"
    /\ Send({"reset_errors"})
    /\ \E c \in {"COMMAND_SUCCESS", "COMMAND_FAILED"} : Return(c)
    /\ UNCHANGED <<client, buf, told, SMD_CONNECTED, smd_command_connection, DEVICE_IP,
                   status, move>>

-----------------------------------------------------------------------------
(* Scenario 3: whatever comes is taken for the JSON of an assembled move.   *)

IsMove == Head(buf).cmd = "json" /\ Head(buf).valid

\* Fault: after a bad move the server keeps waiting for a good one.
RefusedKeepsWaiting ==
    /\ pc = "execute" /\ Awaiting
    /\ ~IsMove \/ Head(buf).arg \notin MoveTypes \cup {"absent"}
    /\ Send({"reset_errors"})
    /\ Return("COMMAND_FAILED")
    /\ UNCHANGED <<client, buf, told, SMD_CONNECTED, smd_command_connection, DEVICE_IP,
                   status, move>>

\* No JSON, no segments, too many segments, or a type that is neither.  What the
\* first block did to the drive's profile is not undone.
UploadRefused ==
    /\ pc = "execute" /\ Awaiting
    /\ ~IsMove \/ Head(buf).arg \notin MoveTypes \cup {"absent"}
    /\ Send({"reset_errors"})
    /\ STATUS_WAITING_FOR_ASSEMBLED_MOVE' = 0
    /\ Return("COMMAND_FAILED")
    /\ UNCHANGED <<client, buf, told, SMD_CONNECTED, smd_command_connection, DEVICE_IP,
                   STATUS_MANUAL_MODE_ENABLE, move>>

\* The type is noted before the first segment is sent.  An upload that breaks off
\* may have been at any segment, or at the last answer.
UploadMove ==
    /\ pc = "execute" /\ Awaiting
    /\ IsMove /\ Head(buf).arg \in MoveTypes
    /\ STATUS_TYPE_ASSEMBLED_MOVE' = Head(buf).arg
    /\ STATUS_WAITING_FOR_ASSEMBLED_MOVE' = 0
    /\ \/ /\ Return("ASSEMBLED_MOVE_ACCEPTED")
          /\ Send({"program_move_segment", "prepare_for_next_segment"})
          /\ HoldsOneOf({Head(buf).arg}
                        \cup IF UploadMayLie THEN {profile[DEVICE_IP], "partial"} ELSE {})
       \/ /\ UploadMayFail
          /\ Return("COMMAND_FAILED")
          /\ \E sent \in {{}, {"prepare_for_next_segment"}} :
                Send({"program_move_segment", "reset_errors"} \cup sent)
          /\ HoldsOneOf({profile[DEVICE_IP], "partial", Head(buf).arg})
    /\ \/ Tell("segment accepted")
       \/ UNCHANGED <<told, peer>>
    /\ UNCHANGED <<cl, stream, buf, SMD_CONNECTED, smd_command_connection, DEVICE_IP,
                   STATUS_MANUAL_MODE_ENABLE>>

(***************************************************************************)
(* The process does not survive a move that lacks "type" or an item of a   *)
(* segment (what is looked up is NULL and is read), nor, perhaps, more     *)
(* segments than the array has; nor a write to a client that left (the     *)
(* registers, or a "segment accepted" line), if SIGPIPE is raised.         *)
(* After a read that failed unnoticed, the token taken for the status word *)
(* of the first block may be no address at all.                            *)
(***************************************************************************)
ExecuteKills ==
    /\ pc = "execute"
    /\ \/ Awaiting /\ Head(buf).cmd = "json" /\ UNCHANGED profile
       \/ Standard /\ Command = "programAssembledMove" /\ BeginsMove
       \/ /\ "SIGPIPE" \in WriteResults
          /\ \/ Standard /\ Command \in ReadCommands
             \/ Manual /\ Head(buf).cmd = "readInputRegisters"
          /\ UNCHANGED profile
       \/ /\ "SIGPIPE" \in WriteResults
          /\ Awaiting /\ IsMove /\ Head(buf).arg \in MoveTypes
          /\ HoldsOneOf({profile[DEVICE_IP], "partial", Head(buf).arg})
    /\ Die

Execute == \/ Connect \/ Reject
           \/ MoveMotor \/ RunAssembledMove \/ Disconnect \/ ReadRegisters
           \/ ProgramAssembledMove \/ StartManualMode
           \/ StopManualMode \/ ManualResetErrors
           \/ UploadRefused \/ UploadMove \/ ExecuteKills

-----------------------------------------------------------------------------
(* parse_smd_response_to_client_input: the answer. *)

Text == [
    COMMAND_SUCCESS |-> "COMMAND_SUCCESS", CONNECT_SUCCESS |-> "SMD_CONNECT_SUCCESS",
    ENABLE_SUCCESS |-> "ENABLE_SUCCESS", DISABLE_SUCCESS |-> "DISABLE_SUCCESS",
    COMMAND_FAILED |-> "COMMAND_ERROR", INVALID_INPUT |-> "INVALID_INPUT",
    NO_ROUTE_TO_HOST |-> "NO_ROUTE_TO_SMD", INVALID_PARAMETER |-> "INVALID_PARAMETER",
    PRESET_ENC_SUCCESS |-> "PRESET_ENCODER_SUCCESS", PRESET_ENC_FAIL |-> "PRESET_ENCODER_FAIL",
    PRESET_POS_SUCCESS |-> "PRESET_POSITION_SUCCESS", PRESET_POS_FAIL |-> "PRESET_POSITION_FAIL",
    SAVE_CONFIG_SUCCESS |-> "CONFIG_SAVE_SUCCESS", SAVE_CONFIG_FAIL |-> "CONFIG_SAVE_FAIL",
    READY_TO_READ_CONFIG |-> "READY_TO_READ_CONFIG",
    READ_CURRENT_CONFIG_FAIL |-> "GET_CURRENT_CONFIG_FAIL",
    READY_FOR_ASSEMBLED_MOVE |-> "SEND_ASSEMBLED_MOVE_PARAMETERS",
    ASSEMBLED_MOVE_ACCEPTED |-> "ASSEMBLED_MOVE_ACCEPTED"]

\* Fault: one code was forgotten in the chain of ifs.
AnsweredButOne(c) == c \in DOMAIN Text \ {"INVALID_PARAMETER"}

\* The codes the chain of ifs has a text for; the others are silence.
Answered(c) == c \in DOMAIN Text

\* INVALID_INPUT that could be written closes the client's socket, but the
\* loop goes on to read it.  READY_FOR_ASSEMBLED_MOVE raises its flag first.
Reply ==
    /\ pc = "reply"
    /\ pc' = "read" /\ buf' = <<>>
    /\ IF code = "READY_FOR_ASSEMBLED_MOVE"
       THEN STATUS_WAITING_FOR_ASSEMBLED_MOVE' = 1
       ELSE UNCHANGED STATUS_WAITING_FOR_ASSEMBLED_MOVE
    /\ IF Answered(code)
       THEN \E r \in WriteResults \ {"SIGPIPE"} :
               /\ Tell(Text[code])
               /\ cl' = IF code = "INVALID_INPUT" /\ r = "ok" THEN "closed" ELSE cl
       ELSE UNCHANGED <<told, peer, cl>>
    /\ UNCHANGED <<stream, code, orders, connection, STATUS_MANUAL_MODE_ENABLE, move>>

ReplyKills == /\ pc = "reply" /\ Answered(code)
              /\ "SIGPIPE" \in WriteResults
              /\ Die /\ UNCHANGED profile

-----------------------------------------------------------------------------
Server == Read \/ ReadEnds \/ Execute \/ Reply \/ ReplyKills

Client == ClientWrites \/ ClientLeaves \/ ClientVanishes \/ TransportGivesUp

Next == Accept \/ AcceptFails \/ Restart \/ Server \/ Client

Spec == Init /\ [][Next]_vars

\* The main thread keeps running, and TCP retransmits only so often; clients and
\* the operator need not do anything.
FairSpec == Spec /\ WF_vars(Server) /\ WF_vars(TransportGivesUp)

-----------------------------------------------------------------------------
(* Properties. *)

Buffers == {s \in Seq(Inputs) : Len(s) <= MaxPipeline}

Texts == {Text[c] : c \in DOMAIN Text} \cup {"registers", "segment accepted"}

ModbusCommands == {MotorCommand[c].order : c \in DOMAIN MotorCommand} \cup
    {"run_assembled_move", "program_first_block", "program_move_segment",
     "prepare_for_next_segment"}

\* Every variable has a value of its C type, as far as the model keeps it.
TypeOK ==
    /\ pc \in {"accept", "read", "execute", "reply", "dead"}
    /\ cl \in {"none", "open", "closed"}
    /\ peer \in {"none", "here", "lost", "overdue", "left"}
    /\ stream \in Buffers
    /\ buf \in Buffers
    /\ code \in Codes
    /\ told \in SUBSET Texts
    /\ orders \in SUBSET ModbusCommands
    /\ SMD_CONNECTED \in {0, 1}
    /\ smd_command_connection \in {"NULL", "open", "freed"}
    /\ DEVICE_IP \in Drives \cup {"none", "freed", "unreachable"}
    /\ STATUS_WAITING_FOR_ASSEMBLED_MOVE \in {0, 1}
    /\ STATUS_MANUAL_MODE_ENABLE \in {0, 1}
    /\ STATUS_TYPE_ASSEMBLED_MOVE \in MoveTypes \cup {"none"}
    /\ profile \in [Drives -> MoveTypes \cup {"none", "partial"}]
    /\ misuse \in BOOLEAN

\* SMD_CONNECTED tells the truth about the handle: it is set exactly while
\* the command connection is open and DEVICE_IP names a drive, although the
\* pointer dangles after a failed connect and DEVICE_IP after every close.
ConnectionHandle ==
    /\ SMD_CONNECTED = 1 <=> smd_command_connection = "open"
    /\ SMD_CONNECTED = 1 => DEVICE_IP \in Drives

\* Over any sequence of connects, failed connects, disconnects, failed stops
\* and lost clients, nothing is closed or freed twice, and no command is sent
\* to a freed address.
NoMisuse == ~misuse

\* Manual mode and the wait for an assembled move exclude each other, and
\* neither outlives the drive connection: Scenario 4 is unreachable.
ModesNeedTheDrive ==
    /\ STATUS_WAITING_FOR_ASSEMBLED_MOVE = 0 \/ STATUS_MANUAL_MODE_ENABLE = 0
    /\ (STATUS_WAITING_FOR_ASSEMBLED_MOVE = 1 \/ STATUS_MANUAL_MODE_ENABLE = 1)
          => SMD_CONNECTED = 1

\* Between two clients no drive is connected, so no client inherits the drive,
\* or the mode, of the one before ("for safety", SMD_SocketOps.c:107).
NoClientNoDrive ==
    pc \in {"accept", "dead"} =>
        /\ SMD_CONNECTED = 0
        /\ smd_command_connection # "open"
        /\ STATUS_MANUAL_MODE_ENABLE = 0
        /\ STATUS_WAITING_FOR_ASSEMBLED_MOVE = 0

\* What links the steps of one request: only an open socket is served and
\* answered, a socket the server closed is only read once more, and the client
\* is asked for a move only by a connected server in no other mode, although
\* the flag is raised one step after the drive was asked.
RequestState ==
    /\ pc \in {"execute", "reply"} => cl = "open"
    /\ cl = "closed" => pc = "read"
    /\ pc = "execute" => buf # <<>>
    /\ pc \in {"accept", "execute", "dead"} => orders = {}
    /\ pc = "reply" /\ code = "READY_FOR_ASSEMBLED_MOVE" => Standard

\* The conjunction is inductive.
Inv == /\ TypeOK
       /\ ConnectionHandle
       /\ NoMisuse
       /\ ModesNeedTheDrive
       /\ NoClientNoDrive
       /\ RequestState

\* Manual mode is never left with the drive still connected unless an immediate
\* stop was sent and succeeded: not by the client's command, not by its leaving,
\* not by a rejected input, not by the death of the process.
ManualModeEndsInAStop ==
    [][STATUS_MANUAL_MODE_ENABLE = 1 /\ STATUS_MANUAL_MODE_ENABLE' = 0
          => \/ SMD_CONNECTED' = 0
             \/ "immediate_stop" \in orders' /\ code' = "COMMAND_SUCCESS"]_vars

\* A client that was answered INVALID_INPUT is cut off: nothing it wrote
\* before or after is executed, and its drive connection is closed before
\* another client is served.
RejectedClientIsCutOff ==
    [][cl = "closed" =>
          /\ pc' \in {"read", "accept"} /\ orders' \subseteq orders
          /\ pc' = "accept" => SMD_CONNECTED' = 0]_vars

\* How many steps the main thread may still take for the client it serves.
WorkLeft == CASE pc = "execute" -> 3 * Len(stream) + 3
              [] pc = "reply" -> 3 * Len(stream) + 2
              [] pc = "read" -> 3 * Len(stream) + 1
              [] OTHER -> 0

\* Once the client is known to have left, every step of the server uses up some of the work
\* it left behind, and the session that ends with it ends without the drive: no
\* answer, mode or leftover input keeps the drive connected to nobody.
GoneClientRunsOut ==
    [][peer = "left" => /\ WorkLeft' < WorkLeft
                        /\ peer' # "left" => peer' = "none" /\ SMD_CONNECTED' = 0]_vars

\* A run of the assembled move is not sent to a drive that holds none, or one of
\* the other type: the client's type is that of the move that was accepted last,
\* however many requests, connections and clients ago, and only a move begun and
\* not finished since may be there in its place.
RunsNoOtherMove ==
    [][(pc = "execute" /\ "run_assembled_move" \in orders')
          => profile[DEVICE_IP] \in {RunCommand[Command], "partial"}]_vars

\* The modes and orders of the session are those of the abstract protocol.
Mode == IF pc \in {"accept", "dead"} THEN "offline"
        ELSE IF SMD_CONNECTED = 0 THEN "noDrive"
        ELSE IF STATUS_WAITING_FOR_ASSEMBLED_MOVE = 1 THEN "awaitMove"
        ELSE IF STATUS_MANUAL_MODE_ENABLE = 1 THEN "manual"
        ELSE "ready"

Protocol == INSTANCE SessionProtocol WITH mode <- Mode, orders <- orders

ImplementsProtocol == Protocol!Spec

\* When the client has left, or has vanished with something written to it, the
\* drive connection is closed in the end, whatever the server was doing for it
\* and whatever input is left.
ClientGoneDriveReleased == (peer \in {"left", "overdue"}) ~> (SMD_CONNECTED = 0)

\* Whoever is served is answered: a request leads to a text, to the end of the
\* session, or is one of the two the code answers with silence.
RequestsAreAnswered ==
    (pc = "execute") ~> \/ pc = "read" /\ told # {}
                        \/ pc = "read" /\ code \in {"DISCONNECT_SUCCESS", "HANDLED_BY_CLIENT"}
                        \/ peer # "here"

(***************************************************************************)
(* What the repository says of itself and the code does not do.            *)
(***************************************************************************)

\* SMD_Constants.h:405 of STATUS_TYPE_ASSEMBLED_MOVE: "Type of assembled move
\* that is loaded into drive memory".
TypeIsWhatIsLoaded ==
    SMD_CONNECTED = 1 /\ STATUS_TYPE_ASSEMBLED_MOVE # "none"
        => profile[DEVICE_IP] = STATUS_TYPE_ASSEMBLED_MOVE

\* SMD_Constants.h:117 of holdMove: "Stops motion using the deceleration value
\* specified in the active move profile."
HoldMoveStops ==
    [][pc = "execute" /\ pc' = "reply" /\ Standard /\ Head(buf).cmd = "holdMove"
          => "hold_move" \in orders']_vars
=============================================================================
