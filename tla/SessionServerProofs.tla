------------------------- MODULE SessionServerProofs -------------------------
(***************************************************************************)
(* What holds of SessionServer for every set of drives and inputs and      *)
(* every amount of unread input, with or without pipelining.               *)
(***************************************************************************)
EXTENDS SessionServer, TLAPS

LEMMA PipelineBound == MaxPipeline \in Nat /\ MaxPipeline >= 1
BY SessionAssumption DEF SessionAssumption

(* Every row of the command table names a Modbus command and return codes   *)
(* (parse_socket_input's chain of comparisons in Scenario 1).               *)
LEMMA CommandTable ==
    ASSUME NEW c \in DOMAIN MotorCommand
    PROVE  /\ MotorCommand[c].order \in ModbusCommands
           /\ MotorCommand[c].ok \in Codes
           /\ MotorCommand[c].failed \in Codes
<1>1. MotorCommand[c].order \in ModbusCommands
  BY DEF ModbusCommands
<1>2. MotorCommand[c].ok \in Codes /\ MotorCommand[c].failed \in Codes
  BY DEF MotorCommand, Entry, Codes
<1>3. QED BY <1>1, <1>2

LEMMA OtherCommandsAreModbus ==
    /\ "reset_errors" \in ModbusCommands
    /\ "immediate_stop" \in ModbusCommands
    /\ "run_assembled_move" \in ModbusCommands
    /\ "program_first_block" \in ModbusCommands
    /\ "program_move_segment" \in ModbusCommands
    /\ "prepare_for_next_segment" \in ModbusCommands
<1>1. MotorCommand["resetErrors"].order = "reset_errors"
  BY DEF MotorCommand, Entry
<1>2. MotorCommand["immedStop"].order = "immediate_stop"
  BY DEF MotorCommand, Entry
<1>3. {"resetErrors", "immedStop"} \subseteq DOMAIN MotorCommand
  BY DEF MotorCommand
<1>4. QED BY <1>1, <1>2, <1>3 DEF ModbusCommands

(* The texts of the answers are texts. *)
LEMMA TextTable == \A c \in DOMAIN Text : Text[c] \in Texts
BY DEF Texts

LEMMA TellKeepsType ==
    ASSUME TypeOK, NEW text \in Texts, Tell(text)
    PROVE  /\ told' \in SUBSET Texts
           /\ peer' \in {"none", "here", "lost", "overdue", "left"}
BY DEF TypeOK, Tell

(* What an order leaves in the drive is a move, or the start of one. *)
LEMMA HoldsOneOfKeepsType ==
    ASSUME TypeOK, NEW moves \in SUBSET (MoveTypes \cup {"none", "partial"}),
           HoldsOneOf(moves \cup {profile[DEVICE_IP]}) \/ HoldsOneOf(moves)
    PROVE  profile' \in [Drives -> MoveTypes \cup {"none", "partial"}]
<1>1. PICK m \in moves \cup {profile[DEVICE_IP]} : profile' = [profile EXCEPT ![DEVICE_IP] = m]
  BY DEF HoldsOneOf
<1>2. CASE DEVICE_IP \in Drives
  <2>1. m \in MoveTypes \cup {"none", "partial"}
    BY <1>1, <1>2 DEF TypeOK
  <2>2. QED BY <1>1, <2>1 DEF TypeOK
<1>3. CASE DEVICE_IP \notin Drives
  BY <1>1, <1>3 DEF TypeOK
<1>4. QED BY <1>2, <1>3

LEMMA BeginsMoveKeepsType ==
    ASSUME TypeOK, BeginsMove
    PROVE  profile' \in [Drives -> MoveTypes \cup {"none", "partial"}]
<1>1. {profile[DEVICE_IP], "partial"} = {"partial"} \cup {profile[DEVICE_IP]}
  OBVIOUS
<1>2. HoldsOneOf({"partial"} \cup {profile[DEVICE_IP]})
  BY <1>1 DEF BeginsMove
<1>3. {"partial"} \in SUBSET (MoveTypes \cup {"none", "partial"})
  OBVIOUS
<1>4. QED BY <1>2, <1>3, HoldsOneOfKeepsType

LEMMA UploadKeepsProfileType ==
    ASSUME TypeOK, NEW type \in MoveTypes,
           \/ HoldsOneOf({profile[DEVICE_IP], "partial", type})
           \/ HoldsOneOf({type} \cup IF UploadMayLie THEN {profile[DEVICE_IP], "partial"} ELSE {})
    PROVE  profile' \in [Drives -> MoveTypes \cup {"none", "partial"}]
<1>1. HoldsOneOf({"partial", type} \cup {profile[DEVICE_IP]}) \/ HoldsOneOf({type})
  BY DEF HoldsOneOf
<1>2. /\ {"partial", type} \in SUBSET (MoveTypes \cup {"none", "partial"})
      /\ {type} \in SUBSET (MoveTypes \cup {"none", "partial"})
  OBVIOUS
<1>3. CASE HoldsOneOf({"partial", type} \cup {profile[DEVICE_IP]})
  BY <1>2, <1>3, HoldsOneOfKeepsType
<1>4. CASE HoldsOneOf({type})
  BY <1>2, <1>4, HoldsOneOfKeepsType
<1>5. QED BY <1>1, <1>3, <1>4

LEMMA BuffersMeaning ==
    \A s : s \in Buffers <=> s \in Seq(Inputs) /\ Len(s) <= MaxPipeline
BY DEF Buffers

LEMMA EmptyIsBuffer == <<>> \in Buffers
BY PipelineBound DEF Buffers

(* Closing the drive connection keeps the types. *)
LEMMA CloseKeepsType ==
    ASSUME TypeOK, NEW manual \in {0, 1}, CloseCommandConnection(manual)
    PROVE  /\ SMD_CONNECTED' \in {0, 1}
           /\ smd_command_connection' \in {"NULL", "open", "freed"}
           /\ DEVICE_IP' \in Drives \cup {"none", "freed", "unreachable"}
           /\ STATUS_WAITING_FOR_ASSEMBLED_MOVE' \in {0, 1}
           /\ STATUS_MANUAL_MODE_ENABLE' \in {0, 1}
           /\ misuse' \in BOOLEAN
BY DEF TypeOK, CloseCommandConnection, connection

LEMMA DieKeepsType ==
    ASSUME TypeOK, Die, profile' \in [Drives -> MoveTypes \cup {"none", "partial"}]
    PROVE  TypeOK'
<1>1. stream' \in Buffers /\ buf' \in Buffers
  BY EmptyIsBuffer DEF Die
<1>2. QED BY <1>1 DEF Die, TypeOK, Codes

(* TypeOK is inductive. *)
LEMMA TypeStep == TypeOK /\ [Next]_vars => TypeOK'
<1> SUFFICES ASSUME TypeOK, [Next]_vars PROVE TypeOK'
  OBVIOUS
<1> USE DEF client, request, connection, status, move
<1>1. CASE Accept
  BY <1>1 DEF Accept, TypeOK
<1>2. CASE AcceptFails
  BY <1>2, DieKeepsType DEF AcceptFails, TypeOK
<1>3. CASE Restart
  BY <1>3 DEF Restart, TypeOK
<1>4. CASE ClientWrites
  <2>1. PICK i \in Inputs : stream' = Append(stream, i)
    BY <1>4 DEF ClientWrites
  <2>2. stream \in Seq(Inputs) /\ Len(stream) < MaxPipeline
    BY <1>4, BuffersMeaning DEF ClientWrites, TypeOK
  <2>3. stream' \in Seq(Inputs) /\ Len(stream') <= MaxPipeline
    BY <2>1, <2>2, PipelineBound
  <2>5. stream' \in Buffers
    BY <2>3, BuffersMeaning
  <2>4. QED BY <1>4, <2>5 DEF ClientWrites, TypeOK
<1>5. CASE ClientLeaves \/ ClientVanishes \/ TransportGivesUp
  <2>1. stream' \in Buffers
    BY <1>5, EmptyIsBuffer DEF ClientLeaves, ClientVanishes, TransportGivesUp, TypeOK
  <2>2. peer' \in {"none", "here", "lost", "overdue", "left"}
    BY <1>5 DEF ClientLeaves, ClientVanishes, TransportGivesUp
  <2>3. QED BY <1>5, <2>1, <2>2 DEF ClientLeaves, ClientVanishes, TransportGivesUp, TypeOK
<1>6. CASE Read
  <2>1. PICK n \in 1 .. Len(stream) : /\ buf' = SubSeq(stream, 1, n)
                                      /\ stream' = SubSeq(stream, n + 1, Len(stream))
    BY <1>6 DEF Read
  <2>2. stream \in Seq(Inputs) /\ Len(stream) <= MaxPipeline
    BY BuffersMeaning DEF TypeOK
  <2>3. buf' \in Seq(Inputs) /\ Len(buf') <= MaxPipeline
    BY <2>1, <2>2, PipelineBound
  <2>4. stream' \in Seq(Inputs) /\ Len(stream') <= MaxPipeline
    BY <2>1, <2>2, PipelineBound
  <2>5. buf' \in Buffers /\ stream' \in Buffers
    BY <2>3, <2>4, BuffersMeaning
  <2>6. QED BY <1>6, <2>5 DEF Read, TypeOK, Codes
<1>7. CASE ReadEnds
  <2>2. STATUS_MANUAL_MODE_ENABLE \in {0, 1}
    BY DEF TypeOK
  <2>3. CloseCommandConnection(STATUS_MANUAL_MODE_ENABLE)
    BY <1>7 DEF ReadEnds
  <2>4. QED BY <1>7, EmptyIsBuffer, <2>2, <2>3, CloseKeepsType DEF ReadEnds, TypeOK, Codes
<1>8. CASE Connect
  BY <1>8 DEF Connect, OpenCommandConnection, TypeOK, Codes
<1>9. CASE Reject
  BY <1>9 DEF Reject, Return, TypeOK, Codes
<1>10. CASE MoveMotor
  <2>1. code' \in Codes
    <3>1. CASE code' = "INVALID_PARAMETER"
      BY <3>1 DEF Codes
    <3>2. CASE code' # "INVALID_PARAMETER"
      BY <1>10, <3>2, CommandTable DEF MoveMotor, Return
    <3>3. QED BY <3>1, <3>2
  <2>2. orders' \in SUBSET ModbusCommands
    BY <1>10, CommandTable DEF MoveMotor, Send, TypeOK
  <2>3. misuse' \in BOOLEAN /\ pc' = "reply"
    BY <1>10 DEF MoveMotor, Send, Return, TypeOK
  <2>4. QED BY <1>10, <2>1, <2>2, <2>3 DEF MoveMotor, TypeOK
<1>11. CASE RunAssembledMove
  <2>1. orders' \in SUBSET ModbusCommands
    BY <1>11, OtherCommandsAreModbus DEF RunAssembledMove, Send, TypeOK
  <2>2. code' \in Codes /\ pc' = "reply" /\ misuse' \in BOOLEAN
    BY <1>11 DEF RunAssembledMove, Send, Return, Codes, TypeOK
  <2>3. QED BY <1>11, <2>1, <2>2 DEF RunAssembledMove, TypeOK
<1>12. CASE Disconnect
  <2>1. STATUS_MANUAL_MODE_ENABLE \in {0, 1}
    BY DEF TypeOK
  <2>2. CloseCommandConnection(STATUS_MANUAL_MODE_ENABLE)
    BY <1>12 DEF Disconnect
  <2>3. QED BY <1>12, <2>1, <2>2, CloseKeepsType DEF Disconnect, Return, TypeOK, Codes
<1>13. CASE ReadRegisters
  <2>1. told' \in SUBSET Texts /\ peer' \in {"none", "here", "lost", "overdue", "left"}
    <3>1. "registers" \in Texts
      BY DEF Texts
    <3>2. QED BY <1>13, <3>1, TellKeepsType DEF ReadRegisters, TypeOK
  <2>2. QED BY <1>13, <2>1 DEF ReadRegisters, Send, Return, TypeOK, Codes
<1>14. CASE ProgramAssembledMove
  <2>1. orders' \in SUBSET ModbusCommands
    BY <1>14, OtherCommandsAreModbus DEF ProgramAssembledMove, Send, TypeOK
  <2>2. code' \in Codes /\ pc' = "reply" /\ misuse' \in BOOLEAN
    BY <1>14 DEF ProgramAssembledMove, Send, Return, Codes, TypeOK
  <2>3. profile' \in [Drives -> MoveTypes \cup {"none", "partial"}]
    BY <1>14, BeginsMoveKeepsType DEF ProgramAssembledMove
  <2>4. QED BY <1>14, <2>1, <2>2, <2>3 DEF ProgramAssembledMove, TypeOK
<1>15. CASE StartManualMode
  BY <1>15 DEF StartManualMode, Return, TypeOK, Codes
<1>16. CASE StopManualMode
  <2>1. code' \in Codes /\ pc' = "reply" /\ orders' \in SUBSET ModbusCommands
    BY <1>16, OtherCommandsAreModbus DEF StopManualMode, Return, Codes
  <2>2. CASE CloseCommandConnection(0)
    BY <1>16, <2>1, <2>2, CloseKeepsType DEF StopManualMode, TypeOK
  <2>3. CASE ~CloseCommandConnection(0)
    BY <1>16, <2>1, <2>3 DEF StopManualMode, TypeOK
  <2>4. QED BY <2>2, <2>3
<1>17. CASE ManualResetErrors
  BY <1>17, OtherCommandsAreModbus DEF ManualResetErrors, Send, Return, TypeOK, Codes
<1>18. CASE UploadRefused
  BY <1>18, OtherCommandsAreModbus DEF UploadRefused, Send, Return, TypeOK, Codes
<1>19. CASE UploadMove
  <2>1. told' \in SUBSET Texts /\ peer' \in {"none", "here", "lost", "overdue", "left"}
    <3>1. "segment accepted" \in Texts
      BY DEF Texts
    <3>2. QED BY <1>19, <3>1, TellKeepsType DEF UploadMove, TypeOK
  <2>2. orders' \in SUBSET ModbusCommands
    BY <1>19, OtherCommandsAreModbus DEF UploadMove, Send
  <2>3. profile' \in [Drives -> MoveTypes \cup {"none", "partial"}]
    BY <1>19, UploadKeepsProfileType DEF UploadMove
  <2>4. code' \in Codes /\ pc' = "reply" /\ misuse' \in BOOLEAN
    BY <1>19 DEF UploadMove, Send, Return, Codes, TypeOK
  <2>5. QED BY <1>19, <2>1, <2>2, <2>3, <2>4 DEF UploadMove, TypeOK
<1>20. CASE ExecuteKills
  <2>1. profile' \in [Drives -> MoveTypes \cup {"none", "partial"}]
    <3>1. CASE UNCHANGED profile
      BY <3>1 DEF TypeOK
    <3>2. CASE BeginsMove
      BY <3>2, BeginsMoveKeepsType
    <3>3. CASE /\ Head(buf).arg \in MoveTypes
               /\ HoldsOneOf({profile[DEVICE_IP], "partial", Head(buf).arg})
      BY <3>3, UploadKeepsProfileType
    <3>4. QED BY <1>20, <3>1, <3>2, <3>3 DEF ExecuteKills
  <2>2. QED BY <1>20, <2>1, DieKeepsType DEF ExecuteKills
<1>21. CASE Reply
  <2>1. told' \in SUBSET Texts /\ peer' \in {"none", "here", "lost", "overdue", "left"}
    <3>1. CASE Answered(code)
      <4>1. Text[code] \in Texts
        BY <3>1, TextTable DEF Answered
      <4>2. Tell(Text[code])
        BY <1>21, <3>1 DEF Reply
      <4>3. QED BY <4>1, <4>2, TellKeepsType
    <3>2. CASE ~Answered(code)
      BY <1>21, <3>2 DEF Reply, TypeOK
    <3>3. QED BY <3>1, <3>2
  <2>2. buf' \in Buffers
    BY <1>21, EmptyIsBuffer DEF Reply
  <2>3. cl' \in {"none", "open", "closed"}
    BY <1>21 DEF Reply, TypeOK
  <2>4. QED BY <1>21, <2>1, <2>2, <2>3 DEF Reply, TypeOK
<1>22. CASE ReplyKills
  BY <1>22, DieKeepsType DEF ReplyKills, TypeOK
<1>23. CASE UNCHANGED vars
  BY <1>23 DEF vars, TypeOK
<1>24. QED
  BY <1>1, <1>2, <1>3, <1>4, <1>5, <1>6, <1>7, <1>8, <1>9, <1>10, <1>11, <1>12, <1>13,
     <1>14, <1>15, <1>16, <1>17, <1>18, <1>19, <1>20, <1>21, <1>22, <1>23
     DEF Next, Server, Execute, Client

(* The flags, handles, buffers and codes always have a value of their type. *)
THEOREM TypeCorrect == Spec => []TypeOK
<1>1. Init => TypeOK
  <2>. QED BY EmptyIsBuffer DEF Init, TypeOK, Codes
<1>2. QED BY <1>1, TypeStep, PTL DEF Spec

-----------------------------------------------------------------------------
(* Safety: the four state invariants with RequestState are inductive. *)

LEMMA FreedIsNoDrive == "freed" \notin Drives /\ "none" \notin Drives
BY SessionAssumption DEF SessionAssumption

\* What SMD_close_command_connection achieves when the flags are as they should be.
LEMMA CloseReleases ==
    ASSUME Inv, NEW manual \in {0, 1}, SMD_CONNECTED = 0 => manual = 0,
           CloseCommandConnection(manual)
    PROVE  /\ SMD_CONNECTED' = 0
           /\ smd_command_connection' # "open"
           /\ STATUS_MANUAL_MODE_ENABLE' = 0
           /\ STATUS_WAITING_FOR_ASSEMBLED_MOVE' = 0
           /\ ~misuse'
<1> USE FreedIsNoDrive DEF CloseCommandConnection, Inv, TypeOK, ConnectionHandle,
        NoMisuse, ModesNeedTheDrive
<1>1. CASE SMD_CONNECTED = 1
  BY <1>1
<1>2. CASE SMD_CONNECTED = 0
  BY <1>2 DEF connection
<1>3. QED BY <1>1, <1>2

\* A step that neither connects nor changes a flag keeps what is said of them.
LEMMA QuietStep ==
    ASSUME Inv, UNCHANGED <<SMD_CONNECTED, smd_command_connection, DEVICE_IP>>,
           UNCHANGED status
    PROVE  ConnectionHandle' /\ ModesNeedTheDrive'
BY DEF Inv, ConnectionHandle, ModesNeedTheDrive, status

\* Commands are only sent to a connected drive, so sending is no misuse.
LEMMA SendIsProper ==
    ASSUME Inv, SMD_CONNECTED = 1, NEW cmds, Send(cmds)
    PROVE  ~misuse'
BY DEF Inv, ConnectionHandle, NoMisuse, Send

LEMMA DieIsSafe ==
    ASSUME Inv, Die
    PROVE  ConnectionHandle' /\ NoMisuse' /\ ModesNeedTheDrive' /\ NoClientNoDrive'
           /\ RequestState'
BY DEF Inv, Die, ConnectionHandle, NoMisuse, ModesNeedTheDrive, NoClientNoDrive,
       RequestState

LEMMA SafetyStep ==
    ASSUME Inv, [Next]_vars
    PROVE  ConnectionHandle' /\ NoMisuse' /\ ModesNeedTheDrive' /\ NoClientNoDrive'
           /\ RequestState'
<1> DEFINE Safe == /\ ConnectionHandle /\ NoMisuse /\ ModesNeedTheDrive
                   /\ NoClientNoDrive /\ RequestState
<1> SUFFICES Safe'
  OBVIOUS
<1> USE DEF client, request, connection, status, move
<1>1. CASE Accept
  BY <1>1 DEF Accept, Inv, ConnectionHandle, NoMisuse, ModesNeedTheDrive, NoClientNoDrive,
     RequestState, Standard
<1>2. CASE AcceptFails
  BY <1>2, DieIsSafe DEF AcceptFails
<1>3. CASE Restart
  BY <1>3 DEF Restart, Inv, ConnectionHandle, NoMisuse, ModesNeedTheDrive, NoClientNoDrive,
     RequestState, Standard
<1>4. CASE Client
  BY <1>4 DEF Client, ClientWrites, ClientLeaves, ClientVanishes, TransportGivesUp, Inv,
     ConnectionHandle, NoMisuse, ModesNeedTheDrive, NoClientNoDrive, RequestState, Standard
<1>5. CASE Read
  <2>1. PICK n \in 1 .. Len(stream) : buf' = SubSeq(stream, 1, n)
    BY <1>5 DEF Read
  <2>2. stream \in Seq(Inputs)
    BY BuffersMeaning DEF Inv, TypeOK
  <2>3. buf' # <<>>
    BY <2>1, <2>2
  <2>4. QED BY <1>5, <2>3, QuietStep DEF Read, Inv, NoMisuse, NoClientNoDrive, RequestState,
     Standard
<1>6. CASE ReadEnds
  <2>1. /\ CloseCommandConnection(STATUS_MANUAL_MODE_ENABLE)
        /\ STATUS_MANUAL_MODE_ENABLE \in {0, 1}
        /\ SMD_CONNECTED = 0 => STATUS_MANUAL_MODE_ENABLE = 0
    BY <1>6 DEF ReadEnds, Inv, TypeOK, ModesNeedTheDrive
  <2>2. /\ SMD_CONNECTED' = 0 /\ smd_command_connection' # "open" /\ ~misuse'
        /\ STATUS_MANUAL_MODE_ENABLE' = 0 /\ STATUS_WAITING_FOR_ASSEMBLED_MOVE' = 0
    BY <2>1, CloseReleases
  <2>3. QED BY <1>6, <2>2 DEF ReadEnds, ConnectionHandle, NoMisuse, ModesNeedTheDrive,
     NoClientNoDrive, RequestState
<1>7. CASE Connect
  BY <1>7 DEF Connect, OpenCommandConnection, NotConnected, Inv, TypeOK, ConnectionHandle,
     NoMisuse, ModesNeedTheDrive, NoClientNoDrive, RequestState, Standard
<1>8. CASE Reject
  BY <1>8, QuietStep DEF Reject, Return, Inv, NoMisuse, NoClientNoDrive, RequestState
<1>9. CASE MoveMotor \/ RunAssembledMove \/ ReadRegisters \/ ManualResetErrors
  <2>1. /\ pc = "execute" /\ pc' = "reply" /\ SMD_CONNECTED = 1
        /\ UNCHANGED <<SMD_CONNECTED, smd_command_connection, DEVICE_IP, status, cl>>
    BY <1>9 DEF MoveMotor, RunAssembledMove, ReadRegisters, ManualResetErrors, Return,
       Standard, Manual
  <2>2. ~misuse'
    BY <1>9, <2>1, SendIsProper DEF MoveMotor, RunAssembledMove, ReadRegisters,
       ManualResetErrors, Inv, NoMisuse
  <2>3. code' # "READY_FOR_ASSEMBLED_MOVE"
    <3>1. CASE MoveMotor
      <4>1. \A c \in DOMAIN MotorCommand : /\ MotorCommand[c].ok # "READY_FOR_ASSEMBLED_MOVE"
                                           /\ MotorCommand[c].failed # "READY_FOR_ASSEMBLED_MOVE"
        BY DEF MotorCommand, Entry
      <4>2. QED BY <3>1, <4>1 DEF MoveMotor, Return
    <3>2. CASE RunAssembledMove \/ ReadRegisters \/ ManualResetErrors
      BY <3>2 DEF RunAssembledMove, ReadRegisters, ManualResetErrors, Return
    <3>3. QED BY <1>9, <3>1, <3>2
  <2>4. QED BY <2>1, <2>2, <2>3, QuietStep DEF Inv, NoMisuse, NoClientNoDrive, RequestState
<1>10. CASE Disconnect
  <2>1. /\ CloseCommandConnection(STATUS_MANUAL_MODE_ENABLE)
        /\ STATUS_MANUAL_MODE_ENABLE \in {0, 1}
        /\ SMD_CONNECTED = 0 => STATUS_MANUAL_MODE_ENABLE = 0
    BY <1>10 DEF Disconnect, Inv, TypeOK, ModesNeedTheDrive
  <2>2. /\ SMD_CONNECTED' = 0 /\ smd_command_connection' # "open" /\ ~misuse'
        /\ STATUS_MANUAL_MODE_ENABLE' = 0 /\ STATUS_WAITING_FOR_ASSEMBLED_MOVE' = 0
    BY <2>1, CloseReleases
  <2>3. QED BY <1>10, <2>2 DEF Disconnect, Return, ConnectionHandle, NoMisuse,
     ModesNeedTheDrive, NoClientNoDrive, RequestState, Inv
<1>11. CASE ProgramAssembledMove
  <2>1. ~misuse'
    BY <1>11, SendIsProper DEF ProgramAssembledMove, Standard
  <2>2. QED BY <1>11, <2>1, QuietStep DEF ProgramAssembledMove, Return, Inv, NoMisuse,
     NoClientNoDrive, RequestState, Standard
<1>12. CASE StartManualMode
  BY <1>12 DEF StartManualMode, Return, Inv, ConnectionHandle, NoMisuse, ModesNeedTheDrive,
     NoClientNoDrive, RequestState, Standard
<1>13. CASE StopManualMode
  <2>1. SMD_CONNECTED = 1 /\ pc = "execute" /\ pc' = "reply" /\ cl' = cl
        /\ STATUS_WAITING_FOR_ASSEMBLED_MOVE = 0 /\ code' # "READY_FOR_ASSEMBLED_MOVE"
    BY <1>13 DEF StopManualMode, Manual, Return
  <2>2. CASE CloseCommandConnection(0)
    <3>1. /\ SMD_CONNECTED' = 0 /\ smd_command_connection' # "open" /\ ~misuse'
          /\ STATUS_MANUAL_MODE_ENABLE' = 0 /\ STATUS_WAITING_FOR_ASSEMBLED_MOVE' = 0
      BY <2>2, CloseReleases
    <3>2. QED BY <2>1, <3>1 DEF ConnectionHandle, NoMisuse, ModesNeedTheDrive,
       NoClientNoDrive, RequestState, Inv
  <2>3. CASE ~CloseCommandConnection(0)
    BY <1>13, <2>1, <2>3 DEF StopManualMode, ConnectionHandle, NoMisuse, ModesNeedTheDrive,
       NoClientNoDrive, RequestState, Inv
  <2>4. QED BY <2>2, <2>3
<1>14. CASE UploadRefused \/ UploadMove
  <2>1. /\ pc = "execute" /\ pc' = "reply" /\ SMD_CONNECTED = 1 /\ cl' = cl
        /\ UNCHANGED <<SMD_CONNECTED, smd_command_connection, DEVICE_IP>>
        /\ STATUS_WAITING_FOR_ASSEMBLED_MOVE' = 0 /\ UNCHANGED STATUS_MANUAL_MODE_ENABLE
        /\ code' # "READY_FOR_ASSEMBLED_MOVE"
    BY <1>14 DEF UploadRefused, UploadMove, Awaiting, Return
  <2>2. ~misuse'
    BY <1>14, <2>1, SendIsProper DEF UploadRefused, UploadMove
  <2>3. QED BY <2>1, <2>2 DEF Inv, ConnectionHandle, NoMisuse, ModesNeedTheDrive,
     NoClientNoDrive, RequestState
<1>15. CASE ExecuteKills \/ ReplyKills
  BY <1>15, DieIsSafe DEF ExecuteKills, ReplyKills
<1>16. CASE Reply
  <2>1. ModesNeedTheDrive'
    BY <1>16 DEF Reply, Inv, ModesNeedTheDrive, RequestState, Standard
  <2>2. ConnectionHandle' /\ NoMisuse' /\ NoClientNoDrive' /\ RequestState'
    BY <1>16 DEF Reply, Inv, ConnectionHandle, NoMisuse, NoClientNoDrive, RequestState
  <2>3. QED BY <2>1, <2>2
<1>17. CASE UNCHANGED vars
  BY <1>17 DEF vars, Inv, ConnectionHandle, NoMisuse, ModesNeedTheDrive, NoClientNoDrive,
     RequestState, Standard
<1>18. QED
  BY <1>1, <1>2, <1>3, <1>4, <1>5, <1>6, <1>7, <1>8, <1>9, <1>10, <1>11, <1>12, <1>13,
     <1>14, <1>15, <1>16, <1>17 DEF Next, Server, Execute

LEMMA InvInit == Init => Inv
<1> SUFFICES ASSUME Init PROVE Inv
  OBVIOUS
<1>1. TypeOK
  BY EmptyIsBuffer DEF Init, TypeOK, Codes
<1>2. QED
  BY <1>1 DEF Init, Inv, ConnectionHandle, NoMisuse, ModesNeedTheDrive, NoClientNoDrive,
     RequestState

LEMMA InvStep == Inv /\ [Next]_vars => Inv'
BY TypeStep, SafetyStep DEF Inv

LEMMA InvHolds == Spec => []Inv
BY InvInit, InvStep, PTL DEF Spec

(* SMD_CONNECTED is set exactly while there is an open handle and a drive   *)
(* address, whatever the order of connects, failures and lost clients.      *)
THEOREM HandleIsTrue == Spec => []ConnectionHandle
<1>1. Inv => ConnectionHandle
  BY DEF Inv
<1>2. QED BY <1>1, InvHolds, PTL

(* No handle and no address is freed twice, and none is used after.         *)
THEOREM HandlesAreNotMisused == Spec => []NoMisuse
<1>1. Inv => NoMisuse
  BY DEF Inv
<1>2. QED BY <1>1, InvHolds, PTL

(* The two special modes exclude each other and end with the connection.    *)
THEOREM ModesAreExclusive == Spec => []ModesNeedTheDrive
<1>1. Inv => ModesNeedTheDrive
  BY DEF Inv
<1>2. QED BY <1>1, InvHolds, PTL

(* No client inherits a drive connection or a mode.                         *)
THEOREM NobodyNothing == Spec => []NoClientNoDrive
<1>1. Inv => NoClientNoDrive
  BY DEF Inv
<1>2. QED BY <1>1, InvHolds, PTL

(* What the main thread may assume of the request it is serving, between    *)
(* parse_socket_input and the answer.                                       *)
THEOREM RequestsAreOrderly == Spec => []RequestState
<1>1. Inv => RequestState
  BY DEF Inv
<1>2. QED BY <1>1, InvHolds, PTL

-----------------------------------------------------------------------------
(* Action properties. *)

(* Manual mode is left with a successful immediate stop, or with the drive  *)
(* disconnected: the guard of parse_socket_input's Scenario 2.              *)
THEOREM ManualModeIsStopped == Spec => ManualModeEndsInAStop
<1> DEFINE A == STATUS_MANUAL_MODE_ENABLE = 1 /\ STATUS_MANUAL_MODE_ENABLE' = 0
                  => \/ SMD_CONNECTED' = 0
                     \/ "immediate_stop" \in orders' /\ code' = "COMMAND_SUCCESS"
<1>1. ASSUME Inv, [Next]_vars PROVE [A]_vars
  <2> SUFFICES ASSUME STATUS_MANUAL_MODE_ENABLE = 1, STATUS_MANUAL_MODE_ENABLE' = 0
               PROVE  \/ SMD_CONNECTED' = 0
                      \/ "immediate_stop" \in orders' /\ code' = "COMMAND_SUCCESS"
    BY DEF vars
  <2>1. CASE ReadEnds \/ Disconnect
    <3>1. CloseCommandConnection(STATUS_MANUAL_MODE_ENABLE)
      BY <2>1 DEF ReadEnds, Disconnect
    <3>2. QED BY <3>1 DEF CloseCommandConnection
  <2>2. CASE StopManualMode
    <3>1. SMD_CONNECTED = 1 /\ orders' = {"immediate_stop"}
      BY <2>2 DEF StopManualMode, Manual
    <3>2. CASE code' = "COMMAND_SUCCESS"
      BY <3>1, <3>2
    <3>3. CASE code' # "COMMAND_SUCCESS"
      <4>1. CloseCommandConnection(0)
        BY <2>2, <3>3 DEF StopManualMode, Return
      <4>2. smd_command_connection # "NULL"
        BY <1>1, <3>1 DEF Inv, ConnectionHandle
      <4>3. QED BY <3>1, <4>1, <4>2 DEF CloseCommandConnection
    <3>4. QED BY <3>2, <3>3
  <2>3. CASE AcceptFails \/ ExecuteKills \/ ReplyKills
    BY <2>3 DEF AcceptFails, ExecuteKills, ReplyKills, Die
  <2>4. CASE Accept \/ Restart \/ Client \/ Read \/ Connect \/ Reject \/ MoveMotor
             \/ RunAssembledMove \/ ReadRegisters \/ ProgramAssembledMove
             \/ ManualResetErrors
    BY <2>4 DEF Accept, Restart, Client, ClientWrites, ClientLeaves, ClientVanishes,
       TransportGivesUp, Read, Connect, Reject, MoveMotor, RunAssembledMove, ReadRegisters,
       ProgramAssembledMove, ManualResetErrors, status
  <2>5. CASE StartManualMode \/ UploadRefused \/ UploadMove \/ Reply
    BY <2>5 DEF StartManualMode, UploadRefused, UploadMove, Reply
  <2>6. CASE UNCHANGED vars
    BY <2>6 DEF vars, status
  <2>7. QED
    BY <1>1, <2>1, <2>2, <2>3, <2>4, <2>5, <2>6 DEF Next, Server, Execute
<1>2. QED BY <1>1, InvHolds, PTL DEF Spec, ManualModeEndsInAStop

(* After INVALID_INPUT the server's own close(cl) makes the next read fail: *)
(* nothing more of that client is executed, and its drive is released.      *)
THEOREM RejectedIsCutOff == Spec => RejectedClientIsCutOff
<1> DEFINE A == cl = "closed" =>
                  /\ pc' \in {"read", "accept"} /\ orders' \subseteq orders
                  /\ pc' = "accept" => SMD_CONNECTED' = 0
<1>1. ASSUME Inv, [Next]_vars PROVE [A]_vars
  <2> SUFFICES ASSUME cl = "closed"
               PROVE  /\ pc' \in {"read", "accept"} /\ orders' \subseteq orders
                      /\ pc' = "accept" => SMD_CONNECTED' = 0
    BY DEF vars
  <2>1. pc = "read"
    BY <1>1 DEF Inv, RequestState
  <2>2. CASE Client \/ UNCHANGED vars
    BY <2>1, <2>2 DEF Client, ClientWrites, ClientLeaves, ClientVanishes, TransportGivesUp,
       request, vars
  <2>3. CASE ReadEnds
    <3>1. /\ CloseCommandConnection(STATUS_MANUAL_MODE_ENABLE)
          /\ STATUS_MANUAL_MODE_ENABLE \in {0, 1}
          /\ SMD_CONNECTED = 0 => STATUS_MANUAL_MODE_ENABLE = 0
      BY <1>1, <2>3 DEF ReadEnds, Inv, TypeOK, ModesNeedTheDrive
    <3>2. SMD_CONNECTED' = 0
      BY <1>1, <3>1, CloseReleases
    <3>3. QED BY <2>3, <3>2 DEF ReadEnds
  <2>4. Client \/ ReadEnds \/ UNCHANGED vars
    BY <1>1, <2>1 DEF Next, Server, Execute, Accept, AcceptFails, Restart, Read, Connect, Reject,
       MoveMotor, RunAssembledMove, Disconnect, ReadRegisters, ProgramAssembledMove,
       StartManualMode, StopManualMode, ManualResetErrors, UploadRefused, UploadMove,
       ExecuteKills, Reply, ReplyKills
  <2>5. QED BY <2>2, <2>3, <2>4
<1>2. QED BY <1>1, InvHolds, PTL DEF Spec, RejectedClientIsCutOff

-----------------------------------------------------------------------------
(* What is run is not another move than what was uploaded, for one drive,   *)
(* uploads that do not break off and acceptances that are true.  The type   *)
(* noted may still be that of a move the drive no longer has in full: run   *)
(* doc_move_type shows it.                                                  *)

OneDrive == \A a, b \in Drives : a = b

\* The type noted is that of the move in the drive, or of the one that was there
\* before a new one was begun: from the upload to any later request, over
\* disconnects and other clients, until the process dies.
NotedIsLoaded ==
    STATUS_TYPE_ASSEMBLED_MOVE # "none" =>
        \A d \in Drives : profile[d] \in {STATUS_TYPE_ASSEMBLED_MOVE, "partial"}

\* Only the two halves of an upload and the end of the process touch what
\* NotedIsLoaded says.
LEMMA MoveStays ==
    ASSUME [Next]_vars
    PROVE  UploadMove \/ ProgramAssembledMove \/ Die \/ UNCHANGED move
<1>1. CASE Accept \/ Restart \/ Client \/ Read \/ ReadEnds \/ Reply
  BY <1>1 DEF Accept, Restart, Client, ClientWrites, ClientLeaves, ClientVanishes,
     TransportGivesUp, Read, ReadEnds, Reply
<1>2. CASE Connect \/ Reject \/ MoveMotor \/ RunAssembledMove \/ Disconnect \/ ReadRegisters
           \/ StartManualMode \/ StopManualMode \/ ManualResetErrors \/ UploadRefused
  BY <1>2 DEF Connect, Reject, MoveMotor, RunAssembledMove, Disconnect, ReadRegisters,
     StartManualMode, StopManualMode, ManualResetErrors, UploadRefused
<1>3. CASE AcceptFails \/ ExecuteKills \/ ReplyKills
  BY <1>3 DEF AcceptFails, ExecuteKills, ReplyKills
<1>4. CASE UNCHANGED vars
  BY <1>4 DEF vars
<1>5. QED BY <1>1, <1>2, <1>3, <1>4 DEF Next, Server, Execute

LEMMA NotedIsLoadedStep ==
    ASSUME OneDrive, ~UploadMayFail, ~UploadMayLie, Inv, NotedIsLoaded, [Next]_vars
    PROVE  NotedIsLoaded'
<1>1. CASE UploadMove
  <2>1. STATUS_TYPE_ASSEMBLED_MOVE' = Head(buf).arg
    BY <1>1 DEF UploadMove
  <2>2. profile' = [profile EXCEPT ![DEVICE_IP] = Head(buf).arg]
    BY <1>1 DEF UploadMove, HoldsOneOf
  <2>3. DEVICE_IP \in Drives
    BY <1>1 DEF UploadMove, Awaiting, Inv, ConnectionHandle
  <2>4. \A d \in Drives : d = DEVICE_IP
    BY <2>3 DEF OneDrive
  <2>5. DOMAIN profile = Drives
    BY DEF Inv, TypeOK
  <2>6. QED BY <2>1, <2>2, <2>4, <2>5 DEF NotedIsLoaded
<1>2. CASE ProgramAssembledMove
  <2>1. UNCHANGED STATUS_TYPE_ASSEMBLED_MOVE
    BY <1>2 DEF ProgramAssembledMove
  <2>2. PICK m \in {profile[DEVICE_IP], "partial"} : profile' = [profile EXCEPT ![DEVICE_IP] = m]
    BY <1>2 DEF ProgramAssembledMove, BeginsMove, HoldsOneOf
  <2>3. DOMAIN profile = Drives
    BY DEF Inv, TypeOK
  <2>4. \A d \in Drives : profile'[d] \in {profile[d], "partial"}
    BY <2>2, <2>3
  <2>5. QED BY <2>1, <2>4 DEF NotedIsLoaded
<1>3. CASE Die
  BY <1>3 DEF Die, NotedIsLoaded
<1>4. CASE UNCHANGED move
  BY <1>4 DEF move, NotedIsLoaded
<1>5. QED BY <1>1, <1>2, <1>3, <1>4, MoveStays

\* Of the command table, no row runs the assembled move.
LEMMA TableRunsNoMove ==
    \A c \in DOMAIN MotorCommand : MotorCommand[c].order # "run_assembled_move"
BY DEF MotorCommand, Entry

LEMMA OnlyRunAssembledMoveRuns ==
    ASSUME Inv, [Next]_vars, pc = "execute", "run_assembled_move" \in orders'
    PROVE  RunAssembledMove
<1>1. orders = {}
  BY DEF Inv, RequestState
<1>2. CASE MoveMotor
  <2>1. orders' = orders \/ orders' = {MotorCommand[Command].order}
    BY <1>2 DEF MoveMotor, Send
  <2>2. QED BY <1>1, <1>2, <2>1, TableRunsNoMove DEF MoveMotor
<1>3. CASE Disconnect \/ Connect \/ Reject \/ StartManualMode
  BY <1>1, <1>3 DEF Disconnect, Connect, Reject, StartManualMode
<1>4. CASE ReadRegisters \/ ProgramAssembledMove \/ StopManualMode \/ ManualResetErrors
           \/ UploadRefused
  <2>1. orders' \in {{}, {"program_first_block"}, {"program_first_block", "reset_errors"},
                     {"immediate_stop"}, {"reset_errors"}}
    BY <1>4 DEF ReadRegisters, ProgramAssembledMove, StopManualMode, ManualResetErrors,
       UploadRefused, Send
  <2>2. QED BY <2>1
<1>5. CASE UploadMove
  <2>1. orders' \subseteq {"program_move_segment", "prepare_for_next_segment", "reset_errors"}
    BY <1>5 DEF UploadMove, Send
  <2>2. QED BY <2>1
<1>6. CASE ExecuteKills \/ AcceptFails \/ ReplyKills
  BY <1>6 DEF ExecuteKills, AcceptFails, ReplyKills, Die
<1>7. CASE Client \/ UNCHANGED vars
  BY <1>1, <1>7 DEF Client, ClientWrites, ClientLeaves, ClientVanishes, TransportGivesUp,
     request, vars
<1>8. CASE Accept \/ Restart \/ Read \/ ReadEnds \/ Reply
  BY <1>8 DEF Accept, Restart, Read, ReadEnds, Reply
<1>9. QED
  BY <1>2, <1>3, <1>4, <1>5, <1>6, <1>7, <1>8 DEF Next, Server, Execute

(* A run of the assembled move is not sent to a drive that holds none, or   *)
(* one of the other type, although the move was uploaded any number of      *)
(* requests, connections and clients before, and the check of               *)
(* parse_socket_input sees only a note of its type.  All that may be there  *)
(* in its place is a move begun since and not finished.                     *)
THEOREM RunIsOfNoOtherMove ==
    ASSUME OneDrive, ~UploadMayFail, ~UploadMayLie
    PROVE  Spec => RunsNoOtherMove
<1> DEFINE A == (pc = "execute" /\ "run_assembled_move" \in orders')
                  => profile[DEVICE_IP] \in {RunCommand[Command], "partial"}
<1>1. ASSUME Inv, NotedIsLoaded, [Next]_vars PROVE [A]_vars
  <2> SUFFICES ASSUME pc = "execute", "run_assembled_move" \in orders'
               PROVE  profile[DEVICE_IP] \in {RunCommand[Command], "partial"}
    BY DEF vars
  <2>1. RunAssembledMove
    BY <1>1, OnlyRunAssembledMoveRuns
  <2>2. orders = {}
    BY <1>1 DEF Inv, RequestState
  <2>3. /\ STATUS_TYPE_ASSEMBLED_MOVE = RunCommand[Command]
        /\ Command \in DOMAIN RunCommand
    BY <2>1, <2>2 DEF RunAssembledMove
  <2>4. STATUS_TYPE_ASSEMBLED_MOVE # "none"
    BY <2>3 DEF RunCommand
  <2>5. DEVICE_IP \in Drives
    BY <1>1, <2>1 DEF RunAssembledMove, Standard, Inv, ConnectionHandle
  <2>6. QED BY <1>1, <2>3, <2>4, <2>5 DEF NotedIsLoaded
<1>2. Init => NotedIsLoaded
  BY DEF Init, NotedIsLoaded
<1>3. Inv /\ NotedIsLoaded /\ [Next]_vars => NotedIsLoaded'
  BY NotedIsLoadedStep
<1>4. QED BY <1>1, <1>2, <1>3, InvHolds, PTL DEF Spec, RunsNoOtherMove

-----------------------------------------------------------------------------
(* A client that waits for each answer: holdMove holds (SMD_Constants.h:117). *)

\* The server never has more than the one input in hand.
OneInput == Len(stream) <= 1 /\ Len(buf) <= 1

LEMMA OneInputStep ==
    ASSUME ~Pipelining, Inv, OneInput, [Next]_vars
    PROVE  OneInput'
<1>1. stream \in Seq(Inputs) /\ buf \in Seq(Inputs)
  BY BuffersMeaning DEF Inv, TypeOK
<1>2. Len(<<>>) = 0
  OBVIOUS
<1>3. CASE ClientWrites
  <2>1. PICK i \in Inputs : stream' = Append(stream, i)
    BY <1>3 DEF ClientWrites
  <2>2. stream = <<>>
    BY <1>3 DEF ClientWrites
  <2>3. Len(stream') = 1
    BY <1>1, <2>1, <2>2
  <2>4. QED BY <1>3, <2>3 DEF ClientWrites, OneInput, request
<1>4. CASE Read
  <2>1. PICK n \in 1 .. Len(stream) : /\ buf' = SubSeq(stream, 1, n)
                                      /\ stream' = SubSeq(stream, n + 1, Len(stream))
    BY <1>4 DEF Read
  <2>2. n = 1 /\ Len(stream) = 1
    <3> DEFINE k == Len(stream)
    <3>1. k \in Nat /\ k <= 1 /\ n \in 1 .. k
      BY <1>1, <2>1 DEF OneInput
    <3> HIDE DEF k
    <3>2. n = 1 /\ k = 1
      BY <3>1
    <3>3. QED BY <3>2 DEF k
  <2>3. Len(buf') = 1 /\ Len(stream') = 0
    BY <1>1, <2>1, <2>2
  <2>4. QED BY <2>3 DEF OneInput
<1>5. CASE ClientLeaves \/ ClientVanishes \/ TransportGivesUp \/ ReadEnds \/ Reply
  BY <1>2, <1>5 DEF ClientLeaves, ClientVanishes, TransportGivesUp, ReadEnds, Reply,
     OneInput, request
<1>6. CASE AcceptFails \/ ExecuteKills \/ ReplyKills
  BY <1>2, <1>6 DEF AcceptFails, ExecuteKills, ReplyKills, Die, OneInput
<1>7. CASE Accept \/ Restart \/ Connect \/ Reject \/ MoveMotor \/ RunAssembledMove
           \/ Disconnect \/ ReadRegisters
  BY <1>7 DEF Accept, Restart, Connect, Reject, MoveMotor, RunAssembledMove, Disconnect,
     ReadRegisters, OneInput, client, request
<1>8. CASE ProgramAssembledMove \/ StartManualMode \/ StopManualMode \/ ManualResetErrors
           \/ UploadRefused \/ UploadMove
  BY <1>8 DEF ProgramAssembledMove, StartManualMode, StopManualMode, ManualResetErrors,
     UploadRefused, UploadMove, OneInput, client, request
<1>9. CASE UNCHANGED vars
  BY <1>9 DEF vars, OneInput, client, request
<1>10. QED
  BY <1>3, <1>4, <1>5, <1>6, <1>7, <1>8, <1>9 DEF Next, Server, Execute, Client

\* With one input in the buffer the search for jog and home finds it or nothing.
LEMMA CommandIsHead ==
    ASSUME Inv, OneInput, pc = "execute"
    PROVE  Command = Head(buf).cmd
<1>1. buf \in Seq(Inputs) /\ buf # <<>>
  BY BuffersMeaning DEF Inv, TypeOK, RequestState
<1>2. DOMAIN buf = {1} /\ Head(buf) = buf[1]
  <2> DEFINE k == Len(buf)
  <2>1. k \in Nat /\ k # 0 /\ k <= 1
    BY <1>1 DEF OneInput
  <2> HIDE DEF k
  <2>2. k = 1
    BY <2>1
  <2>3. QED BY <1>1, <2>2 DEF k
<1>3. \A cmd : Holds(cmd) <=> Head(buf).cmd = cmd
  BY <1>2 DEF Holds
<1>4. QED BY <1>3 DEF Command

(* A client that waits for the answer before it writes again gets the hold  *)
(* it asks for: the jog that doc_hold_move finds instead of it can only be  *)
(* one behind it in the same read.                                          *)
THEOREM HoldMoveHolds ==
    ASSUME ~Pipelining
    PROVE  Spec => HoldMoveStops
<1> DEFINE A == pc = "execute" /\ pc' = "reply" /\ Standard /\ Head(buf).cmd = "holdMove"
                  => "hold_move" \in orders'
<1>1. ASSUME Inv, OneInput, [Next]_vars PROVE [A]_vars
  <2> SUFFICES ASSUME pc = "execute", pc' = "reply", Standard, Head(buf).cmd = "holdMove"
               PROVE  "hold_move" \in orders'
    BY DEF vars
  <2>1. Command = "holdMove"
    BY <1>1, CommandIsHead
  <2>2. /\ "holdMove" \in DOMAIN MotorCommand
        /\ MotorCommand["holdMove"].tokens = 0
        /\ MotorCommand["holdMove"].order = "hold_move"
    BY DEF MotorCommand, Entry
  <2>3. "holdMove" \notin DOMAIN RunCommand \cup ReadCommands \cup OtherCommands
    BY DEF RunCommand, ReadCommands, OtherCommands
  <2>4. ~(Connect \/ Reject)
    BY <2>1, <2>2 DEF Connect, Reject, Standard, NotConnected, Manual
  <2>5. ~(RunAssembledMove \/ Disconnect \/ ReadRegisters \/ ProgramAssembledMove
          \/ StartManualMode)
    BY <2>1, <2>3 DEF RunAssembledMove, Disconnect, ReadRegisters, ProgramAssembledMove,
       StartManualMode, OtherCommands, Standard, Manual
  <2>6. ~(StopManualMode \/ ManualResetErrors \/ UploadRefused \/ UploadMove)
    BY DEF StopManualMode, ManualResetErrors, UploadRefused, UploadMove, Standard, Manual,
       Awaiting
  <2>7. ~(Accept \/ AcceptFails \/ Restart \/ Read \/ ReadEnds \/ Reply \/ ReplyKills
          \/ ExecuteKills \/ Client \/ UNCHANGED vars)
    BY DEF Accept, AcceptFails, Restart, Read, ReadEnds, Reply, ReplyKills, ExecuteKills, Die,
       Client, ClientWrites, ClientLeaves, ClientVanishes, TransportGivesUp, vars
  <2>8. MoveMotor
    BY <1>1, <2>4, <2>5, <2>6, <2>7 DEF Next, Server, Execute
  <2>9. QED BY <2>1, <2>2, <2>8 DEF MoveMotor, Send
<1>2. Init => OneInput
  BY DEF Init, OneInput
<1>3. Inv /\ OneInput /\ [Next]_vars => OneInput'
  BY OneInputStep
<1>4. QED BY <1>1, <1>2, <1>3, InvHolds, PTL DEF Spec, HoldMoveStops

-----------------------------------------------------------------------------
(* Answers: the part of RequestsAreAnswered that does not need fairness.    *)

\* A request that is left has been executed, and answered unless its client
\* has gone, or the process has ended, or the code is one of the two that
\* parse_smd_response_to_client_input has no text for.
NoRequestIsPassedOver ==
    [][/\ pc = "execute" /\ pc' # "execute" => pc' \in {"reply", "dead"}
       /\ pc = "reply" /\ pc' # "reply" =>
             \/ pc' = "dead"
             \/ /\ pc' = "read"
                /\ \/ told' # {}
                   \/ code \in {"DISCONNECT_SUCCESS", "HANDLED_BY_CLIENT"}
                   \/ peer # "here"]_vars

\* What is being answered has a return code.
HasCode == pc = "reply" => code # "none"

LEMMA HasCodeStep ==
    ASSUME Inv, HasCode, [Next]_vars
    PROVE  HasCode'
<1>1. CASE MoveMotor
  <2>1. \A c \in DOMAIN MotorCommand :
           MotorCommand[c].ok # "none" /\ MotorCommand[c].failed # "none"
    BY DEF MotorCommand, Entry
  <2>2. Command \in DOMAIN MotorCommand
    BY <1>1 DEF MoveMotor
  <2>3. code' \in {"INVALID_PARAMETER", MotorCommand[Command].ok,
                   MotorCommand[Command].failed}
    BY <1>1 DEF MoveMotor, Return
  <2>4. QED BY <2>1, <2>2, <2>3 DEF HasCode
<1>2. CASE Connect \/ Reject \/ RunAssembledMove \/ Disconnect \/ ReadRegisters
           \/ ProgramAssembledMove
  BY <1>2 DEF Connect, OpenCommandConnection, Reject, RunAssembledMove, Disconnect,
     ReadRegisters, ProgramAssembledMove, Return, HasCode
<1>3. CASE StartManualMode \/ StopManualMode \/ ManualResetErrors \/ UploadRefused
           \/ UploadMove
  BY <1>3 DEF StartManualMode, StopManualMode, ManualResetErrors, UploadRefused, UploadMove,
     Return, HasCode
<1>4. CASE AcceptFails \/ ExecuteKills \/ ReplyKills
  BY <1>4 DEF AcceptFails, ExecuteKills, ReplyKills, Die, HasCode
<1>5. CASE Accept \/ Restart \/ Read \/ ReadEnds \/ Reply
  BY <1>5 DEF Accept, Restart, Read, ReadEnds, Reply, HasCode
<1>6. CASE Client \/ UNCHANGED vars
  BY <1>6 DEF Client, ClientWrites, ClientLeaves, ClientVanishes, TransportGivesUp, request,
     vars, HasCode
<1>7. QED BY <1>1, <1>2, <1>3, <1>4, <1>5, <1>6 DEF Next, Server, Execute

(* The chain of ifs in parse_smd_response_to_client_input has a text for    *)
(* every other code a request can end with: nobody waits for an answer that *)
(* the server has gone past.                                                *)
THEOREM RequestsAreNotPassedOver == Spec => NoRequestIsPassedOver
<1> DEFINE A == /\ pc = "execute" /\ pc' # "execute" => pc' \in {"reply", "dead"}
                /\ pc = "reply" /\ pc' # "reply" =>
                      \/ pc' = "dead"
                      \/ /\ pc' = "read"
                         /\ \/ told' # {}
                            \/ code \in {"DISCONNECT_SUCCESS", "HANDLED_BY_CLIENT"}
                            \/ peer # "here"
<1>1. ASSUME Inv, HasCode, [Next]_vars PROVE [A]_vars
  <2>1. CASE pc = "execute"
    <3>1. CASE Execute
      <4>1. CASE ExecuteKills
        BY <2>1, <4>1 DEF ExecuteKills, Die
      <4>2. CASE Connect \/ Reject \/ MoveMotor \/ RunAssembledMove \/ Disconnect
                 \/ ReadRegisters \/ ProgramAssembledMove
        BY <2>1, <4>2 DEF Connect, Reject, MoveMotor, RunAssembledMove, Disconnect,
           ReadRegisters, ProgramAssembledMove, Return
      <4>3. CASE StartManualMode \/ StopManualMode \/ ManualResetErrors \/ UploadRefused
                 \/ UploadMove
        BY <2>1, <4>3 DEF StartManualMode, StopManualMode, ManualResetErrors, UploadRefused,
           UploadMove, Return
      <4>4. QED BY <3>1, <4>1, <4>2, <4>3 DEF Execute
    <3>2. CASE ~Execute
      BY <1>1, <2>1, <3>2 DEF Next, Server, Accept, AcceptFails, Restart, Read, ReadEnds, Reply,
         ReplyKills, Client, ClientWrites, ClientLeaves, ClientVanishes, TransportGivesUp,
            vars
    <3>3. QED BY <3>1, <3>2
  <2>2. CASE pc = "reply"
    <3>1. code \in DOMAIN Text \cup {"DISCONNECT_SUCCESS", "HANDLED_BY_CLIENT"}
      BY <1>1, <2>2 DEF Inv, TypeOK, HasCode, Codes, Text
    <3>2. CASE Reply
      <4>1. CASE Answered(code) /\ peer = "here"
        BY <2>2, <3>2, <4>1 DEF Reply, Tell
      <4>2. CASE ~(Answered(code) /\ peer = "here")
        BY <2>2, <3>1, <3>2, <4>2 DEF Reply, Answered
      <4>3. QED BY <4>1, <4>2
    <3>3. CASE ReplyKills
      BY <2>2, <3>3 DEF ReplyKills, Die
    <3>4. Reply \/ ReplyKills \/ Client \/ UNCHANGED vars
      BY <1>1, <2>2 DEF Next, Server, Execute, Accept, AcceptFails, Restart, Read, ReadEnds,
         Connect, Reject, MoveMotor, RunAssembledMove, Disconnect, ReadRegisters,
         ProgramAssembledMove, StartManualMode, StopManualMode, ManualResetErrors,
         UploadRefused, UploadMove, ExecuteKills
    <3>5. CASE Client \/ UNCHANGED vars
      BY <2>2, <3>5 DEF Client, ClientWrites, ClientLeaves, ClientVanishes,
         TransportGivesUp, vars
    <3>6. QED BY <3>2, <3>3, <3>4, <3>5
  <2>3. QED BY <2>1, <2>2
<1>2. Init => HasCode
  BY DEF Init, HasCode
<1>3. Inv /\ HasCode /\ [Next]_vars => HasCode'
  BY HasCodeStep
<1>4. QED BY <1>1, <1>2, <1>3, InvHolds, PTL DEF Spec, NoRequestIsPassedOver

-----------------------------------------------------------------------------
(* A client that has left: what the main thread still does for it, for      *)
(* every amount of input left behind.                                       *)

\* A client is at the other end only while the main thread serves it.
PeerAtWork == pc \in {"accept", "dead"} => peer = "none"

LEMMA PeerAtWorkStep ==
    ASSUME Inv, PeerAtWork, [Next]_vars
    PROVE  PeerAtWork'
<1>1. CASE ClientWrites \/ Restart
  BY <1>1 DEF ClientWrites, Restart, PeerAtWork, client
<1>2. CASE ClientLeaves \/ ClientVanishes \/ TransportGivesUp
  BY <1>2 DEF ClientLeaves, ClientVanishes, TransportGivesUp, PeerAtWork
<1>3. CASE Accept \/ Read \/ ReadEnds \/ Reply
  BY <1>3 DEF Accept, Read, ReadEnds, Reply, PeerAtWork
<1>4. CASE AcceptFails \/ ExecuteKills \/ ReplyKills
  BY <1>4 DEF AcceptFails, ExecuteKills, ReplyKills, Die, PeerAtWork
<1>5. CASE Connect \/ Reject \/ MoveMotor \/ RunAssembledMove \/ Disconnect \/ ReadRegisters
           \/ ProgramAssembledMove
  BY <1>5 DEF Connect, Reject, MoveMotor, RunAssembledMove, Disconnect, ReadRegisters,
     ProgramAssembledMove, Return, PeerAtWork
<1>6. CASE StartManualMode \/ StopManualMode \/ ManualResetErrors \/ UploadRefused
           \/ UploadMove
  BY <1>6 DEF StartManualMode, StopManualMode, ManualResetErrors, UploadRefused, UploadMove,
     Return, PeerAtWork
<1>7. CASE UNCHANGED vars
  BY <1>7 DEF vars, client, PeerAtWork
<1>8. QED
  BY <1>1, <1>2, <1>3, <1>4, <1>5, <1>6, <1>7 DEF Next, Server, Execute, Client

\* Whatever a request is, executing it takes the client's request to its reply,
\* unless the process dies of it.
LEMMA ExecuteReturns ==
    ASSUME Execute, ~ExecuteKills
    PROVE  /\ pc = "execute" /\ pc' = "reply" /\ stream' = stream
           /\ peer = "left" => peer' = "left"
<1>1. CASE Connect \/ Reject \/ MoveMotor \/ RunAssembledMove \/ Disconnect \/ ReadRegisters
           \/ ProgramAssembledMove
  BY <1>1 DEF Connect, Reject, MoveMotor, RunAssembledMove, Disconnect, ReadRegisters,
     ProgramAssembledMove, Return, Tell, client
<1>2. CASE StartManualMode \/ StopManualMode \/ ManualResetErrors \/ UploadRefused
           \/ UploadMove
  BY <1>2 DEF StartManualMode, StopManualMode, ManualResetErrors, UploadRefused, UploadMove,
     Return, Tell, client
<1>3. QED BY <1>1, <1>2 DEF Execute

(* The safety half of ClientGoneDriveReleased: open_server_socket works off *)
(* what a lost client had written in finitely many steps, each of which     *)
(* brings it nearer to the read() that returns 0 and closes the drive.      *)
THEOREM GoneClientIsFinished == Spec => GoneClientRunsOut
<1> DEFINE A == peer = "left" => /\ WorkLeft' < WorkLeft
                                 /\ peer' # "left" => peer' = "none" /\ SMD_CONNECTED' = 0
<1>1. ASSUME Inv, PeerAtWork, [Next]_vars PROVE [A]_vars
  <2> SUFFICES ASSUME Next, peer = "left"
               PROVE  /\ WorkLeft' < WorkLeft
                      /\ peer' # "left" => peer' = "none" /\ SMD_CONNECTED' = 0
    BY <1>1
  <2>1. stream \in Seq(Inputs) /\ Len(stream) \in Nat
    BY <1>1, BuffersMeaning DEF Inv, TypeOK
  <2>2. pc \in {"read", "execute", "reply"}
    BY <1>1 DEF Inv, TypeOK, PeerAtWork
  <2>3. WorkLeft > 0
    <3> DEFINE k == Len(stream)
    <3>1. k \in Nat
      BY <2>1
    <3> HIDE DEF k
    <3>2. WorkLeft \in {3 * k + 3, 3 * k + 2, 3 * k + 1}
      BY <2>2 DEF WorkLeft, k
    <3>3. QED BY <3>1, <3>2
  <2>4. CASE Read
    <3>1. PICK n \in 1 .. Len(stream) : stream' = SubSeq(stream, n + 1, Len(stream))
      BY <2>4 DEF Read
    <3>2. Len(stream') = Len(stream) - n
      BY <2>1, <3>1
    <3>3. /\ WorkLeft' = 3 * Len(stream') + 3
          /\ WorkLeft = 3 * Len(stream) + 1
      BY <2>4 DEF Read, WorkLeft
    <3>4. WorkLeft' < WorkLeft
      <4> DEFINE k == Len(stream)
                 m == Len(stream')
      <4>1. k \in Nat /\ n \in 1 .. k /\ m = k - n
        BY <2>1, <3>2
      <4>2. WorkLeft' = 3 * m + 3 /\ WorkLeft = 3 * k + 1
        BY <3>3
      <4> HIDE DEF k, m
      <4>3. QED BY <4>1, <4>2
    <3>5. peer' = peer
      BY <2>4 DEF Read
    <3>6. QED BY <3>4, <3>5
  <2>5. CASE ReadEnds
    <3>1. /\ CloseCommandConnection(STATUS_MANUAL_MODE_ENABLE)
          /\ STATUS_MANUAL_MODE_ENABLE \in {0, 1}
          /\ SMD_CONNECTED = 0 => STATUS_MANUAL_MODE_ENABLE = 0
      BY <1>1, <2>5 DEF ReadEnds, Inv, TypeOK, ModesNeedTheDrive
    <3>2. SMD_CONNECTED' = 0
      BY <1>1, <3>1, CloseReleases
    <3>3. WorkLeft' = 0 /\ peer' = "none"
      BY <2>5 DEF ReadEnds, WorkLeft
    <3>4. QED BY <2>3, <3>2, <3>3
  <2>6. CASE AcceptFails \/ ExecuteKills \/ ReplyKills
    <3>1. Die
      BY <2>6 DEF AcceptFails, ExecuteKills, ReplyKills
    <3>2. WorkLeft' = 0 /\ peer' = "none" /\ SMD_CONNECTED' = 0
      BY <3>1 DEF Die, WorkLeft
    <3>3. QED BY <2>3, <3>2
  <2>7. CASE Execute /\ ~ExecuteKills
    <3>1. pc = "execute" /\ pc' = "reply" /\ peer' = "left" /\ stream' = stream
      BY <1>1, <2>7, ExecuteReturns
    <3>2. WorkLeft' = 3 * Len(stream) + 2 /\ WorkLeft = 3 * Len(stream) + 3
      BY <3>1 DEF WorkLeft
    <3>3. WorkLeft' < WorkLeft
      BY <2>1, <3>2
    <3>4. QED BY <3>1, <3>3
  <2>8. CASE Reply
    <3>1. pc = "reply" /\ pc' = "read" /\ peer' = "left" /\ stream' = stream
      BY <2>8 DEF Reply, Tell
    <3>2. WorkLeft' = 3 * Len(stream) + 1 /\ WorkLeft = 3 * Len(stream) + 2
      BY <3>1 DEF WorkLeft
    <3>3. WorkLeft' < WorkLeft
      BY <2>1, <3>2
    <3>4. QED BY <3>1, <3>3
  <2>9. ~Accept /\ ~AcceptFails /\ ~Restart /\ ~Client
    BY <2>2 DEF Accept, AcceptFails, Restart, Client, ClientWrites, ClientLeaves,
       ClientVanishes, TransportGivesUp
  <2>10. QED
    BY <2>4, <2>5, <2>6, <2>7, <2>8, <2>9 DEF Next, Server
<1>2. Init => PeerAtWork
  BY DEF Init, PeerAtWork
<1>3. PeerAtWork /\ Inv /\ [Next]_vars => PeerAtWork'
  BY PeerAtWorkStep
<1>4. QED BY <1>1, <1>2, <1>3, InvHolds, PTL DEF Spec, GoneClientRunsOut

-----------------------------------------------------------------------------
(* Refinement: SessionServer implements SessionProtocol. *)

\* The order of a table row is one a ready session may give.
LEMMA TableIsMotion ==
    ASSUME NEW c \in DOMAIN MotorCommand
    PROVE  MotorCommand[c].order \in Protocol!MotionOrders \cup Protocol!StopOrders
BY DEF MotorCommand, Entry, Protocol!MotionOrders, Protocol!StopOrders

LEMMA AllowedIs ==
    /\ Protocol!Allowed["noDrive"] = {}
    /\ Protocol!Allowed["ready"] = Protocol!MotionOrders \cup Protocol!StopOrders
    /\ Protocol!Allowed["manual"] = Protocol!StopOrders
    /\ Protocol!Allowed["awaitMove"] = Protocol!UploadOrders
BY DEF Protocol!Allowed, Protocol!Modes

LEMMA SuccessorsAre ==
    /\ Protocol!Successors["noDrive"] = {"noDrive", "ready"}
    /\ Protocol!Successors["ready"] = {"ready", "noDrive", "manual"}
    /\ Protocol!Successors["manual"] = {"manual", "ready", "noDrive"}
    /\ Protocol!Successors["awaitMove"] = {"ready"}
BY DEF Protocol!Successors, Protocol!Modes

LEMMA InitRefines == Init => Protocol!Init
BY DEF Init, Protocol!Init, Mode

\* The mode a served request starts in, by the scenario that serves it.
LEMMA ModeServed ==
    ASSUME Inv, pc = "execute"
    PROVE  /\ NotConnected => Mode = "noDrive"
           /\ Standard => Mode = "ready"
           /\ Manual => Mode = "manual"
           /\ Awaiting => Mode = "awaitMove"
BY DEF Mode, NotConnected, Standard, Manual, Awaiting

\* A request may lead to any mode its scenario allows, if its orders are allowed.
LEMMA Served ==
    ASSUME Mode # "offline", orders' \subseteq Protocol!Allowed[Mode],
           Mode' \in Protocol!Successors[Mode]
    PROVE  Protocol!Next
BY DEF Protocol!Next, Protocol!Serve

LEMMA StepRefines ==
    ASSUME Inv, [Next]_vars
    PROVE  [Protocol!Next]_(Protocol!vars)
<1> USE DEF client, request, connection, status, move
<1>1. CASE Accept
  <2>1. Mode = "offline" /\ Mode' = "noDrive" /\ orders' = {}
    BY <1>1 DEF Accept, Mode, Inv, NoClientNoDrive, RequestState
  <2>2. QED BY <2>1 DEF Protocol!Next, Protocol!Admit
<1>2. CASE AcceptFails \/ ExecuteKills \/ ReplyKills
  <2>1. Mode' = "offline" /\ orders' = {}
    BY <1>2 DEF AcceptFails, ExecuteKills, ReplyKills, Die, Mode
  <2>2. QED BY <2>1 DEF Protocol!Next, Protocol!Dismiss
<1>3. CASE Restart \/ Client \/ UNCHANGED vars
  <2>1. Mode' = Mode /\ orders' = orders
    BY <1>3 DEF Restart, Client, ClientWrites, ClientLeaves, ClientVanishes,
       TransportGivesUp, vars, Mode
  <2>2. QED BY <2>1 DEF Protocol!vars
<1>4. CASE Read
  <2>1. Mode # "offline" /\ Mode' = Mode /\ orders' = {}
    BY <1>4 DEF Read, Mode
  <2>2. QED BY <2>1 DEF Protocol!Next, Protocol!Hear
<1>5. CASE ReadEnds
  <2>1. Mode' = "offline" /\ orders' = {}
    BY <1>5 DEF ReadEnds, Mode
  <2>2. QED BY <2>1 DEF Protocol!Next, Protocol!Dismiss
<1>6. CASE Connect
  <2>1. Mode = "noDrive" /\ orders' = {}
    BY <1>6, ModeServed DEF Connect, Inv, RequestState
  <2>2. Mode' \in {"noDrive", "ready"}
    BY <1>6 DEF Connect, OpenCommandConnection, NotConnected, Mode, Inv, ModesNeedTheDrive,
       TypeOK
  <2>3. QED BY <2>1, <2>2, AllowedIs, SuccessorsAre, Served
<1>7. CASE Reject
  <2>1. Mode' = Mode /\ orders' = orders
    BY <1>7 DEF Reject, Return, Mode
  <2>2. QED BY <2>1 DEF Protocol!vars
<1>8. CASE MoveMotor \/ RunAssembledMove \/ ReadRegisters \/ ProgramAssembledMove
  <2>1. /\ pc = "execute" /\ Mode' = Mode /\ SMD_CONNECTED = 1
        /\ Mode = "ready" \/ Mode = "manual"
    BY <1>8, ModeServed DEF MoveMotor, RunAssembledMove, ReadRegisters, ProgramAssembledMove,
       Return, Standard, Manual, Mode
  <2>2. CASE MoveMotor
    <3>1. Mode = "ready"
      BY <2>2, ModeServed DEF MoveMotor
    <3>2. orders = {}
      BY <2>1 DEF Inv, RequestState
    <3>3. orders' \subseteq Protocol!MotionOrders \cup Protocol!StopOrders
      <4>1. CASE orders' = orders
        BY <3>2, <4>1
      <4>2. CASE orders' # orders
        BY <2>2, <4>2, TableIsMotion DEF MoveMotor, Send
      <4>3. QED BY <4>1, <4>2
    <3>4. QED BY <2>1, <3>1, <3>3, AllowedIs, SuccessorsAre, Served
  <2>3. CASE RunAssembledMove \/ ProgramAssembledMove
    <3>1. Mode = "ready"
      BY <2>3, ModeServed DEF RunAssembledMove, ProgramAssembledMove
    <3>2. orders = {}
      BY <2>1 DEF Inv, RequestState
    <3>3. orders' \subseteq {"run_assembled_move", "program_first_block", "reset_errors"}
      BY <2>3, <3>2 DEF RunAssembledMove, ProgramAssembledMove, Send
    <3>4. orders' \subseteq Protocol!MotionOrders \cup Protocol!StopOrders
      BY <3>3 DEF Protocol!MotionOrders, Protocol!StopOrders
    <3>5. QED BY <2>1, <3>1, <3>4, AllowedIs, SuccessorsAre, Served
  <2>4. CASE ReadRegisters
    <3>1. orders' = {}
      BY <2>4 DEF ReadRegisters, Send
    <3>2. QED BY <2>1, <3>1, AllowedIs, SuccessorsAre, Served
  <2>5. QED BY <1>8, <2>2, <2>3, <2>4
<1>9. CASE Disconnect
  <2>1. /\ CloseCommandConnection(STATUS_MANUAL_MODE_ENABLE)
        /\ STATUS_MANUAL_MODE_ENABLE \in {0, 1}
        /\ SMD_CONNECTED = 0 => STATUS_MANUAL_MODE_ENABLE = 0
    BY <1>9 DEF Disconnect, Inv, TypeOK, ModesNeedTheDrive
  <2>2. SMD_CONNECTED' = 0 /\ pc' = "reply"
    BY <1>9, <2>1, CloseReleases DEF Disconnect, Return
  <2>3. Mode = "ready" /\ Mode' = "noDrive" /\ orders' = {}
    BY <1>9, <2>2, ModeServed DEF Disconnect, Mode, Inv, RequestState
  <2>4. QED BY <2>3, AllowedIs, SuccessorsAre, Served
<1>10. CASE StartManualMode
  <2>1. Mode = "ready" /\ Mode' = "manual" /\ orders' = {}
    BY <1>10, ModeServed DEF StartManualMode, Standard, Return, Mode, Inv, RequestState
  <2>2. QED BY <2>1, AllowedIs, SuccessorsAre, Served
<1>11. CASE StopManualMode
  <2>1. Mode = "manual" /\ orders' = {"immediate_stop"} /\ pc' = "reply"
    BY <1>11, ModeServed DEF StopManualMode, Return
  <2>2. Mode' \in {"noDrive", "ready"}
    <3>1. CASE CloseCommandConnection(0)
      BY <2>1, <3>1, CloseReleases DEF Mode
    <3>2. CASE ~CloseCommandConnection(0)
      BY <1>11, <2>1, <3>2 DEF StopManualMode, Manual, Mode
    <3>3. QED BY <3>1, <3>2
  <2>3. orders' \subseteq Protocol!Allowed["manual"]
    BY <2>1, AllowedIs DEF Protocol!StopOrders
  <2>4. QED BY <2>1, <2>2, <2>3, SuccessorsAre, Served
<1>12. CASE ManualResetErrors
  <2>1. Mode = "manual" /\ orders' = {"reset_errors"} /\ Mode' = Mode
    BY <1>12, ModeServed DEF ManualResetErrors, Send, Return, Manual, Mode
  <2>2. orders' \subseteq Protocol!Allowed["manual"]
    BY <2>1, AllowedIs DEF Protocol!StopOrders
  <2>3. QED BY <2>1, <2>2, SuccessorsAre, Served
<1>13. CASE UploadRefused \/ UploadMove
  <2>1. Mode = "awaitMove" /\ pc' = "reply" /\ SMD_CONNECTED' = 1
    BY <1>13, ModeServed DEF UploadRefused, UploadMove, Awaiting, Return
  <2>2. STATUS_WAITING_FOR_ASSEMBLED_MOVE' = 0 /\ STATUS_MANUAL_MODE_ENABLE' = 0
    BY <1>13 DEF UploadRefused, UploadMove, Awaiting, Inv, ModesNeedTheDrive, TypeOK
  <2>3. Mode' = "ready"
    BY <2>1, <2>2 DEF Mode
  <2>4. orders' \subseteq Protocol!UploadOrders
    BY <1>13 DEF UploadRefused, UploadMove, Send, Protocol!UploadOrders
  <2>5. QED BY <2>1, <2>3, <2>4, AllowedIs, SuccessorsAre, Served
<1>14. CASE Reply
  <2>1. CASE code = "READY_FOR_ASSEMBLED_MOVE"
    <3>1. Mode = "ready" /\ Mode' = "awaitMove" /\ orders' = orders
      BY <1>14, <2>1 DEF Reply, Inv, RequestState, Standard, Mode
    <3>2. QED BY <3>1 DEF Protocol!Next, Protocol!AskForMove
  <2>2. CASE code # "READY_FOR_ASSEMBLED_MOVE"
    <3>1. Mode' = Mode /\ orders' = orders
      BY <1>14, <2>2 DEF Reply, Mode
    <3>2. QED BY <3>1 DEF Protocol!vars
  <2>3. QED BY <2>1, <2>2
<1>15. QED
  BY <1>1, <1>2, <1>3, <1>4, <1>5, <1>6, <1>7, <1>8, <1>9, <1>10, <1>11, <1>12, <1>13, <1>14
     DEF Next, Server, Execute

(* Whatever the server does in a session, the abstract protocol allows: in  *)
(* particular no motion order is given in manual mode or between clients.   *)
THEOREM ServerImplementsProtocol == Spec => ImplementsProtocol
<1>1. Init => Protocol!Init
  BY InitRefines
<1>2. Inv /\ [Next]_vars => [Protocol!Next]_(Protocol!vars)
  BY StepRefines
<1>3. QED BY <1>1, <1>2, InvHolds, PTL DEF Spec, ImplementsProtocol, Protocol!Spec
=============================================================================
