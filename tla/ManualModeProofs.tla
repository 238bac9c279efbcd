-------------------------- MODULE ManualModeProofs --------------------------
(***************************************************************************)
(* What holds of manual mode for every set of controllers, directions and  *)
(* speeds.  The steps of send_modbus_command are those of ModbusSend: what *)
(* ModbusSendProofs has proved of them is used here, and only the steps    *)
(* that manual mode adds (a disconnection stops the motor, a stray         *)
(* controller fails to connect) are looked at anew.                        *)
(***************************************************************************)
EXTENDS ManualMode, TLAPS

MP == INSTANCE ModbusSendProofs WITH Args <- Speeds

-----------------------------------------------------------------------------
(* The calls of the two threads are calls of ModbusSend. *)

LEMMA CallsAreCommands ==
    \A s \in Senders : CallsOf[s] \subseteq Modbus!Commands
BY DEF Senders, CallsOf, Modbus!Commands

LEMMA AssumptionOfModbus == MP!ModbusAssumption
BY ManualAssumption, CallsAreCommands
   DEF ManualAssumption, MP!ModbusAssumption, Modbus!FaultKinds, MP!FaultKinds,
       Modbus!Commands, MP!Commands

(* Both instances of ModbusSend say the same. *)
LEMMA SameInvariant == Modbus!Inv <=> MP!Inv
BY DEF Modbus!Inv, MP!Inv, Modbus!TypeOK, MP!TypeOK, Modbus!CallState, MP!CallState,
       Modbus!FailedMeansUntouched, MP!FailedMeansUntouched, Modbus!OneMover, MP!OneMover,
       Modbus!At, MP!At, Modbus!Plan, MP!Plan, Modbus!Writes, MP!Writes,
       Modbus!FrameType, MP!FrameType, Modbus!Idle, MP!Idle, Modbus!Motions, MP!Motions,
       Modbus!CommandType, MP!CommandType, Modbus!Commands, MP!Commands,
       Modbus!Moves, MP!Moves, Modbus!Resent, MP!Resent, Modbus!NoCommand, MP!NoCommand

LEMMA SameSteps ==
    ASSUME NEW s, NEW cmd
    PROVE  /\ Modbus!Call(s, cmd) <=> MP!Call(s, cmd)
           /\ Modbus!Step(s) <=> MP!Step(s)
           /\ Modbus!Resume(s) <=> MP!Resume(s)
<1> USE DEF Modbus!At, MP!At, Modbus!Goto, MP!Goto
<1>1. Modbus!Call(s, cmd) <=> MP!Call(s, cmd)
  BY DEF Modbus!Call, MP!Call
<1>2. Modbus!Resume(s) <=> MP!Resume(s)
  BY DEF Modbus!Resume, MP!Resume, Modbus!Idle, MP!Idle, Modbus!NoCommand, MP!NoCommand
<1>3. /\ Modbus!CreateThread(s) <=> MP!CreateThread(s)
      /\ Modbus!CreateThreadFails(s) <=> MP!CreateThreadFails(s)
      /\ Modbus!Connect(s) <=> MP!Connect(s)
      /\ Modbus!ConnectFails(s) <=> MP!ConnectFails(s)
      /\ Modbus!Resend(s) <=> MP!Resend(s)
  BY DEF Modbus!CreateThread, MP!CreateThread, Modbus!CreateThreadFails, MP!CreateThreadFails,
         Modbus!Connect, MP!Connect, Modbus!ConnectFails, MP!ConnectFails,
         Modbus!Resend, MP!Resend, Modbus!Resent, MP!Resent
<1>4. Modbus!Plan(s) = MP!Plan(s)
  BY DEF Modbus!Plan, MP!Plan, Modbus!Writes, MP!Writes
<1>5. \A w, c : Modbus!Effect(w, c) = MP!Effect(w, c)
  BY DEF Modbus!Effect, MP!Effect, Modbus!Stopped, MP!Stopped
<1>6. /\ Modbus!WriteRegister(s) <=> MP!WriteRegister(s)
      /\ Modbus!Finish(s) <=> MP!Finish(s)
  BY <1>4, <1>5 DEF Modbus!WriteRegister, MP!WriteRegister, Modbus!Finish, MP!Finish
<1>7. QED BY <1>1, <1>2, <1>3, <1>6 DEF Modbus!Step, MP!Step

(* The invariant of ModbusSend survives its own steps, *)
LEMMA ModbusKeepsInv ==
    ASSUME Modbus!Inv, NEW s \in Senders,
           \/ Modbus!Step(s) \/ Modbus!Resume(s)
           \/ \E cmd \in Modbus!CommandType : cmd.name \in CallsOf[s] /\ Modbus!Call(s, cmd)
    PROVE  Modbus!Inv'
<1>1. Modbus!CommandType = MP!CommandType
  BY DEF Modbus!CommandType, MP!CommandType, Modbus!Commands, MP!Commands,
         Modbus!Moves, MP!Moves
<1>2. MP!Next
  BY <1>1, SameSteps DEF MP!Next
<1>3. MP!Inv
  BY SameInvariant
<1>4. MP!Inv'
  BY <1>2, <1>3, AssumptionOfModbus, MP!TypeStep, MP!CallStateStep, MP!FailedStep DEF MP!Inv
<1>5. (Modbus!Inv <=> MP!Inv)'
  BY SameInvariant, PTL
<1>6. QED BY <1>4, <1>5

(* a disconnection, which stops the motor and leaves the registers alone and *)
(* which may follow the return of a call at once,                            *)
LEMMA StopKeepsInv ==
    ASSUME Modbus!Inv, NEW s \in Senders,
           UNCHANGED frame \/ Modbus!Goto(s, Modbus!Idle),
           drive' = [drive EXCEPT !.motion = Modbus!Stopped]
    PROVE  Modbus!Inv'
<1> USE DEF Modbus!Inv
<1>1. /\ drive'.speed = drive.speed /\ drive'.ramp = drive.ramp
      /\ drive' \in [speed : Speeds \cup {"none"}, ramp : Speeds \cup {"none"},
                     motion : Modbus!Motions]
  BY DEF Modbus!TypeOK, Modbus!Motions, Modbus!Stopped
<1>2. /\ frame' \in [Senders -> Modbus!FrameType]
      /\ \A u \in Senders : frame'[u] = frame[u] \/ frame'[u] = Modbus!Idle
  <2>1. Modbus!Idle \in Modbus!FrameType
    BY ManualAssumption DEF ManualAssumption, Modbus!Idle, Modbus!FrameType
  <2>2. QED BY <2>1 DEF Modbus!TypeOK, Modbus!Goto
<1>3. Modbus!Idle.pc = "idle" /\ Modbus!Idle.retries = 0
  BY DEF Modbus!Idle
<1>4. Modbus!TypeOK'
  BY <1>1, <1>2, <1>3 DEF Modbus!TypeOK, Modbus!At, Modbus!Plan
<1>5. Modbus!CallState'
  BY <1>1, <1>2, <1>3 DEF Modbus!CallState, Modbus!At, Modbus!Plan
<1>6. Modbus!FailedMeansUntouched'
  BY <1>2, <1>3 DEF Modbus!FailedMeansUntouched, Modbus!At
<1>7. QED BY <1>4, <1>5, <1>6

(* and a failure to connect, before which nothing was written. *)
LEMMA StrayKeepsInv ==
    ASSUME Modbus!Inv, NEW c \in Controllers, StrayConnectFails(c)
    PROVE  Modbus!Inv'
<1> DEFINE f == [frame[c] EXCEPT !.pc = "returned", !.result = "FAILED"]
<1> USE DEF Modbus!Inv
<1>1. c \in Senders
  BY DEF Senders
<1>2. /\ frame[c] \in Modbus!FrameType /\ frame[c].pc = "connect"
      /\ frame[c].cmd \in Modbus!CommandType
      /\ frame[c].next <= Len(Modbus!Plan(c)) + 1 /\ frame[c].taken < frame[c].next
      /\ frame[c].taken = 0
      /\ frame[c].cmd.name \in CallsOf[c]
      /\ frame[c].retries > 0 => frame[c].cmd.name \in Modbus!Resent
  BY <1>1 DEF StrayConnectFails, Modbus!At, Modbus!TypeOK, Modbus!CallState
<1>3. /\ f \in Modbus!FrameType /\ f.pc = "returned" /\ f.cmd = frame[c].cmd
      /\ f.next = frame[c].next /\ f.taken = frame[c].taken /\ f.retries = frame[c].retries
  BY <1>2 DEF Modbus!FrameType
<1>4. frame' = [frame EXCEPT ![c] = f] /\ UNCHANGED drive
  BY DEF StrayConnectFails, Modbus!Goto
<1> HIDE DEF f
<1>5. frame'[c] = f /\ \A u \in Senders \ {c} : frame'[u] = frame[u]
  BY <1>1, <1>4 DEF Modbus!TypeOK
<1>6. Modbus!TypeOK'
  BY <1>1, <1>2, <1>3, <1>4, <1>5 DEF Modbus!TypeOK, Modbus!At, Modbus!Plan
<1>7. Modbus!CallState'
  BY <1>1, <1>2, <1>3, <1>4, <1>5 DEF Modbus!CallState, Modbus!At, Modbus!Plan
<1>8. Modbus!FailedMeansUntouched'
  BY <1>1, <1>2, <1>3, <1>5 DEF Modbus!FailedMeansUntouched, Modbus!At
<1>9. QED BY <1>6, <1>7, <1>8

(* What the caller sees of its call. *)
LEMMA CallFrame ==
    ASSUME Modbus!Inv, NEW s \in Senders, NEW cmd, Modbus!Call(s, cmd)
    PROVE  /\ UNCHANGED drive
           /\ frame[s].pc = "idle"
           /\ frame'[s].pc = "create" /\ frame'[s].cmd = cmd /\ frame'[s].retries = 0
           /\ \A u \in Senders \ {s} : frame'[u] = frame[u]
<1> DEFINE f == [frame[s] EXCEPT !.pc = "create", !.cmd = cmd]
<1>1. frame[s] = Modbus!Idle
  BY DEF Modbus!Call, Modbus!Inv, Modbus!TypeOK
<1>2. f.pc = "create" /\ f.cmd = cmd /\ f.retries = 0 /\ frame[s].pc = "idle"
  BY <1>1 DEF Modbus!Idle
<1>3. frame' = [frame EXCEPT ![s] = f] /\ UNCHANGED drive
  BY DEF Modbus!Call, Modbus!Goto
<1> HIDE DEF f
<1>4. QED BY <1>2, <1>3 DEF Modbus!Inv, Modbus!TypeOK

LEMMA ResumeFrame ==
    ASSUME Modbus!Inv, NEW s \in Senders, Modbus!Goto(s, Modbus!Idle)
    PROVE  /\ frame'[s].pc = "idle" /\ frame'[s].cmd.name = "none"
           /\ frame'[s].retries = 0
           /\ \A u \in Senders \ {s} : frame'[u] = frame[u]
BY DEF Modbus!Goto, Modbus!Idle, Modbus!NoCommand, Modbus!Inv, Modbus!TypeOK

(* A call in progress stays in progress and is about the same command. *)
LEMMA StepFrame ==
    ASSUME Modbus!Inv, NEW s \in Senders, Modbus!Step(s)
    PROVE  /\ frame[s].pc # "idle" /\ frame'[s].pc # "idle"
           /\ frame'[s].cmd = frame[s].cmd
           /\ \A u \in Senders \ {s} : frame'[u] = frame[u]
<1> USE DEF Modbus!Inv
<1>1. /\ frame[s] \in Modbus!FrameType /\ frame[s].pc # "idle"
  BY DEF Modbus!TypeOK, Modbus!At, Modbus!Step, Modbus!CreateThread,
         Modbus!CreateThreadFails, Modbus!Connect, Modbus!ConnectFails, Modbus!Resend,
         Modbus!WriteRegister, Modbus!Finish
<1>2. SUFFICES \E f : Modbus!Goto(s, f) /\ f.pc # "idle" /\ f.cmd = frame[s].cmd
  BY <1>1 DEF Modbus!Goto, Modbus!TypeOK
<1> DEFINE create == [frame[s] EXCEPT !.pc = "create", !.retries = @ + 1]
           connect == [frame[s] EXCEPT !.pc = "connect"]
           write == [frame[s] EXCEPT !.pc = "write", !.next = 1]
           written == [frame[s] EXCEPT !.next = @ + 1, !.taken = @ + 1]
           lost == [frame[s] EXCEPT !.next = @ + 1]
           returned(r) == [frame[s] EXCEPT !.pc = "returned", !.result = r]
<1>3. /\ create.pc # "idle" /\ create.cmd = frame[s].cmd
      /\ connect.pc # "idle" /\ connect.cmd = frame[s].cmd
      /\ write.pc # "idle" /\ write.cmd = frame[s].cmd
      /\ written.pc # "idle" /\ written.cmd = frame[s].cmd
      /\ lost.pc # "idle" /\ lost.cmd = frame[s].cmd
      /\ \A r : returned(r).pc # "idle" /\ returned(r).cmd = frame[s].cmd
  BY <1>1 DEF Modbus!FrameType
<1>4. \/ Modbus!Goto(s, create) \/ Modbus!Goto(s, connect) \/ Modbus!Goto(s, write)
      \/ Modbus!Goto(s, written) \/ Modbus!Goto(s, lost)
      \/ \E r : Modbus!Goto(s, returned(r))
  BY DEF Modbus!Step, Modbus!CreateThread,
         Modbus!CreateThreadFails, Modbus!Connect, Modbus!ConnectFails, Modbus!Resend,
         Modbus!WriteRegister, Modbus!Finish
<1> HIDE DEF create, connect, write, written, lost, returned
<1>5. QED BY <1>3, <1>4

LEMMA StrayFrame ==
    ASSUME Modbus!Inv, NEW c \in Controllers, StrayConnectFails(c)
    PROVE  /\ frame[c].pc = "connect" /\ frame'[c].pc = "returned"
           /\ frame'[c].cmd = frame[c].cmd /\ frame'[c].retries = frame[c].retries
           /\ \A u \in Senders \ {c} : frame'[u] = frame[u]
<1> DEFINE f == [frame[c] EXCEPT !.pc = "returned", !.result = "FAILED"]
<1>1. c \in Senders /\ frame[c] \in Modbus!FrameType /\ frame[c].pc = "connect"
  BY DEF Senders, Modbus!Inv, Modbus!TypeOK, StrayConnectFails, Modbus!At
<1>2. f.pc = "returned" /\ f.cmd = frame[c].cmd /\ f.retries = frame[c].retries
  BY <1>1 DEF Modbus!FrameType
<1>3. frame' = [frame EXCEPT ![c] = f]
  BY DEF StrayConnectFails, Modbus!Goto
<1> HIDE DEF f
<1>4. QED BY <1>1, <1>2, <1>3 DEF Modbus!Inv, Modbus!TypeOK

(* The commands the two threads send are well formed. *)
LEMMA CommandsFit ==
    /\ \A n \in {"immediate_stop", "reset_errors"} :
           /\ Plain(n) \in Modbus!CommandType /\ Plain(n).name = n
           /\ n \in CallsOf["main"] /\ n \notin Modbus!Moves
    /\ \A s \in Senders :
           /\ Plain("hold_move") \in Modbus!CommandType
           /\ Plain("hold_move").name \in CallsOf[s]
           /\ \A d \in Directions, v \in Speeds :
                  Jog(d, v) \in Modbus!CommandType /\ Jog(d, v).name \in CallsOf[s]
BY DEF Plain, Jog, Modbus!Command, Modbus!CommandType, Modbus!Commands, Modbus!Moves,
       CallsOf, Senders

-----------------------------------------------------------------------------
(* Types, and the agreement of a controller with the call it waits for. *)

Typed == Modbus!Inv /\ TypeOK /\ \A c \in Controllers : CallFits(c)

LEMMA InitTyped == Init => Typed
<1> SUFFICES ASSUME Init PROVE Typed
  OBVIOUS
<1>1. MP!Init
  BY DEF Init, Modbus!Init, MP!Init, Modbus!Idle, MP!Idle, Modbus!NoCommand, MP!NoCommand,
         Modbus!Stopped, MP!Stopped
<1>2. Modbus!Inv
  BY <1>1, AssumptionOfModbus, MP!InitInv, SameInvariant
<1>3. Modbus!Idle.pc = "idle"
  BY DEF Modbus!Idle
<1>4. TypeOK /\ \A c \in Controllers : CallFits(c)
  BY <1>2, <1>3 DEF Init, TypeOK, CallFits, Absent, Calling, Modbus!Inv, Modbus!Init,
         Modbus!At, Senders
<1>5. QED BY <1>2, <1>4 DEF Typed

ModbusQuiet == UNCHANGED <<frame, drive>>

LEMMA QuietKeepsInv == Modbus!Inv /\ ModbusQuiet => Modbus!Inv'
BY DEF ModbusQuiet, Modbus!Inv, Modbus!TypeOK, Modbus!CallState, Modbus!FailedMeansUntouched,
       Modbus!At, Modbus!Plan

(* The main thread's actions do not concern the controllers' calls. *)
LEMMA MainKeepsTypes == Typed /\ Main => Typed'
<1> SUFFICES ASSUME Typed, Main PROVE Typed'
  OBVIOUS
<1> USE DEF Typed
<1>m. "main" \in Senders /\ \A c \in Controllers : c \in Senders \ {"main"}
  BY ManualAssumption DEF ManualAssumption, Senders
<1>1. CASE Connect \/ StartManualMode \/ CreateController
  <2>1. Modbus!Inv'
    BY <1>1, QuietKeepsInv DEF ModbusQuiet, Connect, StartManualMode, CreateController
  <2>2. CASE Connect \/ StartManualMode
    BY <2>1, <2>2 DEF Connect, StartManualMode, TypeOK, CallFits, Modbus!At, Modbus!Inv
  <2>3. CASE CreateController
    <3>1. /\ UNCHANGED <<frame, drive, SMD_CONNECTED, STATUS_MANUAL_MODE_ENABLE, file>>
          /\ serving = "startManualMode" /\ serving' = "none"
          /\ \/ \E c \in Controllers : ctl[c] = Absent /\ ctl' = [ctl EXCEPT ![c] = Fresh]
             \/ UNCHANGED ctl
      BY <2>3 DEF CreateController
    <3>2. Fresh.pc = "loop" /\ Absent.pc = "none"
      BY DEF Fresh, Absent
    <3>3. TypeOK'
      BY <2>1, <3>1, <3>2 DEF TypeOK, Modbus!At, Modbus!Inv, Calling, Fresh
    <3>4. \A c \in Controllers : CallFits(c)'
      BY <3>1, <3>2 DEF TypeOK, CallFits
    <3>5. QED BY <2>1, <3>3, <3>4
  <2>4. QED BY <1>1, <2>2, <2>3
<1>2. CASE Disconnect
  <2>1. /\ SMD_CONNECTED' = 0 /\ STATUS_MANUAL_MODE_ENABLE' = 0
        /\ drive' = [drive EXCEPT !.motion = Modbus!Stopped]
        /\ UNCHANGED <<frame, serving, ctl, file>>
    BY <1>2 DEF Disconnect, CloseCommandConnection
  <2>2. Modbus!Inv'
    BY <1>m, <2>1, StopKeepsInv
  <2>3. QED BY <2>1, <2>2 DEF TypeOK, CallFits, Modbus!At, Modbus!Inv
<1>3. CASE StopManualMode \/ ManualResetErrors \/ ClientCommand
  <2>1. /\ UNCHANGED <<SMD_CONNECTED, ctl, file>>
        /\ STATUS_MANUAL_MODE_ENABLE' \in {0, STATUS_MANUAL_MODE_ENABLE}
        /\ serving' \in {"stopManualMode", "resetErrors", "command"}
        /\ \E cmd \in Modbus!CommandType :
               cmd.name \in CallsOf["main"] /\ Modbus!Call("main", cmd)
    BY <1>3, <1>m, CommandsFit DEF StopManualMode, ManualResetErrors, ClientCommand
  <2>2. Modbus!Inv'
    BY <1>m, <2>1, ModbusKeepsInv
  <2>3. /\ frame'["main"].pc = "create"
        /\ \A c \in Controllers : frame'[c] = frame[c]
    BY <1>m, <2>1, CallFrame
  <2>4. QED BY <2>1, <2>2, <2>3 DEF TypeOK, CallFits, Modbus!At, Modbus!Inv
<1>4. CASE MainResumes
  <2>1. /\ UNCHANGED <<ctl, file>> /\ serving' = "none"
        /\ Modbus!Goto("main", Modbus!Idle) /\ Modbus!At("main", "returned")
        /\ \/ UNCHANGED <<drive, SMD_CONNECTED, STATUS_MANUAL_MODE_ENABLE>>
           \/ /\ SMD_CONNECTED' = 0 /\ STATUS_MANUAL_MODE_ENABLE' = 0
              /\ drive' = [drive EXCEPT !.motion = Modbus!Stopped]
    BY <1>4 DEF MainResumes, CloseCommandConnection
  <2>2. Modbus!Inv'
    <3>1. CASE UNCHANGED drive
      BY <1>m, <2>1, <3>1, ModbusKeepsInv DEF Modbus!Resume
    <3>2. CASE drive' = [drive EXCEPT !.motion = Modbus!Stopped]
      BY <1>m, <2>1, <3>2, StopKeepsInv
    <3>3. QED BY <2>1, <3>1, <3>2
  <2>3. frame'["main"].pc = "idle" /\ \A c \in Controllers : frame'[c] = frame[c]
    BY <1>m, <2>1, ResumeFrame
  <2>4. QED BY <2>1, <2>2, <2>3 DEF TypeOK, CallFits, Modbus!At, Modbus!Inv
<1>5. QED BY <1>1, <1>2, <1>3, <1>4 DEF Main

CtlType == [pc : {"none", "loop", "read", "settle"} \cup Calling,
            dir : Directions \cup {"none"},
            speed : Speeds \cup {"zero"}]

(* An action of one controller that keeps in step with its frame. *)
LEMMA ControllerKeeps ==
    ASSUME Typed, NEW c \in Controllers, NEW r \in CtlType, Modbus!Inv',
           ctl' = [ctl EXCEPT ![c] = r], UNCHANGED shared,
           \A u \in Senders \ {c} : frame'[u] = frame[u],
           r.pc \in Calling <=> frame'[c].pc # "idle",
           r.pc \in {"first", "jog"} => frame'[c].cmd = Jog(r.dir, r.speed),
           r.pc \in {"zero", "turn"} => frame'[c].cmd = Plain("hold_move"),
           r.pc \in {"turn", "settle"} => r.dir \in Directions /\ r.speed \in Speeds
    PROVE  Typed'
<1> USE DEF Typed
<1>1. c \in Senders /\ "main" \in Senders \ {c}
      /\ \A b \in Controllers \ {c} : b \in Senders \ {c}
  BY ManualAssumption DEF ManualAssumption, Senders
<1>2. ctl \in [Controllers -> CtlType]
  BY DEF TypeOK, CtlType
<1>3. /\ ctl' \in [Controllers -> CtlType] /\ ctl'[c] = r
      /\ \A b \in Controllers \ {c} : ctl'[b] = ctl[b]
  BY <1>2
<1>4. frame'["main"] = frame["main"] /\ \A b \in Controllers \ {c} : frame'[b] = frame[b]
  BY <1>1
<1>5. \A b \in Controllers : ctl'[b].pc \in Calling <=> frame'[b].pc # "idle"
  BY <1>3, <1>4 DEF TypeOK, Modbus!At
<1>6. TypeOK'
  BY <1>3, <1>4, <1>5 DEF TypeOK, CtlType, shared, Modbus!At, Modbus!Inv
<1>7. ASSUME NEW b \in Controllers PROVE CallFits(b)'
  BY <1>3, <1>4 DEF CallFits
<1>8. QED BY <1>6, <1>7

LEMMA ControllerKeepsTypes ==
    ASSUME Typed, NEW c \in Controllers, Controller(c)
    PROVE  Typed'
<1> USE DEF Typed
<1>1. /\ c \in Senders /\ UNCHANGED shared
      /\ ctl \in [Controllers -> CtlType] /\ ctl[c] \in CtlType
      /\ file \in Values \cup {NoValue}
  BY DEF Senders, TypeOK, CtlType, Controller, Loop, ReadNothing, FirstValue, ZeroValue,
         ChangedValue, ControllerResumes, Settle, shared
<1>2. ASSUME NEW pc \in {"none", "loop", "read"}, NEW d \in Directions \cup {"none"},
             NEW v \in Speeds \cup {"zero"}, ctl[c].pc \notin Calling, UNCHANGED <<frame, drive>>,
             ctl' = [ctl EXCEPT ![c] = [pc |-> pc, dir |-> d, speed |-> v]]
      PROVE  Typed'
  <2> DEFINE r == [pc |-> pc, dir |-> d, speed |-> v]
  <2>1. /\ r \in CtlType /\ r.pc = pc /\ pc \notin Calling \cup {"settle"}
        /\ ctl' = [ctl EXCEPT ![c] = r]
    BY <1>2 DEF CtlType, Calling
  <2>2. Modbus!Inv'
    BY <1>2, QuietKeepsInv DEF ModbusQuiet
  <2>3. frame'[c].pc = "idle"
    BY <1>2 DEF TypeOK, Modbus!At
  <2> HIDE DEF r
  <2>4. QED BY <1>1, <1>2, <2>1, <2>2, <2>3, ControllerKeeps DEF Calling
<1>3. ASSUME NEW pc \in Calling, NEW d \in Directions, NEW v \in Speeds \cup {"zero"},
             NEW cmd \in Modbus!CommandType, Modbus!Call(c, cmd), cmd.name \in CallsOf[c],
             ctl' = [ctl EXCEPT ![c] = [pc |-> pc, dir |-> d, speed |-> v]],
             IF pc \in {"first", "jog"} THEN cmd = Jog(d, v) ELSE cmd = Plain("hold_move"),
             pc = "turn" => v \in Speeds
      PROVE  Typed'
  <2> DEFINE r == [pc |-> pc, dir |-> d, speed |-> v]
  <2>1. /\ r \in CtlType /\ r.pc = pc /\ r.dir = d /\ r.speed = v
        /\ ctl' = [ctl EXCEPT ![c] = r]
    BY <1>3 DEF CtlType, Calling
  <2>2. Modbus!Inv'
    BY <1>1, <1>3, ModbusKeepsInv
  <2>3. /\ frame'[c].pc = "create" /\ frame'[c].cmd = cmd
        /\ \A u \in Senders \ {c} : frame'[u] = frame[u]
    BY <1>1, <1>3, CallFrame
  <2> HIDE DEF r
  <2>4. QED BY <1>1, <1>3, <2>1, <2>2, <2>3, ControllerKeeps DEF Calling
<1>4. \A x : /\ [ctl[c] EXCEPT !.pc = x] = [pc |-> x, dir |-> ctl[c].dir, speed |-> ctl[c].speed]
             /\ ctl[c].dir \in Directions \cup {"none"} /\ ctl[c].speed \in Speeds \cup {"zero"}
  BY <1>1 DEF CtlType
<1>5. file # NoValue \/ file.pot \in Speeds \/ file.pot = "zero"
         => file.dir \in Directions /\ file.pot \in Speeds \cup {"zero"}
  BY <1>1, ManualAssumption DEF Values, NoValue, ManualAssumption
<1>6. CASE Loop(c)
  <2>1. ctl' = [ctl EXCEPT ![c] = Absent] \/ ctl' = [ctl EXCEPT ![c] = [ctl[c] EXCEPT !.pc = "read"]]
    BY <1>1, <1>6 DEF Loop
  <2>2. ctl[c].pc \notin Calling /\ UNCHANGED <<frame, drive>>
    BY <1>6 DEF Loop, Calling
  <2>3. \/ ctl' = [ctl EXCEPT ![c] = Absent]
        \/ ctl' = [ctl EXCEPT ![c] = [pc |-> "read", dir |-> ctl[c].dir, speed |-> ctl[c].speed]]
    BY <1>4, <2>1
  <2>4. QED BY <1>2, <1>4, <2>2, <2>3 DEF Absent
<1>7. CASE ReadNothing(c)
  <2>1. ctl' = [ctl EXCEPT ![c] = [ctl[c] EXCEPT !.pc = "loop"]]
    BY <1>1, <1>7 DEF ReadNothing
  <2>2. ctl[c].pc \notin Calling /\ UNCHANGED <<frame, drive>>
    BY <1>7 DEF ReadNothing, Calling
  <2>3. QED BY <1>2, <1>4, <2>1, <2>2
<1>8. CASE FirstValue(c)
  <2>1. CASE file.pot = "zero"
    BY <1>2, <1>5, <1>8, <2>1 DEF FirstValue, Becomes, Calling
  <2>2. CASE file.pot # "zero"
    <3>1. file.dir \in Directions /\ file.pot \in Speeds
      BY <1>5, <1>8, <2>2 DEF FirstValue
    <3>2. /\ ctl' = [ctl EXCEPT ![c] = [pc |-> "first", dir |-> file.dir, speed |-> file.pot]]
          /\ Modbus!Call(c, Jog(file.dir, file.pot))
      BY <1>8, <2>2 DEF FirstValue, Becomes
    <3>3. QED BY <1>1, <1>3, <3>1, <3>2, CommandsFit DEF Calling
  <2>3. QED BY <2>1, <2>2
<1>9. CASE ZeroValue(c)
  <2>1. CASE ctl[c].speed = "zero"
    BY <1>2, <1>5, <1>9, <2>1 DEF ZeroValue, Becomes, Calling
  <2>2. CASE ctl[c].speed # "zero"
    <3>1. /\ ctl' = [ctl EXCEPT ![c] = [pc |-> "zero", dir |-> file.dir, speed |-> "zero"]]
          /\ Modbus!Call(c, Plain("hold_move")) /\ file.dir \in Directions
      BY <1>5, <1>9, <2>2 DEF ZeroValue, Becomes
    <3>2. QED BY <1>1, <1>3, <3>1, CommandsFit DEF Calling
  <2>3. QED BY <2>1, <2>2
<1>10. CASE ChangedValue(c)
  <2>1. /\ file.dir \in Directions /\ file.pot \in Speeds
        /\ ctl[c].pc = "read"
    BY <1>5, <1>10 DEF ChangedValue
  <2>2. CASE file = [dir |-> ctl[c].dir, pot |-> ctl[c].speed]
    <3>1. /\ UNCHANGED <<frame, drive>>
          /\ ctl' = [ctl EXCEPT ![c] = [pc |-> "loop", dir |-> ctl[c].dir, speed |-> ctl[c].speed]]
      BY <1>10, <2>2 DEF ChangedValue, Becomes
    <3>2. QED BY <1>2, <1>4, <2>1, <3>1 DEF Calling
  <2>3. CASE file # [dir |-> ctl[c].dir, pot |-> ctl[c].speed] /\ file.dir # ctl[c].dir
    <3>1. /\ Modbus!Call(c, Plain("hold_move"))
          /\ ctl' = [ctl EXCEPT ![c] = [pc |-> "turn", dir |-> file.dir, speed |-> file.pot]]
      BY <1>10, <2>3 DEF ChangedValue, Becomes
    <3>2. QED BY <1>1, <1>3, <2>1, <3>1, CommandsFit DEF Calling
  <2>4. CASE file # [dir |-> ctl[c].dir, pot |-> ctl[c].speed] /\ file.dir = ctl[c].dir
    <3>1. /\ Modbus!Call(c, Jog(file.dir, file.pot))
          /\ ctl' = [ctl EXCEPT ![c] = [pc |-> "jog", dir |-> file.dir, speed |-> file.pot]]
      BY <1>10, <2>4 DEF ChangedValue, Becomes
    <3>2. QED BY <1>1, <1>3, <2>1, <3>1, CommandsFit DEF Calling
  <2>5. QED BY <2>2, <2>3, <2>4
<1>11. CASE ControllerResumes(c)
  <2> DEFINE x == IF ctl[c].pc = "turn" THEN "settle" ELSE "loop"
             r == [pc |-> x, dir |-> ctl[c].dir, speed |-> ctl[c].speed]
  <2>1. ctl' = [ctl EXCEPT ![c] = [ctl[c] EXCEPT !.pc = x]] /\ Modbus!Resume(c)
    BY <1>1, <1>11 DEF ControllerResumes
  <2>2. Modbus!Inv'
    BY <1>1, <2>1, ModbusKeepsInv
  <2>3. frame'[c].pc = "idle" /\ \A u \in Senders \ {c} : frame'[u] = frame[u]
    BY <1>1, <2>1, ResumeFrame DEF Modbus!Resume
  <2>4. /\ r \in CtlType /\ r.pc = x /\ x \in {"settle", "loop"}
        /\ r.dir = ctl[c].dir /\ r.speed = ctl[c].speed
        /\ x = "settle" => ctl[c].pc = "turn"
        /\ ctl' = [ctl EXCEPT ![c] = r]
    BY <1>1, <1>4, <2>1 DEF CtlType
  <2> HIDE DEF r, x
  <2>5. x = "settle" => r.dir \in Directions /\ r.speed \in Speeds
    BY <2>4 DEF CallFits
  <2>6. QED BY <1>1, <2>2, <2>3, <2>4, <2>5, ControllerKeeps DEF Calling
<1>12. CASE Settle(c)
  <2>1. /\ ctl' = [ctl EXCEPT ![c] = [ctl[c] EXCEPT !.pc = "jog"]]
        /\ Modbus!Call(c, Jog(ctl[c].dir, ctl[c].speed))
        /\ ctl[c].pc = "settle"
    BY <1>1, <1>12 DEF Settle
  <2>2. ctl[c].dir \in Directions /\ ctl[c].speed \in Speeds
    BY <2>1 DEF CallFits
  <2>3. ctl' = [ctl EXCEPT ![c] = [pc |-> "jog", dir |-> ctl[c].dir, speed |-> ctl[c].speed]]
    BY <1>4, <2>1
  <2>4. QED BY <1>1, <1>3, <2>1, <2>2, <2>3, CommandsFit DEF Calling
<1>13. QED BY <1>6, <1>7, <1>8, <1>9, <1>10, <1>11, <1>12 DEF Controller

(* The types hold for any faults and any client. *)
LEMMA TypedStep == Typed /\ [Next]_vars => Typed'
<1> SUFFICES ASSUME Typed, [Next]_vars PROVE Typed'
  OBVIOUS
<1> USE DEF Typed
<1>1. CASE Main
  BY <1>1, MainKeepsTypes
<1>2. ASSUME NEW c \in Controllers, Controller(c) PROVE Typed'
  BY <1>2, ControllerKeepsTypes
<1>3. ASSUME NEW s \in Senders, MotorCall(s) PROVE Typed'
  <2>1. Modbus!Inv'
    BY <1>3, ModbusKeepsInv DEF MotorCall
  <2>2. /\ frame[s].pc # "idle" /\ frame'[s].pc # "idle" /\ frame'[s].cmd = frame[s].cmd
        /\ \A u \in Senders \ {s} : frame'[u] = frame[u]
    BY <1>3, StepFrame DEF MotorCall
  <2>3. \A u \in Senders : /\ frame'[u].cmd = frame[u].cmd
                           /\ frame'[u].pc = "idle" <=> frame[u].pc = "idle"
    BY <2>2
  <2>4. "main" \in Senders /\ \A c \in Controllers : c \in Senders
    BY DEF Senders
  <2>5. UNCHANGED <<shared, ctl>>
    BY <1>3 DEF MotorCall
  <2>6. TypeOK'
    BY <2>1, <2>3, <2>4, <2>5 DEF TypeOK, Modbus!At, Modbus!Inv, shared
  <2>7. \A c \in Controllers : CallFits(c)'
    BY <2>3, <2>4, <2>5 DEF CallFits
  <2>8. QED BY <2>1, <2>6, <2>7
<1>4. ASSUME NEW s \in Controllers, StrayConnectFails(s) PROVE Typed'
  <2>1. Modbus!Inv'
    BY <1>4, StrayKeepsInv
  <2>2. /\ frame[s].pc # "idle" /\ frame'[s].pc # "idle" /\ frame'[s].cmd = frame[s].cmd
        /\ \A u \in Senders \ {s} : frame'[u] = frame[u]
    BY <1>4, StrayFrame
  <2>3. \A u \in Senders : /\ frame'[u].cmd = frame[u].cmd
                           /\ frame'[u].pc = "idle" <=> frame[u].pc = "idle"
    BY <2>2
  <2>4. "main" \in Senders /\ \A c \in Controllers : c \in Senders
    BY DEF Senders
  <2>5. UNCHANGED <<shared, ctl>>
    BY <1>4 DEF StrayConnectFails
  <2>6. TypeOK'
    BY <2>1, <2>3, <2>4, <2>5 DEF TypeOK, Modbus!At, Modbus!Inv, shared
  <2>7. \A c \in Controllers : CallFits(c)'
    BY <2>3, <2>4, <2>5 DEF CallFits
  <2>8. QED BY <2>1, <2>6, <2>7
<1>5. CASE FileChanges
  <2>1. Modbus!Inv'
    BY <1>5, QuietKeepsInv DEF FileChanges, ModbusQuiet
  <2>2. QED BY <1>5, <2>1 DEF FileChanges, TypeOK, CallFits, Modbus!At, Modbus!Inv
<1>6. CASE UNCHANGED vars
  <2>1. Modbus!Inv'
    BY <1>6, QuietKeepsInv DEF vars, ModbusQuiet
  <2>2. QED BY <1>6, <2>1 DEF vars, TypeOK, CallFits, Modbus!At, Modbus!Inv
<1>7. QED BY <1>1, <1>2, <1>3, <1>4, <1>5, <1>6 DEF Next

LEMMA TypedHolds == Spec => []Typed
BY InitTyped, TypedStep, PTL DEF Spec

(* Variables have their types and a controller is in a call exactly when its *)
(* program counter says so, for any faults and any client.                   *)
THEOREM TypeCorrect == Spec => []TypeOK
BY TypedHolds, PTL DEF Typed

(* The calls keep the discipline of send_modbus_command although manual mode *)
(* adds disconnections and stray failures: a controller's jog that failed    *)
(* has not touched the drive.                                                *)
THEOREM CallsStayOrderly == Spec => []Modbus!Inv
BY TypedHolds, PTL DEF Typed

-----------------------------------------------------------------------------
(* A patient client and no faults: the controller knows the motion. *)

(* Without faults a call goes through its points in order, and each write    *)
(* reaches the drive.                                                        *)
LEMMA FaultlessStep ==
    ASSUME Modbus!Inv, NEW s \in Senders, Modbus!Step(s), Faults = {}, frame[s].retries = 0
    PROVE  /\ frame'[s].retries = 0
           /\ \/ /\ frame[s].pc = "create" /\ frame'[s].pc = "connect"
                 /\ UNCHANGED drive
              \/ /\ frame[s].pc = "connect" /\ frame'[s].pc = "write"
                 /\ frame'[s].next = 1 /\ UNCHANGED drive
              \/ /\ frame[s].pc = "write" /\ frame'[s].pc = "write"
                 /\ frame[s].next \in DOMAIN Modbus!Plan(s)
                 /\ frame'[s].next = frame[s].next + 1
                 /\ drive' = Modbus!Effect(Modbus!Plan(s)[frame[s].next], frame[s].cmd)
              \/ /\ frame[s].pc = "write" /\ frame'[s].pc = "returned"
                 /\ frame[s].next \notin DOMAIN Modbus!Plan(s) /\ UNCHANGED drive
<1> USE DEF Modbus!Inv
<1>1. frame[s] \in Modbus!FrameType /\ MaxThreads > 0
  BY ManualAssumption DEF Modbus!TypeOK, ManualAssumption
<1>2. \A f : Modbus!Goto(s, f) => frame'[s] = f
  BY DEF Modbus!Goto, Modbus!TypeOK
<1> DEFINE connect == [frame[s] EXCEPT !.pc = "connect"]
           write == [frame[s] EXCEPT !.pc = "write", !.next = 1]
           written == [frame[s] EXCEPT !.next = @ + 1, !.taken = @ + 1]
           returned(r) == [frame[s] EXCEPT !.pc = "returned", !.result = r]
<1>3. /\ connect.pc = "connect" /\ connect.retries = frame[s].retries
      /\ write.pc = "write" /\ write.next = 1 /\ write.retries = frame[s].retries
      /\ written.pc = frame[s].pc /\ written.next = frame[s].next + 1
      /\ written.retries = frame[s].retries
      /\ \A r : returned(r).pc = "returned" /\ returned(r).retries = frame[s].retries
  BY <1>1 DEF Modbus!FrameType
<1>4. \/ frame[s].pc = "create" /\ Modbus!Goto(s, connect) /\ UNCHANGED drive
      \/ frame[s].pc = "connect" /\ Modbus!Goto(s, write) /\ UNCHANGED drive
      \/ /\ frame[s].pc = "write" /\ Modbus!Goto(s, written)
         /\ frame[s].next \in DOMAIN Modbus!Plan(s)
         /\ drive' = Modbus!Effect(Modbus!Plan(s)[frame[s].next], frame[s].cmd)
      \/ /\ frame[s].pc = "write" /\ frame[s].next \notin DOMAIN Modbus!Plan(s)
         /\ (\E r : Modbus!Goto(s, returned(r))) /\ UNCHANGED drive
  <2>1. ~Modbus!CreateThreadFails(s) /\ ~Modbus!ConnectFails(s) /\ ~Modbus!Resend(s)
    BY <1>1 DEF Modbus!CreateThreadFails, Modbus!ConnectFails, Modbus!Resend
  <2>2. CASE Modbus!CreateThread(s)
    BY <2>2 DEF Modbus!CreateThread, Modbus!At
  <2>3. CASE Modbus!Connect(s)
    BY <2>3 DEF Modbus!Connect, Modbus!At
  <2>4. CASE Modbus!WriteRegister(s)
    BY <2>4 DEF Modbus!WriteRegister, Modbus!At
  <2>5. CASE Modbus!Finish(s)
    BY <2>5 DEF Modbus!Finish, Modbus!At
  <2>6. QED BY <2>1, <2>2, <2>3, <2>4, <2>5 DEF Modbus!Step
<1> HIDE DEF connect, write, written, returned
<1>5. QED BY <1>2, <1>3, <1>4

(* What a call does to the motion: a jog starts it in its own direction, a   *)
(* hold stops it with its third write, and of the main thread's commands     *)
(* only the stop touches it.                                                 *)
LEMMA JogOnMotion ==
    ASSUME Modbus!TypeOK, NEW d, NEW v, NEW k \in DOMAIN Modbus!Writes["jog"]
    PROVE  LET after == Modbus!Effect(Modbus!Writes["jog"][k], Jog(d, v)).motion
           IN  after = drive.motion \/ after.dir = d
<1>1. k \in 1 .. 5
  BY DEF Modbus!Writes
<1>2. QED BY <1>1 DEF Modbus!Writes, Modbus!Effect, Jog, Modbus!Command, Modbus!TypeOK

LEMMA HoldOnMotion ==
    /\ DOMAIN Modbus!Writes["hold_move"] = 1 .. 3
    /\ \A k \in 1 .. 3 : \A cmd :
          Modbus!TypeOK =>
             Modbus!Effect(Modbus!Writes["hold_move"][k], cmd).motion
                = IF k = 3 THEN Modbus!Stopped ELSE drive.motion
<1>1. Modbus!Writes["hold_move"] = <<"clear", "mode", "stop">>
  BY DEF Modbus!Writes
<1>2. QED BY <1>1 DEF Modbus!Effect, Modbus!TypeOK

LEMMA OtherOnMotion ==
    ASSUME Modbus!TypeOK, NEW cmd \in Modbus!CommandType, cmd.name \notin Modbus!Moves,
           NEW k \in DOMAIN Modbus!Writes[cmd.name]
    PROVE  Modbus!Effect(Modbus!Writes[cmd.name][k], cmd).motion
              \in {drive.motion, Modbus!Stopped}
<1>1. cmd.name \in {"hold_move", "immediate_stop", "reset_errors", "drive_enable"}
  BY DEF Modbus!CommandType, Modbus!Commands, Modbus!Moves
<1>2. Modbus!Writes[cmd.name][k] \notin {"speed", "ramp", "move"}
  BY <1>1 DEF Modbus!Writes
<1>3. QED BY <1>2 DEF Modbus!Effect, Modbus!TypeOK

Knowing == Typed /\ SoleController /\ MotionKnown

(* While the motor is turned by nobody but the only controller: a step that  *)
(* keeps the motion and the other controllers' states.                       *)
LEMMA OnlyControllerMatters ==
    ASSUME SoleController, NEW c \in Controllers, ctl[c].pc # "none",
           NEW b \in Controllers \ {c}, ctl'[b] = ctl[b]
    PROVE  ctl'[b].pc = "none" /\ MotionFits(b)'
BY DEF SoleController, MotionFits

LEMMA MainKnows ==
    ASSUME Patient, Faults = {}, Knowing, Main
    PROVE  SoleController' /\ MotionKnown'
<1> USE DEF Knowing
<1>m. "main" \in Senders /\ \A c \in Controllers : c \in Senders \ {"main"}
  BY ManualAssumption DEF ManualAssumption, Senders
<1>i. Modbus!Inv
  BY DEF Typed
<1>1. CASE Connect
  BY <1>1 DEF Connect, SoleController, MotionKnown, MotionFits, HoldDone, Modbus!At
<1>2. CASE StartManualMode
  <2>1. Absent.pc = "none"
    BY DEF Absent
  <2>2. QED BY <1>2, <2>1 DEF StartManualMode, SoleController, MotionKnown, MotionFits,
                              HoldDone, Modbus!At
<1>3. CASE CreateController
  <2>1. Fresh.pc = "loop"
    BY DEF Fresh
  <2>2. /\ UNCHANGED <<frame, drive>> /\ serving' = "none"
        /\ drive.motion = Modbus!Stopped /\ \A c \in Controllers : ctl[c].pc = "none"
        /\ \E c \in Controllers : ctl' = [ctl EXCEPT ![c] = Fresh]
    BY <1>3 DEF CreateController, SoleController
  <2>3. QED BY <2>1, <2>2 DEF SoleController, MotionKnown, MotionFits, Typed, TypeOK
<1>4. CASE Disconnect
  <2>1. drive'.motion = Modbus!Stopped
    BY <1>4, <1>i DEF Disconnect, CloseCommandConnection, Modbus!Inv, Modbus!TypeOK
  <2>2. QED BY <1>4, <2>1 DEF Disconnect, SoleController, MotionKnown, MotionFits
<1>5. CASE StopManualMode \/ ManualResetErrors
  <2>1. /\ UNCHANGED <<SMD_CONNECTED, ctl>> /\ serving' # "startManualMode"
        /\ \E cmd : cmd.name \notin Modbus!Moves /\ Modbus!Call("main", cmd)
    BY <1>5, CommandsFit DEF StopManualMode, ManualResetErrors
  <2>2. /\ UNCHANGED drive /\ \A c \in Controllers : frame'[c] = frame[c]
        /\ frame'["main"].cmd.name \notin Modbus!Moves /\ frame'["main"].retries = 0
    BY <1>m, <1>i, <2>1, CallFrame
  <2>3. SoleController'
    BY <2>1 DEF SoleController
  <2>4. MotionKnown'
    BY <1>m, <2>1, <2>2 DEF MotionKnown, MotionFits, HoldDone, Modbus!At, Senders
  <2>5. QED BY <2>3, <2>4
<1>6. CASE MainResumes
  <2>1. /\ UNCHANGED ctl /\ serving' = "none" /\ Modbus!Goto("main", Modbus!Idle)
        /\ drive'.motion = Modbus!Stopped \/ UNCHANGED <<drive, SMD_CONNECTED>>
    BY <1>6, <1>i DEF MainResumes, CloseCommandConnection, Modbus!Inv, Modbus!TypeOK
  <2>2. /\ \A c \in Controllers : frame'[c] = frame[c]
        /\ frame'["main"].cmd.name = "none" /\ frame'["main"].retries = 0
    BY <1>m, <1>i, <2>1, ResumeFrame
  <2>3. "none" \notin Modbus!Moves
    BY DEF Modbus!Moves
  <2>4. SoleController'
    BY <2>1 DEF SoleController
  <2>5. MotionKnown'
    BY <1>m, <2>1, <2>2, <2>3 DEF MotionKnown, MotionFits, HoldDone, Modbus!At, Senders
  <2>6. QED BY <2>4, <2>5
<1>7. QED BY <1>1, <1>2, <1>3, <1>4, <1>5, <1>6 DEF Main, ClientCommand

LEMMA ControllerKnows ==
    ASSUME Faults = {}, Knowing, NEW c \in Controllers, Controller(c)
    PROVE  SoleController' /\ MotionKnown'
<1> USE DEF Knowing
<1>1. /\ c \in Senders \ {"main"} /\ Modbus!Inv /\ ctl[c] \in CtlType
      /\ UNCHANGED shared /\ ctl[c].pc # "none" /\ UNCHANGED drive
      /\ \E r : ctl' = [ctl EXCEPT ![c] = r]
  BY ManualAssumption
     DEF ManualAssumption, Senders, Typed, TypeOK, CtlType, Controller, Loop, ReadNothing,
         FirstValue, ZeroValue, ChangedValue, ControllerResumes, Settle, shared, Becomes,
         Calling, Modbus!Call, Modbus!Resume
<1>2. \A b \in Controllers \ {c} : ctl'[b] = ctl[b] /\ ctl'[b].pc = "none" /\ MotionFits(b)'
  <2>1. \A b \in Controllers \ {c} : ctl'[b] = ctl[b]
    BY <1>1 DEF Typed, TypeOK
  <2>2. QED BY <1>1, <2>1, OnlyControllerMatters
<1>3. SoleController'
  BY <1>1, <1>2 DEF SoleController, shared
<1>4. SUFFICES /\ \A s \in Senders : frame'[s].retries = 0
               /\ frame'["main"] = frame["main"]
               /\ MotionFits(c)'
  BY <1>2, <1>3 DEF MotionKnown
<1>5. ASSUME UNCHANGED <<frame, drive>>
      PROVE  /\ \A s \in Senders : frame'[s].retries = 0
             /\ frame'["main"] = frame["main"]
  BY <1>5 DEF MotionKnown
<1>6. ASSUME NEW cmd, Modbus!Call(c, cmd)
      PROVE  /\ \A s \in Senders : frame'[s].retries = 0
             /\ frame'["main"] = frame["main"] /\ frame'[c].pc = "create"
  BY <1>1, <1>6, CallFrame DEF MotionKnown, Senders
<1>7. ASSUME NEW pc, NEW d, NEW v, Becomes(c, pc, d, v)
      PROVE  ctl'[c].pc = pc /\ ctl'[c].dir = d /\ ctl'[c].speed = v
  BY <1>7 DEF Becomes, Typed, TypeOK
<1>8. \A x : ctl' = [ctl EXCEPT ![c].pc = x]
              => ctl'[c].pc = x /\ ctl'[c].dir = ctl[c].dir /\ ctl'[c].speed = ctl[c].speed
  BY <1>1 DEF Typed, TypeOK, CtlType
<1>9. SMD_CONNECTED' = SMD_CONNECTED
  BY <1>1 DEF shared
<1>10. CASE Loop(c)
  <2>1. \/ ctl'[c].pc = "none"
        \/ /\ ctl'[c].pc = "read" /\ ctl'[c].dir = ctl[c].dir /\ ctl'[c].speed = ctl[c].speed
           /\ SMD_CONNECTED = 1
    <3>1. CASE STATUS_MANUAL_MODE_ENABLE = 1
      BY <1>8, <1>10, <3>1 DEF Loop, Typed, TypeOK
    <3>2. CASE STATUS_MANUAL_MODE_ENABLE # 1
      BY <1>10, <3>2 DEF Loop, Typed, TypeOK, Absent
    <3>3. QED BY <3>1, <3>2
  <2>2. MotionFits(c) /\ ctl[c].pc = "loop" /\ UNCHANGED <<frame, drive>>
    BY <1>10 DEF Loop, MotionKnown
  <2>3. MotionFits(c)'
    BY <1>9, <2>1, <2>2 DEF MotionFits
  <2>4. QED BY <1>5, <2>2, <2>3
<1>11. CASE ReadNothing(c)
  <2>1. MotionFits(c) /\ ctl[c].pc = "read" /\ UNCHANGED <<frame, drive>>
    BY <1>11 DEF ReadNothing, MotionKnown
  <2>2. MotionFits(c)'
    BY <1>8, <1>11, <2>1 DEF ReadNothing, MotionFits
  <2>3. QED BY <1>5, <2>1, <2>2
<1>12. CASE FirstValue(c)
  <2>1. drive.motion = Modbus!Stopped
    BY <1>12 DEF FirstValue, MotionKnown, MotionFits
  <2>2. MotionFits(c)'
    BY <1>1, <2>1 DEF MotionFits
  <2>3. QED BY <1>5, <1>6, <1>12, <2>2 DEF FirstValue
<1>13. ASSUME ctl[c].pc = "read", NEW pc \in {"zero", "turn"}, NEW d, NEW v,
              Becomes(c, pc, d, v), Modbus!Call(c, Plain("hold_move"))
       PROVE  MotionFits(c)'
  <2>1. ctl'[c].pc = pc /\ frame'[c].pc = "create"
    BY <1>6, <1>7, <1>13
  <2>2. drive.motion # Modbus!Stopped => SMD_CONNECTED' = 1
    BY <1>9, <1>13 DEF MotionKnown, MotionFits
  <2>3. QED BY <1>1, <2>1, <2>2 DEF MotionFits, HoldDone, Modbus!At
<1>14. CASE ZeroValue(c)
  <2>1. CASE ctl[c].speed = "zero"
    <3>1. drive.motion = Modbus!Stopped /\ UNCHANGED frame
      BY <1>14, <2>1 DEF ZeroValue, MotionKnown, MotionFits
    <3>2. QED BY <1>1, <1>5, <3>1 DEF MotionFits
  <2>2. CASE ctl[c].speed # "zero"
    BY <1>6, <1>13, <1>14, <2>2 DEF ZeroValue
  <2>3. QED BY <2>1, <2>2
<1>15. CASE ChangedValue(c)
  <2>1. MotionFits(c) /\ ctl[c].pc = "read"
    BY <1>15 DEF ChangedValue, MotionKnown
  <2>2. CASE file = [dir |-> ctl[c].dir, pot |-> ctl[c].speed]
    <3>1. Becomes(c, "loop", ctl[c].dir, ctl[c].speed) /\ UNCHANGED <<frame, drive>>
      BY <1>15, <2>2 DEF ChangedValue
    <3>2. QED BY <1>5, <1>7, <2>1, <3>1 DEF MotionFits
  <2>3. CASE file # [dir |-> ctl[c].dir, pot |-> ctl[c].speed] /\ file.dir # ctl[c].dir
    BY <1>6, <1>13, <1>15, <2>3 DEF ChangedValue
  <2>4. CASE file # [dir |-> ctl[c].dir, pot |-> ctl[c].speed] /\ file.dir = ctl[c].dir
    <3>1. Becomes(c, "jog", ctl[c].dir, file.pot) /\ Modbus!Call(c, Jog(file.dir, file.pot))
      BY <1>15, <2>4 DEF ChangedValue
    <3>2. MotionFits(c)'
      BY <1>1, <1>7, <2>1, <3>1 DEF MotionFits
    <3>3. QED BY <1>6, <3>1, <3>2
  <2>5. QED BY <2>2, <2>3, <2>4
<1>16. CASE ControllerResumes(c)
  <2>1. /\ ctl[c].pc \in {"first", "zero", "turn", "jog"}
        /\ Modbus!At(c, "returned") /\ Modbus!Goto(c, Modbus!Idle) /\ MotionFits(c)
        /\ ctl'[c].pc = (IF ctl[c].pc = "turn" THEN "settle" ELSE "loop")
        /\ ctl'[c].dir = ctl[c].dir /\ ctl'[c].speed = ctl[c].speed
    <3> DEFINE x == IF ctl[c].pc = "turn" THEN "settle" ELSE "loop"
    <3>1. ctl' = [ctl EXCEPT ![c].pc = x]
      BY <1>16 DEF ControllerResumes
    <3> HIDE DEF x
    <3>2. ctl'[c].pc = x /\ ctl'[c].dir = ctl[c].dir /\ ctl'[c].speed = ctl[c].speed
      BY <1>8, <3>1
    <3>3. QED BY <1>1, <1>16, <3>2 DEF ControllerResumes, MotionKnown, Modbus!Resume, x
  <2>2. /\ \A s \in Senders : frame'[s].retries = 0
        /\ frame'["main"] = frame["main"]
    <3>1. "main" \in Senders \ {c}
      BY <1>1 DEF Senders
    <3>2. /\ frame'[c].retries = 0
          /\ \A u \in Senders \ {c} : frame'[u] = frame[u]
      BY <1>1, <2>1, ResumeFrame
    <3>3. QED BY <3>1, <3>2 DEF MotionKnown
  <2>3. CASE ctl[c].pc \in {"zero", "turn"}
    <3>1. drive.motion = Modbus!Stopped
      BY <2>1, <2>3 DEF MotionFits, HoldDone
    <3>2. QED BY <1>1, <2>2, <3>1 DEF MotionFits
  <2>4. CASE ctl[c].pc \in {"first", "jog"}
    <3>1. /\ frame[c].cmd \in Modbus!CommandType
          /\ frame[c].cmd = Jog(ctl[c].dir, ctl[c].speed)
      BY <1>1, <2>1, <2>4 DEF Typed, CallFits, Modbus!Inv, Modbus!TypeOK, Modbus!At
    <3>2. ctl[c].dir # "none" /\ ctl[c].speed # "zero"
      <4>1. /\ frame[c].cmd.name = "jog" /\ frame[c].cmd.dir = ctl[c].dir
            /\ frame[c].cmd.arg = ctl[c].speed
        BY <3>1 DEF Jog, Modbus!Command
      <4>2. frame[c].cmd.dir \in Directions /\ frame[c].cmd.arg \in Speeds
        BY <3>1, <4>1 DEF Modbus!CommandType, Modbus!Moves
      <4>3. QED BY <4>1, <4>2, ManualAssumption DEF ManualAssumption
    <3>3. ctl'[c].pc = "loop"
      BY <2>1, <2>4
    <3>4. QED BY <1>1, <2>1, <2>2, <2>4, <3>2, <3>3 DEF MotionFits
  <2>5. QED BY <2>1, <2>3, <2>4
<1>17. CASE Settle(c)
  <2>1. drive.motion = Modbus!Stopped
    BY <1>17 DEF Settle, MotionKnown, MotionFits
  <2>2. QED BY <1>1, <1>6, <1>17, <2>1 DEF Settle, MotionFits
<1>18. QED BY <1>10, <1>11, <1>12, <1>14, <1>15, <1>16, <1>17 DEF Controller

(* A step of send_modbus_command, in whichever thread. *)
LEMMA CallKnows ==
    ASSUME Faults = {}, Knowing, NEW s \in Senders, MotorCall(s)
    PROVE  SoleController' /\ MotionKnown'
<1> USE DEF Knowing
<1> DEFINE w == Modbus!Plan(s)[frame[s].next]
<1>1. /\ Modbus!Inv /\ Modbus!TypeOK /\ Modbus!Step(s)
      /\ UNCHANGED <<shared, ctl>> /\ frame[s].retries = 0
  BY DEF Typed, Modbus!Inv, MotorCall, MotionKnown
<1>2. /\ frame[s].pc # "idle" /\ frame'[s].cmd = frame[s].cmd
      /\ \A u \in Senders \ {s} : frame'[u] = frame[u]
  BY <1>1, StepFrame
<1>3. frame[s].cmd \in Modbus!CommandType
  BY <1>1, <1>2 DEF Modbus!TypeOK, Modbus!At
<1>4. /\ frame'[s].retries = 0
      /\ \/ UNCHANGED drive
         \/ /\ frame[s].next \in DOMAIN Modbus!Plan(s)
            /\ drive' = Modbus!Effect(w, frame[s].cmd)
  BY <1>1, FaultlessStep
<1>5. /\ \A u \in Senders : frame'[u].retries = 0
      /\ frame'["main"].cmd = frame["main"].cmd
  <2>1. "main" \in Senders
    BY DEF Senders
  <2>2. QED BY <1>2, <1>4, <2>1 DEF MotionKnown
<1>6. CASE s = "main"
  <2>1. drive'.motion \in {drive.motion, Modbus!Stopped}
    BY <1>1, <1>3, <1>4, <1>6, OtherOnMotion DEF MotionKnown, Modbus!Plan
  <2>2. \A c \in Controllers : c \in Senders \ {s}
    BY <1>6, ManualAssumption DEF ManualAssumption, Senders
  <2>3. \A c \in Controllers : MotionFits(c)'
    BY <1>1, <1>2, <2>1, <2>2 DEF MotionKnown, MotionFits, HoldDone, Modbus!At, shared
  <2>4. SoleController'
    BY <1>1, <2>1 DEF SoleController, shared
  <2>5. QED BY <1>5, <2>3, <2>4 DEF MotionKnown
<1>7. CASE s \in Controllers
  <2>1. /\ ctl[s].pc \in Calling /\ CallFits(s) /\ MotionFits(s)
    BY <1>2, <1>7 DEF Typed, TypeOK, Modbus!At, MotionKnown
  <2>2. ctl[s].pc # "none"
    BY <2>1 DEF Calling
  <2>3. SoleController'
    BY <1>1, <1>7, <2>2 DEF SoleController, shared
  <2>4. \A b \in Controllers \ {s} : MotionFits(b)'
    BY <1>1, <1>7, <2>2, OnlyControllerMatters
  <2>5. CASE ctl[s].pc \in {"first", "jog"}
    <3>1. frame[s].cmd = Jog(ctl[s].dir, ctl[s].speed) /\ frame[s].cmd.name = "jog"
      BY <2>1, <2>5 DEF CallFits, Jog, Modbus!Command
    <3>2. drive'.motion = drive.motion \/ drive'.motion.dir = ctl[s].dir
      BY <1>1, <1>4, <3>1, JogOnMotion DEF Modbus!Plan
    <3>3. MotionFits(s)'
      BY <1>1, <2>1, <2>5, <3>2 DEF MotionFits
    <3>4. QED BY <1>5, <2>3, <2>4, <3>3 DEF MotionKnown
  <2>6. CASE ctl[s].pc \in {"zero", "turn"}
    <3>1. frame[s].cmd.name = "hold_move"
      BY <2>1, <2>6 DEF CallFits, Plain, Modbus!Command
    <3>2. DOMAIN Modbus!Plan(s) = 1 .. 3
      BY <3>1, HoldOnMotion DEF Modbus!Plan
    <3>3. SUFFICES ASSUME drive'.motion # Modbus!Stopped PROVE ~HoldDone(s)'
      BY <1>1, <1>5, <2>3, <2>4, <2>6 DEF MotionKnown, MotionFits
    <3>4. /\ drive'.motion = drive.motion
          /\ drive' = Modbus!Effect(w, frame[s].cmd) /\ frame[s].next \in 1 .. 3
                => frame[s].next # 3
      BY <1>1, <1>4, <3>1, <3>2, <3>3, HoldOnMotion DEF Modbus!Plan
    <3>5. ~HoldDone(s) /\ SMD_CONNECTED' = SMD_CONNECTED
      BY <1>1, <2>1, <2>6, <3>3, <3>4 DEF MotionFits, shared
    <3>6. frame[s].next \in 1 .. 6
      BY <1>1 DEF Modbus!TypeOK, Modbus!FrameType
    <3>7. \/ frame[s].pc = "create" /\ frame'[s].pc = "connect"
          \/ frame'[s].pc = "write" /\ frame'[s].next = 1
          \/ /\ frame'[s].pc = "write" /\ frame[s].next \in 1 .. 2
             /\ frame'[s].next = frame[s].next + 1
          \/ frame[s].pc = "write" /\ frame[s].next > 3
      BY <1>1, <3>2, <3>4, <3>6, FaultlessStep
    <3>8. QED BY <3>5, <3>7 DEF HoldDone, Modbus!At
  <2>7. QED BY <2>1, <2>5, <2>6 DEF Calling
<1>8. QED BY <1>6, <1>7 DEF Senders

LEMMA StrayKnows ==
    ASSUME Knowing, NEW c \in Controllers, StrayConnectFails(c)
    PROVE  SoleController' /\ MotionKnown'
<1> USE DEF Knowing
<1>1. /\ UNCHANGED <<drive, shared, ctl>> /\ SMD_CONNECTED = 0
      /\ frame[c].pc = "connect" /\ frame'[c].pc = "returned"
      /\ frame'[c].cmd = frame[c].cmd /\ frame'[c].retries = frame[c].retries
      /\ \A u \in Senders \ {c} : frame'[u] = frame[u]
  BY StrayFrame DEF Typed, StrayConnectFails
<1>2. SoleController'
  BY <1>1 DEF SoleController, shared
<1>3. "main" \in Senders \ {c} /\ c \in Senders
      /\ \A b \in Controllers \ {c} : b \in Senders \ {c}
  BY ManualAssumption DEF ManualAssumption, Senders
<1>4. \A b \in Controllers \ {c} : MotionFits(b)'
  BY <1>1, <1>3 DEF MotionKnown, MotionFits, HoldDone, Modbus!At, shared
<1>5. MotionFits(c)'
  BY <1>1 DEF MotionKnown, MotionFits, HoldDone, Modbus!At, shared
<1>6. QED BY <1>1, <1>2, <1>3, <1>4, <1>5 DEF MotionKnown

LEMMA KnowingStep ==
    ASSUME Patient, Faults = {}
    PROVE  Knowing /\ [Next]_vars => Knowing'
<1> SUFFICES ASSUME Knowing, [Next]_vars PROVE Knowing'
  OBVIOUS
<1>1. Typed'
  BY TypedStep DEF Knowing
<1>2. CASE FileChanges \/ UNCHANGED vars
  <2>1. UNCHANGED <<frame, drive, SMD_CONNECTED, serving, ctl>>
    BY <1>2 DEF FileChanges, vars
  <2>2. SoleController' /\ MotionKnown'
    BY <2>1 DEF Knowing, SoleController, MotionKnown, MotionFits, HoldDone, Modbus!At
  <2>3. QED BY <1>1, <2>2 DEF Knowing
<1>3. QED BY <1>1, <1>2, MainKnows, ControllerKnows, CallKnows, StrayKnows DEF Next, Knowing

LEMMA InitKnowing == Init => Knowing
<1> SUFFICES ASSUME Init PROVE Knowing
  OBVIOUS
<1>1. Typed
  BY InitTyped
<1>2. /\ Absent.pc = "none" /\ Modbus!Idle.retries = 0 /\ Modbus!Idle.cmd.name = "none"
      /\ "none" \notin Modbus!Moves
  BY DEF Absent, Modbus!Idle, Modbus!NoCommand, Modbus!Moves
<1>3. SoleController /\ MotionKnown
  BY <1>2 DEF Init, Modbus!Init, SoleController, MotionKnown, MotionFits, Senders
<1>4. QED BY <1>1, <1>3 DEF Knowing

LEMMA KnowingHolds ==
    ASSUME Patient, Faults = {}
    PROVE  Spec => []Knowing
BY InitKnowing, KnowingStep, PTL DEF Spec

(* A controller waits for the call its local variables ask for; and when     *)
(* nothing fails, current_jog_direction and current_speed of the one         *)
(* controller of a patient client tell how the motor moves.                  *)
THEOREM MotionIsKnown == Spec => []ControllerKnowsMotion
<1>1. CASE Patient /\ Faults = {}
  <2>1. Spec => []Knowing
    BY <1>1, KnowingHolds
  <2>2. Knowing => ControllerKnowsMotion
    BY DEF Knowing, Typed, ControllerKnowsMotion
  <2>3. QED BY <2>1, <2>2, PTL
<1>2. CASE ~(Patient /\ Faults = {})
  <2>1. Typed => ControllerKnowsMotion
    BY <1>2 DEF Typed, ControllerKnowsMotion
  <2>2. QED BY <2>1, TypedHolds, PTL
<1>3. QED BY <1>1, <1>2

(* The motor is never reversed while it turns: the new direction is written  *)
(* only after the hold has stopped it, whatever the client does meanwhile.   *)
THEOREM TurnsThroughStop ==
    ASSUME Patient, Faults = {}
    PROVE  Spec => ReversesThroughStop
<1> DEFINE A == \A c \in Controllers :
          ctl[c].pc = "jog" /\ frame'[c].taken # frame[c].taken
             /\ drive'.motion.dir # drive.motion.dir
          => drive.motion = Modbus!Stopped
<1>1. Knowing /\ [Next]_vars => [A]_vars
  <2> SUFFICES ASSUME Knowing, Next, NEW c \in Controllers, ctl[c].pc = "jog",
                      frame'[c].taken # frame[c].taken,
                      drive'.motion.dir # drive.motion.dir
               PROVE  drive.motion = Modbus!Stopped
    OBVIOUS
  <2>1. /\ Modbus!Inv /\ Modbus!TypeOK /\ CallFits(c) /\ MotionFits(c)
        /\ c \in Senders /\ frame[c].retries = 0
        /\ "main" \in Senders /\ c # "main"
    BY ManualAssumption
       DEF ManualAssumption, Knowing, Typed, MotionKnown, Senders, Modbus!Inv
  <2>2. ASSUME Main PROVE frame'[c] = frame[c]
    <3>1. \/ UNCHANGED frame
          \/ \E cmd : Modbus!Call("main", cmd)
          \/ Modbus!Goto("main", Modbus!Idle)
      BY <2>2 DEF Main, Connect, Disconnect, StartManualMode, CreateController,
                  StopManualMode, ManualResetErrors, ClientCommand, MainResumes
    <3>2. QED BY <2>1, <3>1, CallFrame, ResumeFrame
  <2>3. ASSUME NEW b \in Controllers, Controller(b) \/ StrayConnectFails(b)
        PROVE  UNCHANGED drive
    BY <2>3 DEF Controller, Loop, ReadNothing, FirstValue, ZeroValue, ChangedValue,
                ControllerResumes, Settle, StrayConnectFails, Modbus!Call, Modbus!Resume
  <2>4. PICK s \in Senders : MotorCall(s)
    BY <2>2, <2>3 DEF Next, FileChanges
  <2>5. s = c
    BY <2>1, <2>4, StepFrame DEF MotorCall
  <2>6. frame[c].cmd = Jog(ctl[c].dir, ctl[c].speed) /\ frame[c].cmd.name = "jog"
    BY <2>1 DEF CallFits, Jog, Modbus!Command
  <2>7. \/ UNCHANGED drive
        \/ /\ frame[c].next \in DOMAIN Modbus!Writes["jog"]
           /\ drive' = Modbus!Effect(Modbus!Writes["jog"][frame[c].next], frame[c].cmd)
    BY <2>1, <2>4, <2>5, <2>6, FaultlessStep DEF MotorCall, Modbus!Plan
  <2>8. drive'.motion = drive.motion \/ drive'.motion.dir = ctl[c].dir
    BY <2>1, <2>6, <2>7, JogOnMotion
  <2>9. QED BY <2>1, <2>8 DEF MotionFits
<1>2. QED BY <1>1, KnowingHolds, PTL DEF Spec, ReversesThroughStop

-----------------------------------------------------------------------------
(* Any client and any faults: what is left of manual mode when it ends. *)

\* The main thread closes the connection, and lowers the flag, only between
\* two requests of the client.
BetweenRequests ==
    /\ SMD_CONNECTED = 0 => serving = "none"
    /\ serving = "startManualMode" => STATUS_MANUAL_MODE_ENABLE = 1

LEMMA BetweenRequestsStep ==
    ASSUME Typed, BetweenRequests, [Next]_vars
    PROVE  BetweenRequests'
<1>1. CASE Connect \/ Disconnect \/ StartManualMode \/ CreateController
  BY <1>1 DEF Connect, Disconnect, CloseCommandConnection, StartManualMode, CreateController,
     BetweenRequests
<1>2. CASE StopManualMode \/ ManualResetErrors \/ ClientCommand
  BY <1>2 DEF StopManualMode, ManualResetErrors, ClientCommand, BetweenRequests
<1>3. CASE MainResumes
  BY <1>3 DEF MainResumes, CloseCommandConnection, BetweenRequests
<1>4. ASSUME NEW c \in Controllers, Controller(c) \/ StrayConnectFails(c)
      PROVE  BetweenRequests'
  <2>1. UNCHANGED shared
    BY <1>4 DEF Controller, Loop, ReadNothing, FirstValue, ZeroValue, ChangedValue,
                ControllerResumes, Settle, StrayConnectFails
  <2>2. QED BY <2>1 DEF shared, BetweenRequests
<1>5. CASE FileChanges \/ UNCHANGED vars \/ \E s \in Senders : MotorCall(s)
  BY <1>5 DEF FileChanges, vars, MotorCall, shared, BetweenRequests
<1>6. QED BY <1>1, <1>2, <1>3, <1>4, <1>5 DEF Next, Main

LEMMA BetweenRequestsHolds == Spec => [](Typed /\ BetweenRequests)
<1>1. Init => BetweenRequests
  BY DEF Init, BetweenRequests
<1>2. Typed /\ BetweenRequests /\ [Next]_vars => BetweenRequests'
  BY BetweenRequestsStep
<1>3. QED BY <1>1, <1>2, TypedHolds, PTL DEF Spec

\* A call starts the motor only by a jog, and other commands at most stop it.
LEMMA OnlyMovesMove ==
    ASSUME Typed, NEW s \in Senders, Modbus!Step(s),
           drive'.motion # drive.motion, drive'.motion # Modbus!Stopped
    PROVE  frame[s].cmd.name \in Modbus!Moves
<1>1. /\ frame[s].pc # "idle" /\ Modbus!TypeOK
  BY StepFrame DEF Typed, Modbus!Inv
<1>2. frame[s].cmd \in Modbus!CommandType
  BY <1>1 DEF Modbus!TypeOK, Modbus!At
<1>3. /\ frame[s].next \in DOMAIN Modbus!Plan(s)
      /\ drive' = Modbus!Effect(Modbus!Plan(s)[frame[s].next], frame[s].cmd)
  BY DEF Modbus!Step, Modbus!CreateThread, Modbus!CreateThreadFails, Modbus!Connect,
         Modbus!ConnectFails, Modbus!Resend, Modbus!WriteRegister, Modbus!Finish
<1>4. QED BY <1>1, <1>2, <1>3, OtherOnMotion DEF Modbus!Plan

(* What is right of "all motion stops" (SMD_Motor_Commands.h:33) for every   *)
(* client and whatever fails: with the connection closed the motor rests,    *)
(* but for the jog of a controller that had tested the flag before.          *)
THEOREM MotorRestsButForStrays == Spec => OnlyStraysMove
<1> DEFINE A == SMD_CONNECTED = 0 /\ drive.motion = Modbus!Stopped
                   /\ drive'.motion # Modbus!Stopped
                  => \E c \in Controllers : ctl[c].pc \in {"first", "jog"} /\ MotorCall(c)
<1>1. ASSUME Typed, BetweenRequests, [Next]_vars PROVE [A]_vars
  <2> SUFFICES ASSUME Next, SMD_CONNECTED = 0, drive.motion = Modbus!Stopped,
                      drive'.motion # Modbus!Stopped
               PROVE  \E c \in Controllers : ctl[c].pc \in {"first", "jog"} /\ MotorCall(c)
    BY <1>1
  <2>1. serving = "none" /\ Modbus!At("main", "idle")
    BY <1>1 DEF BetweenRequests, Typed, TypeOK
  <2>2. ~Main
    BY <2>1 DEF Main, Connect, Disconnect, StartManualMode, CreateController, StopManualMode,
       ManualResetErrors, ClientCommand, MainResumes
  <2>3. ASSUME NEW c \in Controllers, Controller(c) \/ StrayConnectFails(c)
        PROVE  UNCHANGED drive
    BY <2>3 DEF Controller, Loop, ReadNothing, FirstValue, ZeroValue, ChangedValue,
                ControllerResumes, Settle, StrayConnectFails, Modbus!Call, Modbus!Resume
  <2>4. PICK s \in Senders : MotorCall(s)
    BY <2>2, <2>3 DEF Next, FileChanges
  <2>5. s # "main"
    BY <1>1, <2>1, <2>4, StepFrame DEF MotorCall, Modbus!At, Typed
  <2>6. s \in Controllers /\ CallFits(s) /\ ctl[s].pc \in Calling
    BY <1>1, <2>4, <2>5, StepFrame DEF Senders, Typed, TypeOK, MotorCall, Modbus!At
  <2>7. frame[s].cmd.name \in Modbus!Moves
    BY <1>1, <2>4, OnlyMovesMove DEF MotorCall
  <2>8. ctl[s].pc \notin {"zero", "turn"}
    BY <2>6, <2>7 DEF CallFits, Plain, Modbus!Command, Modbus!Moves
  <2>9. QED BY <2>4, <2>6, <2>8 DEF Calling
<1>2. QED BY <1>1, BetweenRequestsHolds, PTL DEF Spec, OnlyStraysMove

(* The part of ControllersEnd that does not need fairness: once the flag is  *)
(* down, the while loop of _manual_mode_controller is left after at most one *)
(* more turn, with its hold, its half second and its jog; and no controller  *)
(* comes into being late.                                                    *)
THEOREM ControllersHaveOneTurnLeft == Spec => ControllersRunDown
<1> DEFINE Nearer(c) == ctl'[c] = ctl[c] \/ TurnLeft[ctl'[c].pc] < TurnLeft[ctl[c].pc]
           A == STATUS_MANUAL_MODE_ENABLE = 0 =>
                   \A c \in Controllers : \/ ctl'[c] = ctl[c]
                                          \/ TurnLeft[ctl'[c].pc] < TurnLeft[ctl[c].pc]
<1>1. ASSUME Typed, BetweenRequests, [Next]_vars PROVE [A]_vars
  <2> SUFFICES ASSUME STATUS_MANUAL_MODE_ENABLE = 0, Next, NEW c \in Controllers
               PROVE  Nearer(c)
    BY <1>1
  <2>1. ctl \in [Controllers -> CtlType]
    BY <1>1 DEF Typed, TypeOK, CtlType
  <2>2. CASE Main
    <3>1. ~CreateController
      BY <1>1 DEF CreateController, BetweenRequests
    <3>2. UNCHANGED ctl
      BY <2>2, <3>1 DEF Main, Connect, Disconnect, StartManualMode, StopManualMode,
         ManualResetErrors, ClientCommand, MainResumes
    <3>3. QED BY <3>2
  <2>3. ASSUME NEW b \in Controllers, Controller(b) PROVE Nearer(c)
    <3>1. ASSUME NEW r, ctl' = [ctl EXCEPT ![b] = r], TurnLeft[r.pc] < TurnLeft[ctl[b].pc]
          PROVE  Nearer(c)
      BY <2>1, <3>1
    <3>2. ASSUME NEW r, NEW p, ctl' = [ctl EXCEPT ![b] = r], r.pc = p,
                 \/ ctl[b].pc = "loop" /\ p = "none"
                 \/ ctl[b].pc = "read" /\ p \in {"loop", "first", "zero", "turn", "jog"}
                 \/ ctl[b].pc = "turn" /\ p = "settle"
                 \/ ctl[b].pc = "settle" /\ p = "jog"
                 \/ ctl[b].pc \in {"first", "zero", "jog"} /\ p = "loop"
          PROVE  Nearer(c)
      <4>1. TurnLeft[p] < TurnLeft[ctl[b].pc]
        BY <3>2 DEF TurnLeft
      <4>2. QED BY <3>1, <3>2, <4>1
    <3>3. ASSUME NEW p, ctl' = [ctl EXCEPT ![b].pc = p],
                 \/ ctl[b].pc = "read" /\ p = "loop"
                 \/ ctl[b].pc = "turn" /\ p = "settle"
                 \/ ctl[b].pc = "settle" /\ p = "jog"
                 \/ ctl[b].pc \in {"first", "zero", "jog"} /\ p = "loop"
          PROVE  Nearer(c)
      <4> DEFINE r == [ctl[b] EXCEPT !.pc = p]
      <4>1. r.pc = p
        BY <2>1 DEF CtlType
      <4>2. ctl' = [ctl EXCEPT ![b] = r]
        BY <3>3
      <4> HIDE DEF r
      <4>3. QED BY <3>2, <3>3, <4>1, <4>2
    <3>4. ASSUME ctl[b].pc = "read", NEW p \in {"loop", "first", "zero", "turn", "jog"},
                 NEW d, NEW v, Becomes(b, p, d, v)
          PROVE  Nearer(c)
      <4> DEFINE r == [pc |-> p, dir |-> d, speed |-> v]
      <4>1. r.pc = p /\ ctl' = [ctl EXCEPT ![b] = r]
        BY <3>4 DEF Becomes
      <4> HIDE DEF r
      <4>2. QED BY <3>2, <3>4, <4>1
    <3>5. CASE Loop(b)
      <4>1. ctl' = [ctl EXCEPT ![b] = Absent] /\ ctl[b].pc = "loop"
        BY <3>5 DEF Loop
      <4>2. Absent.pc = "none"
        BY DEF Absent
      <4>3. QED BY <3>2, <4>1, <4>2
    <3>6. CASE ReadNothing(b)
      BY <3>3, <3>6 DEF ReadNothing
    <3>7. CASE FirstValue(b) \/ ZeroValue(b) \/ ChangedValue(b)
      BY <3>4, <3>7 DEF FirstValue, ZeroValue, ChangedValue
    <3>8. CASE ControllerResumes(b)
      <4> DEFINE x == IF ctl[b].pc = "turn" THEN "settle" ELSE "loop"
      <4>1. ctl' = [ctl EXCEPT ![b].pc = x] /\ ctl[b].pc \in {"first", "zero", "turn", "jog"}
        BY <3>8 DEF ControllerResumes
      <4>2. QED BY <3>3, <4>1
    <3>9. CASE Settle(b)
      BY <3>3, <3>9 DEF Settle
    <3>10. QED BY <2>3, <3>5, <3>6, <3>7, <3>8, <3>9 DEF Controller
  <2>4. ASSUME UNCHANGED ctl PROVE Nearer(c)
    BY <2>4
  <2>5. QED BY <2>2, <2>3, <2>4 DEF Next, MotorCall, StrayConnectFails, FileChanges
<1>2. QED BY <1>1, BetweenRequestsHolds, PTL DEF Spec, ControllersRunDown
=============================================================================
