----------------------------- MODULE ManualMode -----------------------------
(***************************************************************************)
(* Manual mode: _manual_mode_controller, a detached thread, polls a file    *)
(* for a direction and a potentiometer value and moves the motor, while    *)
(* the main thread goes on serving the client.  The two share the flag     *)
(* STATUS_MANUAL_MODE_ENABLE, DEVICE_IP and the drive, with no lock; their *)
(* register writes are those of module ModbusSend.                         *)
(*                                                                         *)
(* Of the main thread this module keeps what touches manual mode: start,   *)
(* stop, reset, and the opening and closing of the command connection      *)
(* (module SessionServer has the rest).                                    *)
(***************************************************************************)
EXTENDS Naturals, Sequences

CONSTANTS
    Controllers,      \* bound: manual-mode threads alive at a time
    Directions, Speeds,
    MaxThreads, Faults,   \* as in ModbusSend
    Patient           \* see StartManualMode

VARIABLES
    frame, drive,     \* calls of send_modbus_command, and the drive: ModbusSend
    SMD_CONNECTED, STATUS_MANUAL_MODE_ENABLE,
    serving,          \* what the main thread is doing for the client
    ctl,              \* per controller: where it is, and its local variables
    file              \* content of /tmp/smd_manual_values, written by the Arduino (external)

vars == <<frame, drive, SMD_CONNECTED, STATUS_MANUAL_MODE_ENABLE, serving, ctl, file>>

Senders == {"main"} \cup Controllers

CallsOf == [s \in Senders |->
    IF s = "main" THEN {"immediate_stop", "reset_errors", "hold_move", "jog"}
    ELSE {"jog", "hold_move"}]

Modbus == INSTANCE ModbusSend WITH Args <- Speeds

ASSUME ManualAssumption == /\ Patient \in BOOLEAN
                           /\ "main" \notin Controllers
                           /\ "zero" \notin Speeds
                           /\ "none" \notin Speeds \cup Directions
                           /\ MaxThreads \in Nat \ {0}
                           /\ Faults \subseteq Modbus!FaultKinds

\* A potentiometer at "zero" asks for rest.
Values == [dir : Directions, pot : Speeds \cup {"zero"}]

NoValue == [dir |-> "none", pot |-> "none"]

\* dir is current_jog_direction ("none": NO_DIRECTION), speed current_speed.
Absent == [pc |-> "none", dir |-> "none", speed |-> "zero"]
Fresh == [pc |-> "loop", dir |-> "none", speed |-> "zero"]

Init == /\ Modbus!Init
        /\ SMD_CONNECTED = 0 /\ STATUS_MANUAL_MODE_ENABLE = 0
        /\ serving = "none"
        /\ ctl = [c \in Controllers |-> Absent]
        /\ file = NoValue

Jog(d, v) == Modbus!Command("jog", d, v)
Plain(name) == Modbus!Command(name, "none", "none")

\* modbus_close on the command connection; "all motion stops immediately"
\* (SMD_Motor_Commands.h:33) is the drive's part.
CloseCommandConnection ==
    /\ SMD_CONNECTED' = 0
    /\ STATUS_MANUAL_MODE_ENABLE' = 0
    /\ drive' = [drive EXCEPT !.motion = Modbus!Stopped]

-----------------------------------------------------------------------------
(* The main thread. *)

Connect ==
    /\ serving = "none" /\ SMD_CONNECTED = 0
    /\ SMD_CONNECTED' = 1
    /\ UNCHANGED <<frame, drive, STATUS_MANUAL_MODE_ENABLE, serving, ctl, file>>

\* Fault: the flag outlives the connection.
CloseKeepsFlag ==
    /\ serving = "none" /\ SMD_CONNECTED = 1
    /\ SMD_CONNECTED' = 0
    /\ drive' = [drive EXCEPT !.motion = Modbus!Stopped]
    /\ UNCHANGED <<frame, STATUS_MANUAL_MODE_ENABLE, serving, ctl, file>>

\* Fault: the connection is closed under a command that is still being sent.
DisconnectMidway ==
    /\ SMD_CONNECTED = 1
    /\ CloseCommandConnection
    /\ UNCHANGED <<frame, serving, ctl, file>>

\* disconnect, or the client has left, at any time in manual mode too.
Disconnect ==
    /\ serving = "none" /\ SMD_CONNECTED = 1
    /\ CloseCommandConnection
    /\ UNCHANGED <<frame, serving, ctl, file>>

(***************************************************************************)
(* The flag is raised before the thread is created.  A patient client (an  *)
(* assumption of some runs, not of the code) starts manual mode only with  *)
(* the motor at rest and no controller left of an earlier start.           *)
(***************************************************************************)
StartManualMode ==
    /\ serving = "none" /\ SMD_CONNECTED = 1 /\ STATUS_MANUAL_MODE_ENABLE = 0
    /\ \E c \in Controllers : ctl[c] = Absent
    /\ Patient => /\ drive.motion = Modbus!Stopped
                  /\ \A c \in Controllers : ctl[c] = Absent
    /\ STATUS_MANUAL_MODE_ENABLE' = 1
    /\ serving' = "startManualMode"
    /\ UNCHANGED <<frame, drive, SMD_CONNECTED, ctl, file>>

CreateController ==
    /\ serving = "startManualMode"
    /\ serving' = "none"
    /\ \/ \E c \in Controllers : ctl[c] = Absent /\ ctl' = [ctl EXCEPT ![c] = Fresh]
       \/ "thread" \in Faults /\ UNCHANGED ctl
    /\ UNCHANGED <<frame, drive, SMD_CONNECTED, STATUS_MANUAL_MODE_ENABLE, file>>

StopManualMode ==
    /\ serving = "none" /\ SMD_CONNECTED = 1 /\ STATUS_MANUAL_MODE_ENABLE = 1
    /\ STATUS_MANUAL_MODE_ENABLE' = 0
    /\ serving' = "stopManualMode"
    /\ Modbus!Call("main", Plain("immediate_stop"))
    /\ UNCHANGED <<SMD_CONNECTED, ctl, file>>

ManualResetErrors ==
    /\ serving = "none" /\ SMD_CONNECTED = 1 /\ STATUS_MANUAL_MODE_ENABLE = 1
    /\ serving' = "resetErrors"
    /\ Modbus!Call("main", Plain("reset_errors"))
    /\ UNCHANGED <<SMD_CONNECTED, STATUS_MANUAL_MODE_ENABLE, ctl, file>>

\* What the client of the standard scenario may do to the motor meanwhile.
ClientCommand ==
    /\ ~Patient
    /\ serving = "none" /\ SMD_CONNECTED = 1 /\ STATUS_MANUAL_MODE_ENABLE = 0
    /\ serving' = "command"
    /\ \/ \E d \in Directions, v \in Speeds : Modbus!Call("main", Jog(d, v))
       \/ Modbus!Call("main", Plain("hold_move"))
    /\ UNCHANGED <<SMD_CONNECTED, STATUS_MANUAL_MODE_ENABLE, ctl, file>>

\* The call of the main thread is back; a stop that failed disconnects.
MainResumes ==
    /\ serving \in {"stopManualMode", "resetErrors", "command"}
    /\ Modbus!At("main", "returned")
    /\ Modbus!Goto("main", Modbus!Idle)
    /\ serving' = "none"
    /\ IF serving = "stopManualMode" /\ frame["main"].result = "FAILED"
       THEN CloseCommandConnection
       ELSE UNCHANGED <<drive, SMD_CONNECTED, STATUS_MANUAL_MODE_ENABLE>>
    /\ UNCHANGED <<ctl, file>>

-----------------------------------------------------------------------------
(* _manual_mode_controller. *)

shared == <<SMD_CONNECTED, STATUS_MANUAL_MODE_ENABLE, serving, file>>

Becomes(c, pc, dir, speed) == ctl' = [ctl EXCEPT ![c] = [pc |-> pc, dir |-> dir, speed |-> speed]]

\* Fault: the loop goes on as long as the drive is connected.
LoopTestsConnection(c) ==
    /\ ctl[c].pc = "loop"
    /\ ctl' = [ctl EXCEPT ![c] = IF SMD_CONNECTED = 1 THEN [@ EXCEPT !.pc = "read"] ELSE Absent]
    /\ UNCHANGED <<frame, drive, shared>>

\* The flag is looked at once per turn; the thread ends when it is down.
Loop(c) ==
    /\ ctl[c].pc = "loop"
    /\ ctl' = [ctl EXCEPT ![c] = IF STATUS_MANUAL_MODE_ENABLE = 1
                                 THEN [@ EXCEPT !.pc = "read"] ELSE Absent]
    /\ UNCHANGED <<frame, drive, shared>>

\* No file, or nothing in it.
ReadNothing(c) ==
    /\ ctl[c].pc = "read" /\ file = NoValue
    /\ ctl' = [ctl EXCEPT ![c].pc = "loop"]
    /\ UNCHANGED <<frame, drive, shared>>

\* Fault: the speed of the first jog is not noted.
FirstValueForgotten(c) ==
    /\ ctl[c].pc = "read" /\ file # NoValue /\ ctl[c].dir = "none"
    /\ IF file.pot = "zero"
       THEN Becomes(c, "loop", file.dir, "zero") /\ UNCHANGED <<frame, drive>>
       ELSE /\ Becomes(c, "first", file.dir, "zero")
            /\ Modbus!Call(c, Jog(file.dir, file.pot))
    /\ UNCHANGED shared

\* current_jog_direction is NO_DIRECTION: "just do it".
FirstValue(c) ==
    /\ ctl[c].pc = "read" /\ file # NoValue /\ ctl[c].dir = "none"
    /\ IF file.pot = "zero"
       THEN Becomes(c, "loop", file.dir, "zero") /\ UNCHANGED <<frame, drive>>
       ELSE /\ Becomes(c, "first", file.dir, file.pot)
            /\ Modbus!Call(c, Jog(file.dir, file.pot))
    /\ UNCHANGED shared

\* The potentiometer is at zero: hold, unless the controller thinks the motor
\* is at rest already.
ZeroValue(c) ==
    /\ ctl[c].pc = "read" /\ ctl[c].dir # "none" /\ file.pot = "zero"
    /\ IF ctl[c].speed = "zero"
       THEN Becomes(c, "loop", file.dir, "zero") /\ UNCHANGED <<frame, drive>>
       ELSE /\ Becomes(c, "zero", file.dir, "zero")
            /\ Modbus!Call(c, Plain("hold_move"))
    /\ UNCHANGED shared

\* Fault: a change of direction is sent like a change of speed.
ChangedWithoutHold(c) ==
    /\ ctl[c].pc = "read" /\ ctl[c].dir # "none" /\ file.pot \in Speeds
    /\ IF file = [dir |-> ctl[c].dir, pot |-> ctl[c].speed]
       THEN Becomes(c, "loop", ctl[c].dir, ctl[c].speed) /\ UNCHANGED <<frame, drive>>
       ELSE /\ Becomes(c, "jog", file.dir, file.pot)
            /\ Modbus!Call(c, Jog(file.dir, file.pot))
    /\ UNCHANGED shared

\* A new speed is sent at once, a new direction after a hold.
ChangedValue(c) ==
    /\ ctl[c].pc = "read" /\ ctl[c].dir # "none" /\ file.pot \in Speeds
    /\ IF file = [dir |-> ctl[c].dir, pot |-> ctl[c].speed]
       THEN Becomes(c, "loop", ctl[c].dir, ctl[c].speed) /\ UNCHANGED <<frame, drive>>
       ELSE IF file.dir # ctl[c].dir
       THEN /\ Becomes(c, "turn", file.dir, file.pot)
            /\ Modbus!Call(c, Plain("hold_move"))
       ELSE /\ Becomes(c, "jog", file.dir, file.pot)
            /\ Modbus!Call(c, Jog(file.dir, file.pot))
    /\ UNCHANGED shared

\* The call is back, whatever its result; after the hold of a turn the thread
\* sleeps half a second, after the others 3 ms.
ControllerResumes(c) ==
    /\ ctl[c].pc \in {"first", "zero", "turn", "jog"}
    /\ Modbus!Resume(c)
    /\ ctl' = [ctl EXCEPT ![c].pc = IF @ = "turn" THEN "settle" ELSE "loop"]
    /\ UNCHANGED shared

\* The sleep is over: jog, without another look at the flag.
Settle(c) ==
    /\ ctl[c].pc = "settle"
    /\ ctl' = [ctl EXCEPT ![c].pc = "jog"]
    /\ Modbus!Call(c, Jog(ctl[c].dir, ctl[c].speed))
    /\ UNCHANGED shared

-----------------------------------------------------------------------------
(* send_modbus_command's own steps, and the Arduino. *)

MotorCall(s) ==
    /\ Modbus!Step(s)
    /\ UNCHANGED <<shared, ctl>>

\* A controller that outlives the command connection names the drive by a
\* freed string: the connection may be made, as in MotorCall, or may fail.
StrayConnectFails(c) ==
    /\ SMD_CONNECTED = 0
    /\ Modbus!At(c, "connect")
    /\ Modbus!Goto(c, [frame[c] EXCEPT !.pc = "returned", !.result = "FAILED"])
    /\ UNCHANGED <<drive, shared, ctl>>

FileChanges ==
    /\ file' \in Values \cup {NoValue}
    /\ UNCHANGED <<frame, drive, SMD_CONNECTED, STATUS_MANUAL_MODE_ENABLE, serving, ctl>>

-----------------------------------------------------------------------------
Main == \/ Connect \/ Disconnect \/ StartManualMode \/ CreateController
        \/ StopManualMode \/ ManualResetErrors \/ ClientCommand \/ MainResumes

Controller(c) == \/ Loop(c) \/ ReadNothing(c) \/ FirstValue(c) \/ ZeroValue(c)
                 \/ ChangedValue(c) \/ ControllerResumes(c) \/ Settle(c)

Next == \/ Main
        \/ \E c \in Controllers : Controller(c) \/ StrayConnectFails(c)
        \/ \E s \in Senders : MotorCall(s)
        \/ FileChanges

Spec == Init /\ [][Next]_vars

\* Threads that can run do; the client and the Arduino need do nothing more.
FairSpec == /\ Spec
            /\ WF_vars(CreateController \/ MainResumes)
            /\ \A c \in Controllers : WF_vars(Controller(c))
            /\ \A s \in Senders : WF_vars(MotorCall(s))

-----------------------------------------------------------------------------
(* Properties. *)

Calling == {"first", "zero", "turn", "jog"}

SoleController ==
    /\ serving = "startManualMode" =>
           drive.motion = Modbus!Stopped /\ \A c \in Controllers : ctl[c].pc = "none"
    /\ \A b, c \in Controllers : ctl[b].pc # "none" /\ ctl[c].pc # "none" => b = c

\* The call a controller waits for is the one its local variables ask for.
CallFits(c) ==
    /\ ctl[c].pc \in {"first", "jog"} => frame[c].cmd = Jog(ctl[c].dir, ctl[c].speed)
    /\ ctl[c].pc \in {"zero", "turn"} => frame[c].cmd = Plain("hold_move")
    /\ ctl[c].pc \in {"turn", "settle"} => ctl[c].dir \in Directions /\ ctl[c].speed \in Speeds

\* A hold has nothing left to stop once its last register is written, or when
\* the command connection was closed before it could connect.
HoldDone(c) == \/ Modbus!At(c, "returned")
               \/ Modbus!At(c, "write") /\ frame[c].next > 3
               \/ SMD_CONNECTED = 0 /\ ~Modbus!At(c, "write")

\* What the controller believes about the motor is so.
MotionFits(c) ==
    drive.motion # Modbus!Stopped =>
        /\ ctl[c].pc \in {"loop", "read", "first", "jog"} => drive.motion.dir = ctl[c].dir
        /\ ctl[c].pc \in {"loop", "read"} => ctl[c].dir # "none" /\ ctl[c].speed # "zero"
        /\ ctl[c].pc = "read" => SMD_CONNECTED = 1
        /\ ctl[c].pc \in {"zero", "turn"} => ~HoldDone(c)
        /\ ctl[c].pc # "settle"

MotionKnown ==
    /\ \A s \in Senders : frame[s].retries = 0
    /\ frame["main"].cmd.name \notin Modbus!Moves
    /\ \A c \in Controllers : MotionFits(c)

\* Variables have their types, a thread is in a call of send_modbus_command
\* exactly when it waits for one, and the flag is up only while connected.
TypeOK ==
    /\ Modbus!TypeOK
    /\ SMD_CONNECTED \in {0, 1} /\ STATUS_MANUAL_MODE_ENABLE \in {0, 1}
    /\ STATUS_MANUAL_MODE_ENABLE = 1 => SMD_CONNECTED = 1
    /\ serving \in {"none", "startManualMode", "stopManualMode", "resetErrors", "command"}
    /\ ctl \in [Controllers -> [pc : {"none", "loop", "read", "settle"} \cup Calling,
                                dir : Directions \cup {"none"},
                                speed : Speeds \cup {"zero"}]]
    /\ file \in Values \cup {NoValue}
    /\ \A c \in Controllers : ctl[c].pc \in Calling <=> ~Modbus!At(c, "idle")
    /\ serving \in {"none", "startManualMode"} <=> Modbus!At("main", "idle")

\* A controller waits for the call its local variables ask for.  When nothing
\* fails, a patient client has one controller at a time, and that one's local
\* variables tell the truth about the motor, which it never reads: the motor
\* rests or turns in current_jog_direction, and it rests when there is none yet,
\* when current_speed is zero, and once a hold is over.
ControllerKnowsMotion ==
    /\ \A c \in Controllers : CallFits(c)
    /\ Patient /\ Faults = {} => SoleController /\ MotionKnown

\* The conjunction is inductive.
Inv == Modbus!Inv /\ TypeOK /\ ControllerKnowsMotion

\* A controller that has jogged the motor never reverses it while it turns: it
\* sends the new direction only after its hold stopped the motor, although the
\* client may stop, reset, disconnect and reconnect between its writes.  The
\* first jog of a controller is not covered: it holds nothing.
ReversesThroughStop ==
    [][\A c \in Controllers :
          ctl[c].pc = "jog" /\ frame'[c].taken # frame[c].taken
             /\ drive'.motion.dir # drive.motion.dir
          => drive.motion = Modbus!Stopped]_vars

\* A motor that rests while no drive is connected is moved by nothing but the
\* jog of a controller that outlived its connection: for any client and any
\* faults, the main thread leaves no command behind when it closes.
OnlyStraysMove ==
    [][SMD_CONNECTED = 0 /\ drive.motion = Modbus!Stopped /\ drive'.motion # Modbus!Stopped
          => \E c \in Controllers : ctl[c].pc \in {"first", "jog"} /\ MotorCall(c)]_vars

\* How far a controller is from its end, in actions of its own, while the flag
\* is down: at most a turn, with its hold, its sleep and its jog.
TurnLeft == [none |-> 0, loop |-> 1, first |-> 2, zero |-> 2, jog |-> 2, settle |-> 3,
             turn |-> 4, read |-> 5]

\* With the flag down a controller only comes nearer to its end, and none is
\* created: after stopManualMode there is at most one more turn of each.
ControllersRunDown ==
    [][STATUS_MANUAL_MODE_ENABLE = 0 =>
          \A c \in Controllers : \/ ctl'[c] = ctl[c]
                                 \/ TurnLeft[ctl'[c].pc] < TurnLeft[ctl[c].pc]]_vars

\* A potentiometer left at zero stops the motor.
ZeroStops ==
    (STATUS_MANUAL_MODE_ENABLE = 1 /\ file.pot = "zero")
        ~> \/ drive.motion = Modbus!Stopped
           \/ file.pot # "zero"
           \/ STATUS_MANUAL_MODE_ENABLE = 0

\* Once the flag is down and stays down, every controller ends: however many
\* there are, and whatever becomes of their calls.
ControllersEnd ==
    (STATUS_MANUAL_MODE_ENABLE = 0)
        ~> \/ STATUS_MANUAL_MODE_ENABLE = 1
           \/ \A c \in Controllers : ctl[c] = Absent

\* SMD_Motor_Commands.h:33 of SMD_close_command_connection: "When the
\* connection is lost, all motion stops immediately."
ClosedMeansStopped == SMD_CONNECTED = 0 => drive.motion = Modbus!Stopped
=============================================================================
