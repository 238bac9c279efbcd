----------------------------- MODULE ModbusSend -----------------------------
(***************************************************************************)
(* send_modbus_command: how one SMD_* call becomes register writes.  The   *)
(* caller creates a thread and joins it; the thread opens a connection of  *)
(* its own to the drive, writes the registers of the command one by one,   *)
(* and leaves a result.  Nothing orders the threads of different callers.  *)
(*                                                                         *)
(* The drive (external) is what the source takes it for: registers that    *)
(* keep what was written, and a motion that starts when a command bit is   *)
(* set in register 1024, with the parameters the registers hold then, and  *)
(* goes on until it is held or stopped (SMD_Motor_Commands.h:97).          *)
(***************************************************************************)
EXTENDS Naturals, Sequences

CONSTANTS
    Senders,      \* threads that call SMD_* functions
    Directions,   \* directions a motion may have
    Args,         \* parameter sets (speed, acceleration, ...) a motion may have
    MaxThreads,   \* bound: threads a sender's retries get before pthread_create fails
    Faults,       \* what may go wrong, a subset of FaultKinds
    CallsOf       \* per sender: the commands it sends

(***************************************************************************)
(* "thread": pthread_create fails.  "route": modbus_connect fails.         *)
(* "EBADF": it fails and leaves errno 9.  "lost": a write fails.  (A write  *)
(* that is reported to have failed although the drive has taken it differs *)
(* from a good one only in the log.)                                       *)
(***************************************************************************)
FaultKinds == {"thread", "route", "EBADF", "lost"}

VARIABLES
    frame,     \* per sender: the call of send_modbus_command it is in
    drive      \* registers and motion of the drive

vars == <<frame, drive>>

\* Fault: jog starts the motor before it has sent the ramp.
WritesMoveEarly == [
    jog            |-> <<"clear", "mode", "speed", "move", "ramp">>,
    find_home      |-> <<"mode", "speed", "ramp", "move">>,
    hold_move      |-> <<"clear", "mode", "stop">>,
    immediate_stop |-> <<"mode", "stop">>,
    reset_errors   |-> <<"clear", "reset", "mode">>,
    drive_enable   |-> <<"mode", "clear">>]

\* What the names in the functions of SMD_Motor_Commands.c stand for.  The
\* registers 1026 to 1033 are kept apart only as speed (1028, 1029) and ramp
\* (acceleration, deceleration, jerk); "mode" is register 1025, the others are
\* values of register 1024.
Writes == [
    jog            |-> <<"clear", "mode", "speed", "ramp", "move">>,
    find_home      |-> <<"mode", "speed", "ramp", "move">>,
    hold_move      |-> <<"clear", "mode", "stop">>,
    immediate_stop |-> <<"mode", "stop">>,
    reset_errors   |-> <<"clear", "reset", "mode">>,
    drive_enable   |-> <<"mode", "clear">>]

Commands == {"jog", "find_home", "hold_move", "immediate_stop", "reset_errors",
             "drive_enable"}

\* The commands with a direction and parameters.
Moves == {"jog", "find_home"}

ASSUME ModbusAssumption ==
    /\ MaxThreads \in Nat \ {0}
    /\ Faults \subseteq FaultKinds
    /\ "none" \notin Args \cup Directions
    /\ \A s \in Senders : CallsOf[s] \subseteq Commands

\* The commands the connection thread sends again by itself.
Resent == {"hold_move", "immediate_stop"}

Command(n, d, a) == [name |-> n, dir |-> d, arg |-> a]

CommandType == [name : Moves, dir : Directions, arg : Args]
               \cup [name : Commands \ Moves, dir : {"none"}, arg : {"none"}]

Stopped == [dir |-> "none", speed |-> "none", ramp |-> "none"]

Motions == [dir : Directions \cup {"none"}, speed : Args \cup {"none"}, ramp : Args \cup {"none"}]

NoCommand == [name |-> "none", dir |-> "none", arg |-> "none"]

\* taken: how many writes of the command have reached the drive.
Idle == [pc |-> "idle", cmd |-> NoCommand, next |-> 1, taken |-> 0, retries |-> 0,
         result |-> "none"]

Init == /\ frame = [s \in Senders |-> Idle]
        /\ drive = [speed |-> "none", ramp |-> "none", motion |-> Stopped]

Plan(s) == Writes[frame[s].cmd.name]

\* What a write does to the drive (external).
Effect(w, cmd) ==
    CASE w = "speed" -> [drive EXCEPT !.speed = cmd.arg]
      [] w = "ramp"  -> [drive EXCEPT !.ramp = cmd.arg]
      [] w = "move"  -> [drive EXCEPT !.motion = [dir |-> cmd.dir, speed |-> drive.speed,
                                                  ramp |-> drive.ramp]]
      [] w = "stop"  -> [drive EXCEPT !.motion = Stopped]
      [] OTHER       -> drive

At(s, point) == frame[s].pc = point

Goto(s, f) == frame' = [frame EXCEPT ![s] = f]

-----------------------------------------------------------------------------
(* send_modbus_command, and pthread_create in it.                           *)

Call(s, cmd) ==
    /\ At(s, "idle")
    /\ Goto(s, [frame[s] EXCEPT !.pc = "create", !.cmd = cmd])
    /\ UNCHANGED drive

CreateThread(s) ==
    /\ At(s, "create")
    /\ frame[s].retries < MaxThreads
    /\ Goto(s, [frame[s] EXCEPT !.pc = "connect"])
    /\ UNCHANGED drive

\* FAILED, with nothing sent; always once the threads are used up.
CreateThreadFails(s) ==
    /\ At(s, "create")
    /\ "thread" \in Faults \/ frame[s].retries = MaxThreads
    /\ Goto(s, [frame[s] EXCEPT !.pc = "returned", !.result = "FAILED"])
    /\ UNCHANGED drive

-----------------------------------------------------------------------------
(* _send_modbus_command, in the new thread.                                 *)

Connect(s) ==
    /\ At(s, "connect")
    /\ Goto(s, [frame[s] EXCEPT !.pc = "write", !.next = 1])
    /\ UNCHANGED drive

ConnectFails(s) ==
    /\ At(s, "connect")
    /\ \/ "route" \in Faults
       \/ "EBADF" \in Faults /\ frame[s].cmd.name \notin Resent
    /\ Goto(s, [frame[s] EXCEPT !.pc = "returned", !.result = "FAILED"])
    /\ UNCHANGED drive

\* Fault: any command is sent again, not only those that stop the motor.
ResendAnything(s) ==
    /\ At(s, "connect")
    /\ "EBADF" \in Faults
    /\ Goto(s, [frame[s] EXCEPT !.pc = "create", !.retries = @ + 1])
    /\ UNCHANGED drive

\* Fault: the thread does not wait for the one it creates, so nothing ends the
\* retries.
ResendWithoutEnd(s) ==
    /\ At(s, "connect")
    /\ "EBADF" \in Faults /\ frame[s].cmd.name \in Resent
    /\ Goto(s, [frame[s] EXCEPT !.pc = "create"])
    /\ UNCHANGED drive

\* errno 9: the thread sleeps 50 ms and calls SMD_hold_move or SMD_immed_stop
\* anew, which creates and joins a thread of its own; this one keeps waiting.
Resend(s) ==
    /\ At(s, "connect")
    /\ "EBADF" \in Faults /\ frame[s].cmd.name \in Resent
    /\ Goto(s, [frame[s] EXCEPT !.pc = "create", !.retries = @ + 1])
    /\ UNCHANGED drive

\* Fault: the loop takes one turn too many.
WriteOneTooMany(s) ==
    /\ At(s, "write")
    /\ frame[s].next \in 1 .. Len(Plan(s)) + 1
    /\ \/ /\ frame[s].next \in DOMAIN Plan(s)
          /\ Goto(s, [frame[s] EXCEPT !.next = @ + 1, !.taken = @ + 1])
          /\ drive' = Effect(Plan(s)[frame[s].next], frame[s].cmd)
       \/ /\ "lost" \in Faults
          /\ Goto(s, [frame[s] EXCEPT !.next = @ + 1])
          /\ UNCHANGED drive

\* One modbus_write_register.  The loop goes on after one that failed.
WriteRegister(s) ==
    /\ At(s, "write")
    /\ frame[s].next \in DOMAIN Plan(s)
    /\ \/ /\ Goto(s, [frame[s] EXCEPT !.next = @ + 1, !.taken = @ + 1])
          /\ drive' = Effect(Plan(s)[frame[s].next], frame[s].cmd)
       \/ /\ "lost" \in Faults
          /\ Goto(s, [frame[s] EXCEPT !.next = @ + 1])
          /\ UNCHANGED drive

\* Fault: a command of which a write was lost is sent once more.
FinishSendsAgain(s) ==
    /\ At(s, "write")
    /\ frame[s].next \notin DOMAIN Plan(s)
    /\ \/ /\ frame[s].taken < Len(Plan(s)) /\ frame[s].retries < MaxThreads
          /\ Goto(s, [frame[s] EXCEPT !.next = 1, !.taken = 0, !.retries = @ + 1])
       \/ Goto(s, [frame[s] EXCEPT !.pc = "returned", !.result = "SUCCESS"])
    /\ UNCHANGED drive

\* The connection is closed and the result is SUCCESS, whatever the writes
\* returned.  The threads that were waiting for a resent command then leave
\* FAILED in the results of their own callers: only the first caller's counts.
Finish(s) ==
    /\ At(s, "write")
    /\ frame[s].next \notin DOMAIN Plan(s)
    /\ Goto(s, [frame[s] EXCEPT !.pc = "returned",
                    !.result = IF frame[s].retries = 0 THEN "SUCCESS" ELSE "FAILED"])
    /\ UNCHANGED drive

\* The caller goes on with the result.
Resume(s) ==
    /\ At(s, "returned")
    /\ Goto(s, Idle)
    /\ UNCHANGED drive

-----------------------------------------------------------------------------
\* What happens to a call between its start and its return.
Step(s) == \/ CreateThread(s) \/ CreateThreadFails(s)
           \/ Connect(s) \/ ConnectFails(s) \/ Resend(s)
           \/ WriteRegister(s) \/ Finish(s)

Next == \E s \in Senders :
            \/ \E cmd \in CommandType : cmd.name \in CallsOf[s] /\ Call(s, cmd)
            \/ Step(s)
            \/ Resume(s)

Spec == Init /\ [][Next]_vars

\* A thread that was created runs, and connecting, writing and joining end.
FairSpec == Spec /\ \A s \in Senders : WF_vars(Step(s))

-----------------------------------------------------------------------------
(* Properties. *)

FrameType == [pc : {"idle", "create", "connect", "write", "returned"},
              cmd : CommandType \cup {NoCommand},
              next : 1 .. 6,
              taken : 0 .. 5,
              retries : 0 .. MaxThreads,
              result : {"none", "SUCCESS", "FAILED"}]

\* Frames and registers have values of their types, and no write is attempted
\* beyond the end of a command.
TypeOK ==
    /\ frame \in [Senders -> FrameType]
    /\ \A s \in Senders :
           IF At(s, "idle")
           THEN frame[s] = Idle
           ELSE /\ frame[s].cmd \in CommandType
                /\ frame[s].next <= Len(Plan(s)) + 1
                /\ frame[s].taken < frame[s].next
    /\ drive \in [speed : Args \cup {"none"}, ramp : Args \cup {"none"}, motion : Motions]

\* Only one sender moves the motor (the others may stop it).
OneMover == \A s, t \in Senders :
                CallsOf[s] \cap Moves # {} /\ CallsOf[t] \cap Moves # {} => s = t

\* What the retries and the other senders leave alone: only a stop is sent
\* again, nothing is written before the connection is there, and the registers
\* a sole mover has written so far still hold its values.
CallState == \A s \in Senders :
    /\ ~At(s, "idle") => frame[s].cmd.name \in CallsOf[s]
    /\ At(s, "create") \/ At(s, "connect") => frame[s].taken = 0
    /\ At(s, "connect") => frame[s].retries < MaxThreads
    /\ frame[s].retries > 0 => frame[s].cmd.name \in Resent
    /\ OneMover /\ At(s, "write") /\ frame[s].cmd.name \in Moves
          /\ frame[s].taken = frame[s].next - 1
       => \A k \in 1 .. frame[s].next - 1 :
             /\ Plan(s)[k] = "speed" => drive.speed = frame[s].cmd.arg
             /\ Plan(s)[k] = "ramp" => drive.ramp = frame[s].cmd.arg

\* A command that is reported FAILED has not touched the drive, unless it is
\* one of the two that stop the motor and are sent again: a jog that "failed"
\* never moves the motor.
FailedMeansUntouched ==
    \A s \in Senders :
        At(s, "returned") /\ frame[s].result = "FAILED" /\ frame[s].cmd.name \notin Resent
            => frame[s].taken = 0

\* The conjunction is inductive.
Inv == TypeOK /\ CallState /\ FailedMeansUntouched

\* If one sender alone moves the motor, a motion command all of whose writes
\* reached the drive moves it exactly as asked, although the stops and resets
\* of the other sender may come between its writes.
MotionIsAsAsked ==
    [][\A s \in Senders :
          /\ At(s, "write") /\ frame[s].cmd.name \in Moves
          /\ frame[s].taken < Len(Plan(s)) /\ frame'[s].taken = Len(Plan(s))
          => drive'.motion = [dir |-> frame[s].cmd.dir, speed |-> frame[s].cmd.arg,
                              ramp |-> frame[s].cmd.arg]]_vars

\* Where a call is, seen from its caller: the command acts on the motor with its
\* last write.
Order(s) == [cmd   |-> frame[s].cmd,
             stage |-> CASE At(s, "idle")     -> "none"
                         [] At(s, "returned") -> frame[s].result
                         [] OTHER -> IF frame[s].next > Len(Plan(s)) THEN "done" ELSE "asked",
             whole |-> frame[s].taken = frame[s].next - 1]

Motor == INSTANCE MotorOrder WITH
             Commands <- CommandType, SoleMover <- OneMover, MayLose <- "lost" \in Faults,
             order <- [s \in Senders |-> Order(s)], motion <- drive.motion

\* To its caller a command is one action on the motor, between call and return,
\* once or not at all, although its registers are written one by one, between
\* those of other threads, and over a connection that is tried again.
ImplementsMotorOrder == Motor!Spec

\* Every call returns, however often the connection fails with errno 9.
CallsReturn == \A s \in Senders : ~At(s, "idle") ~> At(s, "returned")

\* SMD_Constants.h:342 of COMMAND_SUCCESS: "Successful command (Modbus returned
\* success)", and of COMMAND_FAILED: "Failed command Modbus returned failure".
SuccessMeansAllWritten ==
    \A s \in Senders :
        At(s, "returned") /\ frame[s].result = "SUCCESS"
            => frame[s].taken = Len(Plan(s))
=============================================================================
