-------------------------- MODULE ModbusSendProofs --------------------------
(***************************************************************************)
(* What holds of send_modbus_command for every set of callers and every    *)
(* number of retries.                                                      *)
(***************************************************************************)
EXTENDS ModbusSend, TLAPS

(* The tables of register writes in SMD_Motor_Commands.c. *)
LEMMA WritesOfCommand ==
    ASSUME NEW n \in Commands
    PROVE  /\ Len(Writes[n]) \in 1 .. 5
           /\ DOMAIN Writes[n] = 1 .. Len(Writes[n])
<1>1. n \in {"jog", "find_home", "hold_move", "immediate_stop", "reset_errors",
             "drive_enable"}
  BY DEF Commands
<1>2. QED BY <1>1 DEF Writes

(* A motion command starts the motor last, after speed and ramp. *)
LEMMA MoveIsLast ==
    ASSUME NEW n \in Moves
    PROVE  /\ n \in Commands
           /\ \A k \in DOMAIN Writes[n] : Writes[n][k] # "stop"
           /\ \A k \in DOMAIN Writes[n] : Writes[n][k] = "move" <=> k = Len(Writes[n])
           /\ \E k \in 1 .. Len(Writes[n]) - 1 : Writes[n][k] = "speed"
           /\ \E k \in 1 .. Len(Writes[n]) - 1 : Writes[n][k] = "ramp"
<1>1. CASE n = "jog"
  <2>1. Writes[n] = <<"clear", "mode", "speed", "ramp", "move">>
    BY <1>1 DEF Writes
  <2>2. /\ 3 \in 1 .. Len(Writes[n]) - 1 /\ Writes[n][3] = "speed"
        /\ 4 \in 1 .. Len(Writes[n]) - 1 /\ Writes[n][4] = "ramp"
    BY <2>1
  <2>3. QED BY <1>1, <2>1, <2>2 DEF Commands
<1>2. CASE n = "find_home"
  <2>1. Writes[n] = <<"mode", "speed", "ramp", "move">>
    BY <1>2 DEF Writes
  <2>2. /\ 2 \in 1 .. Len(Writes[n]) - 1 /\ Writes[n][2] = "speed"
        /\ 3 \in 1 .. Len(Writes[n]) - 1 /\ Writes[n][3] = "ramp"
    BY <2>1
  <2>3. QED BY <1>2, <2>1, <2>2 DEF Commands
<1>3. QED BY <1>1, <1>2 DEF Moves

(* The other commands leave speed and ramp alone and start nothing. *)
LEMMA OthersDoNotMove ==
    ASSUME NEW n \in Commands \ Moves, NEW k \in DOMAIN Writes[n]
    PROVE  Writes[n][k] \notin {"speed", "ramp", "move"}
<1>1. n \in {"hold_move", "immediate_stop", "reset_errors", "drive_enable"}
  BY DEF Commands, Moves
<1>2. QED BY <1>1 DEF Writes

LEMMA ResentAreStops == Resent \cap Moves = {} /\ Resent \subseteq Commands
BY DEF Resent, Moves, Commands

(* A command in a frame is one of the six. *)
LEMMA NameOfCommand ==
    ASSUME NEW cmd \in CommandType
    PROVE  /\ cmd.name \in Commands
           /\ cmd.name \in Moves => cmd.dir \in Directions /\ cmd.arg \in Args
           /\ cmd # NoCommand
BY DEF CommandType, Moves, Commands, NoCommand

LEMMA EffectKeepsType ==
    ASSUME TypeOK, NEW cmd \in CommandType, NEW w,
           w \in {"speed", "ramp", "move"} => cmd.name \in Moves
    PROVE  Effect(w, cmd) \in [speed : Args \cup {"none"}, ramp : Args \cup {"none"},
                               motion : Motions]
BY NameOfCommand DEF TypeOK, Effect, Motions, Stopped

(* What a write does to the registers, one case each. *)
LEMMA EffectOnRegisters ==
    ASSUME TypeOK, NEW cmd, NEW w
    PROVE  /\ Effect(w, cmd).speed = IF w = "speed" THEN cmd.arg ELSE drive.speed
           /\ Effect(w, cmd).ramp = IF w = "ramp" THEN cmd.arg ELSE drive.ramp
           /\ w = "move" => Effect(w, cmd).motion = [dir |-> cmd.dir, speed |-> drive.speed,
                                                     ramp |-> drive.ramp]
BY DEF TypeOK, Effect

-----------------------------------------------------------------------------
(* The invariant is inductive. *)

LEMMA InitInv == Init => Inv
<1> SUFFICES ASSUME Init PROVE Inv
  OBVIOUS
<1>1. Idle \in FrameType
  BY ModbusAssumption DEF ModbusAssumption, Idle, FrameType
<1>2. TypeOK
  BY <1>1 DEF Init, TypeOK, At, Idle, Motions, Stopped
<1>3. CallState /\ FailedMeansUntouched
  BY DEF Init, CallState, FailedMeansUntouched, At, Idle
<1>4. QED BY <1>2, <1>3 DEF Inv

(* A step of one sender that leaves the drive as it is, and takes the sender *)
(* to a frame of the type: every step but a write.                          *)
LEMMA FrameKeepsType ==
    ASSUME TypeOK, NEW s \in Senders, NEW f \in FrameType,
           IF f.pc = "idle" THEN f = Idle
           ELSE /\ f.cmd \in CommandType
                /\ f.next <= Len(Writes[f.cmd.name]) + 1
                /\ f.taken < f.next,
           Goto(s, f), UNCHANGED drive
    PROVE  TypeOK'
BY DEF TypeOK, Goto, At, Plan

LEMMA IdleIsFrame == Idle \in FrameType
BY ModbusAssumption DEF ModbusAssumption, Idle, FrameType

LEMMA TypeStep == Inv /\ [Next]_vars => TypeOK'
<1> SUFFICES ASSUME Inv, [Next]_vars PROVE TypeOK'
  OBVIOUS
<1> USE DEF Inv
<1>1. CASE UNCHANGED vars
  BY <1>1 DEF vars, TypeOK, At, Plan
<1>2. ASSUME NEW s \in Senders, NEW cmd \in CommandType, Call(s, cmd) PROVE TypeOK'
  <2> DEFINE f == [frame[s] EXCEPT !.pc = "create", !.cmd = cmd]
  <2>1. frame[s] \in FrameType /\ frame[s].next = 1 /\ frame[s].taken = 0
    BY <1>2, IdleIsFrame DEF Call, TypeOK, Idle
  <2>2. f \in FrameType
    BY <2>1 DEF FrameType
  <2>3. /\ f.pc = "create" /\ f.cmd = cmd
        /\ f.next = frame[s].next /\ f.taken = frame[s].taken
    BY <2>1 DEF FrameType
  <2>4. frame[s].next <= Len(Writes[cmd.name]) + 1
    BY <2>1, NameOfCommand, WritesOfCommand
  <2>5. Goto(s, f) /\ UNCHANGED drive
    BY <1>2 DEF Call
  <2> HIDE DEF f
  <2>6. QED BY <2>1, <2>2, <2>3, <2>4, <2>5, FrameKeepsType
<1>3. ASSUME NEW s \in Senders, Step(s) PROVE TypeOK'
  <2>1. /\ frame[s] \in FrameType /\ frame[s].cmd \in CommandType
        /\ frame[s].next <= Len(Plan(s)) + 1 /\ frame[s].taken < frame[s].next
        /\ frame[s].pc # "idle"
    BY <1>3 DEF TypeOK, At, Step, CreateThread, CreateThreadFails, Connect, ConnectFails,
                Resend, WriteRegister, Finish
  <2>2. Len(Plan(s)) \in 1 .. 5 /\ DOMAIN Plan(s) = 1 .. Len(Plan(s))
    BY <2>1, NameOfCommand, WritesOfCommand DEF Plan
  <2>3. CASE CreateThread(s)
    <3> DEFINE f == [frame[s] EXCEPT !.pc = "connect"]
    <3>1. f \in FrameType /\ f.pc = "connect"
      BY <2>1 DEF FrameType
    <3>2. f.cmd = frame[s].cmd /\ f.next = frame[s].next /\ f.taken = frame[s].taken
      BY <2>1 DEF FrameType
    <3>3. QED BY <2>1, <2>3, <3>1, <3>2, FrameKeepsType DEF CreateThread, Plan
  <2>4. ASSUME NEW r \in {"SUCCESS", "FAILED"},
               Goto(s, [frame[s] EXCEPT !.pc = "returned", !.result = r]), UNCHANGED drive
        PROVE  TypeOK'
    <3> DEFINE f == [frame[s] EXCEPT !.pc = "returned", !.result = r]
    <3>1. f \in FrameType /\ f.pc = "returned"
      BY <2>1 DEF FrameType
    <3>2. f.cmd = frame[s].cmd /\ f.next = frame[s].next /\ f.taken = frame[s].taken
      BY <2>1 DEF FrameType
    <3>3. QED BY <2>1, <2>4, <3>1, <3>2, FrameKeepsType DEF Plan
  <2>5. CASE CreateThreadFails(s) \/ ConnectFails(s) \/ Finish(s)
    BY <2>5, <2>4 DEF CreateThreadFails, ConnectFails, Finish
  <2>6. CASE Connect(s)
    <3> DEFINE f(n) == [frame[s] EXCEPT !.pc = "write", !.next = n]
    <3>1. \A n \in 1 .. 6 :
             /\ f(n) \in FrameType
             /\ f(n).pc = "write" /\ f(n).cmd = frame[s].cmd /\ f(n).next = n
             /\ f(n).taken = frame[s].taken
      BY <2>1 DEF FrameType
    <3>2. Goto(s, f(1)) /\ UNCHANGED drive /\ frame[s].taken = 0
      BY <2>6 DEF Connect, CallState
    <3> HIDE DEF f
    <3>3. 1 <= Len(Writes[frame[s].cmd.name]) + 1
      BY <2>2 DEF Plan
    <3>4. QED BY <2>1, <3>1, <3>2, <3>3, FrameKeepsType
  <2>7. CASE Resend(s)
    <3> DEFINE f == [frame[s] EXCEPT !.pc = "create", !.retries = @ + 1]
    <3>0. frame[s].retries + 1 \in 0 .. MaxThreads
      BY <2>1, <2>7, ModbusAssumption DEF FrameType, Resend, CallState, ModbusAssumption
    <3>1. f \in FrameType /\ f.pc = "create"
      BY <2>1, <3>0 DEF FrameType
    <3>2. f.cmd = frame[s].cmd /\ f.next = frame[s].next /\ f.taken = frame[s].taken
      BY <2>1 DEF FrameType
    <3>3. QED BY <2>1, <2>7, <3>1, <3>2, FrameKeepsType DEF Resend, Plan
  <2>8. CASE WriteRegister(s)
    <3>1. frame[s].next \in 1 .. Len(Plan(s))
      BY <2>2, <2>8 DEF WriteRegister
    <3>2. \E f \in FrameType :
              /\ Goto(s, f)
              /\ f.cmd = frame[s].cmd /\ f.pc = "write" /\ f.next = frame[s].next + 1
              /\ f.taken < f.next
      <4> DEFINE f(n, t) == [frame[s] EXCEPT !.next = n, !.taken = t]
                 g(n) == [frame[s] EXCEPT !.next = n]
      <4>1. \A n \in 1 .. 6, t \in 0 .. 5 :
               /\ f(n, t) \in FrameType
               /\ f(n, t).pc = frame[s].pc /\ f(n, t).cmd = frame[s].cmd
               /\ f(n, t).next = n /\ f(n, t).taken = t
        BY <2>1 DEF FrameType
      <4>2. \A n \in 1 .. 6 :
               /\ g(n) \in FrameType
               /\ g(n).pc = frame[s].pc /\ g(n).cmd = frame[s].cmd
               /\ g(n).next = n /\ g(n).taken = frame[s].taken
        BY <2>1 DEF FrameType
      <4>3. \/ Goto(s, f(frame[s].next + 1, frame[s].taken + 1))
            \/ Goto(s, g(frame[s].next + 1))
        BY <2>8 DEF WriteRegister
      <4>4. /\ frame[s].next + 1 \in 1 .. 6
            /\ frame[s].taken \in 0 .. 4 /\ frame[s].taken + 1 \in 0 .. 5
            /\ frame[s].taken < frame[s].next /\ frame[s].next \in 1 .. 5
        BY <2>1, <2>2, <3>1 DEF FrameType
      <4>5. frame[s].pc = "write"
        BY <2>8 DEF WriteRegister, At
      <4> HIDE DEF f, g
      <4>6. CASE Goto(s, f(frame[s].next + 1, frame[s].taken + 1))
        BY <4>1, <4>4, <4>5, <4>6
      <4>7. CASE Goto(s, g(frame[s].next + 1))
        BY <4>2, <4>4, <4>5, <4>7
      <4>8. QED BY <4>3, <4>6, <4>7
    <3>3. drive' \in [speed : Args \cup {"none"}, ramp : Args \cup {"none"},
                      motion : Motions]
      <4>1. CASE UNCHANGED drive
        BY <4>1 DEF TypeOK
      <4>2. CASE drive' = Effect(Plan(s)[frame[s].next], frame[s].cmd)
        <5>1. Plan(s)[frame[s].next] \in {"speed", "ramp", "move"}
                 => frame[s].cmd.name \in Moves
          BY <2>1, <2>2, <3>1, NameOfCommand, OthersDoNotMove DEF Plan
        <5>2. QED BY <2>1, <4>2, <5>1, EffectKeepsType
      <4>3. QED BY <2>8, <4>1, <4>2 DEF WriteRegister
    <3>4. QED BY <2>1, <2>2, <3>1, <3>2, <3>3 DEF TypeOK, Goto, At, Plan
  <2>9. QED BY <1>3, <2>3, <2>5, <2>6, <2>7, <2>8 DEF Step
<1>4. ASSUME NEW s \in Senders, Resume(s) PROVE TypeOK'
  <2>1. Idle.pc = "idle"
    BY DEF Idle
  <2>2. QED BY <1>4, <2>1, IdleIsFrame, FrameKeepsType DEF Resume
<1>5. QED BY <1>1, <1>2, <1>3, <1>4 DEF Next

(* Between its steps a call keeps what the retries must not disturb.  Only   *)
(* the last conjunct, about the registers of a sole mover, can be disturbed  *)
(* by another sender, and then only by a motion command.                     *)
LEMMA CallStateStep == Inv /\ [Next]_vars => CallState'
<1> SUFFICES ASSUME Inv, [Next]_vars PROVE CallState'
  OBVIOUS
<1> USE DEF Inv
<1> DEFINE Kept(u) ==
      /\ ~At(u, "idle") => frame[u].cmd.name \in CallsOf[u]
      /\ At(u, "create") \/ At(u, "connect") => frame[u].taken = 0
      /\ At(u, "connect") => frame[u].retries < MaxThreads
      /\ frame[u].retries > 0 => frame[u].cmd.name \in Resent
    Registers(u) ==
      OneMover /\ At(u, "write") /\ frame[u].cmd.name \in Moves
          /\ frame[u].taken = frame[u].next - 1
       => \A k \in 1 .. frame[u].next - 1 :
             /\ Plan(u)[k] = "speed" => drive.speed = frame[u].cmd.arg
             /\ Plan(u)[k] = "ramp" => drive.ramp = frame[u].cmd.arg
<1>1. \A u \in Senders : Kept(u) /\ Registers(u)
  BY DEF CallState
<1>2. ASSUME NEW u \in Senders, UNCHANGED <<frame[u], drive>>
      PROVE  Kept(u)' /\ Registers(u)'
  BY <1>1, <1>2 DEF At, Plan
<1>3. CASE UNCHANGED vars
  BY <1>2, <1>3 DEF vars, CallState
<1>4. ASSUME NEW s \in Senders, NEW f, Goto(s, f)
      PROVE  /\ frame'[s] = f
             /\ \A u \in Senders \ {s} : frame'[u] = frame[u]
  BY <1>4 DEF Goto, TypeOK
<1>5. ASSUME NEW s \in Senders, NEW f, Goto(s, f), UNCHANGED drive,
             Kept(s)', Registers(s)'
      PROVE  CallState'
  <2>1. ASSUME NEW u \in Senders PROVE Kept(u)' /\ Registers(u)'
    BY <1>2, <1>4, <1>5
  <2>2. QED BY <2>1 DEF CallState
<1>6. ASSUME NEW s \in Senders, NEW cmd \in CommandType, Call(s, cmd),
             cmd.name \in CallsOf[s]
      PROVE  CallState'
  <2> DEFINE f == [frame[s] EXCEPT !.pc = "create", !.cmd = cmd]
  <2>1. /\ f.pc = "create" /\ f.cmd = cmd
        /\ f.taken = 0 /\ f.retries = 0
    BY <1>6 DEF Call, TypeOK, Idle
  <2>2. Goto(s, f) /\ UNCHANGED drive
    BY <1>6 DEF Call
  <2> HIDE DEF f
  <2>3. Kept(s)' /\ Registers(s)'
    BY <1>4, <1>6, <2>1, <2>2 DEF At
  <2>4. QED BY <1>5, <2>2, <2>3
<1>7. ASSUME NEW s \in Senders, Resume(s) PROVE CallState'
  <2>1. Idle.pc = "idle" /\ Idle.retries = 0
    BY DEF Idle
  <2>2. Goto(s, Idle) /\ UNCHANGED drive
    BY <1>7 DEF Resume
  <2>3. Kept(s)' /\ Registers(s)'
    BY <1>4, <2>1, <2>2 DEF At
  <2>4. QED BY <1>5, <2>2, <2>3
<1>8. ASSUME NEW s \in Senders, Step(s), ~WriteRegister(s) PROVE CallState'
  <2>1. frame[s] \in FrameType /\ frame[s].pc # "idle"
    BY <1>8 DEF TypeOK, At, Step, CreateThread, CreateThreadFails, Connect, ConnectFails,
                Resend, Finish
  <2>2. /\ frame[s].cmd.name \in CallsOf[s]
        /\ frame[s].retries > 0 => frame[s].cmd.name \in Resent
    BY <1>1, <2>1 DEF At
  <2>3. CASE CreateThread(s)
    <3> DEFINE f == [frame[s] EXCEPT !.pc = "connect"]
    <3>1. /\ f.pc = "connect" /\ f.cmd = frame[s].cmd
          /\ f.taken = frame[s].taken /\ f.retries = frame[s].retries
      BY <2>1 DEF FrameType
    <3>2. /\ Goto(s, f) /\ UNCHANGED drive
          /\ frame[s].retries < MaxThreads /\ frame[s].taken = 0
      BY <1>1, <2>3 DEF CreateThread
    <3> HIDE DEF f
    <3>3. Kept(s)' /\ Registers(s)'
      BY <1>4, <2>2, <3>1, <3>2 DEF At
    <3>4. QED BY <1>5, <3>2, <3>3
  <2>4. ASSUME NEW r, Goto(s, [frame[s] EXCEPT !.pc = "returned", !.result = r]),
               UNCHANGED drive
        PROVE  CallState'
    <3> DEFINE f == [frame[s] EXCEPT !.pc = "returned", !.result = r]
    <3>1. f.pc = "returned" /\ f.cmd = frame[s].cmd /\ f.retries = frame[s].retries
      BY <2>1 DEF FrameType
    <3>2. Goto(s, f)
      BY <2>4
    <3> HIDE DEF f
    <3>3. Kept(s)' /\ Registers(s)'
      BY <1>4, <2>2, <3>1, <3>2 DEF At
    <3>4. QED BY <1>5, <2>4, <3>2, <3>3
  <2>5. CASE CreateThreadFails(s) \/ ConnectFails(s) \/ Finish(s)
    BY <2>5, <2>4 DEF CreateThreadFails, ConnectFails, Finish
  <2>6. CASE Connect(s)
    <3> DEFINE f(n) == [frame[s] EXCEPT !.pc = "write", !.next = n]
    <3>1. \A n \in 1 .. 6 : /\ f(n).pc = "write" /\ f(n).cmd = frame[s].cmd
                             /\ f(n).next = n /\ f(n).retries = frame[s].retries
      BY <2>1 DEF FrameType
    <3>2. Goto(s, f(1)) /\ UNCHANGED drive
      BY <2>6 DEF Connect
    <3> HIDE DEF f
    <3>3. Kept(s)' /\ Registers(s)'
      BY <1>4, <2>2, <3>1, <3>2 DEF At
    <3>4. QED BY <1>5, <3>2, <3>3
  <2>7. CASE Resend(s)
    <3> DEFINE f == [frame[s] EXCEPT !.pc = "create", !.retries = @ + 1]
    <3>1. f.pc = "create" /\ f.cmd = frame[s].cmd /\ f.taken = frame[s].taken
      BY <2>1 DEF FrameType
    <3>2. /\ Goto(s, f) /\ UNCHANGED drive
          /\ frame[s].taken = 0 /\ frame[s].cmd.name \in Resent
      BY <1>1, <2>7 DEF Resend
    <3> HIDE DEF f
    <3>3. Kept(s)' /\ Registers(s)'
      BY <1>4, <2>2, <3>1, <3>2 DEF At
    <3>4. QED BY <1>5, <3>2, <3>3
  <2>8. QED BY <1>8, <2>3, <2>5, <2>6, <2>7 DEF Step
<1>9. ASSUME NEW s \in Senders, WriteRegister(s) PROVE CallState'
  <2> DEFINE w == Plan(s)[frame[s].next]
  <2>1. /\ frame[s] \in FrameType /\ frame[s].cmd \in CommandType
        /\ frame[s].pc = "write" /\ frame[s].cmd.name \in CallsOf[s]
        /\ frame[s].retries > 0 => frame[s].cmd.name \in Resent
        /\ frame[s].taken < frame[s].next
    BY <1>1, <1>9 DEF WriteRegister, TypeOK, At
  <2>2. frame[s].next \in 1 .. Len(Plan(s))
    BY <1>9, <2>1, NameOfCommand, WritesOfCommand DEF WriteRegister, Plan
  <2>3. \/ /\ Goto(s, [frame[s] EXCEPT !.next = @ + 1, !.taken = @ + 1])
           /\ drive' = Effect(w, frame[s].cmd)
        \/ /\ Goto(s, [frame[s] EXCEPT !.next = @ + 1])
           /\ UNCHANGED drive
    BY <1>9 DEF WriteRegister
  <2>4. /\ frame'[s].pc = "write" /\ frame'[s].cmd = frame[s].cmd
        /\ frame'[s].next = frame[s].next + 1 /\ frame'[s].retries = frame[s].retries
        /\ \/ frame'[s].taken = frame[s].taken + 1 /\ drive' = Effect(w, frame[s].cmd)
           \/ frame'[s].taken = frame[s].taken /\ UNCHANGED drive
        /\ \A u \in Senders \ {s} : frame'[u] = frame[u]
    <3> DEFINE f == [frame[s] EXCEPT !.next = @ + 1, !.taken = @ + 1]
               g == [frame[s] EXCEPT !.next = @ + 1]
    <3>1. /\ f.pc = frame[s].pc /\ f.cmd = frame[s].cmd /\ f.next = frame[s].next + 1
          /\ f.retries = frame[s].retries /\ f.taken = frame[s].taken + 1
      BY <2>1 DEF FrameType
    <3>2. /\ g.pc = frame[s].pc /\ g.cmd = frame[s].cmd /\ g.next = frame[s].next + 1
          /\ g.retries = frame[s].retries /\ g.taken = frame[s].taken
      BY <2>1 DEF FrameType
    <3>3. \/ Goto(s, f) /\ drive' = Effect(w, frame[s].cmd)
          \/ Goto(s, g) /\ UNCHANGED drive
      BY <2>3
    <3> HIDE DEF f, g, w
    <3>4. QED BY <1>4, <2>1, <3>1, <3>2, <3>3
  <2>5. /\ w # "speed" => drive'.speed = drive.speed
        /\ w # "ramp" => drive'.ramp = drive.ramp
    <3>1. CASE drive' = Effect(w, frame[s].cmd)
      BY <3>1, EffectOnRegisters
    <3>2. CASE UNCHANGED drive
      BY <3>2
    <3>3. QED BY <2>4, <3>1, <3>2
  <2>6. w \in {"speed", "ramp"} => frame[s].cmd.name \in Moves
    BY <2>1, <2>2, NameOfCommand, WritesOfCommand, OthersDoNotMove DEF Plan
  <2>7. ASSUME NEW u \in Senders \ {s} PROVE Kept(u)' /\ Registers(u)'
    <3>1. Kept(u)'
      BY <1>1, <2>4, <2>7 DEF At
    <3>2. SUFFICES ASSUME OneMover, At(u, "write"), frame[u].cmd.name \in Moves,
                          frame[u].taken = frame[u].next - 1,
                          NEW k \in 1 .. frame[u].next - 1
                   PROVE  /\ Plan(u)[k] = "speed" => drive'.speed = frame[u].cmd.arg
                          /\ Plan(u)[k] = "ramp" => drive'.ramp = frame[u].cmd.arg
      BY <2>4, <2>7, <3>1 DEF At, Plan, OneMover
    <3>3. frame[u].cmd.name \in CallsOf[u]
      BY <1>1, <3>2 DEF At
    <3>4. w \notin {"speed", "ramp"}
      BY <2>1, <2>6, <2>7, <3>2, <3>3 DEF OneMover
    <3>5. drive'.speed = drive.speed /\ drive'.ramp = drive.ramp
      BY <2>5, <3>4
    <3>6. QED BY <1>1, <3>2, <3>5
  <2>8. Kept(s)'
    BY <2>1, <2>4 DEF At
  <2>9. Registers(s)'
    <3>1. SUFFICES ASSUME OneMover, frame[s].cmd.name \in Moves,
                          frame'[s].taken = frame'[s].next - 1,
                          NEW k \in 1 .. frame[s].next
                   PROVE  /\ Plan(s)[k] = "speed" => drive'.speed = frame[s].cmd.arg
                          /\ Plan(s)[k] = "ramp" => drive'.ramp = frame[s].cmd.arg
      BY <2>1, <2>4 DEF At, Plan, OneMover, FrameType
    <3>2. /\ frame[s].taken \in Nat /\ frame[s].next \in Nat
      BY <2>1 DEF FrameType
    <3>3. /\ frame[s].taken = frame[s].next - 1
          /\ drive' = Effect(w, frame[s].cmd)
      BY <2>1, <2>4, <3>1, <3>2
    <3>4. /\ w = "speed" \/ drive'.speed = drive.speed
          /\ w = "ramp" \/ drive'.ramp = drive.ramp
          /\ w = "speed" => drive'.speed = frame[s].cmd.arg
          /\ w = "ramp" => drive'.ramp = frame[s].cmd.arg
      BY <3>3, EffectOnRegisters
    <3>5. CASE k = frame[s].next
      BY <3>4, <3>5
    <3>6. CASE k # frame[s].next
      <4>1. k \in 1 .. frame[s].next - 1
        BY <3>1, <3>2, <3>6
      <4>2. /\ Plan(s)[k] = "speed" => drive.speed = frame[s].cmd.arg
            /\ Plan(s)[k] = "ramp" => drive.ramp = frame[s].cmd.arg
        BY <1>1, <2>1, <3>1, <3>3, <4>1 DEF At
      <4>3. QED BY <3>4, <4>2
    <3>7. QED BY <3>5, <3>6
  <2>10. QED BY <2>7, <2>8, <2>9 DEF CallState
<1>10. QED BY <1>3, <1>6, <1>7, <1>8, <1>9 DEF Next

(* A call that fails before its connection is there returns with nothing    *)
(* written; one that has written returns FAILED only after a retry.         *)
LEMMA FailedStep == Inv /\ [Next]_vars => FailedMeansUntouched'
<1> SUFFICES ASSUME Inv, [Next]_vars PROVE FailedMeansUntouched'
  OBVIOUS
<1> USE DEF Inv
<1> DEFINE Fine(u) ==
      At(u, "returned") /\ frame[u].result = "FAILED" /\ frame[u].cmd.name \notin Resent
          => frame[u].taken = 0
<1>1. CASE UNCHANGED vars
  BY <1>1 DEF vars, FailedMeansUntouched, At
<1>2. ASSUME NEW s \in Senders, NEW f, Goto(s, f), ~(f.pc = "returned")
      PROVE  FailedMeansUntouched'
  BY <1>2 DEF FailedMeansUntouched, Goto, At, TypeOK
<1>3. ASSUME NEW s \in Senders, NEW r, Goto(s, [frame[s] EXCEPT !.pc = "returned", !.result = r]),
             r = "FAILED" /\ frame[s].cmd.name \notin Resent => frame[s].taken = 0
      PROVE  FailedMeansUntouched'
  <2> DEFINE f == [frame[s] EXCEPT !.pc = "returned", !.result = r]
  <2>1. f.cmd = frame[s].cmd /\ f.result = r /\ f.taken = frame[s].taken
    BY DEF TypeOK, FrameType
  <2>2. Goto(s, f)
    BY <1>3
  <2> HIDE DEF f
  <2>3. QED BY <1>3, <2>1, <2>2 DEF FailedMeansUntouched, Goto, At, TypeOK
<1>4. ASSUME NEW s \in Senders, NEW cmd \in CommandType, Call(s, cmd)
      PROVE  FailedMeansUntouched'
  <2>1. [frame[s] EXCEPT !.pc = "create", !.cmd = cmd].pc = "create"
    BY DEF TypeOK, FrameType
  <2>2. QED BY <1>2, <1>4, <2>1 DEF Call
<1>5. ASSUME NEW s \in Senders, Resume(s) PROVE FailedMeansUntouched'
  BY <1>2, <1>5 DEF Resume, Idle
<1>6. ASSUME NEW s \in Senders, CreateThreadFails(s) \/ ConnectFails(s)
      PROVE  FailedMeansUntouched'
  <2>1. frame[s].taken = 0
    BY <1>6 DEF CreateThreadFails, ConnectFails, CallState
  <2>2. QED BY <1>3, <1>6, <2>1 DEF CreateThreadFails, ConnectFails
<1>7. ASSUME NEW s \in Senders, Finish(s) PROVE FailedMeansUntouched'
  <2> DEFINE r == IF frame[s].retries = 0 THEN "SUCCESS" ELSE "FAILED"
  <2>1. r = "FAILED" => frame[s].cmd.name \in Resent
    BY DEF CallState, TypeOK, FrameType
  <2>2. Goto(s, [frame[s] EXCEPT !.pc = "returned", !.result = r])
    BY <1>7 DEF Finish
  <2> HIDE DEF r
  <2>3. QED BY <1>3, <2>1, <2>2
<1>8. ASSUME NEW s \in Senders,
             CreateThread(s) \/ Connect(s) \/ Resend(s) \/ WriteRegister(s)
      PROVE  FailedMeansUntouched'
  <2>1. \E f : Goto(s, f) /\ f.pc \in {"connect", "write", "create"}
    <3>1. frame[s] \in FrameType
      BY DEF TypeOK
    <3>2. CASE CreateThread(s)
      BY <3>1, <3>2 DEF CreateThread, FrameType
    <3>3. CASE Connect(s)
      <4> DEFINE f(n) == [frame[s] EXCEPT !.pc = "write", !.next = n]
      <4>1. \A n : f(n).pc = "write"
        BY <3>1 DEF FrameType
      <4>2. Goto(s, f(1))
        BY <3>3 DEF Connect
      <4> HIDE DEF f
      <4>3. QED BY <4>1, <4>2
    <3>4. CASE Resend(s)
      <4>1. [frame[s] EXCEPT !.pc = "create", !.retries = @ + 1].pc = "create"
        BY <3>1 DEF FrameType
      <4>2. QED BY <3>4, <4>1 DEF Resend
    <3>5. CASE WriteRegister(s)
      <4>1. frame[s].pc = "write"
        BY <3>5 DEF WriteRegister, At
      <4>2. /\ [frame[s] EXCEPT !.next = @ + 1, !.taken = @ + 1].pc = frame[s].pc
            /\ [frame[s] EXCEPT !.next = @ + 1].pc = frame[s].pc
        BY <3>1 DEF FrameType
      <4>3. QED BY <3>5, <4>1, <4>2 DEF WriteRegister
    <3>6. QED BY <1>8, <3>2, <3>3, <3>4, <3>5
  <2>2. QED BY <1>2, <2>1
<1>9. QED BY <1>1, <1>4, <1>5, <1>6, <1>7, <1>8 DEF Next, Step

LEMMA InvHolds == Spec => []Inv
<1>1. Inv /\ [Next]_vars => Inv'
  BY TypeStep, CallStateStep, FailedStep DEF Inv
<1>2. QED BY InitInv, <1>1, PTL DEF Spec

-----------------------------------------------------------------------------

(* Frames and registers keep their types, and no write is attempted beyond   *)
(* the end of a command's table (the loop in _send_modbus_command).          *)
THEOREM TypeCorrect == Spec => []TypeOK
BY InvHolds, PTL DEF Inv

(* Only stops are sent again, and the registers of a sole mover are not      *)
(* disturbed between its writes.                                             *)
THEOREM CallsAreOrderly == Spec => []CallState
BY InvHolds, PTL DEF Inv

(* A command reported FAILED, other than a stop, has not touched the drive.  *)
THEOREM FailureIsHarmless == Spec => []FailedMeansUntouched
BY InvHolds, PTL DEF Inv

(* A motion command of a sole mover that reached the drive whole moves it    *)
(* as asked, whatever stops and resets the others sent meanwhile.            *)
THEOREM SoleMoverMovesAsAsked ==
    ASSUME OneMover
    PROVE  Spec => MotionIsAsAsked
<1> DEFINE A == \A s \in Senders :
          /\ At(s, "write") /\ frame[s].cmd.name \in Moves
          /\ frame[s].taken < Len(Plan(s)) /\ frame'[s].taken = Len(Plan(s))
          => drive'.motion = [dir |-> frame[s].cmd.dir, speed |-> frame[s].cmd.arg,
                              ramp |-> frame[s].cmd.arg]
<1>1. Inv /\ [Next]_vars => [A]_vars
  <2> SUFFICES ASSUME Inv, Next, NEW s \in Senders,
                      At(s, "write"), frame[s].cmd.name \in Moves,
                      frame[s].taken < Len(Plan(s)), frame'[s].taken = Len(Plan(s))
               PROVE  drive'.motion = [dir |-> frame[s].cmd.dir, speed |-> frame[s].cmd.arg,
                                       ramp |-> frame[s].cmd.arg]
    OBVIOUS
  <2> USE DEF Inv
  <2> DEFINE n == Len(Plan(s))
             w == Plan(s)[frame[s].next]
  <2>1. /\ frame[s] \in FrameType /\ frame[s].cmd \in CommandType
        /\ frame[s].pc = "write" /\ frame[s].taken < frame[s].next
        /\ frame[s].taken \in Nat /\ frame[s].next \in Nat
    BY DEF TypeOK, At, FrameType
  <2>2. n \in 1 .. 5 /\ DOMAIN Plan(s) = 1 .. n
    BY <2>1, NameOfCommand, WritesOfCommand DEF Plan
  <2>3. frame'[s].taken # frame[s].taken
    BY <2>1, <2>2
  <2>4. WriteRegister(s)
    <3>1. ASSUME NEW u \in Senders, NEW f, Goto(u, f), u # s PROVE FALSE
      BY <2>3, <3>1 DEF Goto, TypeOK
    <3>2. ASSUME Goto(s, [frame[s] EXCEPT !.pc = "returned",
                              !.result = IF frame[s].retries = 0 THEN "SUCCESS" ELSE "FAILED"])
          PROVE  FALSE
      BY <2>1, <2>3, <3>2 DEF Goto, TypeOK, FrameType
    <3>3. PICK u \in Senders : \/ \E cmd \in CommandType : Call(u, cmd)
                               \/ Step(u) \/ Resume(u)
      BY DEF Next
    <3>4. u = s
      BY <3>1, <3>3 DEF Call, Resume, Step, CreateThread, CreateThreadFails, Connect,
                        ConnectFails, Resend, WriteRegister, Finish
    <3>5. QED
      BY <2>1, <3>2, <3>3, <3>4 DEF At, Call, Resume, Step, CreateThread, CreateThreadFails,
                                    Connect, ConnectFails, Resend, Finish
  <2>5. /\ frame[s].next \in 1 .. n
        /\ \/ /\ Goto(s, [frame[s] EXCEPT !.next = @ + 1, !.taken = @ + 1])
              /\ drive' = Effect(w, frame[s].cmd)
           \/ Goto(s, [frame[s] EXCEPT !.next = @ + 1])
    BY <2>2, <2>4 DEF WriteRegister
  <2>6. /\ frame'[s].taken = frame[s].taken + 1
        /\ drive' = Effect(w, frame[s].cmd)
    <3> DEFINE f == [frame[s] EXCEPT !.next = @ + 1, !.taken = @ + 1]
               g == [frame[s] EXCEPT !.next = @ + 1]
    <3>1. f.taken = frame[s].taken + 1 /\ g.taken = frame[s].taken
      BY <2>1 DEF FrameType
    <3>2. (Goto(s, f) /\ drive' = Effect(w, frame[s].cmd)) \/ Goto(s, g)
      BY <2>5
    <3> HIDE DEF f, g, w
    <3>3. QED BY <2>3, <3>1, <3>2 DEF Goto, TypeOK
  <2>7. frame[s].next = n /\ frame[s].taken = frame[s].next - 1
    BY <2>1, <2>2, <2>5, <2>6
  <2>8. w = "move"
    BY <2>2, <2>7, MoveIsLast DEF Plan
  <2>9. drive.speed = frame[s].cmd.arg /\ drive.ramp = frame[s].cmd.arg
    <3>1. /\ \E k \in 1 .. n - 1 : Plan(s)[k] = "speed"
          /\ \E k \in 1 .. n - 1 : Plan(s)[k] = "ramp"
      BY MoveIsLast DEF Plan
    <3>2. \A k \in 1 .. n - 1 : /\ Plan(s)[k] = "speed" => drive.speed = frame[s].cmd.arg
                                /\ Plan(s)[k] = "ramp" => drive.ramp = frame[s].cmd.arg
      BY <2>7 DEF CallState
    <3>3. QED BY <3>1, <3>2
  <2>10. QED BY <2>6, <2>8, <2>9, EffectOnRegisters
<1>2. QED BY <1>1, InvHolds, PTL DEF Spec, MotionIsAsAsked

-----------------------------------------------------------------------------
(* The frame of a call after a step, component by component.                 *)

\* What a step between two writes leaves as it is.
NoWrite(s) == frame'[s].next = frame[s].next /\ frame'[s].taken = frame[s].taken /\ UNCHANGED drive

LEMMA FrameStep ==
    ASSUME Inv, NEW s \in Senders, Step(s)
    PROVE  /\ \A u \in Senders \ {s} : frame'[u] = frame[u]
           /\ frame'[s].cmd = frame[s].cmd
           /\ \/ /\ frame[s].pc = "create" /\ frame'[s].pc = "connect"
                 /\ frame'[s].retries = frame[s].retries
                 /\ NoWrite(s)
              \/ /\ frame[s].pc \in {"create", "connect"} /\ frame'[s].pc = "returned"
                 /\ frame'[s].result = "FAILED"
                 /\ NoWrite(s)
              \/ /\ frame[s].pc = "connect" /\ frame'[s].pc = "write"
                 /\ frame'[s].retries = frame[s].retries
                 /\ frame'[s].next = 1 /\ frame'[s].taken = 0
                 /\ UNCHANGED drive
              \/ /\ frame[s].pc = "connect" /\ frame'[s].pc = "create"
                 /\ frame[s].retries < MaxThreads
                 /\ frame'[s].retries = frame[s].retries + 1
                 /\ NoWrite(s)
              \/ /\ frame[s].pc = "write" /\ frame'[s].pc = "write"
                 /\ frame[s].next \in 1 .. Len(Plan(s))
                 /\ frame'[s].retries = frame[s].retries
                 /\ frame'[s].next = frame[s].next + 1
                 /\ \/ /\ frame'[s].taken = frame[s].taken + 1
                       /\ drive' = Effect(Plan(s)[frame[s].next], frame[s].cmd)
                    \/ /\ "lost" \in Faults
                       /\ frame'[s].taken = frame[s].taken
                       /\ UNCHANGED drive
              \/ /\ frame[s].pc = "write" /\ frame'[s].pc = "returned"
                 /\ frame[s].next = Len(Plan(s)) + 1
                 /\ \/ frame'[s].result = "SUCCESS"
                    \/ frame'[s].result = "FAILED" /\ frame[s].cmd.name \in Resent
                 /\ NoWrite(s)
<1> USE DEF Inv
<1>1. /\ frame[s] \in FrameType /\ frame[s].cmd \in CommandType
      /\ frame[s].next \in 1 .. Len(Plan(s)) + 1
      /\ DOMAIN Plan(s) = 1 .. Len(Plan(s))
  <2>1. frame[s] \in FrameType /\ frame[s].cmd \in CommandType
        /\ frame[s].next <= Len(Plan(s)) + 1
    BY DEF TypeOK, At, Step, CreateThread, CreateThreadFails, Connect, ConnectFails,
           Resend, WriteRegister, Finish
  <2>2. Len(Plan(s)) \in 1 .. 5 /\ DOMAIN Plan(s) = 1 .. Len(Plan(s))
    BY <2>1, NameOfCommand, WritesOfCommand DEF Plan
  <2>3. QED BY <2>1, <2>2 DEF FrameType
<1>2. ASSUME NEW f, Goto(s, f)
      PROVE  frame'[s] = f /\ \A u \in Senders \ {s} : frame'[u] = frame[u]
  BY <1>2 DEF Goto, TypeOK
<1>3. CASE CreateThread(s)
  <2> DEFINE f == [frame[s] EXCEPT !.pc = "connect"]
  <2>1. /\ f.pc = "connect" /\ f.cmd = frame[s].cmd /\ f.retries = frame[s].retries
        /\ f.next = frame[s].next /\ f.taken = frame[s].taken
    BY <1>1 DEF FrameType
  <2>2. Goto(s, f) /\ UNCHANGED drive /\ frame[s].pc = "create"
    BY <1>3 DEF CreateThread, At
  <2> HIDE DEF f
  <2>3. QED BY <1>2, <2>1, <2>2 DEF NoWrite
<1>4. ASSUME NEW r, Goto(s, [frame[s] EXCEPT !.pc = "returned", !.result = r])
      PROVE  /\ frame'[s].pc = "returned" /\ frame'[s].cmd = frame[s].cmd
             /\ frame'[s].taken = frame[s].taken /\ frame'[s].next = frame[s].next
             /\ frame'[s].result = r
             /\ \A u \in Senders \ {s} : frame'[u] = frame[u]
  <2> DEFINE f == [frame[s] EXCEPT !.pc = "returned", !.result = r]
  <2>1. /\ f.pc = "returned" /\ f.cmd = frame[s].cmd
        /\ f.taken = frame[s].taken /\ f.next = frame[s].next /\ f.result = r
    BY <1>1 DEF FrameType
  <2>2. Goto(s, f)
    BY <1>4
  <2> HIDE DEF f
  <2>3. QED BY <1>2, <2>1, <2>2
<1>5. CASE CreateThreadFails(s) \/ ConnectFails(s)
  <2>1. /\ Goto(s, [frame[s] EXCEPT !.pc = "returned", !.result = "FAILED"])
        /\ frame[s].pc \in {"create", "connect"} /\ UNCHANGED drive
    BY <1>5 DEF CreateThreadFails, ConnectFails, At
  <2>2. QED BY <1>4, <2>1 DEF NoWrite
<1>6. CASE Connect(s)
  <2> DEFINE f(n) == [frame[s] EXCEPT !.pc = "write", !.next = n]
  <2>1. \A n \in 1 .. 6 : /\ f(n).pc = "write" /\ f(n).cmd = frame[s].cmd /\ f(n).next = n
                           /\ f(n).retries = frame[s].retries
                           /\ f(n).taken = frame[s].taken
    BY <1>1 DEF FrameType
  <2>2. Goto(s, f(1)) /\ UNCHANGED drive /\ frame[s].pc = "connect" /\ frame[s].taken = 0
    BY <1>6 DEF Connect, At, CallState
  <2> HIDE DEF f
  <2>3. QED BY <1>2, <2>1, <2>2
<1>7. CASE Resend(s)
  <2> DEFINE f == [frame[s] EXCEPT !.pc = "create", !.retries = @ + 1]
  <2>1. /\ f.pc = "create" /\ f.cmd = frame[s].cmd /\ f.retries = frame[s].retries + 1
        /\ f.next = frame[s].next /\ f.taken = frame[s].taken
    BY <1>1 DEF FrameType
  <2>2. /\ Goto(s, f) /\ UNCHANGED drive
        /\ frame[s].pc = "connect" /\ frame[s].retries < MaxThreads
    BY <1>7 DEF Resend, At, CallState
  <2> HIDE DEF f
  <2>3. QED BY <1>2, <2>1, <2>2 DEF NoWrite
<1>8. CASE WriteRegister(s)
  <2> DEFINE f == [frame[s] EXCEPT !.next = @ + 1, !.taken = @ + 1]
             g == [frame[s] EXCEPT !.next = @ + 1]
  <2>1. /\ f.pc = frame[s].pc /\ f.cmd = frame[s].cmd /\ f.next = frame[s].next + 1
        /\ f.retries = frame[s].retries /\ f.taken = frame[s].taken + 1
    BY <1>1 DEF FrameType
  <2>2. /\ g.pc = frame[s].pc /\ g.cmd = frame[s].cmd /\ g.next = frame[s].next + 1
        /\ g.retries = frame[s].retries /\ g.taken = frame[s].taken
    BY <1>1 DEF FrameType
  <2>3. /\ \/ Goto(s, f) /\ drive' = Effect(Plan(s)[frame[s].next], frame[s].cmd)
           \/ Goto(s, g) /\ UNCHANGED drive /\ "lost" \in Faults
        /\ frame[s].pc = "write" /\ frame[s].next \in DOMAIN Plan(s)
    BY <1>8 DEF WriteRegister, At
  <2> HIDE DEF f, g
  <2>4. QED BY <1>1, <1>2, <2>1, <2>2, <2>3
<1>9. CASE Finish(s)
  <2>1. /\ Goto(s, [frame[s] EXCEPT !.pc = "returned",
                         !.result = IF frame[s].retries = 0 THEN "SUCCESS" ELSE "FAILED"])
        /\ frame[s].pc = "write" /\ frame[s].next \notin DOMAIN Plan(s) /\ UNCHANGED drive
        /\ frame[s].retries = 0 \/ frame[s].cmd.name \in Resent
    BY <1>1, <1>9 DEF Finish, At, FrameType, CallState
  <2>2. frame[s].next = Len(Plan(s)) + 1
    BY <1>1, <2>1
  <2> DEFINE r == IF frame[s].retries = 0 THEN "SUCCESS" ELSE "FAILED"
  <2>3. r = "SUCCESS" \/ (r = "FAILED" /\ frame[s].cmd.name \in Resent)
    BY <2>1
  <2> HIDE DEF r
  <2>4. Goto(s, [frame[s] EXCEPT !.pc = "returned", !.result = r])
    BY <2>1 DEF r
  <2>5. /\ frame'[s].pc = "returned" /\ frame'[s].cmd = frame[s].cmd /\ frame'[s].result = r
        /\ NoWrite(s)
        /\ \A u \in Senders \ {s} : frame'[u] = frame[u]
    BY <1>4, <2>1, <2>4 DEF NoWrite
  <2>6. frame[s].pc = "write"
    BY <2>1
  <2>7. QED BY <2>2, <2>3, <2>5, <2>6
<1>10. QED BY <1>3, <1>5, <1>6, <1>7, <1>8, <1>9 DEF Step

LEMMA NoStepOfCall ==
    ASSUME Inv, NEW s \in Senders
    PROVE  /\ Resume(s) => /\ frame'[s] = Idle /\ frame'[s].pc = "idle"
                           /\ frame[s].pc = "returned"
                           /\ \A u \in Senders \ {s} : frame'[u] = frame[u]
           /\ \A cmd : Call(s, cmd) => /\ frame'[s].pc = "create" /\ frame[s].pc = "idle"
                                       /\ frame[s] = Idle /\ frame'[s].cmd = cmd
                                       /\ frame'[s].next = 1 /\ frame'[s].taken = 0
                                       /\ \A u \in Senders \ {s} : frame'[u] = frame[u]
<1> USE DEF Inv
<1>1. frame[s] \in FrameType
  BY DEF TypeOK
<1>2. Resume(s) => /\ frame'[s] = Idle /\ frame'[s].pc = "idle"
                   /\ frame[s].pc = "returned"
                   /\ \A u \in Senders \ {s} : frame'[u] = frame[u]
  BY DEF Resume, Goto, TypeOK, Idle, At
<1>3. ASSUME NEW cmd, Call(s, cmd)
      PROVE  /\ frame'[s].pc = "create" /\ frame[s].pc = "idle"
             /\ frame[s] = Idle /\ frame'[s].cmd = cmd
             /\ frame'[s].next = 1 /\ frame'[s].taken = 0
             /\ \A u \in Senders \ {s} : frame'[u] = frame[u]
  <2> DEFINE f == [frame[s] EXCEPT !.pc = "create", !.cmd = cmd]
  <2>1. f.pc = "create" /\ f.cmd = cmd /\ f.next = frame[s].next /\ f.taken = frame[s].taken
    BY <1>1 DEF FrameType
  <2>2. Goto(s, f) /\ frame[s].pc = "idle" /\ frame[s] = Idle
        /\ frame[s].next = 1 /\ frame[s].taken = 0
    BY <1>3 DEF Call, At, TypeOK, Idle
  <2> HIDE DEF f
  <2>3. QED BY <2>1, <2>2 DEF Goto, TypeOK
<1>4. QED BY <1>2, <1>3

-----------------------------------------------------------------------------
(* Success, where no write is lost.                                          *)

\* Every write attempted so far has reached the drive.
NothingLost == \A s \in Senders :
    /\ At(s, "write") => frame[s].taken = frame[s].next - 1
    /\ At(s, "returned") /\ frame[s].result = "SUCCESS" => frame[s].taken = Len(Plan(s))

LEMMA NothingLostStep ==
    ASSUME "lost" \notin Faults, Inv, NothingLost, [Next]_vars
    PROVE  NothingLost'
<1> DEFINE Full(u) ==
      /\ At(u, "write") => frame[u].taken = frame[u].next - 1
      /\ At(u, "returned") /\ frame[u].result = "SUCCESS" => frame[u].taken = Len(Plan(u))
<1>1. ASSUME NEW u \in Senders, frame'[u] = frame[u] PROVE Full(u)'
  BY <1>1 DEF NothingLost, At, Plan
<1>2. CASE UNCHANGED vars
  BY <1>1, <1>2 DEF vars, NothingLost
<1>3. ASSUME NEW s \in Senders, Step(s) PROVE NothingLost'
  <2>1. /\ frame[s].taken \in Nat /\ frame[s].next \in Nat /\ Len(Plan(s)) \in Nat
        /\ frame[s].pc = "write" => frame[s].taken = frame[s].next - 1
    <3>1. frame[s] \in FrameType /\ frame[s].cmd \in CommandType
      BY <1>3 DEF Inv, TypeOK, At, Step, CreateThread, CreateThreadFails, Connect,
         ConnectFails, Resend, WriteRegister, Finish
    <3>2. Len(Plan(s)) \in 1 .. 5
      BY <3>1, NameOfCommand, WritesOfCommand DEF Plan
    <3>3. QED BY <3>1, <3>2 DEF FrameType, NothingLost, At
  <2>2. Full(s)'
    <3>1. Plan(s)' = Plan(s)
      BY <1>3, FrameStep DEF Plan
    <3>2. CASE frame'[s].pc = "write"
      <4>1. frame'[s].taken = frame'[s].next - 1
        <5>1. CASE frame[s].pc = "connect"
          BY <1>3, <3>2, <5>1, FrameStep
        <5>2. CASE frame[s].pc = "write"
          <6>1. /\ frame'[s].next = frame[s].next + 1
                /\ frame'[s].taken = frame[s].taken + 1
            BY <1>3, <3>2, <5>2, FrameStep
          <6>2. QED BY <2>1, <5>2, <6>1
        <5>3. QED BY <1>3, <3>2, <5>1, <5>2, FrameStep
      <4>2. QED BY <3>2, <4>1 DEF At
    <3>3. CASE frame'[s].pc = "returned" /\ frame'[s].result = "SUCCESS"
      <4>1. /\ frame[s].pc = "write" /\ frame'[s].taken = frame[s].taken
            /\ frame[s].next = Len(Plan(s)) + 1
        BY <1>3, <3>3, FrameStep DEF NoWrite
      <4>2. frame'[s].taken = Len(Plan(s))
        BY <2>1, <4>1
      <4>3. QED BY <3>1, <3>3, <4>2 DEF At
    <3>4. QED BY <3>2, <3>3 DEF At
  <2>3. \A u \in Senders \ {s} : Full(u)'
    BY <1>1, <1>3, FrameStep
  <2>4. QED BY <2>2, <2>3 DEF NothingLost
<1>4. ASSUME NEW s \in Senders, NEW cmd, Call(s, cmd) \/ Resume(s) PROVE NothingLost'
  <2>1. frame'[s].pc \in {"create", "idle"} /\ \A u \in Senders \ {s} : frame'[u] = frame[u]
    BY <1>4, NoStepOfCall
  <2>2. Full(s)'
    BY <2>1 DEF At
  <2>3. QED BY <1>1, <2>1, <2>2 DEF NothingLost
<1>5. QED BY <1>2, <1>3, <1>4 DEF Next

(* SMD_Constants.h:342 is right as long as no modbus_write_register fails:   *)
(* a command reported as a success has all its registers in the drive,       *)
(* whatever else goes wrong.  Run doc_modbus_success shows that a lost write *)
(* is enough to refute it.                                                   *)
THEOREM SuccessIsWholeUnlessLost ==
    ASSUME "lost" \notin Faults
    PROVE  Spec => []SuccessMeansAllWritten
<1>1. Init => NothingLost
  <2>1. Idle.pc = "idle"
    BY DEF Idle
  <2>2. Init => \A s \in Senders : frame[s].pc = "idle"
    BY <2>1 DEF Init
  <2>3. QED BY <2>2 DEF NothingLost, At
<1>2. Inv /\ NothingLost /\ [Next]_vars => NothingLost'
  BY NothingLostStep
<1>3. NothingLost => SuccessMeansAllWritten
  BY DEF NothingLost, SuccessMeansAllWritten
<1>4. QED BY <1>1, <1>2, <1>3, InvHolds, PTL DEF Spec

-----------------------------------------------------------------------------
(* Termination: the part of CallsReturn that does not need fairness.         *)

\* How many steps a call can still take: each retry that is left costs a thread,
\* a connection and at most five writes.
StepsLeft(s) == LET rounds == 9 * (MaxThreads - frame[s].retries) IN
    CASE At(s, "create")  -> rounds + 8
      [] At(s, "connect") -> rounds + 7
      [] At(s, "write")   -> rounds + 7 - frame[s].next
      [] OTHER            -> 0

\* A step of a call brings it nearer to its return, and no other thread's step
\* takes it further away.
CallsComeToAnEnd ==
    [][\A s \in Senders :
          ~At(s, "idle") => \/ frame'[s] = frame[s]
                            \/ StepsLeft(s)' < StepsLeft(s)
                            \/ At(s, "returned") /\ At(s, "idle")']_vars

LEMMA StepsLeftIsNatural ==
    ASSUME Inv, NEW s \in Senders
    PROVE  StepsLeft(s) \in Nat
<1>1. /\ frame[s].retries \in 0 .. MaxThreads /\ MaxThreads \in Nat
      /\ frame[s].next \in 1 .. 6
  BY ModbusAssumption DEF ModbusAssumption, Inv, TypeOK, FrameType
<1> DEFINE r == frame[s].retries
           n == frame[s].next
<1> HIDE DEF r, n
<1>2. r \in Nat /\ MaxThreads \in Nat /\ r <= MaxThreads /\ n \in 1 .. 6
  BY <1>1 DEF r, n
<1>3. /\ 9 * (MaxThreads - r) + 8 \in Nat /\ 9 * (MaxThreads - r) + 7 \in Nat
      /\ 9 * (MaxThreads - r) + 7 - n \in Nat
  BY <1>2
<1>4. QED BY <1>3 DEF StepsLeft, r, n

LEMMA StepShortens ==
    ASSUME Inv, NEW s \in Senders, Step(s)
    PROVE  StepsLeft(s)' < StepsLeft(s)
<1>1. /\ frame[s].retries \in Nat /\ frame[s].retries <= MaxThreads /\ MaxThreads \in Nat
      /\ frame[s].next \in 1 .. 6
  BY ModbusAssumption DEF ModbusAssumption, Inv, TypeOK, FrameType
<1> DEFINE r == frame[s].retries
           n == frame[s].next
           q == frame'[s].retries
           rounds(k) == 9 * (MaxThreads - k)
<1>2. \/ /\ StepsLeft(s) = rounds(r) + 8 /\ StepsLeft(s)' = rounds(q) + 7 /\ q = r
      \/ /\ StepsLeft(s) \in {rounds(r) + 8, rounds(r) + 7} /\ StepsLeft(s)' = 0
      \/ /\ StepsLeft(s) = rounds(r) + 7 /\ StepsLeft(s)' = rounds(q) + 7 - 1 /\ q = r
      \/ /\ StepsLeft(s) = rounds(r) + 7 /\ StepsLeft(s)' = rounds(q) + 8
         /\ q = r + 1 /\ r < MaxThreads
      \/ /\ StepsLeft(s) = rounds(r) + 7 - n /\ StepsLeft(s)' = rounds(q) + 7 - (n + 1)
         /\ q = r
      \/ /\ StepsLeft(s) = rounds(r) + 7 - n /\ StepsLeft(s)' = 0
  <2>1. /\ frame[s].pc = "create" => StepsLeft(s) = rounds(r) + 8
        /\ frame[s].pc = "connect" => StepsLeft(s) = rounds(r) + 7
        /\ frame[s].pc = "write" => StepsLeft(s) = rounds(r) + 7 - n
    BY DEF StepsLeft, At
  <2>2. /\ frame'[s].pc = "create" => StepsLeft(s)' = rounds(q) + 8
        /\ frame'[s].pc = "connect" => StepsLeft(s)' = rounds(q) + 7
        /\ frame'[s].pc = "write" => StepsLeft(s)' = rounds(q) + 7 - frame'[s].next
        /\ frame'[s].pc = "returned" => StepsLeft(s)' = 0
    BY DEF StepsLeft, At
  <2> HIDE DEF rounds
  <2>3. QED BY <2>1, <2>2, FrameStep
<1>3. r \in Nat /\ r <= MaxThreads /\ MaxThreads \in Nat /\ n \in 1 .. 6
  BY <1>1
<1> HIDE DEF r, n, q
<1>4. QED BY <1>2, <1>3

(* A call takes at most 9 * MaxThreads + 8 steps between its start and its   *)
(* return, however the connections fail: the retries of SMD_Modbus.c cannot  *)
(* go on for ever, because every one of them keeps a thread.                 *)
THEOREM CallsAreFinite == Spec => CallsComeToAnEnd
<1> DEFINE A == \A s \in Senders :
          ~At(s, "idle") => \/ frame'[s] = frame[s]
                            \/ StepsLeft(s)' < StepsLeft(s)
                            \/ At(s, "returned") /\ At(s, "idle")'
<1>1. ASSUME Inv, [Next]_vars PROVE [A]_vars
  <2> SUFFICES ASSUME Next, NEW s \in Senders, ~At(s, "idle")
               PROVE  \/ frame'[s] = frame[s]
                      \/ StepsLeft(s)' < StepsLeft(s)
                      \/ At(s, "returned") /\ At(s, "idle")'
    BY <1>1
  <2>1. ASSUME NEW u \in Senders, Step(u) PROVE frame'[s] = frame[s] \/ StepsLeft(s)' < StepsLeft(s)
    BY <1>1, <2>1, FrameStep, StepShortens
  <2>2. ASSUME NEW u \in Senders, NEW cmd, Call(u, cmd) PROVE frame'[s] = frame[s]
    BY <1>1, <2>2, NoStepOfCall DEF At
  <2>3. ASSUME NEW u \in Senders, Resume(u)
        PROVE  frame'[s] = frame[s] \/ (At(s, "returned") /\ At(s, "idle")')
    BY <1>1, <2>3, NoStepOfCall DEF At
  <2>4. QED BY <2>1, <2>2, <2>3 DEF Next
<1>2. QED BY <1>1, InvHolds, PTL DEF Spec, CallsComeToAnEnd
-----------------------------------------------------------------------------
(* The refinement of MotorOrder.                                           *)

\* The position a call starts and resumes from, and that every call is answered.
CallShape == \A s \in Senders :
    /\ At(s, "create") \/ At(s, "connect") => frame[s].next = 1
    /\ At(s, "returned") => frame[s].result \in {"SUCCESS", "FAILED"}

LEMMA CallShapeStep == Inv /\ CallShape /\ [Next]_vars => CallShape'
<1> SUFFICES ASSUME Inv, CallShape, [Next]_vars PROVE CallShape'
  OBVIOUS
<1> DEFINE Shape(u) == /\ At(u, "create") \/ At(u, "connect") => frame[u].next = 1
                       /\ At(u, "returned") => frame[u].result \in {"SUCCESS", "FAILED"}
<1>1. ASSUME NEW u \in Senders, frame'[u] = frame[u] PROVE Shape(u)'
  BY <1>1 DEF CallShape, At
<1>2. CASE UNCHANGED vars
  BY <1>1, <1>2 DEF vars, CallShape
<1>3. ASSUME NEW s \in Senders, Step(s) PROVE CallShape'
  <2>1. Shape(s)'
    BY <1>3, FrameStep DEF CallShape, At, NoWrite
  <2>2. QED BY <1>1, <1>3, <2>1, FrameStep DEF CallShape
<1>4. ASSUME NEW s \in Senders, NEW cmd, Call(s, cmd) \/ Resume(s) PROVE CallShape'
  <2>1. Shape(s)'
    BY <1>4, NoStepOfCall DEF At, Idle
  <2>2. QED BY <1>1, <1>4, <2>1, NoStepOfCall DEF CallShape
<1>5. QED BY <1>2, <1>3, <1>4 DEF Next

(* The table of register writes: a command acts on the motor with its last  *)
(* write, and with no other.                                                *)
LEMMA LastWriteActs ==
    ASSUME NEW n \in Commands, NEW k \in DOMAIN Writes[n]
    PROVE  /\ k # Len(Writes[n]) => Writes[n][k] \notin {"move", "stop"}
           /\ n \in Moves /\ k = Len(Writes[n]) => Writes[n][k] = "move"
           /\ n \in Resent /\ k = Len(Writes[n]) => Writes[n][k] = "stop"
           /\ n \notin Moves \cup Resent => Writes[n][k] \notin {"move", "stop"}
<1>1. CASE n \in Moves
  BY <1>1, MoveIsLast, ResentAreStops
<1>2. CASE n = "hold_move"
  BY <1>2 DEF Writes, Moves, Resent
<1>3. CASE n = "immediate_stop"
  BY <1>3 DEF Writes, Moves, Resent
<1>4. CASE n \in {"reset_errors", "drive_enable"}
  BY <1>4 DEF Writes, Moves, Resent
<1>5. QED BY <1>1, <1>2, <1>3, <1>4 DEF Commands, Moves

(* The rest of the drive's side: what a write does to the motion. *)
LEMMA EffectOnMotion ==
    ASSUME TypeOK, NEW cmd, NEW w
    PROVE  Effect(w, cmd).motion =
               IF w = "move" THEN [dir |-> cmd.dir, speed |-> drive.speed, ramp |-> drive.ramp]
               ELSE IF w = "stop" THEN Stopped ELSE drive.motion
BY DEF TypeOK, Effect

(* An idle sender has no order. *)
LEMMA IdleIsNothing ==
    ASSUME NEW s \in Senders, frame[s] = Idle
    PROVE  Order(s) = Motor!Nothing
<1>1. /\ frame[s].pc = "idle" /\ frame[s].cmd = NoCommand
      /\ frame[s].taken = 0 /\ frame[s].next = 1
  BY DEF Idle
<1>2. Order(s) = [cmd |-> NoCommand, stage |-> "none", whole |-> (0 = 1 - 1)]
  BY <1>1 DEF Order, At
<1>3. (0 = 1 - 1) = TRUE
  OBVIOUS
<1>4. QED BY <1>2, <1>3 DEF Motor!Nothing, NoCommand

(* The caller's view of a call, case by case. *)
LEMMA OrderByPoint ==
    ASSUME Inv, CallShape, NEW s \in Senders
    PROVE  /\ Order(s).cmd = frame[s].cmd
           /\ At(s, "idle") => Order(s) = Motor!Nothing
           /\ At(s, "create") \/ At(s, "connect") => Order(s).stage = "asked" /\ Order(s).whole = TRUE
           /\ At(s, "write") =>
                  /\ Order(s).stage = IF frame[s].next > Len(Plan(s)) THEN "done" ELSE "asked"
                  /\ Order(s).whole = (frame[s].taken = frame[s].next - 1)
           /\ At(s, "returned") => Order(s).stage = frame[s].result
<1> USE DEF Inv
<1>1. Order(s).cmd = frame[s].cmd
  BY DEF Order
<1>2. At(s, "idle") => Order(s) = Motor!Nothing
  BY IdleIsNothing DEF TypeOK
<1>3. ASSUME At(s, "create") \/ At(s, "connect")
      PROVE  Order(s).stage = "asked" /\ Order(s).whole = TRUE
  <2>1. frame[s].next = 1 /\ frame[s].taken = 0 /\ frame[s].cmd \in CommandType
    BY <1>3 DEF CallShape, CallState, TypeOK, At
  <2>2. Len(Plan(s)) \in 1 .. 5
    BY <2>1, NameOfCommand, WritesOfCommand DEF Plan
  <2>3. ~(1 > Len(Plan(s)))
    BY <2>2
  <2>4. Order(s).stage = "asked"
    BY <1>3, <2>1, <2>3 DEF Order, At
  <2>5. Order(s).whole = (0 = 1 - 1)
    BY <2>1 DEF Order
  <2>6. (0 = 1 - 1) = TRUE
    OBVIOUS
  <2>7. QED BY <2>4, <2>5, <2>6
<1>4. QED BY <1>1, <1>2, <1>3 DEF Order, At

LEMMA InitImplements == Init => Motor!Init
<1> SUFFICES ASSUME Init PROVE Motor!Init
  OBVIOUS
<1>1. \A s \in Senders : Order(s) = Motor!Nothing
  BY IdleIsNothing DEF Init
<1>2. drive.motion = Stopped
  BY DEF Init
<1>3. QED BY <1>1, <1>2 DEF Motor!Init

(* A step of one sender changes that sender's order and no other. *)
LEMMA OrderChanges ==
    ASSUME NEW s \in Senders, \A u \in Senders \ {s} : frame'[u] = frame[u],
           NEW st, NEW wh,
           Order(s)'.cmd = Order(s).cmd, Order(s)'.stage = st, Order(s)'.whole = wh
    PROVE  LET order == [u \in Senders |-> Order(u)]
           IN  /\ order' = [order EXCEPT ![s] = [Order(s) EXCEPT !.stage = st, !.whole = wh]]
               /\ wh = Order(s).whole => order' = [order EXCEPT ![s].stage = st]
               /\ wh = Order(s).whole /\ st = Order(s).stage => order' = order
<1> DEFINE order == [u \in Senders |-> Order(u)]
<1>1. \A u \in Senders \ {s} : Order(u)' = Order(u)
  BY DEF Order, At, Plan
<1>2. Order(s)' = [cmd |-> Order(s).cmd, stage |-> st, whole |-> wh]
  BY DEF Order
<1>3. Order(s) = [cmd |-> Order(s).cmd, stage |-> Order(s).stage, whole |-> Order(s).whole]
  BY DEF Order
<1>4. order' = [u \in Senders |-> Order(u)']
  OBVIOUS
<1> DEFINE c == Order(s).cmd
           st0 == Order(s).stage
           wh0 == Order(s).whole
<1>5. /\ Order(s)' = [cmd |-> c, stage |-> st, whole |-> wh]
      /\ Order(s) = [cmd |-> c, stage |-> st0, whole |-> wh0]
  BY <1>2, <1>3
<1> HIDE DEF c, st0, wh0
<1>6. [Order(s) EXCEPT !.stage = st, !.whole = wh] = Order(s)'
  BY <1>5
<1>7. wh = wh0 => [Order(s) EXCEPT !.stage = st] = Order(s)'
  BY <1>5
<1>8. wh = wh0 /\ st = st0 => Order(s)' = Order(s)
  BY <1>5
<1>9. QED BY <1>1, <1>4, <1>6, <1>7, <1>8 DEF st0, wh0

(* A write of a register: nothing to the caller, the moment its order acts,  *)
(* or a loss.                                                                *)
LEMMA WriteImplements ==
    ASSUME Inv, Inv', CallShape, CallShape', NEW s \in Senders,
           frame'[s].cmd = frame[s].cmd, \A u \in Senders \ {s} : frame'[u] = frame[u],
           frame[s].pc = "write", frame'[s].pc = "write",
           frame[s].next \in 1 .. Len(Plan(s)), frame'[s].next = frame[s].next + 1,
           \/ /\ frame'[s].taken = frame[s].taken + 1
              /\ drive' = Effect(Plan(s)[frame[s].next], frame[s].cmd)
           \/ /\ "lost" \in Faults
              /\ frame'[s].taken = frame[s].taken
              /\ UNCHANGED drive
    PROVE  [Motor!Next]_(Motor!vars)
<1> DEFINE order == [u \in Senders |-> Order(u)]
           n == Len(Plan(s))
           k == frame[s].next
           w == Plan(s)[k]
           st == IF k = n THEN "done" ELSE "asked"
<1>1. /\ frame[s] \in FrameType /\ frame[s].cmd \in CommandType
      /\ frame[s].taken < frame[s].next
  BY DEF Inv, TypeOK, At
<1>2. /\ n \in 1 .. 5 /\ DOMAIN Plan(s) = 1 .. n /\ Plan(s)' = Plan(s)
      /\ frame[s].cmd.name \in Commands
  BY <1>1, NameOfCommand, WritesOfCommand DEF Plan
<1>3. k \in 1 .. n /\ ~(k > n) /\ (k + 1 > n <=> k = n) /\ k \in Nat /\ frame[s].taken \in Nat
  BY <1>1, <1>2 DEF FrameType
<1>4. /\ Order(s).stage = "asked" /\ Order(s)'.stage = st
      /\ Order(s).cmd = frame[s].cmd /\ Order(s)'.cmd = Order(s).cmd
      /\ Order(s).whole = (frame[s].taken = k - 1)
      /\ Order(s)'.whole = (frame'[s].taken = k)
  <2>1. /\ Order(s).stage = IF k > n THEN "done" ELSE "asked"
        /\ Order(s).cmd = frame[s].cmd
        /\ Order(s).whole = (frame[s].taken = k - 1)
    BY OrderByPoint DEF At
  <2>2. /\ Order(s)'.stage = IF k + 1 > n THEN "done" ELSE "asked"
        /\ Order(s)'.cmd = frame'[s].cmd
        /\ Order(s)'.whole = (frame'[s].taken = k)
    <3>1. k + 1 - 1 = k
      BY <1>3
    <3>2. QED BY <1>2, <3>1 DEF Order, At
  <2>3. QED BY <1>3, <2>1, <2>2
<1>5. order[s] = Order(s)
  OBVIOUS
<1>6. CASE "lost" \in Faults /\ frame'[s].taken = frame[s].taken /\ UNCHANGED drive
  <2>1. (frame'[s].taken = k) = FALSE
    BY <1>1, <1>3, <1>6
  <2>2. Order(s)'.whole = FALSE
    BY <1>4, <2>1
  <2> DEFINE no == FALSE
  <2>3. Order(s)'.cmd = Order(s).cmd /\ Order(s)'.stage = st /\ Order(s)'.whole = no
    BY <1>4, <2>2
  <2>4. st \in {"asked", "done"}
    OBVIOUS
  <2> HIDE DEF st, no
  <2>5. order' = [order EXCEPT ![s] = [Order(s) EXCEPT !.stage = st, !.whole = no]]
    BY <2>3, OrderChanges
  <2>6. order' = [order EXCEPT ![s] = [@ EXCEPT !.stage = st, !.whole = no]]
    BY <2>5
  <2>7. Motor!Lose(s)
    BY <1>4, <1>5, <1>6, <2>4, <2>6 DEF Motor!Lose, Motor!At, no
  <2>8. QED BY <2>7 DEF Motor!Next
<1>7. CASE frame'[s].taken = frame[s].taken + 1 /\ drive' = Effect(w, frame[s].cmd)
  <2>1. (frame'[s].taken = k) = (frame[s].taken = k - 1)
    BY <1>3, <1>7
  <2>2. Order(s)'.whole = Order(s).whole
    BY <1>4, <2>1
  <2>3. w = "move" => frame[s].cmd.name \in Moves
    BY <1>2, <1>3, OthersDoNotMove DEF Plan
  <2>4. drive'.motion = IF w = "move"
                        THEN [dir |-> frame[s].cmd.dir, speed |-> drive.speed,
                              ramp |-> drive.ramp]
                        ELSE IF w = "stop" THEN Stopped ELSE drive.motion
    BY <1>7, EffectOnMotion DEF Inv
  <2>5. CASE k # n
    <3>1. w \notin {"move", "stop"}
      BY <1>2, <1>3, <2>5, LastWriteActs DEF Plan
    <3>2. order' = order
      BY <1>4, <2>2, <2>5, OrderChanges
    <3>3. QED BY <2>4, <3>1, <3>2 DEF Motor!vars
  <2>6. CASE k = n
    <3>1. order' = [order EXCEPT ![s].stage = "done"]
      BY <1>4, <2>2, <2>6, OrderChanges
    <3>2. drive'.motion \in Motions
      BY DEF Inv, TypeOK
    <3>3. frame[s].cmd.name \in Moves => w = "move"
      BY <1>2, <1>3, <2>6, LastWriteActs DEF Plan
    <3>4. frame[s].cmd.name \in Resent => drive'.motion = Stopped
      BY <1>2, <1>3, <2>4, <2>6, LastWriteActs DEF Plan
    <3>5. frame[s].cmd.name \notin Moves \cup Resent => drive'.motion = drive.motion
      BY <1>2, <1>3, <2>4, LastWriteActs DEF Plan
    <3>6. ASSUME frame[s].cmd.name \in Moves, OneMover, Order(s).whole
          PROVE  drive.speed = frame[s].cmd.arg /\ drive.ramp = frame[s].cmd.arg
      <4>1. frame[s].taken = k - 1
        BY <1>4, <3>6
      <4>2. /\ \E j \in 1 .. n - 1 : Plan(s)[j] = "speed"
            /\ \E j \in 1 .. n - 1 : Plan(s)[j] = "ramp"
        BY <3>6, MoveIsLast DEF Plan
      <4>3. \A j \in 1 .. n - 1 : /\ Plan(s)[j] = "speed" => drive.speed = frame[s].cmd.arg
                                  /\ Plan(s)[j] = "ramp" => drive.ramp = frame[s].cmd.arg
        BY <2>6, <3>6, <4>1 DEF Inv, CallState, At
      <4>4. QED BY <4>2, <4>3
    <3>7. drive'.motion \in Motor!Carried(order[s])
      BY <1>4, <1>5, <2>4, <3>2, <3>3, <3>4, <3>5, <3>6
         DEF Motor!Carried, Motor!Starts, Motor!Stops, Moves, Resent
    <3>8. Motor!CarryOut(s)
      BY <1>4, <1>5, <3>1, <3>7 DEF Motor!CarryOut, Motor!At
    <3>9. QED BY <3>8 DEF Motor!Next
  <2>7. QED BY <2>5, <2>6
<1>8. QED BY <1>6, <1>7

(* Of the other steps of a call only its end means something to the caller. *)
LEMMA StepImplements ==
    ASSUME Inv, Inv', CallShape, CallShape', NEW s \in Senders, Step(s)
    PROVE  [Motor!Next]_(Motor!vars)
<1> DEFINE order == [u \in Senders |-> Order(u)]
<1>1. frame'[s].cmd = frame[s].cmd /\ \A u \in Senders \ {s} : frame'[u] = frame[u]
  BY FrameStep
<1>2. /\ Order(s).cmd = frame[s].cmd /\ Order(s)'.cmd = Order(s).cmd
      /\ order[s] = Order(s)
  BY <1>1 DEF Order
<1>3. CASE frame[s].pc \in {"create", "connect"} /\ frame'[s].pc \in {"create", "connect", "write"}
  <2>1. /\ frame'[s].pc = "write" => frame'[s].next = 1 /\ frame'[s].taken = 0
        /\ UNCHANGED drive
    BY <1>3, FrameStep DEF NoWrite
  <2>2. Order(s).stage = "asked" /\ Order(s).whole = TRUE
    BY <1>3, OrderByPoint DEF At
  <2>3. Order(s)'.stage = "asked" /\ Order(s)'.whole = TRUE
    <3>1. /\ frame[s].cmd \in CommandType
          /\ Plan(s)' = Plan(s)
      BY <1>1, <1>3 DEF Inv, TypeOK, At, Plan
    <3>2. Len(Plan(s)) \in 1 .. 5
      BY <3>1, NameOfCommand, WritesOfCommand DEF Plan
    <3>3. /\ frame'[s].next = 1 /\ frame'[s].taken = 0
      BY <1>3, <2>1 DEF CallShape, Inv, CallState, At
    <3>4. ~(1 > Len(Plan(s))) /\ (0 = 1 - 1) = TRUE
      BY <3>2
    <3>5. Order(s)'.stage = "asked"
      BY <1>3, <3>1, <3>3, <3>4 DEF Order, At
    <3>6. Order(s)'.whole = (0 = 1 - 1)
      BY <3>3 DEF Order
    <3>7. QED BY <3>4, <3>5, <3>6
  <2>4. order' = order
    BY <1>1, <1>2, <2>2, <2>3, OrderChanges
  <2>5. QED BY <2>1, <2>4 DEF Motor!vars
<1>4. CASE /\ frame[s].pc \in {"create", "connect"} /\ frame'[s].pc = "returned"
           /\ frame'[s].result = "FAILED" /\ NoWrite(s)
  <2>1. Order(s).stage = "asked" /\ Order(s).whole = TRUE
    BY <1>4, OrderByPoint DEF At
  <2>2. Order(s)'.stage = "FAILED" /\ Order(s)'.whole = Order(s).whole
    BY <1>4 DEF Order, At, NoWrite
  <2>3. order' = [order EXCEPT ![s].stage = "FAILED"]
    BY <1>1, <1>2, <2>2, OrderChanges
  <2>4. Motor!Answer(s)
    BY <1>2, <1>4, <2>1, <2>3 DEF Motor!Answer, Motor!At, NoWrite
  <2>5. QED BY <2>4 DEF Motor!Next
<1>5. CASE /\ frame[s].pc = "write" /\ frame'[s].pc = "returned"
           /\ frame[s].next = Len(Plan(s)) + 1
           /\ \/ frame'[s].result = "SUCCESS"
              \/ frame'[s].result = "FAILED" /\ frame[s].cmd.name \in Resent
           /\ NoWrite(s)
  <2>1. Order(s).stage = "done"
    <3>1. frame[s].cmd \in CommandType
      BY <1>5 DEF Inv, TypeOK, At
    <3>2. Len(Plan(s)) \in 1 .. 5
      BY <3>1, NameOfCommand, WritesOfCommand DEF Plan
    <3>3. Len(Plan(s)) + 1 > Len(Plan(s))
      BY <3>2
    <3>4. QED BY <1>5, <3>3, OrderByPoint DEF At
  <2>2. Order(s)'.stage = frame'[s].result /\ Order(s)'.whole = Order(s).whole
    BY <1>5 DEF Order, At, NoWrite
  <2>3. order' = [order EXCEPT ![s].stage = frame'[s].result]
    BY <1>1, <1>2, <2>2, OrderChanges
  <2>4. Motor!Answer(s)
    BY <1>2, <1>5, <2>1, <2>3 DEF Motor!Answer, Motor!At, Motor!Stops, Resent, NoWrite
  <2>5. QED BY <2>4 DEF Motor!Next
<1>6. CASE frame[s].pc = "write" /\ frame'[s].pc = "write"
  BY <1>1, <1>6, FrameStep, WriteImplements
<1>7. QED BY <1>3, <1>4, <1>5, <1>6, FrameStep

LEMMA NextImplements ==
    Inv /\ Inv' /\ CallShape /\ CallShape' /\ [Next]_vars => [Motor!Next]_(Motor!vars)
<1> SUFFICES ASSUME Inv, Inv', CallShape, CallShape', [Next]_vars
             PROVE  [Motor!Next]_(Motor!vars)
  OBVIOUS
<1> DEFINE order == [u \in Senders |-> Order(u)]
<1>1. CASE UNCHANGED vars
  BY <1>1 DEF vars, Motor!vars, Order, At, Plan
<1>2. ASSUME NEW s \in Senders, Step(s) PROVE [Motor!Next]_(Motor!vars)
  BY <1>2, StepImplements
<1>3. ASSUME NEW s \in Senders, \A u \in Senders \ {s} : frame'[u] = frame[u]
      PROVE  order' = [order EXCEPT ![s] = Order(s)']
  <2>1. \A u \in Senders \ {s} : Order(u)' = Order(u)
    BY <1>3 DEF Order, At, Plan
  <2>2. order' = [u \in Senders |-> Order(u)']
    OBVIOUS
  <2>3. QED BY <2>1, <2>2
<1>4. ASSUME NEW s \in Senders, NEW cmd \in CommandType, Call(s, cmd)
      PROVE  [Motor!Next]_(Motor!vars)
  <2>1. /\ frame'[s].pc = "create" /\ frame'[s].cmd = cmd
        /\ frame[s] = Idle /\ UNCHANGED drive
        /\ \A u \in Senders \ {s} : frame'[u] = frame[u]
    BY <1>4, NoStepOfCall DEF Call
  <2>2. Order(s)' = [cmd |-> cmd, stage |-> "asked", whole |-> TRUE]
    <3>1. frame'[s].next = 1 /\ frame'[s].taken = 0
      BY <1>4, NoStepOfCall
    <3>2. Len(Writes[cmd.name]) \in 1 .. 5
      BY NameOfCommand, WritesOfCommand
    <3>3. ~(1 > Len(Writes[cmd.name])) /\ (0 = 1 - 1) = TRUE
      BY <3>2
    <3>4. Order(s)'.stage = "asked"
      BY <2>1, <3>1, <3>3 DEF Order, At, Plan
    <3>5. Order(s)'.cmd = cmd /\ Order(s)'.whole = (0 = 1 - 1)
      BY <2>1, <3>1 DEF Order
    <3>6. QED BY <3>3, <3>4, <3>5 DEF Order
  <2>3. Motor!Ask(s)
    <3>1. order[s] = Motor!Nothing
      BY <2>1, IdleIsNothing
    <3>2. order' = [order EXCEPT ![s] = [cmd |-> cmd, stage |-> "asked", whole |-> TRUE]]
      BY <1>3, <2>1, <2>2
    <3>3. QED BY <2>1, <3>1, <3>2 DEF Motor!Ask
  <2>4. QED BY <2>3 DEF Motor!Next
<1>5. ASSUME NEW s \in Senders, Resume(s) PROVE [Motor!Next]_(Motor!vars)
  <2>1. /\ frame'[s] = Idle /\ frame[s].pc = "returned" /\ UNCHANGED drive
        /\ \A u \in Senders \ {s} : frame'[u] = frame[u]
    BY <1>5, NoStepOfCall DEF Resume
  <2>2. order[s].stage \in {"SUCCESS", "FAILED"}
    BY <2>1, OrderByPoint DEF CallShape, At
  <2>3. Order(s)' = Motor!Nothing
    <3>1. /\ frame'[s].pc = "idle" /\ frame'[s].cmd = NoCommand
          /\ frame'[s].taken = 0 /\ frame'[s].next = 1
      BY <2>1 DEF Idle
    <3>2. Order(s)' = [cmd |-> NoCommand, stage |-> "none", whole |-> (0 = 1 - 1)]
      BY <3>1 DEF Order, At
    <3>3. (0 = 1 - 1) = TRUE
      OBVIOUS
    <3>4. QED BY <3>2, <3>3 DEF Motor!Nothing, NoCommand
  <2>4. Motor!GoOn(s)
    BY <1>3, <2>1, <2>2, <2>3 DEF Motor!GoOn, Motor!At
  <2>5. QED BY <2>4 DEF Motor!Next
<1>6. QED BY <1>1, <1>2, <1>4, <1>5 DEF Next

(* A caller may take an SMD_* function for one action on the motor, between  *)
(* its call and its return, that happens once or not at all; with the        *)
(* parameters asked for where one sender moves the motor and nothing is lost. *)
THEOREM CallsImplementMotorOrder == Spec => ImplementsMotorOrder
<1>1. Init => CallShape
  <2>1. Idle.pc = "idle"
    BY DEF Idle
  <2>2. QED BY <2>1 DEF Init, CallShape, At
<1>2. Init => Motor!Init
  BY InitImplements
<1>3. Inv /\ CallShape /\ [Next]_vars => CallShape'
  BY CallShapeStep
<1>4. Inv /\ Inv' /\ CallShape /\ CallShape' /\ [Next]_vars => [Motor!Next]_(Motor!vars)
  BY NextImplements
<1>5. QED BY <1>1, <1>2, <1>3, <1>4, InvHolds, PTL DEF Spec, ImplementsMotorOrder, Motor!Spec

=============================================================================
