---------------------------- MODULE MotorOrder -----------------------------
(***************************************************************************)
(* What a caller may think of an SMD_* function that sends a command: that *)
(* it acts on the motor at one moment between its call and its return, or  *)
(* not at all, and never twice.  Threads, connections, registers and       *)
(* retries are not seen here; ModbusSend implements this module.           *)
(***************************************************************************)
CONSTANTS
    Senders,      \* threads that call SMD_* functions
    Commands,     \* records of a name, a direction and a parameter set
    Motions,      \* what the motor may do: records of dir, speed and ramp
    Stopped,      \* the one of them that is a rest
    SoleMover,    \* whether one sender alone starts the motor
    MayLose       \* whether writes to the drive get lost

VARIABLES
    order,     \* per sender: its command, how far it is, and whether all of it arrived
    motion     \* what the motor does

vars == <<order, motion>>

Starts == {"jog", "find_home"}
Stops == {"hold_move", "immediate_stop"}

Nothing == [cmd |-> [name |-> "none", dir |-> "none", arg |-> "none"],
            stage |-> "none", whole |-> TRUE]

Init == order = [s \in Senders |-> Nothing] /\ motion = Stopped

At(s, stage) == order[s].stage = stage

Ask(s) == /\ order[s] = Nothing
          /\ \E c \in Commands :
                 order' = [order EXCEPT ![s] = [cmd |-> c, stage |-> "asked", whole |-> TRUE]]
          /\ UNCHANGED motion

\* What the motor may do once the order is carried out.  It turns the way it was
\* asked to; with the parameters it was asked for unless some were lost, or
\* replaced by those of another sender.
Carried(o) ==
    {m \in Motions :
        /\ o.cmd.name \in Starts =>
               /\ m.dir = o.cmd.dir
               /\ o.whole /\ SoleMover => m.speed = o.cmd.arg /\ m.ramp = o.cmd.arg
        /\ o.cmd.name \in Stops => m = Stopped
        /\ o.cmd.name \notin Starts \cup Stops => m = motion}

\* The one moment at which the order acts on the motor.
CarryOut(s) == /\ At(s, "asked")
               /\ order' = [order EXCEPT ![s].stage = "done"]
               /\ motion' \in Carried(order[s])

\* A part of the order does not arrive; the part that counts may be among it.
Lose(s) == /\ MayLose
           /\ At(s, "asked")
           /\ \E stage \in {"asked", "done"} :
                  order' = [order EXCEPT ![s] = [@ EXCEPT !.stage = stage, !.whole = FALSE]]
           /\ UNCHANGED motion

\* Success is told of an order whose moment is over; failure of one of which
\* nothing has been sent, or of a stop.
Answer(s) == /\ \/ /\ At(s, "done")
                   /\ order' = [order EXCEPT ![s].stage = "SUCCESS"]
                \/ /\ \/ At(s, "asked") /\ order[s].whole
                      \/ At(s, "done") /\ order[s].cmd.name \in Stops
                   /\ order' = [order EXCEPT ![s].stage = "FAILED"]
             /\ UNCHANGED motion

GoOn(s) == /\ At(s, "SUCCESS") \/ At(s, "FAILED")
           /\ order' = [order EXCEPT ![s] = Nothing]
           /\ UNCHANGED motion

Next == \E s \in Senders : Ask(s) \/ CarryOut(s) \/ Lose(s) \/ Answer(s) \/ GoOn(s)

Spec == Init /\ [][Next]_vars
=============================================================================
