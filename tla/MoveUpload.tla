------------------------------ MODULE MoveUpload ------------------------------
(***************************************************************************)
(* What the upload of an assembled move promises its client: the segments  *)
(* of the move are loaded one after the other, and the move is accepted    *)
(* when, and only when, the drive holds all of them in the client's order. *)
(***************************************************************************)
EXTENDS Naturals, Sequences

CONSTANT Segment

VARIABLES
    asked,     \* the segments the client asked for
    loaded,    \* the segments the drive holds of them
    outcome    \* "none", "busy", "accepted" or "failed"

vars == <<asked, loaded, outcome>>

Init == asked = <<>> /\ loaded = <<>> /\ outcome = "none"

Ask == /\ outcome = "none"
       /\ asked' \in Seq(Segment)
       /\ outcome' = "busy"
       /\ UNCHANGED loaded

Load == /\ outcome = "busy"
        /\ Len(loaded) < Len(asked)
        /\ loaded' = Append(loaded, asked[Len(loaded) + 1])
        /\ UNCHANGED <<asked, outcome>>

Accept == /\ outcome = "busy"
          /\ loaded = asked
          /\ outcome' = "accepted"
          /\ UNCHANGED <<asked, loaded>>

\* At any time, also before a move was asked for.
Fail == /\ outcome' = "failed"
        /\ UNCHANGED <<asked, loaded>>

\* The next upload starts from nothing.
Clear == /\ asked' = <<>> /\ loaded' = <<>> /\ outcome' = "none"

Next == Ask \/ Load \/ Accept \/ Fail \/ Clear

Spec == Init /\ [][Next]_vars
=============================================================================
