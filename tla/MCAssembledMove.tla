--------------------------- MODULE MCAssembledMove ---------------------------
(***************************************************************************)
(* Finite instances of AssembledMove: an array of two or three segments,   *)
(* and moves on both sides of every limit the parser has.                  *)
(***************************************************************************)
EXTENDS AssembledMove

Move(f, s, t, at) == [form |-> f, segments |-> s, type |-> t, typeAt |-> at]

MoveParameters == {"position", "speed"}

Values == {"low", "high"}

\* Two segments that differ in both parameters.
Segments == {[p \in MoveParameters |-> v] : v \in Values}

Lists == UNION {[1 .. n -> Segments] : n \in 0 .. MaxSegments + 1}

\* The type after the segments, as the documentation has it.
DocumentedMoves ==
    {Move("json", s, t, Len(s)) : s \in Lists, t \in {"blend", "other", "absent"}}
    \cup {Move("text", <<>>, "absent", 0), Move("broken", <<[p \in MoveParameters |-> "low"]>>, "dwell", 1)}

\* The type anywhere: the members of a JSON object have no order.
AnyMoves == UNION {{Move("json", s, "dwell", at) : at \in 0 .. Len(s)} : s \in Lists}

Status == {4096, 32768 + 1024, 65535 - 768}

NoFaults == {}
=============================================================================
