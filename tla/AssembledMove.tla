---------------------------- MODULE AssembledMove ----------------------------
(***************************************************************************)
(* programAssembledMove and the upload of the JSON that follows it: the    *)
(* main thread hands the drive one segment after the other, in a handshake *)
(* over bit 9 of the drive's first status word.                            *)
(*                                                                         *)
(* The drive (external) is what the source takes it for: bit 9 is set      *)
(* while it waits for a segment; 6144 in register 1024 makes it take what  *)
(* the registers of the parameters hold at that moment, and clears the     *)
(* bit; 2048 sets the bit again (the first time, it starts an empty        *)
(* profile).  Any other command ends the programming.                      *)
(*                                                                         *)
(* Each parameter is a register write of its own, and a write that is lost *)
(* is reported as a success: the drive then takes what the register held   *)
(* before, and nothing in the handshake shows it.                          *)
(***************************************************************************)
EXTENDS Conversions

CONSTANTS
    Parameters,    \* the registers a segment is written to (1026 to 1031, and 1033)
    Value,         \* what a client may ask for in them
    Losable,       \* those whose write may be lost unnoticed
    Segment,       \* the segments moves are made of
    Moves,         \* what a client may send as a move, see MoveAssumption
    MaxSegments,   \* the size of the array segments (16 in the code)
    OtherBits,     \* the drive's first status word without bits 8 and 9
    Faults,        \* what may go wrong, a subset of FaultKinds
    Again          \* may an upload begin while the drive is in the one before?

(***************************************************************************)
(* "command": a Modbus command fails before its first write.  "read": the  *)
(* registers cannot be read.  "refused": the drive takes no segment.       *)
(* "take lost", "ready lost": the write of 6144, or of 2048, is lost but   *)
(* the command is a success.  "unread check", "unread confirm": the read   *)
(* before, or after, the segment is confirmed fails but is a success.      *)
(* "client": the client has left, and writing to it raises SIGPIPE.        *)
(* "controller": a manual-mode controller that is still in its turn jogs.  *)
(***************************************************************************)
FaultKinds == {"command", "read", "refused", "take lost", "ready lost", "unread check",
               "unread confirm", "client", "controller"}

ASSUME ParameterAssumption ==
    /\ "garbage" \notin Value
    /\ Losable \subseteq Parameters
    /\ Segment \subseteq [Parameters -> Value]

ASSUME MoveAssumption ==
    /\ MaxSegments \in Nat \ {0}
    /\ Faults \subseteq FaultKinds
    /\ Again \in BOOLEAN
    /\ \A m \in Moves : /\ m.form \in {"json", "text", "broken"}
                        /\ m.segments \in Seq(Segment)
                        /\ m.type \in {"blend", "dwell", "other", "absent"}
                        /\ m.typeAt \in 0 .. Len(m.segments)

\* "bit 9 is 6 for our purposes": the code needs one of bits 12 to 15 in every
\* status word, or the text of the word is shorter.
ASSUME StatusAssumption ==
    \A b \in OtherBits : b \in Nat /\ 4096 <= b /\ b <= 65535 /\ (b \div 256) % 4 = 0

VARIABLES
    pc,          \* where the main thread is
    move,        \* the move being uploaded, or uploaded last
    segments,    \* the array of that name
    i,           \* the loop counter over it
    bit9,        \* bin_string[6]: 0, 1, or 2 for neither
    told,        \* the segments the client was told are accepted
    result,      \* how the request ended: what the client is answered
    drive        \* the drive's programming state, registers and memory

session == <<pc, move, result>>
upload == <<segments, i, bit9, told>>
vars == <<pc, move, segments, i, bit9, told, result, drive>>

NoMove == [form |-> "text", segments |-> <<>>, type |-> "absent", typeAt |-> 0]

\* What the array holds before it is filled, and registers before this server
\* wrote to them.
Garbage == [p \in Parameters |-> "garbage"]

Cleared == [k \in 0 .. MaxSegments - 1 |-> Garbage]

Init == /\ pc = "idle" /\ move = NoMove /\ segments = Cleared /\ i = 0 /\ bit9 = 2
        /\ told = <<>> /\ result = "none"
        /\ drive = [programming |-> FALSE, ready |-> FALSE,
                    registers |-> Garbage, memory |-> <<>>]

-----------------------------------------------------------------------------
(* The drive (external). *)

StatusWord(other) == other + (IF drive.programming THEN 256 ELSE 0)
                           + (IF drive.ready THEN 512 ELSE 0)

\* 2048 in register 1024.
GetReady == [drive EXCEPT !.programming = TRUE, !.ready = TRUE,
                          !.memory = IF drive.programming THEN @ ELSE <<>>]

\* The parameters of s are written, but for those whose write is lost.
Written(s, lost) == [p \in Parameters |-> IF p \in lost THEN drive.registers[p] ELSE s[p]]

\* 6144 in register 1024, with r in the others: a drive that does not wait for a
\* segment takes none.
Take(r) == IF drive.ready
           THEN [drive EXCEPT !.ready = FALSE, !.registers = r, !.memory = Append(@, r)]
           ELSE [drive EXCEPT !.registers = r]

\* Any other value in register 1024.
Normal == [drive EXCEPT !.programming = FALSE, !.ready = FALSE]

-----------------------------------------------------------------------------
(* What a request ends in. *)

\* The upload, or the order before it, failed: the drive's errors are reset,
\* unless that fails too.
Fail == /\ pc' = "idle" /\ result' = "FAILED"
        /\ drive' \in {Normal} \cup IF "command" \in Faults THEN {drive} ELSE {}

Die == pc' = "dead" /\ result' = "died"

Restart == /\ pc = "dead"
           /\ pc' = "idle"
           /\ UNCHANGED <<move, result, upload, drive>>

\* A motion, a run of the move, a reset: what a client may order in between.  It
\* leaves parameters of its own in some of the registers, and is lost or not.
OtherCommand == /\ pc = "idle" \/ "controller" \in Faults
                /\ \E d \in {drive, Normal}, written \in SUBSET Parameters :
                      drive' = [d EXCEPT !.registers =
                                  [p \in Parameters |-> IF p \in written THEN "garbage" ELSE @[p]]]
                /\ UNCHANGED <<session, upload>>

-----------------------------------------------------------------------------
(* SMD_program_assembled_move and _SMD_program_block_first_block. *)

ProgramFirstBlock ==
    /\ pc = "idle"
    /\ drive.programming => Again
    /\ \/ "command" \in Faults /\ Fail /\ UNCHANGED <<move, told>>
       \/ /\ pc' = "first" /\ result' = "none" /\ move' = NoMove /\ told' = <<>>
          /\ drive' \in {GetReady} \cup IF "ready lost" \in Faults THEN {drive} ELSE {}
    /\ UNCHANGED <<segments, i, bit9>>

\* Bits 8 and 9 must be set.  If the read failed unnoticed, the text it left is
\* uninitialised memory, and so may the token taken from it be.
ReadFirstStatus ==
    /\ pc = "first"
    /\ \/ "read" \in Faults /\ Fail
       \/ \E other \in OtherBits :
             LET w == StatusWord(other)
             IN IF StatusChar(w, 6) = 1 /\ StatusChar(w, 7) = 1
                THEN pc' = "waiting" /\ result' = "READY" /\ UNCHANGED drive
                ELSE Fail
       \/ /\ "unread check" \in Faults
          /\ \/ Die /\ UNCHANGED drive
             \/ Fail
             \/ pc' = "waiting" /\ result' = "READY" /\ UNCHANGED drive
    /\ UNCHANGED <<move, upload>>

-----------------------------------------------------------------------------
(* SMD_parse_and_upload_assembled_move. *)

\* An element of the array is filled at the place its item has in the JSON
\* object, and "type" is an item, too.
Parsed(m) == [k \in 0 .. MaxSegments - 1 |->
                  IF k < m.typeAt THEN m.segments[k + 1]
                  ELSE IF m.typeAt < k /\ k <= Len(m.segments) THEN m.segments[k]
                  ELSE Garbage]

Overflows(m) == \/ Len(m.segments) > MaxSegments
                \/ Len(m.segments) = MaxSegments /\ m.typeAt < MaxSegments

\* Fault: only too many segments are refused.
TooManyRefused(m) == \/ m.form = "text"
                     \/ m.form = "json" /\ Len(m.segments) > MaxSegments
                     \/ m.form = "json" /\ m.type = "other"

\* No JSON, no segment, more of them than the array has, or another type.
Refused(m) == \/ m.form = "text"
              \/ m.form = "json" /\ Len(m.segments) \notin 1 .. MaxSegments
              \/ m.form = "json" /\ m.type = "other"

\* The process ends over an item that is missing in a segment, or over a
\* missing type, and may end over an overflow of the array.
Kills(m) == \/ m.form = "broken"
            \/ m.form = "json" /\ m.type = "absent" /\ ~Refused(m)
            \/ m.form = "json" /\ Overflows(m)

\* The client disconnects while the server waits for its move.  The drive is sent
\* nothing; whether losing its connection ends its programming is the drive's
\* affair.
ClientGone ==
    /\ pc = "waiting"
    /\ pc' = "idle" /\ result' = "none"
    /\ drive' \in {drive, Normal}
    /\ UNCHANGED <<move, upload>>

Parse(m) ==
    /\ pc = "waiting"
    /\ \/ Kills(m) /\ Die /\ UNCHANGED <<move, upload, drive>>
       \/ Refused(m) /\ Fail /\ UNCHANGED <<move, upload>>
       \/ /\ m.form = "json" /\ m.type \in {"blend", "dwell"} /\ ~Refused(m)
          /\ pc' = "program" /\ move' = m /\ segments' = Parsed(m) /\ i' = 0
          /\ UNCHANGED <<bit9, told, result, drive>>

\* _SMD_program_move_segment, whose result nobody looks at: a failed command is
\* seen by its missing effect, a lost parameter by nothing.
ProgramSegment ==
    /\ pc = "program"
    /\ pc' = "check"
    /\ \/ "command" \in Faults /\ UNCHANGED drive
       \/ \E lost \in SUBSET Losable :
             \/ drive' = Take(Written(segments[i], lost))
             \/ /\ Faults \cap {"refused", "take lost"} # {}
                /\ drive' = [drive EXCEPT !.registers = Written(segments[i], lost)]
    /\ UNCHANGED <<move, result, upload>>

\* Fault: the bit is not looked at.
CheckNothing ==
    /\ pc = "check"
    /\ \/ "read" \in Faults /\ Fail
       \/ pc' = "prepare" /\ UNCHANGED <<result, drive>>
    /\ UNCHANGED <<move, upload>>

\* The segment was taken if bit 9 is clear.  An unread status word is whatever
\* the array held.
CheckSegment ==
    /\ pc = "check"
    /\ \/ "read" \in Faults /\ Fail /\ UNCHANGED bit9
       \/ /\ \/ \E other \in OtherBits : bit9' = StatusChar(StatusWord(other), 6)
             \/ "unread check" \in Faults /\ bit9' \in 0 .. 2
          /\ IF bit9' = 0 THEN pc' = "prepare" /\ UNCHANGED <<result, drive>> ELSE Fail
    /\ UNCHANGED <<move, segments, i, told>>

\* _SMD_prepare_for_next_segment.
Prepare ==
    /\ pc = "prepare"
    /\ \/ "command" \in Faults /\ Fail
       \/ /\ pc' = "confirm"
          /\ drive' \in {GetReady} \cup IF "ready lost" \in Faults THEN {drive} ELSE {}
          /\ UNCHANGED result
    /\ UNCHANGED <<move, upload>>

\* Faults: one turn of the loop more, and one less.
OneTurnMore == IF i < Len(move.segments)
               THEN pc' = "program" /\ i' = i + 1 /\ UNCHANGED result
               ELSE pc' = "idle" /\ result' = "ACCEPTED" /\ UNCHANGED i

OneTurnLess == IF i + 2 < Len(move.segments)
               THEN pc' = "program" /\ i' = i + 1 /\ UNCHANGED result
               ELSE pc' = "idle" /\ result' = "ACCEPTED" /\ UNCHANGED i

NextSegment == IF i + 1 < Len(move.segments)
               THEN pc' = "program" /\ i' = i + 1 /\ UNCHANGED result
               ELSE pc' = "idle" /\ result' = "ACCEPTED" /\ UNCHANGED i

\* The client is told of the segment if bit 9 is set again.  If it is not, the
\* loop goes on all the same.
Confirm ==
    /\ pc = "confirm"
    /\ \/ "read" \in Faults /\ Fail /\ UNCHANGED <<i, bit9, told>>
       \/ /\ \/ \E other \in OtherBits : bit9' = StatusChar(StatusWord(other), 6)
             \/ "unread confirm" \in Faults /\ bit9' = bit9
          /\ \/ /\ told' = IF bit9' = 1 THEN Append(told, i + 1) ELSE told
                /\ NextSegment
             \/ "client" \in Faults /\ bit9' = 1 /\ Die /\ UNCHANGED <<i, told>>
          /\ UNCHANGED drive
    /\ UNCHANGED <<move, segments>>

Next == \/ ProgramFirstBlock \/ ReadFirstStatus
        \/ ClientGone \/ \E m \in Moves : Parse(m)
        \/ ProgramSegment \/ CheckSegment \/ Prepare \/ Confirm
        \/ OtherCommand \/ Restart

Spec == Init /\ [][Next]_vars

-----------------------------------------------------------------------------
(* Properties. *)

Uploading == pc \in {"program", "check", "prepare", "confirm"}

Registers == [Parameters -> Value \cup {"garbage"}]

\* What a lost write cannot falsify: with Losable = {}, everything.
Reliable == Parameters \ Losable
View(s) == [p \in Reliable |-> s[p]]
Views(list) == [n \in 1 .. Len(list) |-> View(list[n])]

\* The drive has the segment of this turn.
Taken == pc \in {"prepare", "confirm"} \/ (pc = "check" /\ ~drive.ready)

TypeOK ==
    /\ pc \in {"idle", "first", "waiting", "program", "check", "prepare", "confirm", "dead"}
    /\ move \in Moves \cup {NoMove}
    /\ segments \in [0 .. MaxSegments - 1 -> Segment \cup {Garbage}]
    /\ i \in 0 .. MaxSegments - 1
    /\ bit9 \in 0 .. 2
    /\ told \in Seq(1 .. MaxSegments)
    /\ result \in {"none", "READY", "FAILED", "ACCEPTED", "died"}
    /\ drive \in [programming : BOOLEAN, ready : BOOLEAN,
                  registers : Registers, memory : Seq(Registers)]

\* The faults the handshake is there for: everything but a lost 2048, a status
\* word that was not read before the segment is taken for accepted, and somebody
\* else who commands the drive.
Tolerated == FaultKinds \ {"ready lost", "unread check", "controller"}

\* The client lists the segments before the type, as SMD_Motor_Commands.h:227.
TypeLast == \A m \in Moves : m.typeAt = Len(m.segments)

\* An upload that starts while the drive is still in the one before adds to it.
Conditions == Faults \subseteq Tolerated /\ TypeLast /\ Again = FALSE

\* What links the steps of an upload: the drive holds exactly the segments of
\* the turns before, and its own one after the check, in the client's order, and
\* a lost write falsified at most the parameter it carried; where the main
\* thread is in the turn and what the drive waits for agree.
UploadState ==
    /\ pc \in {"first", "waiting"} =>
          /\ move = NoMove /\ told = <<>>
          /\ drive.programming /\ drive.ready /\ drive.memory = <<>>
    /\ pc = "first" => result = "none"
    /\ pc = "waiting" \/ Uploading => result = "READY"
    /\ Uploading =>
          /\ move \in Moves /\ i < Len(move.segments)
          /\ Len(move.segments) \in 1 .. MaxSegments
          /\ \A k \in 0 .. Len(move.segments) - 1 : segments[k] = move.segments[k + 1]
          /\ drive.programming
          /\ Views(drive.memory) = SubSeq(Views(move.segments), 1, IF Taken THEN i + 1 ELSE i)
    /\ pc \in {"program", "confirm"} => drive.ready
    /\ pc = "prepare" => ~drive.ready
    /\ result = "ACCEPTED" => Views(drive.memory) = Views(move.segments)

\* The client is told of a segment only when the drive holds it, and all those
\* before it, as the client wrote them but for parameters that were lost.
ToldIsLoaded == \A n \in DOMAIN told :
    /\ told[n] <= Len(drive.memory) /\ told[n] <= Len(move.segments)
    /\ SubSeq(Views(drive.memory), 1, told[n]) = SubSeq(Views(move.segments), 1, told[n])

\* What MoveUpload is about: of the drive's memory, only what belongs to a move
\* that was asked for counts.
Loaded == IF move = NoMove THEN <<>> ELSE drive.memory

Outcome == IF Uploading THEN "busy"
           ELSE IF result \in {"none", "READY"} THEN "none"
           ELSE IF result = "ACCEPTED" THEN "accepted" ELSE "failed"

\* An upload accepts what the client asked for, whole and in order, or fails: of
\* the parameters that cannot be lost, and of the number of the segments.
Upload == INSTANCE MoveUpload WITH
    Segment <- [Reliable -> Value], asked <- Views(move.segments),
    loaded <- Views(Loaded), outcome <- Outcome

ImplementsUpload == Upload!Spec

\* SMD_Constants.h:289: "When the profile is successfully accepted, the server
\* responds with ASSEMBLED_MOVE_ACCEPTED".
AcceptedMeansLoaded == result = "ACCEPTED" => drive.memory = move.segments
=============================================================================
