------------------------- MODULE AssembledMoveProofs -------------------------
(***************************************************************************)
(* The upload of an assembled move loads what the client asked for, for    *)
(* every set of moves and of parameters, every size of the array and every *)
(* drive's status bits, under the Conditions of AssembledMove.  Whichever  *)
(* parameters may be lost unnoticed, the others and the number of segments *)
(* are the client's; where none may, the drive holds the very move.        *)
(***************************************************************************)
EXTENDS AssembledMove, ConversionsProofs, SequenceTheorems

(* Sequences that grow at their end.                                        *)
LEMMA Prefix ==
    ASSUME NEW S, NEW s \in Seq(S), NEW n \in 0 .. Len(s)
    PROVE  /\ SubSeq(s, 1, n) \in Seq(S)
           /\ Len(SubSeq(s, 1, n)) = n
           /\ \A k \in 1 .. n : SubSeq(s, 1, n)[k] = s[k]
<1>1. \A k \in 1 .. n : s[k] \in S
  BY ElementOfSeq
<1>2. QED BY <1>1, SubSeqProperties

LEMMA NextPrefix ==
    ASSUME NEW S, NEW s \in Seq(S), NEW n \in 0 .. Len(s), n < Len(s)
    PROVE  SubSeq(s, 1, n + 1) = Append(SubSeq(s, 1, n), s[n + 1])
<1>1. SubSeq(s, 1, n) \in Seq(S) /\ Len(SubSeq(s, 1, n)) = n /\ s[n + 1] \in S
  BY Prefix, ElementOfSeq
<1>2. SubSeq(s, 1, n + 1) \in Seq(S) /\ Len(SubSeq(s, 1, n + 1)) = n + 1
  BY Prefix
<1>3. Append(SubSeq(s, 1, n), s[n + 1]) \in Seq(S)
      /\ Len(Append(SubSeq(s, 1, n), s[n + 1])) = n + 1
  BY <1>1
<1>4. ASSUME NEW k \in 1 .. n + 1
      PROVE  SubSeq(s, 1, n + 1)[k] = Append(SubSeq(s, 1, n), s[n + 1])[k]
  <2>1. SubSeq(s, 1, n + 1)[k] = s[k]
    BY Prefix
  <2>2. k \in 1 .. n => SubSeq(s, 1, n)[k] = s[k]
    BY Prefix
  <2>3. QED BY <1>1, <2>1, <2>2
<1>5. QED BY <1>2, <1>3, <1>4, SeqEqual

LEMMA PrefixOfAppend ==
    ASSUME NEW S, NEW s \in Seq(S), NEW e \in S, NEW n \in 0 .. Len(s)
    PROVE  SubSeq(Append(s, e), 1, n) = SubSeq(s, 1, n)
<1>1. /\ Append(s, e) \in Seq(S) /\ n \in 0 .. Len(Append(s, e))
      /\ \A k \in 1 .. n : Append(s, e)[k] = s[k]
  OBVIOUS
<1>2. /\ SubSeq(s, 1, n) \in Seq(S) /\ Len(SubSeq(s, 1, n)) = n
      /\ \A k \in 1 .. n : SubSeq(s, 1, n)[k] = s[k]
  BY Prefix
<1>3. /\ SubSeq(Append(s, e), 1, n) \in Seq(S) /\ Len(SubSeq(Append(s, e), 1, n)) = n
      /\ \A k \in 1 .. n : SubSeq(Append(s, e), 1, n)[k] = Append(s, e)[k]
  BY <1>1, Prefix
<1>4. QED BY <1>1, <1>2, <1>3, SeqEqual

-----------------------------------------------------------------------------
(* What of a list of segments cannot be lost.                               *)
Viewed == [Reliable -> Value \cup {"garbage"}]

LEMMA SegmentsAreRegisters ==
    /\ Segment \cup {Garbage} \subseteq Registers
    /\ \A s \in Seq(Segment) : s \in Seq(Registers)
<1>1. Segment \subseteq Registers
  BY ParameterAssumption DEF ParameterAssumption, Registers
<1>2. Garbage \in Registers
  BY DEF Garbage, Registers
<1>3. QED BY <1>1, <1>2

LEMMA ViewIsViewed ==
    ASSUME NEW s \in Registers
    PROVE  View(s) \in Viewed
BY DEF View, Viewed, Registers, Reliable

LEMMA ViewsOf ==
    ASSUME NEW s \in Seq(Registers)
    PROVE  /\ Views(s) \in Seq(Viewed) /\ Len(Views(s)) = Len(s)
           /\ \A k \in 1 .. Len(s) : Views(s)[k] = View(s[k])
<1>1. \A k \in 1 .. Len(s) : View(s[k]) \in Viewed
  BY ElementOfSeq, ViewIsViewed
<1>2. Len(s) \in Nat
  OBVIOUS
<1>3. Views(s) \in [1 .. Len(s) -> Viewed]
  BY <1>1 DEF Views
<1>4. QED BY <1>2, <1>3 DEF Views

LEMMA ViewsOfSegments ==
    ASSUME NEW s \in Seq(Segment)
    PROVE  Views(s) \in Seq([Reliable -> Value])
<1>1. ASSUME NEW k \in 1 .. Len(s)
      PROVE  View(s[k]) \in [Reliable -> Value]
  <2>1. s[k] \in [Parameters -> Value]
    BY ElementOfSeq, ParameterAssumption DEF ParameterAssumption
  <2>2. QED BY <2>1 DEF View, Reliable
<1>2. Len(s) \in Nat
  OBVIOUS
<1>3. QED BY <1>1, <1>2 DEF Views

LEMMA ViewsEmpty == Views(<<>>) = <<>>
<1>1. <<>> \in Seq(Registers)
  BY EmptySeq
<1>2. Views(<<>>) \in Seq(Viewed) /\ Len(Views(<<>>)) = 0
  BY <1>1, ViewsOf
<1>3. QED BY <1>2, EmptySeq

LEMMA ViewsAppend ==
    ASSUME NEW s \in Seq(Registers), NEW e \in Registers
    PROVE  Views(Append(s, e)) = Append(Views(s), View(e))
<1>1. Append(s, e) \in Seq(Registers) /\ Len(Append(s, e)) = Len(s) + 1
  OBVIOUS
<1>2. /\ Views(Append(s, e)) \in Seq(Viewed) /\ Len(Views(Append(s, e))) = Len(s) + 1
      /\ \A k \in 1 .. Len(s) + 1 : Views(Append(s, e))[k] = View(Append(s, e)[k])
  BY <1>1, ViewsOf
<1>3. /\ Views(s) \in Seq(Viewed) /\ Len(Views(s)) = Len(s) /\ View(e) \in Viewed
      /\ \A k \in 1 .. Len(s) : Views(s)[k] = View(s[k])
  BY ViewsOf, ViewIsViewed
<1>4. /\ Append(Views(s), View(e)) \in Seq(Viewed)
      /\ Len(Append(Views(s), View(e))) = Len(s) + 1
  BY <1>3
<1>5. ASSUME NEW k \in 1 .. Len(s) + 1
      PROVE  Views(Append(s, e))[k] = Append(Views(s), View(e))[k]
  <2>1. CASE k = Len(s) + 1
    <3>1. Append(s, e)[k] = e
      BY <2>1
    <3>2. Append(Views(s), View(e))[k] = View(e)
      BY <1>3, <2>1
    <3>3. QED BY <1>2, <3>1, <3>2
  <2>2. CASE k # Len(s) + 1
    <3>1. k \in 1 .. Len(s)
      BY <2>2
    <3>2. Append(s, e)[k] = s[k]
      BY <3>1
    <3>3. Append(Views(s), View(e))[k] = Views(s)[k]
      BY <1>3, <3>1
    <3>4. QED BY <1>2, <1>3, <3>1, <3>2, <3>3
  <2>3. QED BY <2>1, <2>2
<1>6. QED BY <1>2, <1>4, <1>5, SeqEqual

\* Where nothing can be lost, the views are the whole.
LEMMA ViewsAreExact ==
    ASSUME Losable = {}, NEW s \in Seq(Registers), NEW t \in Seq(Registers),
           Views(s) = Views(t)
    PROVE  s = t
<1>1. Reliable = Parameters
  BY DEF Reliable
<1>2. \A x \in Registers : View(x) = x
  BY <1>1 DEF View, Registers
<1>3. Len(s) = Len(t)
  BY ViewsOf
<1>4. ASSUME NEW k \in 1 .. Len(s)
      PROVE  s[k] = t[k]
  <2>1. s[k] \in Registers /\ t[k] \in Registers
    BY <1>3, ElementOfSeq
  <2>2. Views(s)[k] = s[k]
    BY <1>2, <2>1, ViewsOf
  <2>3. Views(t)[k] = t[k]
    BY <1>2, <1>3, <2>1, ViewsOf
  <2>4. QED BY <2>2, <2>3
<1>5. QED BY <1>3, <1>4, SeqEqual

LEMMA WrittenKeepsView ==
    ASSUME TypeOK, NEW s \in Registers, NEW lost \in SUBSET Losable
    PROVE  Written(s, lost) \in Registers /\ View(Written(s, lost)) = View(s)
<1>1. drive.registers \in Registers
  BY DEF TypeOK
<1>2. Written(s, lost) \in Registers
  BY <1>1 DEF Written, Registers
<1>3. \A p \in Reliable : Written(s, lost)[p] = s[p]
  BY DEF Written, Reliable
<1>4. QED BY <1>2, <1>3 DEF View

-----------------------------------------------------------------------------
\* What the main thread sees at index 6 is whether the drive waits for a segment.
LEMMA Bit9 ==
    ASSUME TypeOK, NEW other \in OtherBits
    PROVE  StatusChar(StatusWord(other), 6) = IF drive.ready THEN 1 ELSE 0
<1>1. other \in Nat /\ 4096 <= other /\ other <= 65535 /\ (other \div 256) % 4 = 0
  BY StatusAssumption, SMT DEF StatusAssumption
<1>2. drive.ready \in BOOLEAN /\ drive.programming \in BOOLEAN
  BY DEF TypeOK
<1>3. /\ StatusWord(other) \in Int /\ 4096 <= StatusWord(other)
      /\ StatusWord(other) <= 65535
  BY <1>1, <1>2, SMT DEF StatusWord
<1>4. (StatusWord(other) \div 512) % 2 = IF drive.ready THEN 1 ELSE 0
  BY <1>1, <1>2, SMT DEF StatusWord
<1>5. QED BY <1>3, <1>4, StatusBits, SMT

-----------------------------------------------------------------------------
LEMMA MoveFacts ==
    ASSUME Conditions, NEW m \in Moves
    PROVE  /\ m.segments \in Seq(Segment) /\ m.segments \in Seq(Registers)
           /\ m.typeAt = Len(m.segments)
BY MoveAssumption, SegmentsAreRegisters DEF MoveAssumption, Conditions, TypeLast

LEMMA UploadedMove ==
    ASSUME Conditions, TypeOK, UploadState, Uploading
    PROVE  /\ move.segments \in Seq(Registers)
           /\ Views(move.segments) \in Seq(Viewed)
           /\ Len(Views(move.segments)) = Len(move.segments)
           /\ i \in Nat /\ i < Len(move.segments) /\ Len(move.segments) <= MaxSegments
           /\ segments[i] \in Registers
           /\ View(segments[i]) = Views(move.segments)[i + 1]
<1>1. move.segments \in Seq(Registers)
  BY MoveFacts DEF UploadState
<1>2. /\ i \in Nat /\ i < Len(move.segments)
      /\ Len(move.segments) \in 1 .. MaxSegments /\ MaxSegments \in Nat
      /\ \A k \in 0 .. Len(move.segments) - 1 : segments[k] = move.segments[k + 1]
  BY MoveAssumption DEF MoveAssumption, TypeOK, UploadState
<1>3. i \in 0 .. Len(move.segments) - 1 /\ i + 1 \in 1 .. Len(move.segments)
  BY <1>1, <1>2
<1>4. segments[i] = move.segments[i + 1] /\ move.segments[i + 1] \in Registers
  BY <1>1, <1>2, <1>3, ElementOfSeq
<1>5. /\ Views(move.segments) \in Seq(Viewed)
      /\ Len(Views(move.segments)) = Len(move.segments)
      /\ Views(move.segments)[i + 1] = View(move.segments[i + 1])
  BY <1>1, <1>3, ViewsOf
<1>6. QED BY <1>1, <1>2, <1>4, <1>5

LEMMA ParsedKeepsSegments ==
    ASSUME Conditions, NEW m \in Moves, m.form = "json", ~Refused(m)
    PROVE  /\ Parsed(m) \in [0 .. MaxSegments - 1 -> Segment \cup {Garbage}]
           /\ Len(m.segments) \in 1 .. MaxSegments
           /\ \A k \in 0 .. Len(m.segments) - 1 : Parsed(m)[k] = m.segments[k + 1]
<1>1. m.segments \in Seq(Segment) /\ m.typeAt = Len(m.segments)
  BY MoveFacts
<1>2. Len(m.segments) \in 1 .. MaxSegments
  BY DEF Refused
<1>3. MaxSegments \in Nat
  BY MoveAssumption DEF MoveAssumption
<1>4. ASSUME NEW k \in 0 .. MaxSegments - 1
      PROVE  /\ k < m.typeAt => m.segments[k + 1] \in Segment
             /\ ~(m.typeAt < k /\ k <= Len(m.segments))
  BY <1>1, <1>3
<1>5. Parsed(m) \in [0 .. MaxSegments - 1 -> Segment \cup {Garbage}]
  BY <1>4 DEF Parsed
<1>6. ASSUME NEW k \in 0 .. Len(m.segments) - 1
      PROVE  Parsed(m)[k] = m.segments[k + 1]
  <2>1. k \in 0 .. MaxSegments - 1 /\ k < m.typeAt
    BY <1>1, <1>2, <1>3
  <2>2. QED BY <2>1 DEF Parsed
<1>7. QED BY <1>2, <1>5, <1>6

Drives == [programming : BOOLEAN, ready : BOOLEAN,
           registers : Registers, memory : Seq(Registers)]

\* What an order to the drive leaves it in.
LEMMA DriveKeepsType ==
    ASSUME TypeOK
    PROVE  /\ drive \in Drives /\ GetReady \in Drives /\ Normal \in Drives
           /\ GetReady.programming /\ GetReady.ready
           /\ GetReady.memory = IF drive.programming THEN drive.memory ELSE <<>>
           /\ Normal.memory = drive.memory
<1> DEFINE Memory == Seq(Registers)
<1>1. /\ drive \in [programming : BOOLEAN, ready : BOOLEAN,
                    registers : Registers, memory : Memory]
      /\ <<>> \in Memory
  BY EmptySeq DEF TypeOK
<1> HIDE DEF Memory
<1>2. GetReady \in [programming : BOOLEAN, ready : BOOLEAN,
                    registers : Registers, memory : Memory]
  BY <1>1 DEF GetReady
<1>3. Normal \in [programming : BOOLEAN, ready : BOOLEAN,
                  registers : Registers, memory : Memory]
  BY <1>1 DEF Normal
<1>4. /\ GetReady.programming /\ GetReady.ready
      /\ GetReady.memory = IF drive.programming THEN drive.memory ELSE <<>>
  BY <1>1 DEF GetReady
<1>5. Normal.memory = drive.memory
  BY <1>1 DEF Normal
<1>6. QED BY <1>1, <1>2, <1>3, <1>4, <1>5 DEF Drives, Memory

\* The drive takes what the registers hold, or takes nothing.
LEMMA RegistersKeepType ==
    ASSUME TypeOK, NEW r \in Registers
    PROVE  /\ [drive EXCEPT !.registers = r] \in Drives
           /\ [drive EXCEPT !.registers = r].memory = drive.memory
           /\ [drive EXCEPT !.registers = r].ready = drive.ready
           /\ [drive EXCEPT !.registers = r].programming = drive.programming
           /\ drive.ready => /\ Take(r) \in Drives /\ ~Take(r).ready
                             /\ Take(r).memory = Append(drive.memory, r)
                             /\ Take(r).programming = drive.programming
<1> DEFINE Memory == Seq(Registers)
<1>1. /\ drive \in [programming : BOOLEAN, ready : BOOLEAN,
                    registers : Registers, memory : Memory]
      /\ Append(drive.memory, r) \in Memory
  BY DEF TypeOK
<1> HIDE DEF Memory
<1>2. /\ [drive EXCEPT !.registers = r] \in [programming : BOOLEAN, ready : BOOLEAN,
                                             registers : Registers, memory : Memory]
      /\ [drive EXCEPT !.registers = r].memory = drive.memory
      /\ [drive EXCEPT !.registers = r].ready = drive.ready
      /\ [drive EXCEPT !.registers = r].programming = drive.programming
  BY <1>1
<1>3. ASSUME drive.ready
      PROVE  /\ Take(r) \in [programming : BOOLEAN, ready : BOOLEAN,
                              registers : Registers, memory : Memory]
             /\ ~Take(r).ready /\ Take(r).memory = Append(drive.memory, r)
             /\ Take(r).programming = drive.programming
  BY <1>1, <1>3 DEF Take
<1>4. QED BY <1>2, <1>3 DEF Drives, Memory

\* A segment that the drive takes is the one of this turn, but for what is lost.
LEMMA SegmentStep ==
    ASSUME Conditions, TypeOK, UploadState, ProgramSegment
    PROVE  /\ pc = "program" /\ pc' = "check" /\ Uploading
           /\ UNCHANGED <<move, result, segments, i, bit9, told>>
           /\ drive' \in Drives /\ drive.programming /\ drive'.programming
           /\ Views(drive.memory) = SubSeq(Views(move.segments), 1, i)
           /\ \/ drive'.ready /\ drive'.memory = drive.memory
              \/ /\ ~drive'.ready /\ Len(drive'.memory) = Len(drive.memory) + 1
                 /\ Views(drive'.memory) = Append(Views(drive.memory),
                                                 Views(move.segments)[i + 1])
<1>1. /\ pc = "program" /\ pc' = "check" /\ UNCHANGED <<move, result>>
      /\ UNCHANGED <<segments, i, bit9, told>> /\ Uploading
  BY DEF ProgramSegment, upload, Uploading
<1>2. /\ drive.ready /\ drive.programming
      /\ Views(drive.memory) = SubSeq(Views(move.segments), 1, i)
  BY <1>1 DEF UploadState, Uploading, Taken
<1>3. segments[i] \in Registers /\ View(segments[i]) = Views(move.segments)[i + 1]
  BY <1>1, UploadedMove
<1>4. drive \in Drives /\ drive.memory \in Seq(Registers)
  BY DriveKeepsType DEF Drives
<1>5. CASE drive' = drive
  BY <1>1, <1>2, <1>4, <1>5
<1>6. ASSUME NEW lost \in SUBSET Losable,
             drive' \in {Take(Written(segments[i], lost)),
                         [drive EXCEPT !.registers = Written(segments[i], lost)]}
      PROVE  /\ drive' \in Drives /\ drive'.programming
             /\ \/ drive'.ready /\ drive'.memory = drive.memory
                \/ /\ ~drive'.ready /\ Len(drive'.memory) = Len(drive.memory) + 1
                   /\ Views(drive'.memory) = Append(Views(drive.memory),
                                                   Views(move.segments)[i + 1])
  <2> DEFINE r == Written(segments[i], lost)
  <2>1. r \in Registers /\ View(r) = Views(move.segments)[i + 1]
    BY <1>3, WrittenKeepsView
  <2> HIDE DEF r
  <2>2. CASE drive' = [drive EXCEPT !.registers = r]
    <3>1. /\ drive' \in Drives /\ drive'.memory = drive.memory
          /\ drive'.ready = drive.ready /\ drive'.programming = drive.programming
      BY <2>1, <2>2, RegistersKeepType
    <3>2. QED BY <1>2, <3>1
  <2>3. CASE drive' = Take(r)
    <3>1. /\ drive' \in Drives /\ ~drive'.ready /\ drive'.programming = drive.programming
          /\ drive'.memory = Append(drive.memory, r)
      BY <1>2, <2>1, <2>3, RegistersKeepType
    <3>2. Views(drive'.memory) = Append(Views(drive.memory), View(r))
      BY <1>4, <2>1, <3>1, ViewsAppend
    <3>3. Len(drive'.memory) = Len(drive.memory) + 1
      BY <1>4, <2>1, <3>1
    <3>4. QED BY <1>2, <2>1, <3>1, <3>2, <3>3
  <2>4. QED BY <1>6, <2>2, <2>3 DEF r
<1>7. QED BY <1>1, <1>2, <1>5, <1>6 DEF ProgramSegment

-----------------------------------------------------------------------------
Inv == TypeOK /\ UploadState

LEMMA InvInit == Init => Inv
<1> SUFFICES ASSUME Init PROVE Inv
  OBVIOUS
<1>1. MaxSegments \in Nat \ {0}
  BY MoveAssumption DEF MoveAssumption
<1>2. drive \in Drives
  BY EmptySeq, SegmentsAreRegisters DEF Init, Drives
<1>3. TypeOK
  BY <1>1, <1>2, EmptySeq DEF Init, TypeOK, Cleared, Drives
<1>4. UploadState
  BY DEF Init, UploadState, Uploading, Taken
<1>5. QED BY <1>3, <1>4 DEF Inv

\* What else moves the motor keeps the memory.
LEMMA OtherCommandKeepsMemory ==
    ASSUME TypeOK, OtherCommand
    PROVE  drive' \in Drives /\ drive'.memory = drive.memory
<1>1. PICK d \in {drive, Normal}, written \in SUBSET Parameters :
         drive' = [d EXCEPT !.registers =
                     [p \in Parameters |-> IF p \in written THEN "garbage" ELSE @[p]]]
  BY DEF OtherCommand
<1> DEFINE Memory == Seq(Registers)
           r == [p \in Parameters |-> IF p \in written THEN "garbage" ELSE d.registers[p]]
<1>2. /\ d \in [programming : BOOLEAN, ready : BOOLEAN,
                registers : Registers, memory : Memory]
      /\ d.memory = drive.memory
  BY DriveKeepsType DEF Drives
<1>3. r \in Registers
  BY <1>2 DEF Registers
<1>4. drive' = [d EXCEPT !.registers = r]
  BY <1>1
<1> HIDE DEF Memory, r
<1>5. /\ drive' \in [programming : BOOLEAN, ready : BOOLEAN,
                     registers : Registers, memory : Memory]
      /\ drive'.memory = drive.memory
  BY <1>2, <1>3, <1>4
<1>6. QED BY <1>5 DEF Drives, Memory

\* A request that fails, or ends the process, leaves no upload behind.
LEMMA EndKeepsInv ==
    ASSUME TypeOK, Fail \/ (Die /\ UNCHANGED drive),
           UNCHANGED <<move, segments, i, told>>, bit9' \in 0 .. 2
    PROVE  Inv'
<1>1. /\ pc' \in {"idle", "dead"} /\ result' \in {"FAILED", "died"}
      /\ drive' \in {drive, Normal}
  BY DEF Fail, Die
<1>2. TypeOK'
  BY <1>1, DriveKeepsType DEF TypeOK, Drives
<1>3. UploadState'
  BY <1>1 DEF UploadState, Uploading, Taken
<1>4. QED BY <1>2, <1>3 DEF Inv

LEMMA InvStep ==
    ASSUME Conditions, Inv, [Next]_vars
    PROVE  Inv'
<1> USE DEF Inv
<1>0. /\ "ready lost" \notin Faults /\ "unread check" \notin Faults
      /\ "controller" \notin Faults /\ Again = FALSE
  BY DEF Conditions, Tolerated
<1>1. CASE ProgramFirstBlock
  <2>1. CASE Fail /\ UNCHANGED <<move, told>>
    BY <1>1, <2>1, EndKeepsInv DEF ProgramFirstBlock, TypeOK
  <2>2. CASE /\ pc' = "first" /\ result' = "none" /\ move' = NoMove /\ told' = <<>>
             /\ drive' = GetReady
    <3>1. ~drive.programming
      BY <1>0, <1>1 DEF ProgramFirstBlock
    <3>2. TypeOK'
      BY <1>1, <2>2, DriveKeepsType, EmptySeq DEF ProgramFirstBlock, TypeOK, Drives
    <3>3. UploadState'
      BY <2>2, <3>1, DriveKeepsType DEF UploadState, Uploading, Taken
    <3>4. QED BY <3>2, <3>3
  <2>3. QED BY <1>0, <1>1, <2>1, <2>2 DEF ProgramFirstBlock
<1>2. CASE ReadFirstStatus
  <2>1. CASE Fail
    BY <1>2, <2>1, EndKeepsInv DEF ReadFirstStatus, TypeOK, upload
  <2>2. CASE pc' = "waiting" /\ result' = "READY" /\ UNCHANGED drive
    <3>1. pc = "first" /\ UNCHANGED <<move, segments, i, bit9, told>>
      BY <1>2 DEF ReadFirstStatus, upload
    <3>2. TypeOK'
      BY <2>2, <3>1 DEF TypeOK
    <3>3. UploadState'
      BY <2>2, <3>1 DEF UploadState, Uploading, Taken
    <3>4. QED BY <3>2, <3>3
  <2>3. QED BY <1>0, <1>2, <2>1, <2>2 DEF ReadFirstStatus
<1>3. ASSUME NEW m \in Moves, Parse(m)
      PROVE  Inv'
  <2>1. CASE Kills(m) /\ Die /\ UNCHANGED <<move, upload, drive>>
    BY <2>1, EndKeepsInv DEF TypeOK, upload
  <2>2. CASE Refused(m) /\ Fail /\ UNCHANGED <<move, upload>>
    BY <2>2, EndKeepsInv DEF TypeOK, upload
  <2>3. CASE /\ m.form = "json" /\ ~Refused(m) /\ pc' = "program" /\ move' = m
             /\ segments' = Parsed(m) /\ i' = 0 /\ UNCHANGED <<bit9, told, result, drive>>
    <3>1. /\ m.segments \in Seq(Registers) /\ Len(m.segments) \in 1 .. MaxSegments
          /\ MaxSegments \in Nat \ {0}
      BY <2>3, MoveFacts, ParsedKeepsSegments, MoveAssumption DEF MoveAssumption
    <3>2. TypeOK'
      BY <2>3, <3>1, ParsedKeepsSegments DEF TypeOK
    <3>3. /\ pc = "waiting" /\ drive.programming /\ drive.ready
          /\ drive.memory = <<>> /\ result = "READY"
      BY <1>3 DEF Parse, UploadState
    <3>4. SubSeq(Views(m.segments), 1, 0) = Views(<<>>)
      <4>1. SubSeq(Views(m.segments), 1, 0) = <<>>
        BY SubSeqEmpty
      <4>2. QED BY <4>1, ViewsEmpty
    <3>5. UploadState'
      <4>1. i' < Len(move'.segments)
        BY <2>3, <3>1
      <4>2. \A k \in 0 .. Len(move'.segments) - 1 : segments'[k] = move'.segments[k + 1]
        BY <2>3, ParsedKeepsSegments
      <4>3. Views(drive'.memory)
               = SubSeq(Views(move'.segments), 1, IF Taken' THEN i' + 1 ELSE i')
        BY <2>3, <3>3, <3>4 DEF Taken
      <4>4. QED BY <2>3, <3>1, <3>3, <4>1, <4>2, <4>3 DEF UploadState, Uploading
    <3>6. QED BY <3>2, <3>5
  <2>4. QED BY <1>3, <2>1, <2>2, <2>3 DEF Parse
<1>4. CASE ProgramSegment
  <2>1. /\ pc = "program" /\ pc' = "check" /\ Uploading
        /\ UNCHANGED <<move, result, segments, i, bit9, told>>
        /\ drive' \in Drives /\ drive'.programming
        /\ Views(drive.memory) = SubSeq(Views(move.segments), 1, i)
        /\ \/ drive'.ready /\ drive'.memory = drive.memory
           \/ /\ ~drive'.ready
              /\ Views(drive'.memory) = Append(Views(drive.memory), Views(move.segments)[i + 1])
    BY <1>4, SegmentStep
  <2>2. TypeOK'
    BY <2>1 DEF TypeOK, Drives
  <2>3. UploadState'
    <3>1. SubSeq(Views(move.segments), 1, i + 1)
             = Append(SubSeq(Views(move.segments), 1, i), Views(move.segments)[i + 1])
      <4>1. /\ Views(move.segments) \in Seq(Viewed) /\ i \in 0 .. Len(Views(move.segments))
            /\ i < Len(Views(move.segments))
        BY <2>1, UploadedMove
      <4>2. QED BY <4>1, NextPrefix
    <3>2. Views(drive'.memory)
             = SubSeq(Views(move.segments), 1, IF drive'.ready THEN i ELSE i + 1)
      BY <2>1, <3>1
    <3>3. /\ move \in Moves /\ i < Len(move.segments)
          /\ Len(move.segments) \in 1 .. MaxSegments
          /\ \A k \in 0 .. Len(move.segments) - 1 : segments[k] = move.segments[k + 1]
          /\ result = "READY"
      BY <2>1 DEF UploadState, Uploading
    <3>4. QED BY <2>1, <3>2, <3>3 DEF UploadState, Uploading, Taken
  <2>4. QED BY <2>2, <2>3
<1>5. CASE CheckSegment
  <2>0. /\ pc = "check" /\ UNCHANGED <<move, segments, i, told>>
        /\ \/ Fail /\ bit9' \in 0 .. 2
           \/ /\ bit9' = IF drive.ready THEN 1 ELSE 0
              /\ IF bit9' = 0 THEN pc' = "prepare" /\ UNCHANGED <<result, drive>> ELSE Fail
    <3>1. CASE Fail /\ UNCHANGED bit9
      BY <1>5, <3>1 DEF CheckSegment, TypeOK
    <3>2. CASE /\ \E other \in OtherBits : bit9' = StatusChar(StatusWord(other), 6)
               /\ IF bit9' = 0 THEN pc' = "prepare" /\ UNCHANGED <<result, drive>> ELSE Fail
      BY <1>5, <3>2, Bit9 DEF CheckSegment
    <3>3. QED BY <1>0, <1>5, <3>1, <3>2 DEF CheckSegment
  <2>1. CASE Fail
    <3>1. bit9' \in 0 .. 2
      BY <2>0
    <3>2. QED BY <2>0, <2>1, <3>1, EndKeepsInv
  <2>2. CASE /\ pc' = "prepare" /\ UNCHANGED <<result, drive>>
             /\ bit9' = 0 /\ bit9' = IF drive.ready THEN 1 ELSE 0
    <3>1. pc = "check" /\ UNCHANGED <<move, segments, i, told>> /\ ~drive.ready
      BY <2>0, <2>2
    <3>2. TypeOK'
      BY <2>2, <3>1 DEF TypeOK
    <3>3. UploadState'
      BY <2>2, <3>1 DEF UploadState, Uploading, Taken
    <3>4. QED BY <3>2, <3>3
  <2>3. QED BY <2>0, <2>1, <2>2
<1>6. CASE Prepare
  <2>1. CASE Fail
    BY <1>6, <2>1, EndKeepsInv DEF Prepare, TypeOK, upload
  <2>2. CASE pc' = "confirm" /\ drive' = GetReady /\ UNCHANGED result
    <3>1. /\ pc = "prepare" /\ drive.programming
          /\ UNCHANGED <<move, segments, i, bit9, told>>
      BY <1>6 DEF Prepare, upload, UploadState, Uploading
    <3>2. TypeOK'
      BY <2>2, <3>1, DriveKeepsType DEF TypeOK, Drives
    <3>3. drive'.programming /\ drive'.ready /\ drive'.memory = drive.memory
      BY <2>2, <3>1, DriveKeepsType
    <3>4. UploadState'
      BY <2>2, <3>1, <3>3 DEF UploadState, Uploading, Taken
    <3>5. QED BY <3>2, <3>4
  <2>3. QED BY <1>0, <1>6, <2>1, <2>2 DEF Prepare
<1>7. CASE Confirm
  <2>1. /\ pc = "confirm" /\ UNCHANGED <<move, segments>>
        /\ move.segments \in Seq(Registers) /\ i \in Nat /\ i < Len(move.segments)
        /\ Len(move.segments) <= MaxSegments /\ MaxSegments \in Nat
        /\ Views(move.segments) \in Seq(Viewed)
        /\ Len(Views(move.segments)) = Len(move.segments)
        /\ drive.programming /\ drive.ready /\ result = "READY"
        /\ Views(drive.memory) = SubSeq(Views(move.segments), 1, i + 1)
    BY <1>7, UploadedMove, MoveAssumption
       DEF Confirm, UploadState, Uploading, Taken, MoveAssumption
  <2>2. bit9' \in 0 .. 2
    <3>1. \/ UNCHANGED bit9
          \/ \E other \in OtherBits : bit9' = StatusChar(StatusWord(other), 6)
      BY <1>7 DEF Confirm
    <3>2. QED BY <3>1, Bit9 DEF TypeOK
  <2>3. CASE Fail \/ (Die /\ UNCHANGED drive)
    <3>1. UNCHANGED <<i, told>>
      BY <1>7, <2>1, <2>3 DEF Confirm, Fail, Die, NextSegment
    <3>2. QED BY <2>1, <2>2, <2>3, <3>1, EndKeepsInv
  <2>4. CASE /\ told' = IF bit9' = 1 THEN Append(told, i + 1) ELSE told
             /\ NextSegment /\ UNCHANGED drive
    <3>1. told' \in Seq(1 .. MaxSegments)
      <4>1. i + 1 \in 1 .. MaxSegments
        BY <2>1
      <4>2. told \in Seq(1 .. MaxSegments) /\ Append(told, i + 1) \in Seq(1 .. MaxSegments)
        BY <4>1 DEF TypeOK
      <4>3. QED BY <2>4, <4>2
    <3>2. CASE i + 1 < Len(move.segments)
      <4>1. pc' = "program" /\ i' = i + 1 /\ UNCHANGED result
        BY <2>4, <3>2 DEF NextSegment
      <4>2. TypeOK'
        BY <2>1, <2>2, <2>4, <3>1, <3>2, <4>1 DEF TypeOK
      <4>3. UploadState'
        BY <2>1, <2>4, <3>2, <4>1 DEF UploadState, Uploading, Taken
      <4>4. QED BY <4>2, <4>3
    <3>3. CASE ~(i + 1 < Len(move.segments))
      <4>1. pc' = "idle" /\ result' = "ACCEPTED" /\ UNCHANGED i
        BY <2>4, <3>3 DEF NextSegment
      <4>2. TypeOK'
        BY <2>1, <2>2, <2>4, <3>1, <4>1 DEF TypeOK
      <4>3. i + 1 = Len(move.segments)
        BY <2>1, <3>3
      <4>4. Views(drive.memory) = Views(move.segments)
        BY <2>1, <4>3, SubSeqFull
      <4>5. UploadState'
        BY <2>1, <2>4, <4>1, <4>4 DEF UploadState, Uploading, Taken
      <4>6. QED BY <4>2, <4>5
    <3>4. QED BY <3>2, <3>3
  <2>5. QED BY <1>7, <2>3, <2>4 DEF Confirm
<1>8. CASE OtherCommand
  <2>1. pc = "idle" /\ UNCHANGED <<pc, move, result, segments, i, bit9, told>>
    BY <1>0, <1>8 DEF OtherCommand, session, upload
  <2>2. drive' \in Drives /\ drive'.memory = drive.memory
    BY <1>8, OtherCommandKeepsMemory
  <2>3. TypeOK' /\ UploadState'
    BY <2>1, <2>2 DEF TypeOK, Drives, UploadState, Uploading, Taken
  <2>4. QED BY <2>3
<1>9. CASE Restart
  <2>1. pc' = "idle" /\ UNCHANGED <<move, result, segments, i, bit9, told, drive>>
    BY <1>9 DEF Restart, upload
  <2>2. QED BY <2>1 DEF TypeOK, UploadState, Uploading, Taken
<1>10. CASE ClientGone
  <2>1. /\ pc' = "idle" /\ result' = "none" /\ UNCHANGED <<move, segments, i, bit9, told>>
        /\ drive' \in {drive, Normal}
    BY <1>10 DEF ClientGone, upload
  <2>2. drive' \in Drives /\ drive'.memory = drive.memory
    BY <2>1, DriveKeepsType
  <2>3. QED BY <2>1, <2>2 DEF TypeOK, Drives, UploadState, Uploading, Taken
<1>11. CASE UNCHANGED vars
  BY <1>11 DEF vars, TypeOK, UploadState, Uploading, Taken
<1>12. QED
  BY <1>1, <1>2, <1>3, <1>4, <1>5, <1>6, <1>7, <1>8, <1>9, <1>10, <1>11 DEF Next

LEMMA InvHolds ==
    ASSUME Conditions
    PROVE  Spec => []Inv
BY InvInit, InvStep, PTL DEF Spec

\* Wherever the main thread is in the upload, the array, the drive's memory and
\* the bit the drive shows agree on the segment it is at.
THEOREM UploadIsInStep ==
    ASSUME Conditions
    PROVE  Spec => []UploadState
<1>1. Inv => UploadState
  BY DEF Inv
<1>2. QED BY <1>1, InvHolds, PTL

(* Types, for every set of moves and every size of the array.               *)
THEOREM TypeCorrect ==
    ASSUME Conditions
    PROVE  Spec => []TypeOK
<1>1. Inv => TypeOK
  BY DEF Inv
<1>2. QED BY <1>1, InvHolds, PTL

\* SMD_Constants.h:289, for a client that lists the type last, and as long as no
\* write of a parameter is lost unnoticed: ASSEMBLED_MOVE_ACCEPTED means that the
\* drive holds the whole move, in the client's order.
THEOREM AcceptedIsLoaded ==
    ASSUME Conditions, Losable = {}
    PROVE  Spec => []AcceptedMeansLoaded
<1>1. ASSUME Inv PROVE AcceptedMeansLoaded
  <2>1. drive.memory \in Seq(Registers)
    BY <1>1 DEF Inv, TypeOK
  <2>2. move.segments \in Seq(Registers)
    <3>1. CASE move = NoMove
      BY <3>1, EmptySeq DEF NoMove
    <3>2. QED BY <1>1, <3>1, MoveFacts DEF Inv, TypeOK
  <2>3. result = "ACCEPTED" => Views(drive.memory) = Views(move.segments)
    BY <1>1 DEF Inv, UploadState
  <2>4. QED BY <2>1, <2>2, <2>3, ViewsAreExact DEF AcceptedMeansLoaded
<1>2. QED BY <1>1, InvHolds, PTL

-----------------------------------------------------------------------------
LEMMA ToldStep ==
    ASSUME Conditions, Inv, Inv', ToldIsLoaded, [Next]_vars
    PROVE  ToldIsLoaded'
<1> USE DEF Inv
<1>0. /\ "ready lost" \notin Faults /\ "controller" \notin Faults /\ Again = FALSE
  BY DEF Conditions, Tolerated
<1>1. CASE UNCHANGED <<move, told>> /\ drive'.memory = drive.memory
  BY <1>1 DEF ToldIsLoaded
<1>2. CASE told' = <<>>
  BY <1>2 DEF ToldIsLoaded
<1>3. CASE ProgramFirstBlock
  <2>1. CASE Fail /\ UNCHANGED <<move, told>>
    BY <1>1, <2>1, DriveKeepsType DEF Fail
  <2>2. QED BY <1>2, <1>3, <2>1 DEF ProgramFirstBlock
<1>4. CASE ReadFirstStatus
  <2>1. UNCHANGED <<move, told>> /\ drive' \in {drive, Normal}
    BY <1>4 DEF ReadFirstStatus, upload, Fail
  <2>2. QED BY <1>1, <2>1, DriveKeepsType
<1>5. ASSUME NEW m \in Moves, Parse(m)
      PROVE  ToldIsLoaded'
  <2>1. told' = <<>>
    BY <1>5 DEF Parse, upload, UploadState
  <2>2. QED BY <1>2, <2>1
<1>6. CASE ProgramSegment
  <2>1. /\ UNCHANGED <<move, told>>
        /\ \/ drive'.memory = drive.memory
           \/ /\ Len(drive'.memory) = Len(drive.memory) + 1
              /\ Views(drive'.memory) = Append(Views(drive.memory), Views(move.segments)[i + 1])
    BY <1>6, SegmentStep
  <2>2. CASE /\ Len(drive'.memory) = Len(drive.memory) + 1
             /\ Views(drive'.memory) = Append(Views(drive.memory), Views(move.segments)[i + 1])
    <3>1. drive.memory \in Seq(Registers)
      BY DEF TypeOK
    <3>2. Views(drive.memory) \in Seq(Viewed) /\ Len(Views(drive.memory)) = Len(drive.memory)
      BY <3>1, ViewsOf
    <3>3. Views(move.segments)[i + 1] \in Viewed
      BY <1>6, SegmentStep, UploadedMove, ViewIsViewed
    <3>4. ASSUME NEW n \in DOMAIN told
          PROVE  /\ told[n] <= Len(drive'.memory) /\ told[n] <= Len(move.segments)
                 /\ SubSeq(Views(drive'.memory), 1, told[n])
                       = SubSeq(Views(move.segments), 1, told[n])
      <4>1. /\ told[n] <= Len(drive.memory) /\ told[n] <= Len(move.segments)
            /\ SubSeq(Views(drive.memory), 1, told[n]) = SubSeq(Views(move.segments), 1, told[n])
        BY DEF ToldIsLoaded
      <4>2. told[n] \in Nat
        <5>1. told \in Seq(1 .. MaxSegments) /\ n \in 1 .. Len(told)
          BY DEF TypeOK
        <5>2. told[n] \in 1 .. MaxSegments
          BY <5>1, ElementOfSeq
        <5>3. QED BY <5>2, MoveAssumption DEF MoveAssumption
      <4>3. told[n] \in 0 .. Len(Views(drive.memory)) /\ Len(drive.memory) \in Nat
        BY <3>1, <3>2, <4>1, <4>2
      <4>4. SubSeq(Views(drive'.memory), 1, told[n]) = SubSeq(Views(drive.memory), 1, told[n])
        BY <2>2, <3>2, <3>3, <4>3, PrefixOfAppend
      <4>5. told[n] <= Len(drive'.memory)
        BY <2>2, <4>1, <4>2, <4>3
      <4>6. QED BY <4>1, <4>4, <4>5
    <3>5. QED BY <2>1, <3>4 DEF ToldIsLoaded
  <2>3. QED BY <1>1, <2>1, <2>2
<1>7. CASE CheckSegment \/ ClientGone
  <2>1. UNCHANGED <<move, told>> /\ drive' \in {drive, Normal}
    BY <1>7 DEF CheckSegment, ClientGone, upload, Fail
  <2>2. QED BY <1>1, <2>1, DriveKeepsType
<1>8. CASE Prepare
  <2>1. UNCHANGED <<move, told>> /\ drive' \in {drive, Normal, GetReady}
    BY <1>8 DEF Prepare, upload, Fail
  <2>2. drive.programming
    BY <1>8 DEF Prepare, UploadState, Uploading
  <2>3. QED BY <1>1, <2>1, <2>2, DriveKeepsType
<1>9. CASE Confirm
  <2>1. /\ UNCHANGED move /\ drive' \in {drive, Normal}
        /\ told' = told \/ told' = Append(told, i + 1)
    BY <1>9 DEF Confirm, Fail
  <2>2. drive'.memory = drive.memory
    BY <2>1, DriveKeepsType
  <2>3. CASE told' = Append(told, i + 1)
    <3>1. /\ Views(drive.memory) = SubSeq(Views(move.segments), 1, i + 1)
          /\ Views(move.segments) \in Seq(Viewed)
          /\ Len(Views(move.segments)) = Len(move.segments)
          /\ i \in Nat /\ i < Len(move.segments)
      BY <1>9, UploadedMove DEF Confirm, UploadState, Uploading, Taken
    <3>2. i + 1 \in 0 .. Len(Views(move.segments))
      BY <3>1
    <3>3. Views(drive.memory) \in Seq(Viewed) /\ Len(drive.memory) = i + 1
      <4>1. Views(drive.memory) \in Seq(Viewed) /\ Len(Views(drive.memory)) = i + 1
        BY <3>1, <3>2, Prefix
      <4>2. drive.memory \in Seq(Registers)
        BY DEF TypeOK
      <4>3. QED BY <4>1, <4>2, ViewsOf
    <3>4. SubSeq(Views(drive.memory), 1, i + 1) = Views(drive.memory)
      <4>1. Len(Views(drive.memory)) = i + 1
        BY <3>1, <3>2, Prefix
      <4>2. QED BY <3>3, <4>1, SubSeqFull
    <3>5. told \in Seq(1 .. MaxSegments)
      BY DEF TypeOK
    <3>6. ASSUME NEW n \in DOMAIN told'
          PROVE  /\ told'[n] <= Len(drive.memory) /\ told'[n] <= Len(move.segments)
                 /\ SubSeq(Views(drive.memory), 1, told'[n])
                       = SubSeq(Views(move.segments), 1, told'[n])
      <4>1. CASE n \in DOMAIN told
        <5>1. told'[n] = told[n]
          BY <2>3, <3>5, <4>1
        <5>2. QED BY <4>1, <5>1 DEF ToldIsLoaded
      <4>2. CASE n \notin DOMAIN told
        <5>1. told'[n] = i + 1
          BY <2>3, <3>5, <4>2
        <5>2. QED BY <3>1, <3>2, <3>3, <3>4, <5>1
      <4>3. QED BY <4>1, <4>2
    <3>7. QED BY <2>1, <2>2, <3>6 DEF ToldIsLoaded
  <2>4. QED BY <1>1, <2>1, <2>2, <2>3
<1>10. CASE Restart \/ UNCHANGED vars
  BY <1>1, <1>10 DEF Restart, upload, vars
<1>11. CASE OtherCommand
  BY <1>1, <1>11, OtherCommandKeepsMemory DEF OtherCommand, session, upload
<1>12. QED
  BY <1>3, <1>4, <1>5, <1>6, <1>7, <1>8, <1>9, <1>10, <1>11 DEF Next

\* The "segment accepted" lines tell the truth (SMD_Motor_Commands.c:596), but
\* for the parameters whose writes may be lost unnoticed.
THEOREM ToldTheTruth ==
    ASSUME Conditions
    PROVE  Spec => []ToldIsLoaded
<1>1. Init => ToldIsLoaded
  BY DEF Init, ToldIsLoaded
<1>2. Inv /\ Inv' /\ ToldIsLoaded /\ [Next]_vars => ToldIsLoaded'
  BY ToldStep
<1>3. QED BY <1>1, <1>2, InvHolds, PTL DEF Spec

-----------------------------------------------------------------------------
LEMMA FailMaps ==
    ASSUME TypeOK, Fail \/ (Die /\ UNCHANGED drive), UNCHANGED move
    PROVE  Upload!Fail
<1>1. drive'.memory = drive.memory
  BY DriveKeepsType DEF Fail, Die
<1>2. pc' \in {"idle", "dead"} /\ result' \in {"FAILED", "died"}
  BY DEF Fail, Die
<1>3. Outcome' = "failed"
  BY <1>2 DEF Outcome, Uploading
<1>4. QED BY <1>1, <1>3 DEF Upload!Fail, Loaded

LEMMA BusyMaps ==
    ASSUME Conditions, Inv, Uploading
    PROVE  move # NoMove /\ Loaded = drive.memory /\ Outcome = "busy"
<1>1. Len(move.segments) # 0
  BY UploadedMove DEF Inv
<1>2. NoMove.segments = <<>>
  BY DEF NoMove
<1>3. move # NoMove
  BY <1>1, <1>2, EmptySeq
<1>4. QED BY <1>3 DEF Loaded, Outcome

LEMMA InitRefines == Init => Upload!Init
<1> SUFFICES ASSUME Init PROVE Upload!Init
  OBVIOUS
<1>1. move = NoMove /\ pc = "idle" /\ result = "none"
  BY DEF Init
<1>2. Views(move.segments) = <<>> /\ Views(Loaded) = <<>>
  BY <1>1, ViewsEmpty DEF NoMove, Loaded
<1>3. QED BY <1>1, <1>2 DEF Upload!Init, Outcome, Uploading

LEMMA StepRefines ==
    ASSUME Conditions, Inv, Inv', [Next]_vars
    PROVE  [Upload!Next]_(Upload!vars)
<1> USE DEF Inv
<1>0. /\ "ready lost" \notin Faults /\ "unread check" \notin Faults
      /\ "controller" \notin Faults /\ Again = FALSE
  BY DEF Conditions, Tolerated
<1>1. CASE UNCHANGED <<move, Loaded, Outcome>>
  BY <1>1 DEF Upload!vars
<1>2. CASE (Fail \/ (Die /\ UNCHANGED drive)) /\ UNCHANGED move
  BY <1>2, FailMaps DEF Upload!Next
<1>3. CASE ProgramFirstBlock
  <2>1. CASE pc' = "first" /\ result' = "none" /\ move' = NoMove
    <3>1. /\ Views(move'.segments) = <<>> /\ Views(Loaded') = <<>>
          /\ Outcome' = "none"
      BY <2>1, ViewsEmpty DEF NoMove, Loaded, Outcome, Uploading
    <3>2. QED BY <3>1 DEF Upload!Next, Upload!Clear
  <2>2. QED BY <1>2, <1>3, <2>1 DEF ProgramFirstBlock
<1>4. CASE ReadFirstStatus
  <2>1. CASE pc' = "waiting" /\ result' = "READY" /\ UNCHANGED drive
    <3>1. pc = "first" /\ result = "none" /\ move' = move
      BY <1>4 DEF ReadFirstStatus, UploadState
    <3>2. QED BY <1>1, <2>1, <3>1 DEF Loaded, Outcome, Uploading
  <2>2. QED BY <1>0, <1>2, <1>4, <2>1 DEF ReadFirstStatus
<1>5. ASSUME NEW m \in Moves, Parse(m)
      PROVE  [Upload!Next]_(Upload!vars)
  <2>1. CASE /\ m.form = "json" /\ ~Refused(m)
             /\ pc' = "program" /\ move' = m /\ UNCHANGED <<result, drive>>
    <3>1. /\ move = NoMove /\ drive.memory = <<>>
          /\ pc = "waiting" /\ result = "READY"
      BY <1>5 DEF Parse, UploadState
    <3>2. Views(move'.segments) \in Seq([Reliable -> Value])
      BY <2>1, MoveFacts, ViewsOfSegments
    <3>3. Outcome = "none" /\ Outcome' = "busy"
      BY <2>1, <3>1 DEF Outcome, Uploading
    <3>4. Loaded = <<>> /\ Loaded' = <<>>
      BY <2>1, <3>1 DEF Loaded
    <3>5. QED BY <3>2, <3>3, <3>4 DEF Upload!Next, Upload!Ask
  <2>2. QED BY <1>2, <1>5, <2>1 DEF Parse, upload
<1>6. CASE ProgramSegment
  <2>1. /\ UNCHANGED move /\ Uploading /\ Uploading'
        /\ Views(drive.memory) = SubSeq(Views(move.segments), 1, i)
        /\ \/ drive'.memory = drive.memory
           \/ Views(drive'.memory) = Append(Views(drive.memory), Views(move.segments)[i + 1])
    BY <1>6, SegmentStep DEF Uploading
  <2>2. /\ Loaded = drive.memory /\ Outcome = "busy" /\ Outcome' = "busy"
        /\ Loaded' = drive'.memory
    <3>1. move # NoMove /\ Loaded = drive.memory /\ Outcome = "busy"
      BY <2>1, BusyMaps
    <3>2. QED BY <2>1, <3>1 DEF Loaded, Outcome
  <2>3. CASE Views(drive'.memory) = Append(Views(drive.memory), Views(move.segments)[i + 1])
    <3>1. /\ i \in 0 .. Len(Views(move.segments)) /\ i < Len(Views(move.segments))
          /\ Views(move.segments) \in Seq(Viewed)
      BY <2>1, UploadedMove
    <3>2. Len(Views(drive.memory)) = i
      BY <2>1, <3>1, Prefix
    <3>3. QED BY <2>1, <2>2, <2>3, <3>1, <3>2 DEF Upload!Next, Upload!Load
  <2>4. CASE drive'.memory = drive.memory
    BY <1>1, <2>1, <2>2, <2>4
  <2>5. QED BY <2>1, <2>3, <2>4
<1>7. CASE CheckSegment
  <2>1. CASE pc' = "prepare" /\ UNCHANGED <<result, drive>>
    <3>1. pc = "check" /\ UNCHANGED move
      BY <1>7 DEF CheckSegment
    <3>2. QED BY <1>1, <2>1, <3>1 DEF Loaded, Outcome, Uploading
  <2>2. CASE Fail
    BY <1>2, <1>7, <2>2 DEF CheckSegment
  <2>3. QED BY <1>7, <2>1, <2>2 DEF CheckSegment
<1>8. CASE Prepare
  <2>1. CASE pc' = "confirm" /\ UNCHANGED result /\ drive' = GetReady
    <3>1. pc = "prepare" /\ UNCHANGED move /\ drive.programming
      BY <1>8 DEF Prepare, UploadState, Uploading
    <3>2. drive'.memory = drive.memory
      BY <2>1, <3>1, DriveKeepsType
    <3>3. QED BY <1>1, <2>1, <3>1, <3>2 DEF Loaded, Outcome, Uploading
  <2>2. QED BY <1>0, <1>2, <1>8, <2>1 DEF Prepare
<1>9. CASE Confirm
  <2>1. pc = "confirm" /\ UNCHANGED move /\ Uploading
    BY <1>9 DEF Confirm, Uploading
  <2>2. CASE NextSegment /\ UNCHANGED drive
    <3>1. CASE pc' = "program" /\ UNCHANGED result
      BY <1>1, <2>1, <2>2, <3>1 DEF Loaded, Outcome, Uploading
    <3>2. CASE pc' = "idle" /\ result' = "ACCEPTED"
      <4>1. Loaded = drive.memory /\ Outcome = "busy" /\ Loaded' = drive.memory
        BY <2>1, <2>2, BusyMaps DEF Loaded
      <4>2. Outcome' = "accepted"
        BY <3>2 DEF Outcome, Uploading
      <4>3. Views(drive.memory) = Views(move.segments)
        BY <2>1, <2>2, <3>2 DEF UploadState
      <4>4. QED BY <2>1, <4>1, <4>2, <4>3 DEF Upload!Next, Upload!Accept
    <3>3. QED BY <2>2, <3>1, <3>2 DEF NextSegment
  <2>3. QED BY <1>2, <1>9, <2>1, <2>2 DEF Confirm
<1>10. CASE OtherCommand
  <2>1. UNCHANGED <<pc, move, result>> /\ drive'.memory = drive.memory
    BY <1>10, OtherCommandKeepsMemory DEF OtherCommand, session
  <2>2. QED BY <1>1, <2>1 DEF Loaded, Outcome, Uploading
<1>11. CASE Restart
  BY <1>1, <1>11 DEF Restart, Loaded, Outcome, Uploading
<1>12. CASE UNCHANGED vars
  BY <1>1, <1>12 DEF vars, Loaded, Outcome, Uploading
<1>13. CASE ClientGone
  <2>1. /\ pc = "waiting" /\ pc' = "idle" /\ result' = "none" /\ UNCHANGED move
        /\ move = NoMove /\ result = "READY"
    BY <1>13 DEF ClientGone, UploadState
  <2>2. QED BY <1>1, <2>1 DEF Loaded, Outcome, Uploading
<1>14. QED
  BY <1>3, <1>4, <1>5, <1>6, <1>7, <1>8, <1>9, <1>10, <1>11, <1>12, <1>13 DEF Next

\* What the client may rely on: the segments it asked for are loaded one after
\* the other, and the move is accepted only when all of them are, in all the
\* parameters whose writes cannot be lost unnoticed.
THEOREM UploadImplementsMoveUpload ==
    ASSUME Conditions
    PROVE  Spec => ImplementsUpload
<1>1. Inv /\ Inv' /\ [Next]_vars => [Upload!Next]_(Upload!vars)
  BY StepRefines
<1>2. QED BY <1>1, InitRefines, InvHolds, PTL DEF Spec, ImplementsUpload, Upload!Spec
=============================================================================
