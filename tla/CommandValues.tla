---------------------------- MODULE CommandValues ----------------------------
(***************************************************************************)
(* The numbers of the protocol: how the parameters of a request become     *)
(* register values of one Modbus command, and how the registers that are   *)
(* read become the report for the client.  errno is the one thing that one *)
(* request leaves behind for the next.                                     *)
(*                                                                         *)
(* The number of tokens is right here and the drive answers; both are      *)
(* opened up in SessionServer.                                             *)
(***************************************************************************)
EXTENDS Conversions

CONSTANTS
    Requests,    \* requests with parameters, see RequestAssumption
    Reports      \* the ten register words a read may return

VARIABLES
    errno,       \* of the main thread: "ERANGE" or any other value
    request,     \* the request served last
    written,     \* the registers and values of its Modbus command, in order
    report,      \* the registers whose fields the client got whole
    words        \* the words that were read for it

vars == <<errno, request, written, report, words>>

\* The parameters of each command in the order the parser assigns them.
Parameters == [
    jog                   |-> <<"accel", "decel", "jerk", "speed">>,
    home                  |-> <<"speed", "accel", "decel", "jerk">>,
    relativeMove          |-> <<"position", "accel", "decel", "jerk", "speed">>,
    saveConfig            |-> <<"control", "config", "startingSpeed", "stepsPerTurn",
                                "encoderPulses", "idleCurrent", "motorCurrent">>,
    presetMotorPosition   |-> <<"position">>,
    presetEncoderPosition |-> <<"position">>,
    runAssembledDwellMove |-> <<"dwell">>,
    runAssembledBlendMove |-> <<"direction">>]

\* ccw: the direction in the command's name (jogCW, homeCCW, ...).
ASSUME RequestAssumption == \A r \in Requests :
    /\ r.cmd \in DOMAIN Parameters /\ r.ccw \in BOOLEAN
    /\ Len(r.texts) = Len(Parameters[r.cmd])
    /\ \A k \in DOMAIN r.texts :
          /\ r.texts[k].form \in {"none", "over", "number"}
          /\ r.texts[k].high \in Int /\ r.texts[k].low \in Nat /\ r.texts[k].low < 65536

Word == 0 .. 65535

ASSUME ReportAssumption == Reports \subseteq [1 .. 10 -> Word]

NoRequest == [cmd |-> "none", ccw |-> FALSE, texts |-> <<>>]

Init == /\ errno = "other" /\ request = NoRequest /\ written = <<>>
        /\ report = {} /\ words = <<>>

-----------------------------------------------------------------------------
(* From texts to parameters. *)

\* The parameters whose variable is an int16_t.
Narrow == {"accel", "decel", "jerk", "stepsPerTurn", "encoderPulses", "idleCurrent",
           "motorCurrent", "direction"}

\* errno when the k-th token has been converted.
ErrnoUpTo(r, k) == IF \E j \in 1 .. k : r.texts[j].form = "over" THEN "ERANGE" ELSE errno

\* The C variable called p after the parser's loop.
Value(r, p) ==
    LET k == CHOOSE k \in DOMAIN Parameters[r.cmd] : Parameters[r.cmd][k] = p
        v == ConvertString(r.texts[k], ErrnoUpTo(r, k))
    IN IF p \in Narrow THEN Int16(v) ELSE v

\* What the functions let through, the smallest and the largest.
Limit == [
    accel |-> <<1, 5000>>, decel |-> <<1, 5000>>, jerk |-> <<0, 5000>>,
    speed |-> <<0, 2999999>>, position |-> <<-8388607, 8388607>>,
    startingSpeed |-> <<1, 1999999>>, stepsPerTurn |-> <<200, 32767>>,
    encoderPulses |-> <<1024, 1024>>, idleCurrent |-> <<0, 100>>,
    motorCurrent |-> <<10, 34>>, dwell |-> <<0, 65535>>, direction |-> <<0, 1>>]

Within(p, v) == p \in DOMAIN Limit => Limit[p][1] <= v /\ v <= Limit[p][2]

\* Fault: limits are inclusive at one end only.
AcceptedOneMore(r) ==
    \A k \in DOMAIN Parameters[r.cmd] :
        LET p == Parameters[r.cmd][k]
        IN Within(p, Value(r, p)) \/ Within(p, Value(r, p) - 1)

\* The chain of ifs that returns INVALID_PARAMETER, the other way round.
Accepted(r) == \A k \in DOMAIN Parameters[r.cmd] :
                   Within(Parameters[r.cmd][k], Value(r, Parameters[r.cmd][k]))

-----------------------------------------------------------------------------
(* From parameters to registers. *)

Direction(r, cw, ccw) == IF r.ccw THEN ccw ELSE cw

\* The register table of each command: 1024 is the command word, 1025 the
\* configuration word.
Table(r) ==
    LET v(p) == Value(r, p)
        speed == Words(v("speed"))
        position == Words(v("position"))
    IN CASE r.cmd = "jog" ->
            LET w == SpeedWords(v("speed"))
            IN << <<1024, 0>>, <<1025, 32768>>, <<1026, 0>>, <<1027, 0>>,
                  <<1028, w.upper>>, <<1029, w.lower>>, <<1030, v("accel")>>,
                  <<1031, v("decel")>>, <<1032, 0>>, <<1033, v("jerk")>>,
                  <<1024, Direction(r, 128, 256)>> >>
         [] r.cmd = "home" ->
            << <<1025, 32768>>, <<1028, speed.upper>>, <<1029, speed.lower>>,
               <<1030, v("accel")>>, <<1031, v("decel")>>, <<1033, v("jerk")>>,
               <<1032, 0>>, <<1024, Direction(r, 32, 64)>> >>
         [] r.cmd = "relativeMove" ->
            << <<1024, 0>>, <<1025, 32768>>, <<1026, position.upper>>,
               <<1027, position.lower>>, <<1028, speed.upper>>, <<1029, speed.lower>>,
               <<1030, v("accel")>>, <<1031, v("decel")>>, <<1033, v("jerk")>>, <<1024, 2>> >>
         [] r.cmd = "saveConfig" ->
            LET w == SpeedWords(v("startingSpeed"))
            IN << <<1025, v("config")>>, <<1024, v("control")>>, <<1026, w.upper>>,
                  <<1027, w.lower>>, <<1028, v("stepsPerTurn")>>,
                  <<1030, v("encoderPulses")>>, <<1031, v("idleCurrent")>>,
                  <<1032, v("motorCurrent")>> >>
         [] r.cmd \in {"presetMotorPosition", "presetEncoderPosition"} ->
            << <<1025, 32768>>, <<1026, position.upper>>, <<1027, position.lower>>,
               <<1024, IF r.cmd = "presetMotorPosition" THEN 512 ELSE 16384>> >>
         [] r.cmd = "runAssembledBlendMove" ->
            << <<1025, IF v("direction") = 0 THEN 32768 ELSE 32784>>, <<1033, 0>>,
               <<1024, 8192>> >>
         [] r.cmd = "runAssembledDwellMove" ->
            << <<1025, 33280>>, <<1033, v("dwell")>>, <<1024, 8192>> >>

\* Fault: the values go out as they are.
Uncut(table) == table

\* modbus_write_register sends the low 16 bits.
OnWire(table) == [k \in DOMAIN table |-> <<table[k][1], table[k][2] % 65536>>]

-----------------------------------------------------------------------------
Idle == request = NoRequest /\ words = <<>>

\* A request is parsed and, if its parameters are let through, sent.
Serve(r) ==
    /\ Idle
    /\ request' = r
    /\ errno' = ErrnoUpTo(r, Len(r.texts))
    /\ written' = IF Accepted(r) THEN OnWire(Table(r)) ELSE <<>>
    /\ UNCHANGED <<report, words>>

\* readInputRegisters and readCurrentConfiguration.
ReadRegisters(type) ==
    /\ Idle
    /\ \E w \in Reports : words' = w /\ report' = WholeFields(w, type)
    /\ UNCHANGED <<errno, request, written>>

\* The answer, and whatever the main thread does until the next request.  A call
\* that fails leaves its own errno: a connect, a read from the socket the server
\* closed, a write to a client that left.
Answer ==
    /\ ~Idle
    /\ errno' \in {errno, "other"}
    /\ request' = NoRequest /\ written' = <<>> /\ report' = {} /\ words' = <<>>

Next == \/ \E r \in Requests : Serve(r)
        \/ \E type \in {"input", "config"} : ReadRegisters(type)
        \/ Answer

Spec == Init /\ [][Next]_vars

-----------------------------------------------------------------------------
(* Properties. *)

AreWrites(w) == \A k \in DOMAIN w : w[k][1] \in 1024 .. 1033 /\ w[k][2] \in Word

TypeOK ==
    /\ errno \in {"other", "ERANGE"}
    /\ request \in Requests \cup {NoRequest}
    /\ AreWrites(written)
    /\ words \in Reports \cup {<<>>}
    /\ report \subseteq DOMAIN words

\* What a drive makes of the registers w it was sent (external): of two writes to
\* a register the last one; signed values; numbers beyond 16 bits as thousands and
\* rest.
Register(w, n) == LET k == CHOOSE k \in DOMAIN w : /\ w[k][1] = n
                                                   /\ \A j \in DOMAIN w : w[j][1] = n => j <= k
                  IN w[k][2]

Signed(w, n) == Int16(Register(w, n))

Pair(w, n) == 1000 * Signed(w, n) + Signed(w, n + 1)

\* The registers that hold the parameter p of the command cmd.
Received(w, cmd, p) ==
    IF cmd = "saveConfig"
    THEN CASE p = "control" -> Signed(w, 1024) [] p = "config" -> Signed(w, 1025)
           [] p = "startingSpeed" -> Pair(w, 1026) [] p = "stepsPerTurn" -> Signed(w, 1028)
           [] p = "encoderPulses" -> Signed(w, 1030) [] p = "idleCurrent" -> Signed(w, 1031)
           [] p = "motorCurrent" -> Signed(w, 1032)
    ELSE CASE p = "position" -> Pair(w, 1026) [] p = "speed" -> Pair(w, 1028)
           [] p = "accel" -> Signed(w, 1030) [] p = "decel" -> Signed(w, 1031)
           [] p = "jerk" -> Signed(w, 1033) [] p = "dwell" -> Register(w, 1033)
           [] p = "direction" -> IF Register(w, 1025) = 32768 THEN 0 ELSE 1

\* The order the documentation gives (SMD_Constants.h:62, :81, :100, :159, :174,
\* :214, :230, :242, :296): where each parameter stands.
Documented(cmd, p) ==
    CASE cmd = "jog" -> [accel |-> 1, decel |-> 2, jerk |-> 3, speed |-> 4][p]
      [] cmd = "home" -> [speed |-> 1, accel |-> 2, decel |-> 3, jerk |-> 4][p]
      [] cmd = "relativeMove" ->
             [position |-> 1, accel |-> 2, decel |-> 3, jerk |-> 4, speed |-> 5][p]
      [] cmd = "saveConfig" ->
             [control |-> 1, config |-> 2, startingSpeed |-> 3, stepsPerTurn |-> 4,
              encoderPulses |-> 5, idleCurrent |-> 6, motorCurrent |-> 7][p]
      [] OTHER -> 1

Asked(r) == {Parameters[r.cmd][k] : k \in DOMAIN Parameters[r.cmd]}

\* Whatever a client writes, also no numbers and numbers of any length, what
\* reaches the drive recombines to values within the limits of the command.
DriveGetsLegalValues ==
    written # <<>> => \A p \in Asked(request) \ {"control", "config"} :
                          Within(p, Received(written, request.cmd, p))

\* The client's number, if it is one that fits the variable it goes to.
Fits(r, p) ==
    LET t == r.texts[Documented(r.cmd, p)]
    IN /\ t.form = "number" /\ -32768 <= t.high /\ t.high <= 32767
       /\ p \in Narrow \cup {"control", "config"} =>
             \/ t.high = 0 /\ t.low < 32768
             \/ t.high = -1 /\ t.low >= 32768

Number(r, p) == LET t == r.texts[Documented(r.cmd, p)] IN 65536 * t.high + t.low

\* A request whose numbers all fit their variables is sent if and only if they
\* are legal, and then reaches the drive as the client meant it: in the
\* documented order, with the signs, and nothing lost in the words.  (Unless an
\* overflow in an earlier request still shows in errno.)
DriveGetsWhatWasAsked ==
    request # NoRequest /\ errno = "other" /\ (\A p \in Asked(request) : Fits(request, p))
        => /\ written # <<>> <=> \A p \in Asked(request) : Within(p, Number(request, p))
           /\ written # <<>> => \A p \in Asked(request) :
                                    Received(written, request.cmd, p) = Number(request, p)

\* While errno holds an overflow every parameter becomes -1: no request moves
\* the motor or saves a configuration then, whatever its numbers.  (A preset
\* does get through, with -1.)
StaleErrnoMovesNothing ==
    errno = "ERANGE" /\ written # <<>>
        => request.cmd \in {"presetMotorPosition", "presetEncoderPosition"}

\* Every field of a report arrives whole, unless the first word of an input
\* report is below 16 and the second above 4095: then the buffer is shorter than
\* the text to be appended to it, the comma is lost and two fields run together.
ReportIsWhole ==
    ~(words # <<>> /\ words[1] < 16 /\ words[2] > 4095) => report = DOMAIN words
=============================================================================
