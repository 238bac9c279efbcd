------------------------- MODULE CommandValuesProofs -------------------------
(***************************************************************************)
(* What reaches the drive for every text a client may write: legal values, *)
(* and the client's own where they fit the variables they go through.      *)
(***************************************************************************)
EXTENDS CommandValues, ConversionsProofs

LEMMA Int16OfRegister ==
    ASSUME NEW v \in Int, -32768 <= v, v <= 32767
    PROVE  Int16(v % 65536) = v
BY SMT DEF Int16

\* Every 32-bit integer is what strtol's result is cut to, or -1.
LEMMA ConvertStringType ==
    ASSUME NEW text, NEW e, text.high \in Int, text.low \in Nat
    PROVE  ConvertString(text, e) \in Int
<1>1. Int16(text.high) \in Int /\ text.low \in Int
  BY Int16Type, SMT
<1>2. QED BY <1>1, SMT DEF ConvertString

-----------------------------------------------------------------------------
(* The parameters of a request. *)

\* The k-th name of a command's list stands at place k, in the code's order and
\* in the documentation's.
LEMMA Places ==
    ASSUME NEW c \in DOMAIN Parameters, NEW k \in DOMAIN Parameters[c]
    PROVE  /\ (CHOOSE j \in DOMAIN Parameters[c] : Parameters[c][j] = Parameters[c][k]) = k
           /\ Documented(c, Parameters[c][k]) = k
<1>1. CASE c = "jog"
  BY <1>1 DEF Parameters, Documented
<1>2. CASE c = "home"
  BY <1>2 DEF Parameters, Documented
<1>3. CASE c = "relativeMove"
  BY <1>3 DEF Parameters, Documented
<1>4. CASE c = "saveConfig"
  BY <1>4 DEF Parameters, Documented
<1>5. CASE c \in {"presetMotorPosition", "presetEncoderPosition",
                  "runAssembledDwellMove", "runAssembledBlendMove"}
  BY <1>5 DEF Parameters, Documented
<1>6. QED BY <1>1, <1>2, <1>3, <1>4, <1>5 DEF Parameters

LEMMA ValueAt ==
    ASSUME NEW r \in Requests, NEW k \in DOMAIN Parameters[r.cmd]
    PROVE  LET p == Parameters[r.cmd][k]
               v == ConvertString(r.texts[k], ErrnoUpTo(r, k))
           IN /\ Value(r, p) = (IF p \in Narrow THEN Int16(v) ELSE v)
              /\ Value(r, p) \in Int
              /\ p \in Narrow => -32768 <= Value(r, p) /\ Value(r, p) <= 32767
<1> DEFINE p == Parameters[r.cmd][k]
           v == ConvertString(r.texts[k], ErrnoUpTo(r, k))
<1>1. /\ r.cmd \in DOMAIN Parameters
      /\ \A j \in DOMAIN r.texts : r.texts[j].high \in Int /\ r.texts[j].low \in Nat
      /\ Len(r.texts) = Len(Parameters[r.cmd])
  BY RequestAssumption DEF RequestAssumption
<1>2. Value(r, p) = IF p \in Narrow THEN Int16(v) ELSE v
  BY <1>1, Places DEF Value
<1>3. k \in DOMAIN r.texts
  BY <1>1
<1>4. v \in Int
  BY <1>1, <1>3, ConvertStringType
<1>5. Int16(v) \in Int /\ -32768 <= Int16(v) /\ Int16(v) <= 32767
  BY <1>4, Int16Type
<1>6. QED BY <1>2, <1>4, <1>5

-----------------------------------------------------------------------------
(* The registers a drive ends up with. *)

\* Entry k of a table is the last one for its register: the register gets its value.
LEMMA LastWrite ==
    ASSUME NEW T, DOMAIN T \subseteq Int, NEW k \in DOMAIN T,
           \A j \in DOMAIN T : T[j][1] = T[k][1] => j <= k
    PROVE  Register(OnWire(T), T[k][1]) = T[k][2] % 65536
<1> DEFINE w == OnWire(T)
           n == T[k][1]
           Q(j) == /\ w[j][1] = n
                   /\ \A l \in DOMAIN w : w[l][1] = n => l <= j
<1>1. /\ DOMAIN w = DOMAIN T
      /\ \A j \in DOMAIN T : w[j] = <<T[j][1], T[j][2] % 65536>>
  BY DEF OnWire
<1>2. Q(k) /\ \A j \in DOMAIN T : Q(j) => j = k
  BY <1>1
<1>3. (CHOOSE j \in DOMAIN w : Q(j)) = k
  <2> HIDE DEF Q, w, n
  <2>1. QED BY <1>1, <1>2
<1>4. Register(w, n) = w[CHOOSE j \in DOMAIN w : Q(j)][2]
  BY DEF Register
<1> DEFINE u == T[k][2] % 65536
<1>5. w[k] = <<T[k][1], u>>
  BY <1>1
<1>6. Register(w, n) = w[k][2]
  BY <1>3, <1>4
<1> HIDE DEF Q, u, w, n
<1>7. w[k][2] = u
  BY <1>5
<1>8. Register(w, n) = u
  BY <1>6, <1>7
<1>9. QED BY <1>8 DEF u, w, n

\* Two registers hold a number whose halves were written to them.
LEMMA PairHolds ==
    ASSUME NEW w, NEW v \in Int, -32767999 <= v, v <= 32767999, NEW n \in Int,
           Register(w, n) = Words(v).upper % 65536,
           Register(w, n + 1) = Words(v).lower % 65536
    PROVE  Pair(w, n) = v
<1>1. /\ 1000 * Words(v).upper + Words(v).lower = v
      /\ Words(v).upper \in Int /\ -32767 <= Words(v).upper /\ Words(v).upper <= 32767
      /\ Words(v).lower \in Int /\ -999 <= Words(v).lower /\ Words(v).lower <= 999
  BY WordsRecombine
<1>2. Int16(Words(v).upper % 65536) = Words(v).upper
      /\ Int16(Words(v).lower % 65536) = Words(v).lower
  BY <1>1, Int16OfRegister, SMT
<1>3. Pair(w, n) = 1000 * Int16(Register(w, n)) + Int16(Register(w, n + 1))
  BY DEF Pair, Signed
<1>4. QED BY <1>1, <1>2, <1>3

\* One register holds a number of 16 bits.
LEMMA SignedHolds ==
    ASSUME NEW w, NEW v \in Int, -32768 <= v, v <= 32767, NEW n,
           Register(w, n) = v % 65536
    PROVE  Signed(w, n) = v
BY Int16OfRegister DEF Signed

\* An accepted parameter is a number within its limits.
LEMMA AcceptedValue ==
    ASSUME NEW r \in Requests, Accepted(r), NEW p \in Asked(r)
    PROVE  /\ Value(r, p) \in Int
           /\ p \in DOMAIN Limit => Limit[p][1] <= Value(r, p) /\ Value(r, p) <= Limit[p][2]
<1>1. PICK k \in DOMAIN Parameters[r.cmd] : p = Parameters[r.cmd][k]
  BY DEF Asked
<1>2. QED BY <1>1, ValueAt DEF Accepted, Within

-----------------------------------------------------------------------------
(* The registers of each command. *)

\* jogCW, jogCCW
LEMMA JogRegisters ==
    ASSUME NEW r \in Requests, r.cmd = "jog"
    PROVE  LET w == OnWire(Table(r))
           IN /\ Register(w, 1028) = SpeedWords(Value(r, "speed")).upper % 65536
              /\ Register(w, 1029) = SpeedWords(Value(r, "speed")).lower % 65536
              /\ Register(w, 1030) = Value(r, "accel") % 65536
              /\ Register(w, 1031) = Value(r, "decel") % 65536
              /\ Register(w, 1033) = Value(r, "jerk") % 65536
<1> DEFINE T == Table(r)
<1>1. /\ DOMAIN T = 1 .. 11
      /\ T[5][1] = 1028 /\ T[5][2] = SpeedWords(Value(r, "speed")).upper
      /\ T[6][1] = 1029 /\ T[6][2] = SpeedWords(Value(r, "speed")).lower
      /\ T[7][1] = 1030 /\ T[7][2] = Value(r, "accel")
      /\ T[8][1] = 1031 /\ T[8][2] = Value(r, "decel")
      /\ T[10][1] = 1033 /\ T[10][2] = Value(r, "jerk")
      /\ T[1][1] = 1024 /\ T[2][1] = 1025 /\ T[3][1] = 1026 /\ T[4][1] = 1027
      /\ T[9][1] = 1032 /\ T[11][1] = 1024
  BY DEF Table
<1> HIDE DEF T
<1>2. ASSUME NEW k \in {5, 6, 7, 8, 10}
      PROVE  Register(OnWire(T), T[k][1]) = T[k][2] % 65536
  <2>1. k \in DOMAIN T /\ DOMAIN T \subseteq Int
    BY <1>1
  <2>2. \A j \in DOMAIN T : T[j][1] = T[k][1] => j <= k
    BY <1>1
  <2>3. QED BY <2>1, <2>2, LastWrite
<1>3. QED BY <1>1, <1>2 DEF T

\* homeCW, homeCCW
LEMMA HomeRegisters ==
    ASSUME NEW r \in Requests, r.cmd = "home"
    PROVE  LET w == OnWire(Table(r))
           IN /\ Register(w, 1028) = Words(Value(r, "speed")).upper % 65536
              /\ Register(w, 1029) = Words(Value(r, "speed")).lower % 65536
              /\ Register(w, 1030) = Value(r, "accel") % 65536
              /\ Register(w, 1031) = Value(r, "decel") % 65536
              /\ Register(w, 1033) = Value(r, "jerk") % 65536
<1> DEFINE T == Table(r)
<1>1. /\ DOMAIN T = 1 .. 8
      /\ T[2][1] = 1028 /\ T[2][2] = Words(Value(r, "speed")).upper
      /\ T[3][1] = 1029 /\ T[3][2] = Words(Value(r, "speed")).lower
      /\ T[4][1] = 1030 /\ T[4][2] = Value(r, "accel")
      /\ T[5][1] = 1031 /\ T[5][2] = Value(r, "decel")
      /\ T[6][1] = 1033 /\ T[6][2] = Value(r, "jerk")
      /\ T[1][1] = 1025 /\ T[7][1] = 1032 /\ T[8][1] = 1024
  BY DEF Table
<1> HIDE DEF T
<1>2. ASSUME NEW k \in {2, 3, 4, 5, 6}
      PROVE  Register(OnWire(T), T[k][1]) = T[k][2] % 65536
  <2>1. k \in DOMAIN T /\ DOMAIN T \subseteq Int
    BY <1>1
  <2>2. \A j \in DOMAIN T : T[j][1] = T[k][1] => j <= k
    BY <1>1
  <2>3. QED BY <2>1, <2>2, LastWrite
<1>3. QED BY <1>1, <1>2 DEF T

\* relativeMove
LEMMA RelativeMoveRegisters ==
    ASSUME NEW r \in Requests, r.cmd = "relativeMove"
    PROVE  LET w == OnWire(Table(r))
           IN /\ Register(w, 1026) = Words(Value(r, "position")).upper % 65536
              /\ Register(w, 1027) = Words(Value(r, "position")).lower % 65536
              /\ Register(w, 1028) = Words(Value(r, "speed")).upper % 65536
              /\ Register(w, 1029) = Words(Value(r, "speed")).lower % 65536
              /\ Register(w, 1030) = Value(r, "accel") % 65536
              /\ Register(w, 1031) = Value(r, "decel") % 65536
              /\ Register(w, 1033) = Value(r, "jerk") % 65536
<1> DEFINE T == Table(r)
<1>1. /\ DOMAIN T = 1 .. 10
      /\ T[3][1] = 1026 /\ T[3][2] = Words(Value(r, "position")).upper
      /\ T[4][1] = 1027 /\ T[4][2] = Words(Value(r, "position")).lower
      /\ T[5][1] = 1028 /\ T[5][2] = Words(Value(r, "speed")).upper
      /\ T[6][1] = 1029 /\ T[6][2] = Words(Value(r, "speed")).lower
      /\ T[7][1] = 1030 /\ T[7][2] = Value(r, "accel")
      /\ T[8][1] = 1031 /\ T[8][2] = Value(r, "decel")
      /\ T[9][1] = 1033 /\ T[9][2] = Value(r, "jerk")
      /\ T[1][1] = 1024 /\ T[2][1] = 1025 /\ T[10][1] = 1024
  BY DEF Table
<1> HIDE DEF T
<1>2. ASSUME NEW k \in {3, 4, 5, 6, 7, 8, 9}
      PROVE  Register(OnWire(T), T[k][1]) = T[k][2] % 65536
  <2>1. k \in DOMAIN T /\ DOMAIN T \subseteq Int
    BY <1>1
  <2>2. \A j \in DOMAIN T : T[j][1] = T[k][1] => j <= k
    BY <1>1
  <2>3. QED BY <2>1, <2>2, LastWrite
<1>3. QED BY <1>1, <1>2 DEF T

\* saveConfig
LEMMA SaveConfigRegisters ==
    ASSUME NEW r \in Requests, r.cmd = "saveConfig"
    PROVE  LET w == OnWire(Table(r))
           IN /\ Register(w, 1025) = Value(r, "config") % 65536
              /\ Register(w, 1024) = Value(r, "control") % 65536
              /\ Register(w, 1026) = SpeedWords(Value(r, "startingSpeed")).upper % 65536
              /\ Register(w, 1027) = SpeedWords(Value(r, "startingSpeed")).lower % 65536
              /\ Register(w, 1028) = Value(r, "stepsPerTurn") % 65536
              /\ Register(w, 1030) = Value(r, "encoderPulses") % 65536
              /\ Register(w, 1031) = Value(r, "idleCurrent") % 65536
              /\ Register(w, 1032) = Value(r, "motorCurrent") % 65536
<1> DEFINE T == Table(r)
<1>1. /\ DOMAIN T = 1 .. 8
      /\ T[1][1] = 1025 /\ T[1][2] = Value(r, "config")
      /\ T[2][1] = 1024 /\ T[2][2] = Value(r, "control")
      /\ T[3][1] = 1026 /\ T[3][2] = SpeedWords(Value(r, "startingSpeed")).upper
      /\ T[4][1] = 1027 /\ T[4][2] = SpeedWords(Value(r, "startingSpeed")).lower
      /\ T[5][1] = 1028 /\ T[5][2] = Value(r, "stepsPerTurn")
      /\ T[6][1] = 1030 /\ T[6][2] = Value(r, "encoderPulses")
      /\ T[7][1] = 1031 /\ T[7][2] = Value(r, "idleCurrent")
      /\ T[8][1] = 1032 /\ T[8][2] = Value(r, "motorCurrent")
  BY DEF Table
<1> HIDE DEF T
<1>2. ASSUME NEW k \in {1, 2, 3, 4, 5, 6, 7, 8}
      PROVE  Register(OnWire(T), T[k][1]) = T[k][2] % 65536
  <2>1. k \in DOMAIN T /\ DOMAIN T \subseteq Int
    BY <1>1
  <2>2. \A j \in DOMAIN T : T[j][1] = T[k][1] => j <= k
    BY <1>1
  <2>3. QED BY <2>1, <2>2, LastWrite
<1>3. QED BY <1>1, <1>2 DEF T

\* presetMotorPosition, presetEncoderPosition
LEMMA PresetRegisters ==
    ASSUME NEW r \in Requests, r.cmd \in {"presetMotorPosition", "presetEncoderPosition"}
    PROVE  LET w == OnWire(Table(r))
           IN /\ Register(w, 1026) = Words(Value(r, "position")).upper % 65536
              /\ Register(w, 1027) = Words(Value(r, "position")).lower % 65536
<1> DEFINE T == Table(r)
<1>1. /\ DOMAIN T = 1 .. 4
      /\ T[2][1] = 1026 /\ T[2][2] = Words(Value(r, "position")).upper
      /\ T[3][1] = 1027 /\ T[3][2] = Words(Value(r, "position")).lower
      /\ T[1][1] = 1025 /\ T[4][1] = 1024
  BY DEF Table
<1> HIDE DEF T
<1>2. ASSUME NEW k \in {2, 3}
      PROVE  Register(OnWire(T), T[k][1]) = T[k][2] % 65536
  <2>1. k \in DOMAIN T /\ DOMAIN T \subseteq Int
    BY <1>1
  <2>2. \A j \in DOMAIN T : T[j][1] = T[k][1] => j <= k
    BY <1>1
  <2>3. QED BY <2>1, <2>2, LastWrite
<1>3. QED BY <1>1, <1>2 DEF T

\* runAssembledDwellMove
LEMMA DwellRegisters ==
    ASSUME NEW r \in Requests, r.cmd = "runAssembledDwellMove"
    PROVE  LET w == OnWire(Table(r))
           IN /\ Register(w, 1033) = Value(r, "dwell") % 65536
<1> DEFINE T == Table(r)
<1>1. /\ DOMAIN T = 1 .. 3
      /\ T[2][1] = 1033 /\ T[2][2] = Value(r, "dwell")
      /\ T[1][1] = 1025 /\ T[3][1] = 1024
  BY DEF Table
<1> HIDE DEF T
<1>2. ASSUME NEW k \in {2}
      PROVE  Register(OnWire(T), T[k][1]) = T[k][2] % 65536
  <2>1. k \in DOMAIN T /\ DOMAIN T \subseteq Int
    BY <1>1
  <2>2. \A j \in DOMAIN T : T[j][1] = T[k][1] => j <= k
    BY <1>1
  <2>3. QED BY <2>1, <2>2, LastWrite
<1>3. QED BY <1>1, <1>2 DEF T

\* runAssembledBlendMove
LEMMA BlendRegisters ==
    ASSUME NEW r \in Requests, r.cmd = "runAssembledBlendMove"
    PROVE  LET w == OnWire(Table(r))
           IN /\ Register(w, 1025) = (IF Value(r, "direction") = 0 THEN 32768 ELSE 32784) % 65536
<1> DEFINE T == Table(r)
<1>1. /\ DOMAIN T = 1 .. 3
      /\ T[1][1] = 1025 /\ T[1][2] = (IF Value(r, "direction") = 0 THEN 32768 ELSE 32784)
      /\ T[2][1] = 1033 /\ T[3][1] = 1024
  BY DEF Table
<1> HIDE DEF T
<1>2. ASSUME NEW k \in {1}
      PROVE  Register(OnWire(T), T[k][1]) = T[k][2] % 65536
  <2>1. k \in DOMAIN T /\ DOMAIN T \subseteq Int
    BY <1>1
  <2>2. \A j \in DOMAIN T : T[j][1] = T[k][1] => j <= k
    BY <1>1
  <2>3. QED BY <2>1, <2>2, LastWrite
<1>3. QED BY <1>1, <1>2 DEF T

-----------------------------------------------------------------------------
(* What the drive makes of them. *)

\* Each parameter that is let through (and, without limits, fits 16 bits) is
\* what the drive reads from the registers of its command.
LEMMA ReceivedIsValue ==
    ASSUME NEW r \in Requests, Accepted(r), NEW p \in Asked(r),
           p \in {"control", "config"} => -32768 <= Value(r, p) /\ Value(r, p) <= 32767
    PROVE  Received(OnWire(Table(r)), r.cmd, p) = Value(r, p)
<1> DEFINE w == OnWire(Table(r))
           v == Value(r, p)
<1>1. /\ v \in Int
      /\ p \in DOMAIN Limit => Limit[p][1] <= v /\ v <= Limit[p][2]
  BY AcceptedValue
<1>2. /\ p \in {"accel", "decel", "jerk", "stepsPerTurn", "encoderPulses", "idleCurrent",
               "motorCurrent", "control", "config"} => -32768 <= v /\ v <= 32767
      /\ p \in {"speed", "startingSpeed"} => 0 <= v /\ v <= 2999999
      /\ p = "position" => -8388607 <= v /\ v <= 8388607
      /\ p = "dwell" => 0 <= v /\ v <= 65535
      /\ p = "direction" => v = 0 \/ v = 1
  BY <1>1, SMT DEF Limit
<1>3. p \in {"speed", "startingSpeed"} => SpeedWords(v) = Words(v)
  BY <1>1, <1>2, SpeedWordsAreWords
<1>4. ASSUME NEW n, Register(w, n) = v % 65536, -32768 <= v, v <= 32767
      PROVE  Signed(w, n) = v
  BY <1>1, <1>4, SignedHolds
<1>5. ASSUME NEW n \in Int, p \in {"speed", "startingSpeed", "position"},
             Register(w, n) = Words(v).upper % 65536,
             Register(w, n + 1) = Words(v).lower % 65536
      PROVE  Pair(w, n) = v
  <2>1. -32767999 <= v /\ v <= 32767999
    BY <1>1, <1>2, <1>5
  <2>2. QED BY <1>1, <1>5, <2>1, PairHolds
<1>6. 1026 + 1 = 1027 /\ 1028 + 1 = 1029 /\ 1026 \in Int /\ 1028 \in Int
  OBVIOUS
<1>7. CASE r.cmd = "jog"
  <2>1. p \in {"accel", "decel", "jerk", "speed"}
    BY <1>7 DEF Asked, Parameters
  <2>2. QED BY <1>2, <1>3, <1>4, <1>5, <1>6, <1>7, <2>1, JogRegisters DEF Received
<1>8. CASE r.cmd = "home"
  <2>1. p \in {"accel", "decel", "jerk", "speed"}
    BY <1>8 DEF Asked, Parameters
  <2>2. QED BY <1>2, <1>4, <1>5, <1>6, <1>8, <2>1, HomeRegisters DEF Received
<1>9. CASE r.cmd = "relativeMove"
  <2>1. p \in {"position", "accel", "decel", "jerk", "speed"}
    BY <1>9 DEF Asked, Parameters
  <2>2. QED BY <1>2, <1>4, <1>5, <1>6, <1>9, <2>1, RelativeMoveRegisters DEF Received
<1>10. CASE r.cmd = "saveConfig"
  <2>1. p \in {"control", "config", "startingSpeed", "stepsPerTurn", "encoderPulses",
               "idleCurrent", "motorCurrent"}
    BY <1>10 DEF Asked, Parameters
  <2>2. QED BY <1>2, <1>3, <1>4, <1>5, <1>6, <1>10, <2>1, SaveConfigRegisters DEF Received
<1>11. CASE r.cmd \in {"presetMotorPosition", "presetEncoderPosition"}
  <2>1. p = "position"
    BY <1>11 DEF Asked, Parameters
  <2>2. QED BY <1>5, <1>6, <1>11, <2>1, PresetRegisters DEF Received
<1>12. CASE r.cmd = "runAssembledDwellMove"
  <2>1. p = "dwell"
    BY <1>12 DEF Asked, Parameters
  <2>2. v % 65536 = v
    BY <1>1, <1>2, <2>1, SMT
  <2>3. QED BY <1>12, <2>1, <2>2, DwellRegisters DEF Received
<1>13. CASE r.cmd = "runAssembledBlendMove"
  <2>1. p = "direction"
    BY <1>13 DEF Asked, Parameters
  <2>2. Register(w, 1025) = IF v = 0 THEN 32768 ELSE 32784
    BY <1>2, <1>13, <2>1, BlendRegisters, SMT
  <2>3. QED BY <1>2, <1>13, <2>1, <2>2 DEF Received
<1>14. r.cmd \in DOMAIN Parameters
  BY RequestAssumption DEF RequestAssumption
<1>15. QED BY <1>7, <1>8, <1>9, <1>10, <1>11, <1>12, <1>13, <1>14 DEF Parameters
-----------------------------------------------------------------------------
(* The properties.  Each is established by Serve, and inductive as it is.    *)

\* Whatever the texts of a request, the drive gets values within the limits of
\* the command: the property DriveGetsLegalValues of the run, for all requests.
THEOREM LegalValues == Spec => []DriveGetsLegalValues
<1>1. Init => DriveGetsLegalValues
  BY DEF Init, DriveGetsLegalValues
<1>2. DriveGetsLegalValues /\ [Next]_vars => DriveGetsLegalValues'
  <2> SUFFICES ASSUME DriveGetsLegalValues, [Next]_vars
               PROVE  DriveGetsLegalValues'
    OBVIOUS
  <2>1. ASSUME NEW r \in Requests, Serve(r)
        PROVE  DriveGetsLegalValues'
    <3> SUFFICES ASSUME written' # <<>>, NEW p \in Asked(r) \ {"control", "config"}
                 PROVE  Within(p, Received(written', r.cmd, p))
      BY <2>1 DEF Serve, DriveGetsLegalValues
    <3>1. Accepted(r) /\ written' = OnWire(Table(r))
      BY <2>1 DEF Serve
    <3>2. Received(written', r.cmd, p) = Value(r, p)
      BY <3>1, ReceivedIsValue
    <3>3. QED BY <3>1, <3>2, AcceptedValue DEF Within
  <2>2. ASSUME NEW type, ReadRegisters(type)
        PROVE  DriveGetsLegalValues'
    BY <2>2 DEF ReadRegisters, DriveGetsLegalValues
  <2>3. CASE Answer
    BY <2>3 DEF Answer, DriveGetsLegalValues
  <2>4. CASE UNCHANGED vars
    BY <2>4 DEF vars, DriveGetsLegalValues
  <2>5. QED BY <2>1, <2>2, <2>3, <2>4 DEF Next
<1>3. QED BY <1>1, <1>2, PTL DEF Spec

LEMMA TableNotEmpty ==
    ASSUME NEW r \in Requests
    PROVE  OnWire(Table(r)) # <<>>
<1>1. r.cmd \in DOMAIN Parameters
  BY RequestAssumption DEF RequestAssumption
<1>2. 1 \in DOMAIN Table(r)
  <2>1. CASE r.cmd = "jog"
    BY <2>1 DEF Table
  <2>2. CASE r.cmd = "home"
    BY <2>2 DEF Table
  <2>3. CASE r.cmd = "relativeMove"
    BY <2>3 DEF Table
  <2>4. CASE r.cmd = "saveConfig"
    BY <2>4 DEF Table
  <2>5. CASE r.cmd \in {"presetMotorPosition", "presetEncoderPosition"}
    BY <2>5 DEF Table
  <2>6. CASE r.cmd = "runAssembledDwellMove"
    BY <2>6 DEF Table
  <2>7. CASE r.cmd = "runAssembledBlendMove"
    BY <2>7 DEF Table
  <2>8. QED BY <1>1, <2>1, <2>2, <2>3, <2>4, <2>5, <2>6, <2>7 DEF Parameters
<1>3. 1 \in DOMAIN OnWire(Table(r))
  BY <1>2 DEF OnWire
<1>4. QED BY <1>3

\* A number that fits its variable is what the variable gets.
LEMMA FittingValue ==
    ASSUME NEW r \in Requests, ErrnoUpTo(r, Len(r.texts)) = "other", NEW p \in Asked(r),
           Fits(r, p)
    PROVE  /\ Value(r, p) = Number(r, p)
           /\ p \in {"control", "config"} => -32768 <= Value(r, p) /\ Value(r, p) <= 32767
<1>1. PICK k \in DOMAIN Parameters[r.cmd] : p = Parameters[r.cmd][k]
  BY DEF Asked
<1> DEFINE t == r.texts[k]
<1>2. /\ r.cmd \in DOMAIN Parameters /\ k \in DOMAIN r.texts
      /\ DOMAIN r.texts = 1 .. Len(r.texts) /\ Len(r.texts) \in Nat
      /\ t.high \in Int /\ t.low \in Nat /\ t.low < 65536
  BY <1>1, RequestAssumption DEF RequestAssumption
<1>3. Documented(r.cmd, p) = k
  BY <1>1, <1>2, Places
<1>4. /\ t.form = "number" /\ -32768 <= t.high /\ t.high <= 32767
      /\ p \in Narrow \cup {"control", "config"} =>
            \/ t.high = 0 /\ t.low < 32768
            \/ t.high = -1 /\ t.low >= 32768
  BY <1>2, <1>3 DEF Fits
<1>5. Number(r, p) = 65536 * t.high + t.low
  BY <1>3 DEF Number
<1>6. ErrnoUpTo(r, k) # "ERANGE"
  BY <1>2 DEF ErrnoUpTo
<1>7. Int16(t.high) = t.high
  BY <1>2, <1>4, Int16Keeps
<1> HIDE DEF t
<1>8. ConvertString(t, ErrnoUpTo(r, k)) = 65536 * t.high + t.low
  BY <1>4, <1>6, <1>7 DEF ConvertString, ErrnoAfter
<1>9. p \in Narrow \cup {"control", "config"} =>
         /\ -32768 <= 65536 * t.high + t.low /\ 65536 * t.high + t.low <= 32767
         /\ Int16(65536 * t.high + t.low) = 65536 * t.high + t.low
  <2> SUFFICES ASSUME p \in Narrow \cup {"control", "config"}
               PROVE  /\ -32768 <= 65536 * t.high + t.low /\ 65536 * t.high + t.low <= 32767
                      /\ Int16(65536 * t.high + t.low) = 65536 * t.high + t.low
    OBVIOUS
  <2>1. t.high \in Int /\ t.low \in Int /\ 0 <= t.low /\ t.low < 65536
    BY <1>2
  <2>2. (t.high = 0 /\ t.low < 32768) \/ (t.high = -1 /\ t.low >= 32768)
    BY <1>4
  <2>3. ASSUME NEW h \in Int, NEW l \in Int, 0 <= l, l < 65536,
               (h = 0 /\ l < 32768) \/ (h = -1 /\ l >= 32768)
        PROVE  -32768 <= 65536 * h + l /\ 65536 * h + l <= 32767
    BY ONLY <2>3, SMT
  <2>4. /\ 65536 * t.high + t.low \in Int
        /\ -32768 <= 65536 * t.high + t.low /\ 65536 * t.high + t.low <= 32767
    BY <2>1, <2>2, <2>3, SMT
  <2>5. QED BY <2>4, Int16Keeps
<1>10. Value(r, p) = IF p \in Narrow THEN Int16(ConvertString(t, ErrnoUpTo(r, k)))
                     ELSE ConvertString(t, ErrnoUpTo(r, k))
  BY <1>1, ValueAt DEF t
<1>11. QED BY <1>5, <1>8, <1>9, <1>10

\* A client whose numbers all fit their variables gets what it asked for, or is
\* rejected because a number is not legal: DriveGetsWhatWasAsked, for all requests.
THEOREM WhatWasAsked == Spec => []DriveGetsWhatWasAsked
<1>1. Init => DriveGetsWhatWasAsked
  BY DEF Init, DriveGetsWhatWasAsked
<1>2. DriveGetsWhatWasAsked /\ [Next]_vars => DriveGetsWhatWasAsked'
  <2> SUFFICES ASSUME DriveGetsWhatWasAsked, [Next]_vars
               PROVE  DriveGetsWhatWasAsked'
    OBVIOUS
  <2>1. ASSUME NEW r \in Requests, Serve(r)
        PROVE  DriveGetsWhatWasAsked'
    <3> SUFFICES ASSUME errno' = "other", \A p \in Asked(r) : Fits(r, p)
                 PROVE  /\ written' # <<>> <=> \A p \in Asked(r) : Within(p, Number(r, p))
                        /\ written' # <<>> =>
                              \A p \in Asked(r) :
                                  Received(written', r.cmd, p) = Number(r, p)
      BY <2>1 DEF Serve, DriveGetsWhatWasAsked
    <3>1. \A p \in Asked(r) :
             /\ Value(r, p) = Number(r, p)
             /\ p \in {"control", "config"} => -32768 <= Value(r, p) /\ Value(r, p) <= 32767
      BY <2>1, FittingValue DEF Serve
    <3>2. Accepted(r) <=> \A p \in Asked(r) : Within(p, Value(r, p))
      BY DEF Accepted, Asked
    <3>3. /\ written' # <<>> <=> Accepted(r)
          /\ written' # <<>> => written' = OnWire(Table(r))
      BY <2>1, TableNotEmpty DEF Serve
    <3>4. written' # <<>> => \A p \in Asked(r) : Received(written', r.cmd, p) = Value(r, p)
      BY <3>1, <3>3, ReceivedIsValue
    <3>5. QED BY <3>1, <3>2, <3>3, <3>4
  <2>2. ASSUME NEW type, ReadRegisters(type)
        PROVE  DriveGetsWhatWasAsked'
    BY <2>2 DEF ReadRegisters, Idle, DriveGetsWhatWasAsked
  <2>3. CASE Answer
    BY <2>3 DEF Answer, DriveGetsWhatWasAsked
  <2>4. CASE UNCHANGED vars
    BY <2>4 DEF vars, DriveGetsWhatWasAsked
  <2>5. QED BY <2>1, <2>2, <2>3, <2>4 DEF Next
<1>3. QED BY <1>1, <1>2, PTL DEF Spec

\* The last parameter of a command, unless it is the preset's position, is not
\* let through below zero.
LEMMA LastParameter ==
    ASSUME NEW c \in DOMAIN Parameters
    PROVE  LET k == Len(Parameters[c])
               p == Parameters[c][k]
           IN /\ k \in DOMAIN Parameters[c]
              /\ c \notin {"presetMotorPosition", "presetEncoderPosition"} =>
                    p \in DOMAIN Limit /\ Limit[p][1] >= 0
<1>1. CASE c = "jog"
  BY <1>1 DEF Parameters, Limit
<1>2. CASE c = "home"
  BY <1>2 DEF Parameters, Limit
<1>3. CASE c = "relativeMove"
  BY <1>3 DEF Parameters, Limit
<1>4. CASE c = "saveConfig"
  BY <1>4 DEF Parameters, Limit
<1>5. CASE c \in {"presetMotorPosition", "presetEncoderPosition"}
  BY <1>5 DEF Parameters, Limit
<1>6. CASE c = "runAssembledDwellMove"
  BY <1>6 DEF Parameters, Limit
<1>7. CASE c = "runAssembledBlendMove"
  BY <1>7 DEF Parameters, Limit
<1>8. QED BY <1>1, <1>2, <1>3, <1>4, <1>5, <1>6, <1>7 DEF Parameters

\* An overflow turns at least the last parameter of its own request, and all of
\* the next, into -1, which only the presets let through: StaleErrnoMovesNothing.
THEOREM StaleErrno == Spec => []StaleErrnoMovesNothing
<1>1. Init => StaleErrnoMovesNothing
  BY DEF Init, StaleErrnoMovesNothing
<1>2. StaleErrnoMovesNothing /\ [Next]_vars => StaleErrnoMovesNothing'
  <2> SUFFICES ASSUME StaleErrnoMovesNothing, [Next]_vars
               PROVE  StaleErrnoMovesNothing'
    OBVIOUS
  <2>1. ASSUME NEW r \in Requests, Serve(r)
        PROVE  StaleErrnoMovesNothing'
    <3> DEFINE k == Len(r.texts)
               p == Parameters[r.cmd][k]
    <3> SUFFICES ASSUME ErrnoUpTo(r, k) = "ERANGE", Accepted(r)
                 PROVE  r.cmd \in {"presetMotorPosition", "presetEncoderPosition"}
      BY <2>1 DEF Serve, StaleErrnoMovesNothing
    <3>1. r.cmd \in DOMAIN Parameters /\ k = Len(Parameters[r.cmd])
      BY RequestAssumption DEF RequestAssumption
    <3>2. k \in DOMAIN Parameters[r.cmd]
      BY <3>1, LastParameter
    <3>3. ConvertString(r.texts[k], ErrnoUpTo(r, k)) = -1
      BY DEF ConvertString, ErrnoAfter
    <3>4. Int16(-1) = -1
      BY Int16Keeps
    <3>5. Value(r, p) = -1
      BY <3>2, <3>3, <3>4, ValueAt
    <3>6. p \in DOMAIN Limit => Limit[p][1] <= -1
      BY <3>2, <3>5 DEF Accepted, Within
    <3>7. p \in DOMAIN Limit => Limit[p][1] \in Int
      BY DEF Limit
    <3>8. QED BY <3>1, <3>6, <3>7, LastParameter
  <2>2. ASSUME NEW type, ReadRegisters(type)
        PROVE  StaleErrnoMovesNothing'
    BY <2>2 DEF ReadRegisters, StaleErrnoMovesNothing
  <2>3. CASE Answer
    BY <2>3 DEF Answer, StaleErrnoMovesNothing
  <2>4. CASE UNCHANGED vars
    BY <2>4 DEF vars, StaleErrnoMovesNothing
  <2>5. QED BY <2>1, <2>2, <2>3, <2>4 DEF Next
<1>3. QED BY <1>1, <1>2, PTL DEF Spec
\* The tables name registers of the drive and hold integers.
LEMMA TableTypes ==
    ASSUME NEW r \in Requests, Accepted(r), NEW k \in DOMAIN Table(r)
    PROVE  Table(r)[k][1] \in 1024 .. 1033 /\ Table(r)[k][2] \in Int
<1>1. r.cmd \in DOMAIN Parameters /\ r.ccw \in BOOLEAN
  BY RequestAssumption, SMT DEF RequestAssumption
<1>2. \A p \in Asked(r) : Value(r, p) \in Int
  BY AcceptedValue
<1>3. ASSUME NEW v \in Int
      PROVE  /\ Words(v).upper \in Int /\ Words(v).lower \in Int
             /\ SpeedWords(v).upper \in Int /\ SpeedWords(v).lower \in Int
  <2>1. \A u \in Int : Int16(u) \in Int
    BY Int16Type
  <2>2. Thousands(v) \in Int /\ Rest(v) \in Int /\ -Thousands(v) \in Int /\ -Rest(v) \in Int
    BY Halves
  <2>3. CMod(v, 1000) \in Int /\ v - CMod(v, 1000) \in Int
        /\ CDiv(v - CMod(v, 1000), 1000) \in Int
    BY DivMod
  <2>4. QED BY <2>1, <2>2, <2>3, SMT DEF Words, SpeedWords
<1>4. \A a, b \in Int : Direction(r, a, b) \in Int
  BY DEF Direction
<1>5. CASE r.cmd = "jog"
  <2>1. {"accel", "decel", "jerk", "speed"} \subseteq Asked(r)
    BY <1>5, SMT DEF Asked, Parameters
  <2>2. QED BY <1>2, <1>3, <1>4, <1>5, <2>1, SMT DEF Table
<1>6. CASE r.cmd = "home"
  <2>1. {"accel", "decel", "jerk", "speed"} \subseteq Asked(r)
    BY <1>6, SMT DEF Asked, Parameters
  <2>2. /\ Value(r, "speed") \in Int /\ Value(r, "accel") \in Int
        /\ Value(r, "decel") \in Int /\ Value(r, "jerk") \in Int
    BY <1>2, <2>1
  <2>3. /\ Words(Value(r, "speed")).upper \in Int
        /\ Words(Value(r, "speed")).lower \in Int
    BY <1>3, <2>2
  <2>4. Direction(r, 32, 64) \in Int
    BY <1>4, SMT
  <2>5. QED BY <1>6, <2>2, <2>3, <2>4, SMT DEF Table
<1>7. CASE r.cmd = "relativeMove"
  <2>1. {"position", "accel", "decel", "jerk", "speed"} \subseteq Asked(r)
    BY <1>7, SMT DEF Asked, Parameters
  <2>2. QED BY <1>2, <1>3, <1>4, <1>7, <2>1, SMT DEF Table
<1>8. CASE r.cmd = "saveConfig"
  <2>1. {"control", "config", "startingSpeed", "stepsPerTurn", "encoderPulses", "idleCurrent",
                "motorCurrent"} \subseteq Asked(r)
    BY <1>8, SMT DEF Asked, Parameters
  <2>2. QED BY <1>2, <1>3, <1>4, <1>8, <2>1, SMT DEF Table
<1>9. CASE r.cmd \in {"presetMotorPosition", "presetEncoderPosition"}
  <2>1. {"position"} \subseteq Asked(r)
    BY <1>9, SMT DEF Asked, Parameters
  <2>2. QED BY <1>2, <1>3, <1>4, <1>9, <2>1, SMT DEF Table
<1>10. CASE r.cmd = "runAssembledDwellMove"
  <2>1. {"dwell"} \subseteq Asked(r)
    BY <1>10, SMT DEF Asked, Parameters
  <2>2. QED BY <1>2, <1>3, <1>4, <1>10, <2>1, SMT DEF Table
<1>11. CASE r.cmd = "runAssembledBlendMove"
  <2>1. {"direction"} \subseteq Asked(r)
    BY <1>11, SMT DEF Asked, Parameters
  <2>2. QED BY <1>2, <1>3, <1>4, <1>11, <2>1, SMT DEF Table
<1>12. QED BY <1>1, <1>5, <1>6, <1>7, <1>8, <1>9, <1>10, <1>11, SMT DEF Parameters

\* Types, for all requests and reports.
THEOREM TypeCorrect == Spec => []TypeOK
<1>0. AreWrites(<<>>)
  BY DEF AreWrites
<1>1. Init => TypeOK
  BY <1>0 DEF Init, TypeOK
<1>2. TypeOK /\ [Next]_vars => TypeOK'
  <2> SUFFICES ASSUME TypeOK, [Next]_vars
               PROVE  TypeOK'
    OBVIOUS
  <2>1. ASSUME NEW r \in Requests, Serve(r)
        PROVE  TypeOK'
    <3>1. errno' \in {"other", "ERANGE"} /\ request' \in Requests
      BY <2>1 DEF Serve, ErrnoUpTo, TypeOK
    <3>2. AreWrites(written')
      <4>1. CASE ~Accepted(r)
        <5>1. written' = <<>>
          BY <2>1, <4>1 DEF Serve
        <5>2. QED BY <1>0, <5>1
      <4>2. CASE Accepted(r)
        <5>1. written' = OnWire(Table(r))
          BY <2>1, <4>2 DEF Serve
        <5>2. \A v \in Int : v % 65536 \in Word
          BY SMT DEF Word
        <5>3. /\ DOMAIN OnWire(Table(r)) = DOMAIN Table(r)
              /\ \A k \in DOMAIN Table(r) : OnWire(Table(r))[k] =
                                                <<Table(r)[k][1], Table(r)[k][2] % 65536>>
          BY DEF OnWire
        <5>4. \A k \in DOMAIN Table(r) : /\ Table(r)[k][1] \in 1024 .. 1033
                                         /\ Table(r)[k][2] \in Int
          BY <4>2, TableTypes
        <5>5. AreWrites(OnWire(Table(r)))
          BY <5>2, <5>3, <5>4, SMT DEF AreWrites
        <5>6. QED BY <5>1, <5>5
      <4>3. QED BY <4>1, <4>2
    <3>3. words' \in Reports \cup {<<>>} /\ report' \subseteq DOMAIN words'
      BY <2>1 DEF Serve, TypeOK
    <3>4. QED BY <3>1, <3>2, <3>3 DEF TypeOK
  <2>2. ASSUME NEW type, ReadRegisters(type)
        PROVE  TypeOK'
    <3>1. PICK w \in Reports : words' = w /\ report' = WholeFields(w, type)
      BY <2>2 DEF ReadRegisters
    <3>2. DOMAIN w = 1 .. 10 /\ Len(w) = 10
      BY ReportAssumption DEF ReportAssumption
    <3>3. report' \subseteq DOMAIN words'
      BY <3>1, <3>2 DEF WholeFields
    <3>4. QED BY <2>2, <3>1, <3>3 DEF ReadRegisters, TypeOK
  <2>3. CASE Answer
    BY <1>0, <2>3 DEF Answer, TypeOK
  <2>4. CASE UNCHANGED vars
    BY <2>4 DEF vars, TypeOK
  <2>5. QED BY <2>1, <2>2, <2>3, <2>4 DEF Next
<1>3. QED BY <1>1, <1>2, PTL DEF Spec

-----------------------------------------------------------------------------
(* Reports. *)

\* A field with its comma: four to seven characters in hexadecimal, at most seven
\* in decimal.
LEMMA HexField ==
    ASSUME NEW w \in Word
    PROVE  /\ HexLength(w) \in 1 .. 4
           /\ w >= 16 => HexLength(w) >= 2
           /\ w <= 4095 => HexLength(w) <= 3
BY SMT DEF HexLength, Word

LEMMA DecimalField ==
    ASSUME NEW w \in Word
    PROVE  DecimalLength(Int16(w)) \in 1 .. 6
<1>1. Int16(w) \in Int
  BY SMT DEF Int16, Word
<1>2. \A v \in Int : DecimalLength(v) \in 1 .. 6
  BY SMT DEF DecimalLength, Abs
<1>3. QED BY <1>1, <1>2

LEMMA FieldLengths ==
    ASSUME NEW w \in [1 .. 10 -> Word]
    PROVE  /\ \A i \in 1 .. 10 : FieldLength(w, i) \in 1 .. 7
           /\ FieldLength(w, 1) \in 4 .. 7 /\ FieldLength(w, 2) \in 4 .. 7
           /\ w[1] >= 16 => FieldLength(w, 1) >= 5
           /\ w[2] <= 4095 => FieldLength(w, 2) <= 6
<1>1. Len(w) = 10
  OBVIOUS
<1>2. ASSUME NEW i \in 1 .. 2 PROVE FieldLength(w, i) = 3 + HexLength(w[i])
  <2>1. HexLength(w[i]) \in 1 .. 4
    BY HexField
  <2>2. QED BY <1>1, <2>1 DEF FieldLength
<1>3. ASSUME NEW i \in 3 .. 10 PROVE FieldLength(w, i) \in 1 .. 7
  <2>1. DecimalLength(Int16(w[i])) \in 1 .. 6
    BY DecimalField
  <2>2. QED BY <1>1, <2>1 DEF FieldLength
<1>4. /\ HexLength(w[1]) \in 1 .. 4 /\ HexLength(w[2]) \in 1 .. 4
      /\ w[1] >= 16 => HexLength(w[1]) >= 2
      /\ w[2] <= 4095 => HexLength(w[2]) <= 3
  BY HexField
<1>5. /\ FieldLength(w, 1) = 3 + HexLength(w[1])
      /\ FieldLength(w, 2) = 3 + HexLength(w[2])
  BY <1>2
<1>6. \A i \in 1 .. 10 : i = 1 \/ i = 2 \/ i \in 3 .. 10
  OBVIOUS
<1>7. QED BY <1>3, <1>4, <1>5, <1>6

\* From the second field on the buffer has ten characters, more than any field.
LEMMA FieldsAreWhole ==
    ASSUME NEW w \in [1 .. 10 -> Word], NEW type, w[1] >= 16 \/ w[2] <= 4095
    PROVE  WholeFields(w, type) = 1 .. 10
<1> DEFINE after == ReportLength(w, type)
           L(i) == FieldLength(w, i)
<1>1. /\ Len(w) = 10
      /\ after[1] = PrefixLength(type) + L(1) /\ PrefixLength(type) \in {2, 3}
      /\ \A i \in 2 .. 10 : after[i] = Appended(after[i - 1], L(i))
  BY ReportFieldByField DEF PrefixLength
<1>2. /\ \A i \in 1 .. 10 : L(i) \in 1 .. 7
      /\ L(1) \in 4 .. 7 /\ L(2) \in 4 .. 7 /\ (L(1) >= 5 \/ L(2) <= 6)
  <2>1. w[1] \in Word /\ w[2] \in Word
    OBVIOUS
  <2>2. QED BY <2>1, FieldLengths
<1> HIDE DEF after, L
<1>3. \A m, n \in Nat : n <= m => Appended(m, n) = m + n
  BY DEF Appended
<1>4. after[1] \in Nat /\ L(2) <= after[1] /\ after[1] + L(2) >= 10
  BY <1>1, <1>2
<1>5. after[2] = after[1] + L(2) /\ after[2] \in Nat /\ after[2] >= 10
  <2>1. after[2] = Appended(after[1], L(2))
    BY <1>1
  <2>2. L(2) \in Nat /\ L(2) >= 4
    BY <1>2
  <2>3. Appended(after[1], L(2)) = after[1] + L(2)
    BY <1>4, <2>2 DEF Appended
  <2>4. QED BY <1>4, <2>1, <2>2, <2>3
<1>6. ASSUME NEW i \in 3 .. 10, after[i - 1] \in Nat, after[i - 1] >= 10
      PROVE  after[i] = after[i - 1] + L(i) /\ after[i] \in Nat /\ after[i] >= 10
  <2>1. after[i] = Appended(after[i - 1], L(i)) /\ L(i) \in 1 .. 7
    BY <1>1, <1>2
  <2>2. L(i) \in Nat /\ L(i) <= after[i - 1]
    BY <1>6, <2>1
  <2>3. Appended(after[i - 1], L(i)) = after[i - 1] + L(i)
    BY <1>3, <1>6, <2>2
  <2>4. QED BY <1>6, <2>1, <2>2, <2>3
<1>7. \A i \in 3 .. 10 : after[i] = after[i - 1] + L(i)
  <2> DEFINE Long(i) == after[i] \in Nat /\ after[i] >= 10
  <2>1. \A i \in 3 .. 10 : Long(i - 1) => Long(i)
    BY <1>6
  <2>2. Long(2)
    BY <1>5
  <2> HIDE DEF Long
  <2>3. Long(3 - 1) /\ Long(4 - 1) /\ Long(5 - 1) /\ Long(6 - 1) /\ Long(7 - 1)
        /\ Long(8 - 1) /\ Long(9 - 1) /\ Long(10 - 1)
    BY <2>1, <2>2
  <2>4. \A i \in 3 .. 10 : i \in {3, 4, 5, 6, 7, 8, 9, 10}
    OBVIOUS
  <2>5. \A i \in 3 .. 10 : Long(i - 1)
    BY <2>3, <2>4
  <2>6. QED BY <1>6, <2>5 DEF Long
<1>8. \A i \in 2 .. 10 : after[i] = after[i - 1] + L(i)
  BY <1>5, <1>7
<1>9. QED BY <1>1, <1>8 DEF WholeFields, after, L

\* Every field of a report reaches the client whole, with its comma, for all ten
\* register words but those whose first two are short and long.
THEOREM ReportsAreWhole == Spec => []ReportIsWhole
<1>1. Init => ReportIsWhole
  BY DEF Init, ReportIsWhole
<1>2. TypeOK /\ ReportIsWhole /\ [Next]_vars => ReportIsWhole'
  <2> SUFFICES ASSUME TypeOK, ReportIsWhole, [Next]_vars
               PROVE  ReportIsWhole'
    OBVIOUS
  <2>1. ASSUME NEW r \in Requests, Serve(r) PROVE ReportIsWhole'
    BY <2>1 DEF Serve, ReportIsWhole
  <2>2. ASSUME NEW type, ReadRegisters(type) PROVE ReportIsWhole'
    <3>1. PICK w \in Reports : words' = w /\ report' = WholeFields(w, type)
      BY <2>2 DEF ReadRegisters
    <3>2. w \in [1 .. 10 -> Word]
      BY ReportAssumption DEF ReportAssumption
    <3>3. DOMAIN w = 1 .. 10 /\ w[1] \in Word /\ w[2] \in Word
      BY <3>2
    <3>4. (w[1] < 16 /\ w[2] > 4095) \/ w[1] >= 16 \/ w[2] <= 4095
      <4>1. \A a \in Word : a \in Int
        BY SMT DEF Word
      <4>2. w[1] \in Int /\ w[2] \in Int
        BY <3>3, <4>1
      <4>3. QED BY <4>2, SMT
    <3>5. QED BY <3>1, <3>2, <3>3, <3>4, FieldsAreWhole DEF ReportIsWhole
  <2>3. CASE Answer
    BY <2>3 DEF Answer, ReportIsWhole
  <2>4. CASE UNCHANGED vars
    BY <2>4 DEF vars, ReportIsWhole
  <2>5. QED BY <2>1, <2>2, <2>3, <2>4 DEF Next
<1>3. QED BY <1>1, <1>2, TypeCorrect, PTL DEF Spec
=============================================================================
