-------------------------- MODULE ConversionsProofs --------------------------
(***************************************************************************)
(* What the conversions compute, for every integer they are given.         *)
(***************************************************************************)
EXTENDS Conversions, TLAPS

\* An int16_t holds every integer of its range as it is.
LEMMA Int16Keeps ==
    ASSUME NEW v \in Int, -32768 <= v, v <= 32767
    PROVE  Int16(v) = v
BY SMT DEF Int16

\* An int16_t differs from what was stored in it by a multiple of 2^16.
LEMMA Int16Type ==
    ASSUME NEW v \in Int
    PROVE  /\ Int16(v) \in Int /\ -32768 <= Int16(v) /\ Int16(v) <= 32767
           /\ (v - Int16(v)) % 65536 = 0
BY SMT DEF Int16

\* C's quotient and remainder by 1000: what SMD_Utilities.c:42-44 relies on.
LEMMA DivMod ==
    ASSUME NEW n \in Int
    PROVE  /\ CDiv(n, 1000) \in Int
           /\ CMod(n, 1000) \in Int /\ -999 <= CMod(n, 1000) /\ CMod(n, 1000) <= 999
           /\ n = 1000 * CDiv(n, 1000) + CMod(n, 1000)
           /\ n >= 0 => CDiv(n, 1000) >= 0 /\ CMod(n, 1000) >= 0
           /\ n <= 0 => CDiv(n, 1000) <= 0 /\ CMod(n, 1000) <= 0
BY SMT DEF CDiv, CMod

\* Before the cut to 16 bits the two halves make up the number again, and the
\* lower one is less than a thousand.
LEMMA Halves ==
    ASSUME NEW n \in Int
    PROVE  /\ Thousands(n) \in Nat /\ Rest(n) \in Int /\ 0 <= Rest(n) /\ Rest(n) <= 999
           /\ Abs(n) = 1000 * Thousands(n) + Rest(n)
<1> DEFINE q == CDiv(n, 1000)
           m == CMod(n, 1000)
<1>1. /\ q \in Int /\ m \in Int /\ -999 <= m /\ m <= 999 /\ n = 1000 * q + m
      /\ n >= 0 => q >= 0 /\ m >= 0
      /\ n <= 0 => q <= 0 /\ m <= 0
  BY DivMod
<1>2. /\ Thousands(n) = IF Abs(q) > 0 THEN CDiv(Abs(n - m), 1000) ELSE 0
      /\ Rest(n) = IF Abs(q) > 0 THEN Abs(m) ELSE Abs(n)
  BY SMT DEF Thousands, Rest
<1> HIDE DEF q, m
<1>3. Abs(n - m) = 1000 * Abs(q) /\ Abs(q) \in Nat
  BY <1>1, SMT DEF Abs
<1>4. \A a \in Nat : CDiv(1000 * a, 1000) = a
  BY SMT DEF CDiv
<1>5. CDiv(Abs(n - m), 1000) = Abs(q)
  BY <1>3, <1>4, SMT
<1> QED BY <1>1, <1>2, <1>5, SMT DEF Abs

\* convert_int_to_words loses nothing of any number whose thousands fit 16
\* bits: the halves recombine, the lower one is less than a thousand, and
\* neither has the other's sign.
THEOREM WordsRecombine ==
    ASSUME NEW n \in Int, -32767999 <= n, n <= 32767999
    PROVE  /\ 1000 * Words(n).upper + Words(n).lower = n
           /\ Words(n).upper \in Int /\ -32767 <= Words(n).upper /\ Words(n).upper <= 32767
           /\ Words(n).lower \in Int /\ -999 <= Words(n).lower /\ Words(n).lower <= 999
           /\ n >= 0 => Words(n).upper >= 0 /\ Words(n).lower >= 0
           /\ n <= 0 => Words(n).upper <= 0 /\ Words(n).lower <= 0
<1> DEFINE t == Thousands(n)
           r == Rest(n)
<1>1. t \in Nat /\ r \in Int /\ 0 <= r /\ r <= 999 /\ Abs(n) = 1000 * t + r
  BY Halves, SMT
<1>2. Words(n) = IF n < 0 THEN [upper |-> Int16(-t), lower |-> Int16(-r)]
                 ELSE [upper |-> Int16(t), lower |-> Int16(r)]
  BY SMT DEF Words
<1> HIDE DEF t, r
<1>3. t \in Int /\ 0 <= t /\ t <= 32767
  BY <1>1, SMT DEF Abs
<1>4. Int16(t) = t /\ Int16(-t) = -t /\ Int16(r) = r /\ Int16(-r) = -r
  BY <1>1, <1>3, SMT DEF Int16
<1> QED BY <1>1, <1>2, <1>3, <1>4, SMT DEF Abs

\* The splitting that SMD_jog and SMD_set_configuration write out is the same
\* function, on every speed they let through.
THEOREM SpeedWordsAreWords ==
    ASSUME NEW v \in Int, 0 <= v, v <= 2999999
    PROVE  SpeedWords(v) = Words(v)
<1> DEFINE q == CDiv(v, 1000)
           m == CMod(v, 1000)
<1>1. q \in Nat /\ m \in Int /\ 0 <= m /\ m <= 999 /\ v = 1000 * q + m
  BY DivMod, SMT
<1>2. /\ Thousands(v) = IF Abs(q) > 0 THEN CDiv(Abs(v - m), 1000) ELSE 0
      /\ Rest(v) = IF Abs(q) > 0 THEN Abs(m) ELSE Abs(v)
  BY SMT DEF Thousands, Rest
<1>3. SpeedWords(v) = IF q > 0 THEN [upper |-> Int16(CDiv(v - m, 1000)), lower |-> Int16(m)]
                      ELSE [upper |-> 0, lower |-> Int16(v)]
  BY SMT DEF SpeedWords
<1> HIDE DEF q, m
<1>4. Abs(q) = q /\ Abs(m) = m /\ Abs(v) = v /\ Abs(v - m) = v - m /\ Int16(0) = 0
  BY <1>1, SMT DEF Abs, Int16
<1> QED BY <1>1, <1>2, <1>3, <1>4, SMT DEF Words

\* The comment "bit 9 is 6 for our purposes" (SMD_Motor_Commands.c:588) holds
\* of every status word with one of its bits 12 to 15 set; the same goes for
\* bit 8 and index 7.  Each word takes at most 17 bytes, not 16.
THEOREM StatusBits ==
    ASSUME NEW w \in Int, 4096 <= w, w <= 65535
    PROVE  /\ StatusChar(w, 6) = (w \div 512) % 2
           /\ StatusChar(w, 7) = (w \div 256) % 2
           /\ BytesStored(w) = 17
<1>1. HexLength(w) = 4
  BY SMT DEF HexLength
<1>2. DOMAIN BinString(w) = 1 .. 16 /\ Len(BinString(w)) = 16
  <2>1. BinString(w) = [k \in 1 .. 16 |->
            (HexDigits(w)[((k - 1) \div 4) + 1] \div Bin[((k - 1) % 4) + 1]) % 2]
    BY <1>1, SMT DEF BinString
  <2> QED BY <2>1, SMT
<1>3. HexDigits(w)[2] = (w \div 256) % 16
  <2>1. HexDigits(w)[2] = (w \div Hex[4 - 2 + 1]) % 16
    BY <1>1, SMT DEF HexDigits
  <2>2. Hex[4 - 2 + 1] = 256
    BY SMT DEF Hex
  <2> QED BY <2>1, <2>2, SMT
<1>4. BinString(w)[7] = (HexDigits(w)[2] \div 2) % 2
  <2>1. BinString(w)[7] = (HexDigits(w)[((7 - 1) \div 4) + 1] \div Bin[((7 - 1) % 4) + 1]) % 2
    BY <1>1, SMT DEF BinString
  <2>2. ((7 - 1) \div 4) + 1 = 2 /\ ((7 - 1) % 4) + 1 = 3
    BY SMT
  <2>3. Bin[3] = 2
    BY SMT DEF Bin
  <2> QED BY <2>1, <2>2, <2>3, SMT
<1>5. BinString(w)[8] = (HexDigits(w)[2] \div 1) % 2
  <2>1. BinString(w)[8] = (HexDigits(w)[((8 - 1) \div 4) + 1] \div Bin[((8 - 1) % 4) + 1]) % 2
    BY <1>1, SMT DEF BinString
  <2>2. ((8 - 1) \div 4) + 1 = 2 /\ ((8 - 1) % 4) + 1 = 4
    BY SMT
  <2>3. Bin[4] = 1
    BY SMT DEF Bin
  <2> QED BY <2>1, <2>2, <2>3, SMT
<1>6. StatusChar(w, 6) = BinString(w)[7] /\ StatusChar(w, 7) = BinString(w)[8]
  BY <1>2, SMT DEF StatusChar
<1>7. (((w \div 256) % 16) \div 2) % 2 = (w \div 512) % 2
      /\ (((w \div 256) % 16) \div 1) % 2 = (w \div 256) % 2
  BY SMT
<1> QED BY <1>2, <1>3, <1>4, <1>5, <1>6, <1>7, SMT DEF BytesStored

-----------------------------------------------------------------------------
(* The report of ten registers. *)

\* strncat as the reports in SMD_Modbus.c use it: a text of n characters behind
\* one of m.
Appended(m, n) == m + (IF n <= m THEN n ELSE m)

\* The lengths of the report after each of its ten fields (the calls of strncat
\* in SMD_Modbus.c): the recursive function is defined, field by field.
LEMMA ReportFieldByField ==
    ASSUME NEW words, NEW type, Len(words) = 10
    PROVE  LET after == ReportLength(words, type)
           IN  /\ after[1] = PrefixLength(type) + FieldLength(words, 1)
               /\ \A i \in 2 .. 10 : after[i] = Appended(after[i - 1], FieldLength(words, i))
<1> DEFINE first == PrefixLength(type) + FieldLength(words, 1)
           L(i) == FieldLength(words, i)
           Rule(f) == f = [i \in 1 .. Len(words) |->
                              IF i = 1 THEN first
                              ELSE LET n == L(i)
                                   IN f[i - 1] + (IF n <= f[i - 1] THEN n ELSE f[i - 1])]
           Fits(f) == f = [i \in 1 .. 10 |->
                              IF i = 1 THEN first ELSE Appended(f[i - 1], L(i))]
<1>1. ReportLength(words, type) = CHOOSE f : Rule(f)
  BY DEF ReportLength
<1>2. \A f : Rule(f) <=> Fits(f)
  BY DEF Appended
<1>3. \E f : Fits(f)
  <2> HIDE DEF first, L
  <2> DEFINE a2 == Appended(first, L(2))
             a3 == Appended(a2, L(3))
             a4 == Appended(a3, L(4))
             a5 == Appended(a4, L(5))
             a6 == Appended(a5, L(6))
             a7 == Appended(a6, L(7))
             a8 == Appended(a7, L(8))
             a9 == Appended(a8, L(9))
             a10 == Appended(a9, L(10))
             f == <<first, a2, a3, a4, a5, a6, a7, a8, a9, a10>>
             g == [i \in 1 .. 10 |-> IF i = 1 THEN first ELSE Appended(f[i - 1], L(i))]
  <2>1. /\ f[1] = first /\ f[2] = a2 /\ f[3] = a3 /\ f[4] = a4 /\ f[5] = a5
        /\ f[6] = a6 /\ f[7] = a7 /\ f[8] = a8 /\ f[9] = a9 /\ f[10] = a10
        /\ DOMAIN f = 1 .. 10 /\ f = [i \in 1 .. 10 |-> f[i]]
    OBVIOUS
  <2> HIDE DEF f
  <2>2. f[2] = Appended(f[1], L(2)) /\ f[3] = Appended(f[2], L(3))
        /\ f[4] = Appended(f[3], L(4)) /\ f[5] = Appended(f[4], L(5))
        /\ f[6] = Appended(f[5], L(6)) /\ f[7] = Appended(f[6], L(7))
        /\ f[8] = Appended(f[7], L(8)) /\ f[9] = Appended(f[8], L(9))
        /\ f[10] = Appended(f[9], L(10)) /\ f[1] = first
    BY <2>1
  <2> HIDE DEF a2, a3, a4, a5, a6, a7, a8, a9, a10
  <2>3. \A i \in 1 .. 10 : f[i] = IF i = 1 THEN first ELSE Appended(f[i - 1], L(i))
    <3>1. \A i \in 1 .. 10 : i \in {1, 2, 3, 4, 5, 6, 7, 8, 9, 10}
      OBVIOUS
    <3>2. QED BY <2>2, <3>1
  <2>4. f = g
    BY <2>1, <2>3
  <2>5. QED BY <2>4
<1> HIDE DEF Rule, Fits, first, L
<1>4. Fits(ReportLength(words, type))
  BY <1>1, <1>2, <1>3
<1>5. QED BY <1>4 DEF Fits, first, L
=============================================================================
