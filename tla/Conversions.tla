----------------------------- MODULE Conversions -----------------------------
(***************************************************************************)
(* The conversions between texts, C integers and drive registers, as       *)
(* operators that CommandValues and AssembledMove are built on.            *)
(***************************************************************************)
EXTENDS Integers, Sequences

\* What an int16_t keeps of an integer.
Int16(v) == LET u == v % 65536 IN IF u < 32768 THEN u ELSE u - 65536

\* Division and remainder of C, which round towards zero (d > 0).
CDiv(n, d) == IF n < 0 THEN -((-n) \div d) ELSE n \div d
CMod(n, d) == n - d * CDiv(n, d)

Abs(n) == IF n < 0 THEN -n ELSE n

-----------------------------------------------------------------------------
(***************************************************************************)
(* A token as strtol sees it: no number, one beyond 64 bits, or the number *)
(* high * 2^16 + low.                                                      *)
(***************************************************************************)
NumeralType == [form : {"none", "over", "number"}, high : Int, low : 0 .. 65535]

\* errno after strtol: nobody clears it first.
ErrnoAfter(text, errno) == IF text.form = "over" THEN "ERANGE" ELSE errno

\* Fault: what cannot be converted counts as zero.
ConvertToZero(text, errno) ==
    IF text.form = "none" \/ ErrnoAfter(text, errno) = "ERANGE" THEN 0
    ELSE 65536 * Int16(text.high) + text.low

\* convert_string_to_long_int: cut to 32 bits, or -1.
ConvertString(text, errno) ==
    IF text.form = "none" \/ ErrnoAfter(text, errno) = "ERANGE" THEN -1
    ELSE 65536 * Int16(text.high) + text.low

-----------------------------------------------------------------------------
\* convert_int_to_words: thousands and the rest, each with the sign, as int16_t.
Thousands(number) == IF Abs(CDiv(number, 1000)) > 0
                     THEN CDiv(Abs(number - CMod(number, 1000)), 1000) ELSE 0

Rest(number) == IF Abs(CDiv(number, 1000)) > 0 THEN Abs(CMod(number, 1000)) ELSE Abs(number)

\* Fault: the sign goes to the upper word only.
SignOnUpperWord(number) ==
    [upper |-> Int16(IF number < 0 THEN -Thousands(number) ELSE Thousands(number)),
     lower |-> Int16(Rest(number))]

Words(number) ==
    IF number < 0
    THEN [upper |-> Int16(-Thousands(number)), lower |-> Int16(-Rest(number))]
    ELSE [upper |-> Int16(Thousands(number)), lower |-> Int16(Rest(number))]

\* The same, written out in SMD_jog and SMD_set_configuration for speeds.
SpeedWords(speed) ==
    IF CDiv(speed, 1000) > 0
    THEN [upper |-> Int16(CDiv(speed - CMod(speed, 1000), 1000)),
          lower |-> Int16(CMod(speed, 1000))]
    ELSE [upper |-> 0, lower |-> Int16(speed)]

-----------------------------------------------------------------------------
(* A status word is printed with "0x%X", without leading zeros, and turned  *)
(* into binary digits, four for each hexadecimal one.                       *)

Hex == <<1, 16, 256, 4096>>
Bin == <<8, 4, 2, 1>>

HexLength(w) == IF w < 16 THEN 1 ELSE IF w < 256 THEN 2 ELSE IF w < 4096 THEN 3 ELSE 4

HexDigits(w) == [k \in 1 .. HexLength(w) |-> (w \div Hex[HexLength(w) - k + 1]) % 16]

\* hex_string_to_bin_string.
BinString(w) == [k \in 1 .. 4 * HexLength(w) |->
                    (HexDigits(w)[((k - 1) \div 4) + 1] \div Bin[((k - 1) % 4) + 1]) % 2]

\* The character at a C index of that string; beyond its end, the terminator.
StatusChar(w, index) ==
    IF index < Len(BinString(w)) THEN BinString(w)[index + 1] ELSE 2

\* The bytes hex_string_to_bin_string stores: the digits and the terminator.
BytesStored(w) == Len(BinString(w)) + 1

-----------------------------------------------------------------------------
(* The report of ten registers: two in hexadecimal, the others in decimal,  *)
(* a comma after each but the last, a prefix before the first.              *)

DecimalLength(v) ==
    LET a == Abs(v)
    IN (IF v < 0 THEN 1 ELSE 0)
       + (IF a < 10 THEN 1 ELSE IF a < 100 THEN 2 ELSE IF a < 1000 THEN 3
          ELSE IF a < 10000 THEN 4 ELSE 5)

\* Fault: the report of the input registers starts with nothing.
PrefixForgotten(type) == IF type = "input" THEN 0 ELSE 3

PrefixLength(type) == IF type = "input" THEN 2 ELSE 3

FieldLength(words, i) ==
    (IF i <= 2 THEN 2 + HexLength(words[i]) ELSE DecimalLength(Int16(words[i])))
    + (IF i < Len(words) THEN 1 ELSE 0)

\* strncat appends at most as many characters as the report has already.
ReportLength(words, type) ==
    LET after[i \in 1 .. Len(words)] ==
            IF i = 1 THEN PrefixLength(type) + FieldLength(words, 1)
            ELSE LET n == FieldLength(words, i)
                 IN after[i - 1] + (IF n <= after[i - 1] THEN n ELSE after[i - 1])
    IN after

\* The registers whose field arrives whole, with its comma.
WholeFields(words, type) ==
    LET after == ReportLength(words, type)
    IN {1} \cup {i \in 2 .. Len(words) : after[i] = after[i - 1] + FieldLength(words, i)}
=============================================================================
