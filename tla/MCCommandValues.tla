--------------------------- MODULE MCCommandValues ---------------------------
(***************************************************************************)
(* Finite instances of CommandValues: for each command legal numbers, and  *)
(* each of its parameters in turn replaced by numbers at and beyond every  *)
(* limit, at the edges of 16 and 32 bits, by no number and by an overflow. *)
(***************************************************************************)
EXTENDS CommandValues

Text(v) == [form |-> "number", high |-> v \div 65536, low |-> v % 65536]

LegalTexts == [
    jog |-> <<Text(1), Text(5000), Text(0), Text(999)>>,
    home |-> <<Text(2999999), Text(250), Text(251), Text(5000)>>,
    relativeMove |-> <<Text(-8388607), Text(100), Text(101), Text(5), Text(1000)>>,
    saveConfig |-> <<Text(1024), Text(-32768), Text(1999999), Text(32767), Text(1024),
                     Text(100), Text(34)>>,
    presetMotorPosition |-> <<Text(-999)>>,
    presetEncoderPosition |-> <<Text(8388607)>>,
    runAssembledDwellMove |-> <<Text(40000)>>,
    runAssembledBlendMove |-> <<Text(1)>>]

OddTexts ==
    {Text(v) : v \in {-8388608, -1001, -1000, -1, 0, 1, 9, 10, 35, 101, 199, 200, 1000,
                      1001, 1023, 5001, 32768, 65535, 65536, 2000000, 3000000, 8388608}}
    \cup {[form |-> "number", high |-> h, low |-> l] : h \in {1, 65536, -65537}, l \in {1, 100}}
    \cup {[form |-> f, high |-> 0, low |-> 0] : f \in {"none", "over"}}

AllRequests ==
    UNION {{[cmd |-> c, ccw |-> d, texts |-> LegalTexts[c]] : d \in BOOLEAN} \cup
           {[cmd |-> c, ccw |-> FALSE, texts |-> [LegalTexts[c] EXCEPT ![k] = t]] :
               k \in DOMAIN LegalTexts[c], t \in OddTexts} : c \in DOMAIN LegalTexts}

AllReports ==
    {<<a, b, c, 9, 65535, 40000, 32767, 100, 1000, 0>> :
        a \in {0, 15, 16, 255, 256, 4096, 65535}, b \in {0, 4095, 4096, 65535},
        c \in {0, 32768}}
=============================================================================
