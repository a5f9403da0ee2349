------------------------------- MODULE Converter -------------------------------
(***************************************************************************)
(* The conversions of util/converter.c between bytes, hexadecimal text and *)
(* BCD digits, and, from module Calendar, time.  A behaviour grows one     *)
(* input: the calendar of a century, day by day, or a text, character by   *)
(* character, as a caller might pass it.  Characters are strings of length *)
(* one; the integers of the code are wide enough for what is computed, but *)
(* for the index of string_to_bcd, which wraps around.                     *)
(***************************************************************************)
EXTENDS Calendar, Sequences, SequencesExt

CONSTANTS
    HexChars,        \* the characters a hexadecimal text is made of
    DecChars,        \* those of a text of decimal digits
    Behind,          \* what may follow the local variable c of string_to_bcd
    ByteValues,      \* the bytes that are printed
    MaxText,         \* bound: length of a text
    Sizes            \* sizes of the output buffer

ASSUME ConverterAssumption ==
    /\ MaxText \in Nat
    /\ Sizes \subseteq Nat \ {0}
    /\ ByteValues \subseteq 0 .. 255

VARIABLES
    job,             \* which conversion: "time", "hex", "bytes" or "bcd"
    input            \* the text or the bytes

vars == <<job, input, calendarVars>>

-----------------------------------------------------------------------------
(* Hexadecimal text                                                        *)

Upper == <<"0", "1", "2", "3", "4", "5", "6", "7", "8", "9", "A", "B", "C", "D", "E", "F">>
Lower == SubSeq(Upper, 1, 10) \o <<"a", "b", "c", "d", "e", "f">>

\* hex_char_to_val, which is -1 for other characters.
IsHex(c) == \E i \in 1 .. 16 : c \in {Upper[i], Lower[i]}
HexVal(c) == (CHOOSE i \in 1 .. 16 : c \in {Upper[i], Lower[i]}) - 1

\* Mutant of BytesToString: "%X".
BytesToStringShort(bytes) ==
    FlattenSeq([i \in DOMAIN bytes |->
        IF bytes[i] < 16 THEN <<Upper[bytes[i] + 1]>>
        ELSE <<Upper[bytes[i] \div 16 + 1], Upper[(bytes[i] % 16) + 1]>>])

\* "%02X" for each byte
BytesToString(bytes) ==
    FlattenSeq([i \in DOMAIN bytes |-> <<Upper[bytes[i] \div 16 + 1], Upper[(bytes[i] % 16) + 1]>>])

\* Mutant of ParseStep: blanks are skipped before the second digit, too.
ParseStepLoose(s, c, size) ==
    CASE s.at = "stop" \/ c = " "  -> s
      [] s.at = "hi" /\ IsHex(c)   -> [s EXCEPT !.at = "lo", !.hi = HexVal(c)]
      [] s.at = "lo" /\ IsHex(c) /\ Len(s.out) < size ->
            [s EXCEPT !.at = "hi", !.out = Append(@, 16 * s.hi + HexVal(c))]
      [] OTHER -> [s EXCEPT !.at = "stop"]

\* The loop of string_to_bytes meets character c: blanks are skipped before the
\* first digit of a byte only, and anything else that is not a digit ends it, as
\* does a byte that finds the buffer full.
ParseStep(s, c, size) ==
    CASE s.at = "stop" \/ (s.at = "hi" /\ c = " ") -> s
      [] s.at = "hi" /\ IsHex(c)   -> [s EXCEPT !.at = "lo", !.hi = HexVal(c)]
      [] s.at = "lo" /\ IsHex(c) /\ Len(s.out) < size ->
            [s EXCEPT !.at = "hi", !.out = Append(@, 16 * s.hi + HexVal(c))]
      [] OTHER -> [s EXCEPT !.at = "stop"]

\* The bytes written; their number is returned and zeros are behind them.
StringToBytes(str, size) ==
    FoldLeft(LAMBDA s, c : ParseStep(s, c, size), [at |-> "hi", hi |-> 0, out |-> <<>>], str).out

-----------------------------------------------------------------------------
(* BCD                                                                     *)

\* atoi(&c) reads on behind c, up to the first byte that is no digit.
IsDigit(c) == \E i \in 1 .. 10 : c = Upper[i]
Atoi(c, behind) ==
    CASE ~IsDigit(c) -> 0
      [] IsDigit(c) /\ ~IsDigit(behind) -> HexVal(c)
      [] OTHER -> 10 * HexVal(c) + HexVal(behind)

\* A byte after `|=' of an int, bit by bit.
OrByte(byte, value) ==
    LET Bit(w) == IF (byte \div w) % 2 = 0 /\ (value \div w) % 2 = 0 THEN 0 ELSE w
    IN  Bit(1) + Bit(2) + Bit(4) + Bit(8) + Bit(16) + Bit(32) + Bit(64) + Bit(128)

\* The bytes after `|=' of the values of these digits, each at its index.
OrInto(bytes, digits) ==
    FoldLeft(LAMBDA out, d : [out EXCEPT ![d.index + 1] = OrByte(@, d.value)], bytes, digits)

Zeros(size) == [k \in 1 .. size |-> 0]

\* Mutant of StringToBcd: the parity of the length is not looked at.
StringToBcdEven(str, size, behind) ==
    LET Digit(i) == [index |-> (2 * size - Len(str) + i) \div 2,
                     value |-> Atoi(str[i + 1], behind) * (IF i % 2 = 0 THEN 16 ELSE 1)]
    IN  IF Len(str) > 2 * size THEN Zeros(size)
        ELSE OrInto(Zeros(size), [p \in DOMAIN str |-> Digit(p - 1)])

\* Character i, from 0, goes to a half of byte (2 * size - len + i) / 2.  That index
\* wraps around for the first character of a text that is too long, and nothing is
\* written.
StringToBcd(str, size, behind) ==
    LET even == Len(str) % 2 = 0
        Digit(i) == [index |-> (2 * size - Len(str) + i) \div 2,
                     value |-> Atoi(str[i + 1], behind)
                                 * (IF (IF even THEN i + 1 ELSE i) % 2 = 1 THEN 16 ELSE 1)]
    IN  IF Len(str) > 2 * size THEN Zeros(size)
        ELSE OrInto(Zeros(size), [p \in DOMAIN str |-> Digit(p - 1)])

-----------------------------------------------------------------------------
(* The inputs                                                              *)

Init ==
    /\ job \in {"time", "hex", "bytes", "bcd"}
    /\ input = <<>>
    /\ CalendarInit

Type(kind, chars) ==
    /\ job = kind
    /\ Len(input) < MaxText
    /\ \E c \in chars : input' = Append(input, c)
    /\ UNCHANGED <<job, calendarVars>>

CountDays ==
    /\ job = "time"
    /\ Tomorrow
    /\ UNCHANGED <<job, input>>

Next ==
    \/ Type("hex", HexChars)
    \/ Type("bytes", ByteValues)
    \/ Type("bcd", DecChars)
    \/ CountDays

Spec == Init /\ [][Next]_vars

-----------------------------------------------------------------------------

\* The two characters at p are the digits of byte b.
PairAt(str, p, b) ==
    IsHex(str[p]) /\ IsHex(str[p + 1]) /\ b = 16 * HexVal(str[p]) + HexVal(str[p + 1])

\* A prefix of the text consists of the pairs of these bytes and of blanks between
\* them.
Spells(str, bytes) ==
    \E at \in [1 .. Len(bytes) -> 1 .. Len(str) - 1] :
        /\ \A i \in DOMAIN bytes : PairAt(str, at[i], bytes[i])
        /\ \A i \in 1 .. Len(bytes) - 1 : at[i] + 1 < at[i + 1]
        /\ \A p \in DOMAIN str :
              \/ str[p] = " "
              \/ \E i \in DOMAIN bytes : p \in {at[i], at[i] + 1}
              \/ \A i \in DOMAIN bytes : p > at[i] + 1

\* string_to_bytes finds exactly the bytes that a prefix of the text spells, as
\* many as there are or the first _size of them, whatever follows: blanks, an odd
\* digit or a foreign character (converter.c 95-139, as converter.h 29 says).
HexIsLongestPrefix ==
    job = "hex" => \A size \in Sizes :
        LET out == StringToBytes(input, size)
        IN  /\ Len(out) <= size /\ Spells(input, out)
            /\ Len(out) < size => \A p \in 1 .. Len(input) - 1 :
                  IsHex(input[p]) /\ IsHex(input[p + 1])
                    => ~Spells(input, Append(out, 16 * HexVal(input[p]) + HexVal(input[p + 1])))

\* What bytes_to_string prints, string_to_bytes reads, into a buffer of the same
\* size and, cut off behind whole bytes, into a smaller one.
HexRoundTrip ==
    job = "bytes" => \A size \in Sizes :
        StringToBytes(BytesToString(input), size)
            = SubSeq(input, 1, IF Len(input) < size THEN Len(input) ELSE size)

\* The digits of the buffer, from left to right, are the digits of the text behind
\* zeros, for texts of even and odd length, if no digit follows c in memory; if one
\* does, the digits are not those, and still no byte in front of them is touched,
\* and a text too long leaves zeros (converter.c 144-171).
BcdIsRightAligned ==
    job = "bcd" => \A size \in Sizes, behind \in Behind :
        LET bcd == StringToBcd(input, size, behind)
            pad == 2 * size - Len(input)
        IN  \A p \in 1 .. 2 * size :
                ~IsDigit(behind) \/ pad < 0 \/ p <= 2 * (pad \div 2) =>
                   (IF p % 2 = 1 THEN bcd[(p + 1) \div 2] \div 16 ELSE bcd[p \div 2] % 16)
                    = IF pad >= 0 /\ p > pad THEN Atoi(input[p - pad], behind) ELSE 0

=============================================================================
