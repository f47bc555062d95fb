------------------------------- MODULE Floats -------------------------------
(* PAL/HAPBase+Float.c: decimal text and binary floating-point numbers, with arithmetic on
   integers alone, at any size of the numbers.  A float is a sign and its other bits, an
   integer: the exponent, counted from 0, above the Precision - 1 bits of the mantissa. *)
EXTENDS Integers, Sequences, SequencesExt, TLC

CONSTANTS
    Precision,                  \* 24: bits of a normal mantissa, the leading one included
    MinExponent, MaxExponent,   \* -126, 127: of two, for the leading bit of a normal number
    MaxMantissa,                \* 10^17: what more digits of a text are not added to
    MinExp10, MaxExp10,         \* -63, 38: exponents of ten beyond which nothing is computed
    MinFixed, MaxFixed          \* -4, 5: exponents of ten that are written as a decimal point

LeadingBit == 2 ^ (Precision - 1)

Float(negative, bits) == [negative |-> negative, bits |-> bits]

InfinityBits == (MaxExponent - MinExponent + 2) * LeadingBit

IsOdd(n) == n % 2 = 1

DigitText == [d \in 0..9 |-> ToString(d)]
DigitOf == [c \in {DigitText[d] : d \in 0..9} |-> CHOOSE d \in 0..9 : DigitText[d] = c]

-----------------------------------------------------------------------------
(* HAPFloatFromString *)

\* A text that is read: its mantissa and exponent of ten so far.
InitialText ==
    [part |-> "sign", negative |-> FALSE, mantissa |-> 0, exp10 |-> 0, point |-> FALSE,
     digits |-> FALSE, exponent |-> 0, exponentSign |-> 1]

\* Digits that the mantissa has no room for count in its exponent alone.
MantissaDigit(t, d) ==
    LET room == t.mantissa < MaxMantissa
    IN [t EXCEPT !.part = "mantissa", !.digits = TRUE,
                 !.mantissa = IF room THEN @ * 10 + d ELSE @,
                 !.exp10 = @ + (IF t.point THEN 0 ELSE 1) - (IF room THEN 1 ELSE 0)]

ExponentDigit(t, d) ==
    [t EXCEPT !.part = "exponent", !.digits = TRUE,
              !.exponent = IF @ < 1000 THEN @ * 10 + d ELSE @]

WithCharacter(t, c) ==
    CASE t.part = "sign" /\ c \in {"-", "+"} -> [t EXCEPT !.part = "mantissa", !.negative = c = "-"]
      [] t.part \in {"sign", "mantissa"} /\ c \in DOMAIN DigitOf -> MantissaDigit(t, DigitOf[c])
      [] t.part \in {"sign", "mantissa"} /\ c = "." /\ ~t.point ->
            [t EXCEPT !.part = "mantissa", !.point = TRUE]
      [] t.part = "mantissa" /\ c \in {"e", "E"} /\ t.digits ->
            [t EXCEPT !.part = "exponent sign", !.digits = FALSE]
      [] t.part = "exponent sign" /\ c \in {"-", "+"} ->
            [t EXCEPT !.part = "exponent", !.exponentSign = IF c = "-" THEN -1 ELSE 1]
      [] t.part \in {"exponent sign", "exponent"} /\ c \in DOMAIN DigitOf -> ExponentDigit(t, DigitOf[c])
      [] OTHER -> [t EXCEPT !.part = "invalid"]

ReadText(string) ==
    LET t == FoldLeft(WithCharacter, InitialText, string)
    IN [t EXCEPT !.exp10 = @ + t.exponent * t.exponentSign]

\* x / s comes between 1 and 2, and exp2 counts.
RECURSIVE Normalized(_, _, _)
Normalized(x, s, exp2) ==
    IF x >= 2 * s THEN Normalized(x, 2 * s, exp2 + 1)
    ELSE IF x < s THEN Normalized(2 * x, s, exp2 - 1)
    ELSE [x |-> x, s |-> s, exp2 |-> exp2]

\* What is left behind the last bit decides, and the last bit when it is one half.
RoundsUp(x, s, bits) == x > s \/ (x = s /\ IsOdd(bits))

\* Mutant: one half is always rounded up.
RoundsHalfUp(x, s, bits) == x >= s

Up(x, s, bits) == RoundsUp(x, s, bits)

\* The mantissa: as many bits as a number of this size has.
Mantissa(n) ==
    LET numBits == IF n.exp2 < MinExponent THEN Precision + n.exp2 - MinExponent ELSE Precision
        Bit(r, i) == [bits |-> r.bits * 2 + r.x \div n.s, x |-> 2 * (r.x % n.s)]
        all == FoldLeft(Bit, [bits |-> 0, x |-> n.x], [i \in 1..numBits |-> i])
    IN IF Up(all.x, n.s, all.bits) THEN all.bits + 1 ELSE all.bits

\* The bits of the number whose mantissa and exponent these are; rounding may have carried.
Assembled(bits, exp2) ==
    LET carried == bits >= 2 * LeadingBit
        exponent == exp2 + (IF carried THEN 1 ELSE 0)
    IN IF exponent > MaxExponent THEN InfinityBits
       ELSE (IF carried THEN bits \div 2 ELSE bits) + (exponent - MinExponent) * LeadingBit

\* mantissa * 10^exp10, as x / s * 2^exp10
Converted(mantissa, exp10) ==
    LET n == Normalized(mantissa * (IF exp10 > 0 THEN 5 ^ exp10 ELSE 1),
                        IF exp10 < 0 THEN 5 ^ (-exp10) ELSE 1, exp10)
    IN IF n.exp2 < MinExponent - Precision THEN 0
       ELSE Assembled(Mantissa(n), IF n.exp2 < MinExponent THEN MinExponent ELSE n.exp2)

FloatFromString(string) ==
    LET t == ReadText(string)
        bits == IF t.mantissa = 0 \/ t.exp10 < MinExp10 THEN 0
                ELSE IF t.exp10 > MaxExp10 THEN InfinityBits
                ELSE Converted(t.mantissa, t.exp10)
    IN IF t.part \in {"mantissa", "exponent"} /\ t.digits
       THEN [error |-> "None", value |-> Float(t.negative, bits)]
       ELSE [error |-> "InvalidData", value |-> Float(FALSE, 0)]

-----------------------------------------------------------------------------
(* HAPFloatGetDescription *)

\* |value| = x/s * 2^exp2, and half the distance to its neighbours is d/s * 2^exp2; the
\* same with powers of ten, x/s kept near 1.
RECURSIVE Rebased(_, _)
Rebased(n, exp2) ==
    IF exp2 = 0 THEN n
    ELSE IF exp2 < 0
    THEN Rebased(IF n.x <= n.s THEN [n EXCEPT !.x = @ * 5, !.d = @ * 5, !.exp10 = @ - 1]
                 ELSE [n EXCEPT !.s = @ * 2], exp2 + 1)
    ELSE Rebased(IF n.x <= n.s THEN [n EXCEPT !.x = @ * 2, !.d = @ * 2]
                 ELSE [n EXCEPT !.s = @ * 5, !.exp10 = @ + 1], exp2 - 1)

\* The digits so far stand for the value, when it is at least theirs, or when it is less
\* than one more in the last place.
InRange(n, f) ==
    IF f.bits % LeadingBit = 0 THEN 2 * n.x <= n.d ELSE n.x < n.d \/ (n.x = n.d /\ ~IsOdd(f.bits))

NextInRange(n, f) == n.s < n.x + n.d \/ (n.s = n.x + n.d /\ ~IsOdd(f.bits))

LastDigit(n, f, digit) ==
    IF ~InRange(n, f) THEN digit + 1
    ELSE IF NextInRange(n, f) /\ RoundsUp(2 * n.x, n.s, digit) THEN digit + 1
    ELSE digit

\* A small exponent is a decimal point instead, in front of the digits or within them.
Placed(n) ==
    IF n.text # <<>> \/ n.exp10 \notin MinFixed..MaxFixed THEN n
    ELSE [n EXCEPT !.pointAt = IF n.exp10 < 0 THEN -1 ELSE n.exp10, !.exp10 = 0,
                   !.lead = IF n.exp10 < 0 THEN <<"0", ".">> \o [i \in 1..(-n.exp10 - 1) |-> "0"]
                            ELSE <<>>]

WithDigit(n, digit) ==
    [n EXCEPT !.text = Append(@, DigitText[digit]) \o (IF Len(n.text) = n.pointAt THEN <<".">> ELSE <<>>),
              !.numDigits = @ + 1, !.x = @ * 10, !.d = @ * 10]

RECURSIVE Written(_, _)
WrittenFrom(n, digit, f) ==
    LET placed == Placed(n)
    IN IF n.text = <<>> /\ digit = 0 /\ ~NextInRange(n, f)
       THEN Written([n EXCEPT !.exp10 = @ - 1, !.x = @ * 10, !.d = @ * 10], f)
       ELSE IF (InRange(n, f) \/ NextInRange(n, f)) /\ n.numDigits >= placed.pointAt
       THEN [placed EXCEPT !.text = Append(@, DigitText[LastDigit(n, f, digit)])]
       ELSE Written(WithDigit(placed, digit), f)

Written(n, f) == WrittenFrom([n EXCEPT !.x = n.x % n.s], n.x \div n.s, f)

ExponentText(exp10) ==
    LET e == IF exp10 < 0 THEN -exp10 ELSE exp10
    IN IF exp10 = 0 THEN <<>>
       ELSE <<"e", IF exp10 < 0 THEN "-" ELSE "+", DigitText[e \div 10], DigitText[e % 10]>>

MagnitudeText(f) ==
    LET field == f.bits \div LeadingBit
        mantissa == (f.bits % LeadingBit) + (IF field = 0 THEN 0 ELSE LeadingBit)
        exponent == MinExponent + (IF field = 0 THEN 0 ELSE field - 1)
        n == Written(Rebased([x |-> mantissa * 2, d |-> 1, s |-> 2 * LeadingBit, exp10 |-> 0,
                              pointAt |-> 0, numDigits |-> 0, lead |-> <<>>, text |-> <<>>], exponent), f)
    IN IF f.bits = InfinityBits THEN <<"i", "n", "f">>
       ELSE IF mantissa = 0 THEN <<"0">>
       ELSE n.lead \o n.text \o ExponentText(n.exp10)

FloatDescription(f) == (IF f.negative THEN <<"-">> ELSE <<>>) \o MagnitudeText(f)

-----------------------------------------------------------------------------
(* The numbers, as multiples of the smallest one *)

Finite == 0..(InfinityBits - 1)

Magnitude(bits) ==
    LET field == bits \div LeadingBit
    IN IF field = 0 THEN bits ELSE ((bits % LeadingBit) + LeadingBit) * 2 ^ (field - 1)

\* Of the same sign, the finite float nearest to a / b times the smallest one; of two that
\* are equally near, the even one.
IsNearest(bits, a, b) ==
    LET Distance(n) == IF Magnitude(n) * b >= a THEN Magnitude(n) * b - a ELSE a - Magnitude(n) * b
    IN \A other \in Finite \ {bits} :
        \/ Distance(bits) < Distance(other)
        \/ Distance(bits) = Distance(other) /\ ~IsOdd(bits)

=============================================================================
