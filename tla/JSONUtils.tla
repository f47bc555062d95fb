---- MODULE JSONUtils ----
(***************************************************************************)
(* HAPJSONUtils: strings are escaped and unescaped where they lie.  A byte  *)
(* is its number; a buffer is a function from its indices, from 0.          *)
(***************************************************************************)
EXTENDS Integers, SequencesExt

Backslash == 92
Quote == 34

\* \b, \f, \n, \r and \t: the byte, and the letter that stands for it.
ShortEscapes == {<<8, 98>>, <<12, 102>>, <<10, 110>>, <<13, 114>>, <<9, 116>>}

HexDigit(n) == IF n < 10 THEN 48 + n ELSE 87 + n

\* What a byte is written as.
Escaped(x) ==
    IF x \in {Quote, Backslash} THEN <<Backslash, x>>
    ELSE IF \E e \in ShortEscapes : e[1] = x
    THEN <<Backslash, (CHOOSE e \in ShortEscapes : e[1] = x)[2]>>
    ELSE IF x <= 31 THEN <<Backslash, 117, 48, 48, HexDigit(x \div 16), HexDigit(x % 16)>>
    ELSE <<x>>

\* HAPJSONUtilsGetNumEscapedStringDataBytes
NumEscapedBytes(bytes) ==
    FoldLeft(LAMBDA n, x : n + (IF x \in {Quote, Backslash, 8, 9, 10, 12, 13} THEN 2
                                ELSE IF x <= 31 THEN 6 ELSE 1), 0, bytes)

-----------------------------------------------------------------------------
(* In place: w is where the next byte is written, and buffer what is there. *)

Written(e, bytes) ==
    [e EXCEPT !.w = @ + Len(bytes),
              !.buffer = [k \in DOMAIN @ |-> IF k \in e.w .. e.w + Len(bytes) - 1
                                             THEN bytes[k - e.w + 1] ELSE @[k]]]

\* The bytes that replace the byte at r end before the byte after it.
HasRoom(e, r, bytes) == Len(bytes) = 1 \/ r - e.w >= Len(bytes) - 1

\* HAPJSONUtilsEscapeStringData of bytes at the front of a buffer of maxBytes: they
\* are moved to its end and escaped from there.
EscapeStringData(bytes, maxBytes) ==
    LET gap == maxBytes - Len(bytes)
        start == [w |-> 0, failed |-> FALSE,
                  buffer |-> [k \in 0 .. maxBytes - 1 |->
                                 IF k >= gap THEN bytes[k - gap + 1] ELSE 0]]
        Step(e, r) ==
            LET next == Escaped(e.buffer[r])
            IN  IF e.failed \/ ~HasRoom(e, r, next) THEN [e EXCEPT !.failed = TRUE]
                ELSE Written(e, next)
        end == FoldLeft(Step, start, [i \in 1 .. Len(bytes) |-> gap + i - 1])
    IN  IF end.failed THEN [error |-> "OutOfResources", bytes |-> <<>>]
        ELSE [error |-> "None", bytes |-> [i \in 1 .. end.w |-> end.buffer[i - 1]]]

-----------------------------------------------------------------------------
(* Unescaping *)

HexValue(x) ==
    CASE x \in 48 .. 57 -> x - 48
      [] x \in 65 .. 70 -> x - 55
      [] x \in 97 .. 102 -> x - 87
      [] OTHER -> -1

\* The code point of the four hex digits at r, or -1.
CodePointAt(bytes, r) ==
    IF r + 3 > Len(bytes) \/ \E k \in r .. r + 3 : HexValue(bytes[k]) = -1 THEN -1
    ELSE FoldLeft(LAMBDA n, k : n * 16 + HexValue(bytes[k]), 0, <<r, r + 1, r + 2, r + 3>>)

HighSurrogates == 55296 .. 56319
LowSurrogates == 56320 .. 57343

ScalarFromSurrogatePair(high, low) == (high - 55296) * 1024 + (low - 56320) + 65536

\* A continuation byte.
Tail6(n) == 128 + (n % 64)

UTF8EncodeCodePoint(n) ==
    IF n <= 127 THEN <<n>>
    ELSE IF n <= 2047 THEN <<192 + n \div 64, Tail6(n)>>
    ELSE IF n <= 65535 THEN <<224 + n \div 4096, Tail6(n \div 64), Tail6(n)>>
    ELSE <<240 + n \div 262144, Tail6(n \div 4096), Tail6(n \div 64), Tail6(n)>>

\* What the escape at r, a backslash, stands for and how long it is; 0 when it is none.
Unescaped(bytes, r) ==
    LET letter == IF r < Len(bytes) THEN bytes[r + 1] ELSE 0
        point == CodePointAt(bytes, r + 2)
        pair == r + 7 <= Len(bytes) /\ bytes[r + 6] = Backslash /\ bytes[r + 7] = 117
        low == IF pair THEN CodePointAt(bytes, r + 8) ELSE -1
        None == [bytes |-> <<>>, length |-> 0]
    IN  IF letter \in {Quote, Backslash, 47} THEN [bytes |-> <<letter>>, length |-> 2]
        ELSE IF \E e \in ShortEscapes : e[2] = letter
        THEN [bytes |-> <<(CHOOSE e \in ShortEscapes : e[2] = letter)[1]>>, length |-> 2]
        ELSE IF letter # 117 \/ point = -1 \/ point \in LowSurrogates THEN None
        ELSE IF point \notin HighSurrogates
        THEN [bytes |-> UTF8EncodeCodePoint(point), length |-> 6]
        ELSE IF low \notin LowSurrogates THEN None
        ELSE [bytes |-> UTF8EncodeCodePoint(ScalarFromSurrogatePair(point, low)), length |-> 12]

\* HAPJSONUtilsUnescapeStringData: what is read is shorter than what it replaces.
UnescapeStringData(bytes) ==
    LET Step(e, r) ==
            IF e.failed \/ r < e.next THEN e
            ELSE IF bytes[r] # Backslash THEN [e EXCEPT !.next = r + 1, !.out = Append(@, bytes[r])]
            ELSE LET u == Unescaped(bytes, r)
                 IN  [e EXCEPT !.failed = u.length = 0, !.next = r + u.length, !.out = @ \o u.bytes]
        end == FoldLeft(Step, [next |-> 1, failed |-> FALSE, out |-> <<>>],
                        [r \in 1 .. Len(bytes) |-> r])
    IN  IF end.failed THEN [error |-> "InvalidData", bytes |-> <<>>]
        ELSE [error |-> "None", bytes |-> end.out]

====
