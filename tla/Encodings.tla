----------------------------- MODULE Encodings -----------------------------
(* UTF-8 as HAPUTF8IsValidData sees it, and base64 as util_base64 encodes and decodes it
   where it lies.  A byte is its number. *)
EXTENDS JSONUtils

-----------------------------------------------------------------------------
(* HAPUTF8IsValidData *)

\* more: the continuation bytes to come; lead: the byte before, when it begins a sequence.
FirstByte == [more |-> 0, lead |-> 0, ok |-> TRUE]

Continuation == 128..191

NumContinuations(x) == IF x < 192 THEN 0 ELSE IF x < 224 THEN 1 ELSE IF x < 240 THEN 2 ELSE 3

\* What may follow a lead byte: no overlong form, no surrogate, no code point above 10FFFF.
Follows(lead, x) ==
    CASE lead = 224 -> x >= 160
      [] lead = 237 -> x < 160
      [] lead = 240 -> x >= 144
      [] lead = 244 -> x < 144
      [] OTHER -> TRUE

\* Mutant: surrogates are code points.
FollowsAny(lead, x) == lead = 237 \/ Follows(lead, x)

MayFollow(lead, x) == Follows(lead, x)

NextByte(s, x) ==
    [more |-> IF s.more > 0 THEN s.more - 1 ELSE NumContinuations(x),
     lead |-> IF x >= 192 THEN x ELSE 0,
     ok |-> /\ s.ok
            /\ x \notin {192, 193} /\ x <= 244
            /\ (x \in Continuation) <=> s.more > 0
            /\ MayFollow(s.lead, x)]

UTF8IsValidData(bytes) ==
    LET end == FoldLeft(NextByte, FirstByte, bytes) IN end.ok /\ end.more = 0

-----------------------------------------------------------------------------
(* util_base64: a character is its group of six bits, and 64 stands for "=" *)

Padding == 64

GroupOf3(bytes) ==
    FoldLeft(LAMBDA n, i : n * 256 + (IF i <= Len(bytes) THEN bytes[i] ELSE 0), 0, <<1, 2, 3>>)

Sextet(n, i) == (n \div (64 ^ (4 - i))) % 64

\* util_base64_encode of bytes in a buffer of the given capacity: they are moved to its end.
Base64Encode(bytes, capacity) ==
    LET gap == capacity - Len(bytes)
        moved == [w |-> 0, buffer |-> [k \in 0..capacity - 1 |->
                                          IF k >= gap THEN bytes[k - gap + 1] ELSE 0]]
        Group(e, i) ==
            LET n == IF Len(bytes) - 3 * (i - 1) > 3 THEN 3 ELSE Len(bytes) - 3 * (i - 1)
                group == GroupOf3([k \in 1..n |-> e.buffer[gap + 3 * (i - 1) + k - 1]])
            IN Written(e, [k \in 1..4 |-> IF k > n + 1 THEN Padding ELSE Sextet(group, k)])
        end == FoldLeft(Group, moved, [i \in 1..((Len(bytes) + 2) \div 3) |-> i])
    IN [i \in 1..end.w |-> end.buffer[i - 1]]

\* util_base64_decode, which may write over what it has read.  A character that is none
\* is -1.
Base64Decode(text) ==
    LET numGroups == (Len(text) + 3) \div 4
        group(i) == SubSeq(text, 4 * i - 3, 4 * i)
        numPadding(g) == Cardinality({k \in DOMAIN g : g[k] = Padding})
        IsGroup(g, isLast) ==
            /\ Len(g) = 4 /\ \A k \in 1..4 : g[k] # -1
            /\ numPadding(g) <= 2 /\ (isLast \/ numPadding(g) = 0)
            /\ \A k \in 1..3 : g[k] = Padding => g[k + 1] = Padding
        Bytes(g) ==
            LET n == FoldLeft(LAMBDA sum, k : sum * 64 + (g[k] % 64), 0, <<1, 2, 3, 4>>)
            IN SubSeq(<<n \div 65536, (n \div 256) % 256, n % 256>>, 1, 3 - numPadding(g))
    IN IF \E i \in 1..numGroups : ~IsGroup(group(i), i = numGroups)
       THEN [error |-> "InvalidData", bytes |-> <<>>]
       ELSE [error |-> "None", bytes |-> FlattenSeq([i \in 1..numGroups |-> Bytes(group(i))])]

-----------------------------------------------------------------------------
(* A reference: UTF-8 is what its code points are encoded as. *)

\* The code point that n bytes would stand for.
CodePoint(bytes, n) ==
    CASE n = 1 -> bytes[1]
      [] n = 2 -> (bytes[1] % 32) * 64 + (bytes[2] % 64)
      [] n = 3 -> (bytes[1] % 16) * 4096 + (bytes[2] % 64) * 64 + (bytes[3] % 64)
      [] n = 4 -> (bytes[1] % 8) * 262144 + (bytes[2] % 64) * 4096
                 + (bytes[3] % 64) * 64 + (bytes[4] % 64)

RECURSIVE IsUTF8(_)
IsUTF8(bytes) ==
    \/ bytes = <<>>
    \/ \E n \in 1..(IF Len(bytes) < 4 THEN Len(bytes) ELSE 4) :
        LET point == CodePoint(bytes, n)
        IN /\ point <= 1114111 /\ point \notin HighSurrogates \cup LowSurrogates
           /\ UTF8EncodeCodePoint(point) = SubSeq(bytes, 1, n)
           /\ IsUTF8(SubSeq(bytes, n + 1, Len(bytes)))

=============================================================================
