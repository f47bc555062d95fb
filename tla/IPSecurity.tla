----------------------------- MODULE IPSecurity -----------------------------
(* The frames of HAPIPSecurityProtocol.c and the message counters of HAPSession.c.

   A byte on the wire is a character of a plaintext, or one of the bytes of a frame: two
   that hold its size, the encrypted characters, and TagBytes of an authentication tag.
   Decryption succeeds on the bytes of one frame, in order, under the counter they were
   encrypted with. *)
EXTENDS Integers, Sequences, FiniteSets

CONSTANTS
    MaxFrameBytes,      \* 1024: kHAPIPSecurityProtocol_MaxFrameBytes
    TagBytes,           \* 16: CHACHA20_POLY1305_TAG_BYTES
    MaxIOSize           \* 128: kHAPIPAccessoryServerMaxIOSize

ASSUME FramesAssumption == {MaxFrameBytes, MaxIOSize} \subseteq Nat \ {0} /\ TagBytes \in Nat

AADBytes == 2

Plain(c) == [kind |-> "plain", char |-> c, nonce |-> 0, n |-> 0]

-----------------------------------------------------------------------------
(* Encryption *)

\* Encrypt: the bytes of a frame under a counter.
Frame(nonce, bytes) ==
    LET n == Len(bytes) IN
    [i \in 1..AADBytes |-> [kind |-> "size", char |-> "NUL", nonce |-> nonce, n |-> n]]
    \o [i \in 1..n |-> [kind |-> "cipher", char |-> bytes[i].char, nonce |-> nonce, n |-> i]]
    \o [i \in 1..TagBytes |-> [kind |-> "tag", char |-> "NUL", nonce |-> nonce, n |-> n]]

\* HAPIPSecurityProtocolEncryptData: full frames, and one for the rest.  The counter
\* advances with every frame.
RECURSIVE EncryptData(_, _)
EncryptData(nonce, bytes) ==
    IF bytes = <<>> THEN <<>>
    ELSE LET n == IF Len(bytes) > MaxFrameBytes THEN MaxFrameBytes ELSE Len(bytes)
         IN Frame(nonce, SubSeq(bytes, 1, n))
            \o EncryptData(nonce + 1, SubSeq(bytes, n + 1, Len(bytes)))

\* Decrypt: the plaintext of a frame.
Authentic(nonce, frame, n) ==
    frame = Frame(nonce, [i \in 1..n |-> frame[AADBytes + i]])

Decrypted(frame, n) == [i \in 1..n |-> Plain(frame[AADBytes + i].char)]

\* HAPIPSecurityProtocolDecryptData: every complete frame from position on is replaced by
\* its plaintext; a frame that is too long or not authentic is an error.
RECURSIVE DecryptData(_)
DecryptData(s) ==
    IF s.limit - s.position < AADBytes THEN s
    ELSE LET size == s.data[s.position + 1]
             end == s.position + AADBytes + size.n + TagBytes
             frame == SubSeq(s.data, s.position + 1, end)
         IN IF size.n > MaxFrameBytes THEN [s EXCEPT !.failed = TRUE]
            ELSE IF s.limit < end THEN s
            ELSE IF ~Authentic(s.nonce, frame, size.n) THEN [s EXCEPT !.failed = TRUE]
            ELSE DecryptData([s EXCEPT
                    !.data = SubSeq(s.data, 1, s.position) \o Decrypted(frame, size.n)
                                \o SubSeq(s.data, end + 1, s.limit),
                    !.position = @ + size.n,
                    !.limit = @ - AADBytes - TagBytes,
                    !.nonce = @ + 1])

=============================================================================
