-------------------------- MODULE AccessoryResponse --------------------------
(* The answer to GET /accessories: get_accessories and handle_accessory_serialization of
   HAPIPAccessoryServer.c over the outbound buffer (HAPIP+ByteBuffer.c).  The database is
   written into the buffer a chunk at a time; a chunk that fills more than one frame leaves a
   tail behind the frame, which is moved to the front when the frame is on the stream. *)
EXTENDS IPSecurity, SequencesExt

CONSTANTS
    Alignment,          \* 64: what the capacity of a buffer is rounded to
    ChunkOverhead,      \* 20: what is left of a buffer for the framing of a chunk
    MaxResponses,       \* bound: the requests a controller sends
    Characteristics, Attributes, Bits, Aid, Iid, UUID, MaxLength, Infinity

VARIABLE response

Database == INSTANCE AccessoryDatabase

-----------------------------------------------------------------------------
(* HAPIPByteBuffer, dynamic: data holds what has been written *)

EnsureCapacity(b, numBytes) == IF numBytes <= b.capacity THEN b ELSE [b EXCEPT !.capacity = numBytes]

Rounded(n) == IF n % Alignment > 1 THEN ((n + Alignment) \div Alignment) * Alignment ELSE n

EnsureHeadroom(b, numBytes) ==
    LET newCapacity == Rounded(b.position + numBytes)
        pullUpLimit == b.limit = b.capacity /\ newCapacity > b.limit
    IN [EnsureCapacity(b, newCapacity) EXCEPT !.limit = IF pullUpLimit THEN newCapacity ELSE @]

Flip(b) == [b EXCEPT !.limit = b.position, !.position = 0]

\* Clear of a dynamic buffer gives its bytes back.
Clear(b) == [b EXCEPT !.data = <<>>, !.position = 0, !.limit = 0, !.capacity = 0]

Room(b) == b.limit - b.position

Put(b, bytes) ==
    [b EXCEPT !.data = SubSeq(b.data, 1, b.position) \o bytes, !.position = @ + Len(bytes)]

\* HAPIPByteBufferAppendStringWithFormat: more headroom until the text and a NUL fit.
RECURSIVE AppendString(_, _, _)
AppendString(b, bytes, headroom) ==
    LET larger == EnsureHeadroom(b, headroom)
    IN IF Len(bytes) < Room(larger) THEN Put(larger, bytes)
       ELSE AppendString(larger, bytes, headroom + Alignment)

-----------------------------------------------------------------------------
(* handle_accessory_serialization *)

Text(tokens) == [i \in DOMAIN tokens |-> Plain(tokens[i])]

ResponseHeader == Text(<<"200 OK", "chunked", "hap+json", "CRLF">>)

\* The frame has been written: its tail, up to the mark, comes to the front.
Resumed(s) ==
    LET tail == SubSeq(s.data, s.limit + 1, s.mark)
    IN IF ~s.inProgress THEN s
       ELSE [s EXCEPT !.data = tail, !.position = Len(tail), !.limit = s.capacity, !.mark = 0]

\* Mutant: the next chunk is written over the tail.
ResumedWithoutTail(s) ==
    IF ~s.inProgress THEN s
    ELSE [s EXCEPT !.data = <<>>, !.position = 0, !.limit = s.capacity, !.mark = 0]

Continued(s) == Resumed(s)

\* A piece of the document as a chunk; a buffer that does not hold it is fatal.
WithChunk(s, piece) ==
    LET prefix == <<ToString(Len(piece.text)), "CRLF">>
        suffix == IF Database!IsComplete(piece.context) THEN <<"CRLF", "0", "CRLFCRLF">> ELSE <<"CRLF">>
        larger == EnsureHeadroom(s, Len(prefix) + Len(piece.text))
        chunk == Put(larger, Text(prefix \o piece.text))
        closed == EnsureHeadroom(chunk, Len(suffix))
    IN IF \/ piece.error # "None" \/ piece.text = <<>>
          \/ Len(prefix) + Len(piece.text) > Room(larger)
          \/ Len(suffix) > Room(closed)
       THEN [s EXCEPT !.fatal = TRUE]
       ELSE [Put(closed, Text(suffix)) EXCEPT !.context = piece.context]

Chunked(s) ==
    LET roomy == EnsureHeadroom(s, MaxIOSize)
        maxBytes == Room(roomy) - ChunkOverhead
    IN IF s.position >= s.limit \/ s.position >= MaxFrameBytes \/ Database!IsComplete(s.context) THEN s
       ELSE IF maxBytes \div 2 < 1 THEN [s EXCEPT !.fatal = TRUE]
       ELSE WithChunk(roomy, Database!Serialize(s.database, s.context, <<>>, maxBytes \div 2, maxBytes))

\* The first frame of what has been written, and behind it the rest as it is.
Framed(s) ==
    LET flipped == Flip(s)
        numFrameBytes == IF Room(flipped) > MaxFrameBytes THEN MaxFrameBytes ELSE Room(flipped)
        tail == SubSeq(s.data, numFrameBytes + 1, flipped.limit)
        encrypted == EncryptData(s.nonce, SubSeq(s.data, 1, numFrameBytes))
        larger == EnsureHeadroom(flipped, Len(encrypted) + Len(tail))
    IN IF Len(encrypted) > larger.capacity - Len(tail) THEN [s EXCEPT !.fatal = TRUE]
       ELSE [larger EXCEPT !.data = encrypted \o tail, !.limit = Len(encrypted),
                           !.mark = Len(encrypted) + Len(tail), !.nonce = @ + 1,
                           !.state = "writing", !.inProgress = TRUE]

Serialized(s) ==
    IF s.fatal THEN s
    ELSE IF s.position > 0 THEN Framed(s)
    ELSE [Clear(s) EXCEPT !.inProgress = FALSE, !.state = "reading"]

HandleAccessorySerialization(s) == Serialized(Chunked(Continued(s)))

-----------------------------------------------------------------------------
(* The controller *)

InitialController ==
    [data |-> <<>>, position |-> 0, limit |-> 0, nonce |-> 0, failed |-> FALSE,
     text |-> <<>>, isOpen |-> FALSE, bodies |-> <<>>]

HasHeader(text) ==
    /\ Len(text) >= Len(ResponseHeader)
    /\ \A i \in DOMAIN ResponseHeader : text[i] = ResponseHeader[i].char

\* The first chunk of a text, when it is there: its size, two line ends and its contents.
ChunkSizes(text) ==
    {n \in 0..(Len(text) - 2) : text[1] = ToString(n) /\ (n = 0 \/ Len(text) >= n + 3)}

\* The controller reads headers and chunks as far as they are there; the chunk of size zero
\* is the last one of a body.
RECURSIVE Parsed(_)
ParsedChunk(c, size) ==
    IF size = 0 THEN Parsed([c EXCEPT !.text = SubSeq(@, 3, Len(@)), !.isOpen = FALSE])
    ELSE Parsed([c EXCEPT !.text = SubSeq(@, size + 4, Len(@)),
                          !.bodies[Len(c.bodies)] = @ \o SubSeq(c.text, 3, size + 2)])

Parsed(c) ==
    IF ~c.isOpen THEN
        IF ~HasHeader(c.text) THEN c
        ELSE Parsed([c EXCEPT !.text = SubSeq(@, Len(ResponseHeader) + 1, Len(@)),
                              !.isOpen = TRUE, !.bodies = Append(@, <<>>)])
    ELSE LET sizes == ChunkSizes(c.text)
         IN IF sizes = {} THEN c ELSE ParsedChunk(c, CHOOSE n \in sizes : TRUE)

\* The controller decrypts every frame that has arrived.
Received(c, bytes) ==
    LET data == c.data \o bytes
        plain == DecryptData([c EXCEPT !.data = data, !.limit = Len(data)])
    IN Parsed([plain EXCEPT !.data = SubSeq(@, plain.position + 1, plain.limit), !.position = 0,
                            !.text = @ \o [i \in 1..plain.position |-> plain.data[i].char]])

-----------------------------------------------------------------------------
(* The session *)

ResponseInit(databases) ==
    \E database \in databases :
        response = [database |-> database, document |-> Database!Document(database),
                    data |-> <<>>, position |-> 0, limit |-> 0, capacity |-> 0, mark |-> 0,
                    context |-> Database!InitialContext, inProgress |-> FALSE, nonce |-> 0,
                    state |-> "reading", fatal |-> FALSE, asked |-> 0,
                    controller |-> InitialController]

\* get_accessories
GetAccessories ==
    /\ response.state = "reading" /\ ~response.fatal
    /\ response.asked < MaxResponses
    /\ response' = HandleAccessorySerialization(
            [AppendString(response, ResponseHeader, Alignment) EXCEPT
                !.context = Database!InitialContext, !.asked = @ + 1])

\* WriteOutboundData: the stream takes some bytes of what is between position and limit.
WriteOutboundData(n) ==
    LET written == SubSeq(response.data, response.position + 1, response.position + n)
        s == [response EXCEPT !.position = @ + n, !.controller = Received(@, written)]
    IN /\ response.state = "writing" /\ ~response.fatal
       /\ n <= Room(response)
       /\ response' = IF s.position = s.limit THEN HandleAccessorySerialization(s) ELSE s

ResponseNext ==
    \/ GetAccessories
    \/ \E n \in 1..MaxIOSize : WriteOutboundData(n)

-----------------------------------------------------------------------------
(* What the controller has been told *)

\* However the document is cut into chunks, frames and writes, what the controller decrypts
\* is the whole database, each time it asks, and nothing is missing, repeated or out of
\* place in between; no buffer turns out too small.
ToldTheDatabase ==
    LET controller == response.controller
        bodies == controller.bodies
    IN /\ ~response.fatal
       /\ ~controller.failed
       /\ \A i \in DOMAIN bodies : IsPrefix(bodies[i], response.document)
       /\ response.state = "reading" =>
            /\ controller.data = <<>> /\ controller.text = <<>>
            /\ Len(bodies) = response.asked
            /\ \A i \in DOMAIN bodies : bodies[i] = response.document

=============================================================================
