----------------------------- MODULE IPStream -----------------------------
(* One IP session as a stream of bytes: the frames of IPSecurity, the buffer of
   HAPIP+ByteBuffer.c and the way from bytes to requests in HAPIPAccessoryServer.c
   (ReadInboundData, handle_input, read_http, handle_http, handle_output_completion).
   Bytes arrive in any portions. *)
EXTENDS HTTPReader, IPSecurity

CONSTANTS
    Conversations,      \* sequences of requests: the text of each, and what it asks for
    SizeMax             \* SIZE_MAX

ASSUME SizesAssumption == SizeMax \in Nat \ {0}

VARIABLES
    session,    \* HAPIPSessionDescriptor, as far as bytes are concerned
    wire,       \* bytes sent by the controller that have not been read
    sent,       \* the conversation the controller holds
    overlapping,\* whether it sends a request before the answer to the one before
    handled     \* the requests handle_http_request has been called with

streamVars == <<session, wire, sent, overlapping, handled>>

-----------------------------------------------------------------------------
(* read_http *)

NoToken == [start |-> 0, numBytes |-> 0]

\* prepare_reading_request
Preparing(s) ==
    [s EXCEPT !.reader = InitialReader("request"), !.readerPosition = 0, !.parserError = FALSE,
              !.method = NoToken, !.uri = NoToken, !.name = NoToken, !.value = NoToken,
              !.contentLength = -1, !.contentType = "unknown"]

Text(s, token) == [i \in 1..token.numBytes |-> s.data[token.start + i - 1].char]

\* update_token: what the last call read continues the token, and lies right behind it.
Extended(token, r, position) ==
    LET read == [start |-> position - Len(r.token) + 1, numBytes |-> Len(r.token)] IN
    IF ~r.hasToken THEN token
    ELSE IF token.start = 0 THEN read
    ELSE [token EXCEPT !.numBytes = @ + read.numBytes]

\* Mutant: the token of the last call alone.
Replaced(token, r, position) ==
    IF ~r.hasToken THEN token
    ELSE [start |-> position - Len(r.token) + 1, numBytes |-> Len(r.token)]

UpdateToken(token, r, position) == Extended(token, r, position)

Stripped(text) ==
    LET inner == {i \in DOMAIN text : ~IsWhitespace(text[i])}
        bound(before(_, _)) == CHOOSE i \in inner : \A j \in inner : i = j \/ before(i, j)
    IN IF inner = {} THEN <<>>
       ELSE SubSeq(text, bound(LAMBDA i, j : i < j), bound(LAMBDA i, j : i > j))

DigitValue == [c \in Digits |-> CHOOSE v \in 0..9 : ToString(v) = c]

\* The number written by digits, or -1 when it exceeds SIZE_MAX.
Number(text) ==
    FoldLeft(LAMBDA n, c : IF n = -1 \/ n > (SizeMax - DigitValue[c]) \div 10 THEN -1
                           ELSE n * 10 + DigitValue[c], 0, text)

\* read_http_content_length: one number, and the length has not been given before.
ReadContentLength(s) ==
    LET text == Stripped(Text(s, s.value))
        ok == /\ text # <<>>
              /\ \A i \in DOMAIN text : text[i] \in Digits
              /\ s.contentLength = -1
              /\ Number(text) # -1
    IN IF ok THEN [s EXCEPT !.contentLength = Number(text)] ELSE [s EXCEPT !.parserError = TRUE]

\* read_http_content_type: anything but an empty value is accepted.
ContentTypes == {"application/hap+json", "application/octet-stream", "application/pairing+tlv8"}

ReadContentType(s) ==
    LET text == Stripped(Text(s, s.value)) IN
    IF text = <<>> THEN [s EXCEPT !.parserError = TRUE]
    ELSE [s EXCEPT !.contentType = IF Len(text) = 1 /\ text[1] \in ContentTypes THEN text[1]
                                   ELSE "unknown"]

\* The names of the two headers, in any capitalization.
ContentLengthNames == {<<"C", "L">>, <<"c", "l">>}
ContentTypeNames == {<<"C", "T">>, <<"c", "t">>}

\* A header line is complete.  seen holds the headers of this call of read_http.
HandleHeader(s, seen) ==
    LET name == Text(s, s.name)
        done(t) == [t EXCEPT !.name = NoToken, !.value = NoToken]
    IN IF s.name.start = 0 THEN [s EXCEPT !.assertion = "httpHeaderFieldName"]
       ELSE IF name \in ContentLengthNames
       THEN done(IF "length" \in seen THEN [s EXCEPT !.parserError = TRUE] ELSE ReadContentLength(s))
       ELSE IF name \in ContentTypeNames
       THEN done(IF "type" \in seen THEN [s EXCEPT !.parserError = TRUE] ELSE ReadContentType(s))
       ELSE done(s)

SeenWith(s, seen) ==
    LET name == Text(s, s.name) IN
    IF name \in ContentLengthNames THEN seen \cup {"length"}
    ELSE IF name \in ContentTypeNames THEN seen \cup {"type"}
    ELSE seen

UpdateTokens(s) ==
    LET r == s.reader
        new(token) == UpdateToken(token, r, s.readerPosition)
    IN CASE r.state \in {"READING_METHOD", "COMPLETED_METHOD"} -> [s EXCEPT !.method = new(@)]
         [] r.state \in {"READING_URI", "COMPLETED_URI"} -> [s EXCEPT !.uri = new(@)]
         [] r.state \in {"READING_HEADER_NAME", "COMPLETED_HEADER_NAME"} -> [s EXCEPT !.name = new(@)]
         [] r.state \in {"READING_HEADER_VALUE", "COMPLETED_HEADER_VALUE"} -> [s EXCEPT !.value = new(@)]
         [] OTHER -> s

\* One call of the reader, on the bytes it has not read.
ReadMore(s) ==
    LET unread == SubSeq(s.data, s.readerPosition + 1, s.position)
    IN Read(s.reader, [i \in DOMAIN unread |-> unread[i].char])

AfterRead(s, read) == UpdateTokens([s EXCEPT !.reader = read[1], !.readerPosition = @ + read[2]])

HasHeader(s) == s.reader.state = "COMPLETED_HEADER_VALUE"

HTTPIsRead(s) ==
    \/ s.readerPosition = s.position
    \/ s.reader.state \in {"DONE", "ERROR"}
    \/ s.parserError \/ s.assertion # "none"

RECURSIVE ReadHTTPWith(_, _)
ReadHTTPFrom(s, seen) == IF HTTPIsRead(s) THEN s ELSE ReadHTTPWith(s, seen)

Handled(s, seen) ==
    IF HasHeader(s) THEN ReadHTTPFrom(HandleHeader(s, seen), SeenWith(s, seen))
    ELSE ReadHTTPFrom(s, seen)

ReadHTTPWith(s, seen) == Handled(AfterRead(s, ReadMore(s)), seen)

ReadHTTP(s) == ReadHTTPWith(s, {})

-----------------------------------------------------------------------------
(* Requests *)

\* HAPIPByteBufferShiftLeft, which moves the bytes up to position only, and
\* HAPIPByteBufferTrim, which gives back what lies behind the limit.
ShiftLeft(s, n) ==
    [s EXCEPT !.data = SubSeq(s.data, n + 1, s.position)
                       \o SubSeq(s.data, s.position - n + 1, s.limit - n),
              !.position = @ - n,
              !.limit = @ - n,
              !.capacity = s.limit - n]

CloseSession(s) == [s EXCEPT !.state = "idle"]

ContentLength(s) == IF s.contentLength = -1 THEN 0 ELSE s.contentLength

\* handle_http: the body is complete, too.
IsRequest(s) ==
    /\ s.reader.state = "DONE"
    /\ ContentLength(s) <= s.position
    /\ s.readerPosition <= s.position - ContentLength(s)

Request(s) ==
    [method |-> Text(s, s.method), uri |-> Text(s, s.uri), type |-> s.contentType,
     body |-> [i \in 1..ContentLength(s) |-> s.data[s.readerPosition + i].char]]

HandleHTTP(s) ==
    IF IsRequest(s)
    THEN [ShiftLeft(s, s.readerPosition + ContentLength(s)) EXCEPT !.state = "writing"]
    ELSE s

\* handle_input up to read_http.
Parsed(s) ==
    LET all == [s EXCEPT !.limit = s.position]
        plain == IF s.secured THEN DecryptData([all EXCEPT !.position = s.mark]) ELSE all
    IN IF plain.failed THEN plain ELSE ReadHTTP(plain)

Unexpected(s) == s.failed \/ s.parserError \/ s.reader.state = "ERROR"

\* handle_input behind it.  The bytes that are not decrypted yet lie between the mark and
\* the position.
Advanced(s) ==
    LET http == HandleHTTP(s)
        next == [http EXCEPT !.mark = http.position, !.position = http.limit,
                             !.limit = http.capacity]
    IN IF Unexpected(s) THEN CloseSession(s)
       ELSE IF next.state = "reading" /\ next.position = next.limit THEN CloseSession(next)
       ELSE next

HandleInput(s) == \E parsed \in {Parsed(s)} :
    /\ session' = Advanced(parsed)
    /\ handled' = IF ~Unexpected(parsed) /\ IsRequest(parsed) THEN Append(handled, Request(parsed))
                  ELSE handled

-----------------------------------------------------------------------------
(* The controller and the run loop *)

StreamInit ==
    /\ session = Preparing([
            data |-> <<>>, position |-> 0, limit |-> 0, capacity |-> 0, mark |-> 0,
            secured |-> FALSE, nonce |-> 0, failed |-> FALSE, assertion |-> "none",
            state |-> "idle", reader |-> 0, readerPosition |-> 0, parserError |-> FALSE,
            method |-> 0, uri |-> 0, name |-> 0, value |-> 0, contentLength |-> 0,
            contentType |-> 0])
    /\ wire = <<>>
    /\ sent = <<>>
    /\ overlapping = FALSE
    /\ handled = <<>>

Bytes(text) == [i \in DOMAIN text |-> Plain(text[i])]

\* The number of frames of the first k requests of a conversation.
RECURSIVE NumFrames(_, _)
NumFrames(conversation, k) ==
    IF k = 0 THEN 0
    ELSE (Len(conversation[k].text) + MaxFrameBytes - 1) \div MaxFrameBytes
         + NumFrames(conversation, k - 1)

\* What the controller sends: each request in frames of its own.
Sending(conversation, secured) ==
    [k \in DOMAIN conversation |->
        IF secured THEN EncryptData(NumFrames(conversation, k - 1), Bytes(conversation[k].text))
        ELSE Bytes(conversation[k].text)]

\* HandlePendingTCPStream; the keys of an encrypted stream have just been agreed on.
Open ==
    /\ session.state = "idle" /\ sent = <<>>
    /\ \E conversation \in Conversations, secured \in BOOLEAN :
        /\ sent' = conversation
        /\ wire' = Sending(conversation, secured)
        /\ session' = [session EXCEPT !.state = "reading", !.secured = secured]
    /\ overlapping' \in BOOLEAN
    /\ UNCHANGED handled

\* ReadInboundData: a full buffer grows; when it moves, reading starts again.
Headroom(s, moved) ==
    IF s.limit - s.position > 1 THEN s
    ELSE LET grown == [s EXCEPT !.capacity = s.position + MaxIOSize + 1,
                                !.limit = s.position + MaxIOSize + 1]
         IN IF moved THEN Preparing(grown) ELSE grown

\* What the controller has sent.
Underway ==
    IF overlapping THEN FlattenSeq(wire)
    ELSE IF Len(handled) = Len(sent) THEN <<>>
    ELSE FlattenSeq(SubSeq(wire, 1, Len(handled) + 1))

RECURSIVE Dropped(_, _)
Dropped(pieces, n) ==
    IF n = 0 THEN pieces
    ELSE LET k == CHOOSE i \in DOMAIN pieces :
                    pieces[i] # <<>> /\ \A j \in 1..(i - 1) : pieces[j] = <<>>
         IN Dropped([pieces EXCEPT ![k] = Tail(@)], n - 1)

Arrive(n, moved) ==
    LET s == Headroom(session, moved) IN
    /\ session.state = "reading"
    /\ moved => session.limit - session.position <= 1
    /\ n <= Len(Underway)
    /\ wire' = Dropped(wire, n)
    /\ n <= s.limit - s.position - 1
    /\ HandleInput([s EXCEPT !.data = SubSeq(s.data, 1, s.position) \o SubSeq(Underway, 1, n),
                             !.position = @ + n])
    /\ UNCHANGED <<sent, overlapping>>

\* handle_output_completion: the answer is written; what has been read already comes next.
OutputCompleted ==
    LET s == Preparing([session EXCEPT !.state = "reading"]) IN
    /\ session.state = "writing"
    /\ IF s.position # 0 THEN HandleInput(s) ELSE session' = s /\ UNCHANGED handled
    /\ UNCHANGED <<wire, sent, overlapping>>

StreamNext ==
    \/ Open
    \/ \E n \in 1..MaxIOSize, moved \in BOOLEAN : Arrive(n, moved)
    \/ OutputCompleted

-----------------------------------------------------------------------------
(* What the stream delivers *)

\* However the bytes are cut into portions and frames, and wherever the buffer moves,
\* handle_http_request sees the requests of the controller, in their order, until the
\* first malformed one.  A controller that waits for each answer is never cut off before
\* that, and every request of it is handled; one that does not wait may be cut off
\* (ShiftLeft), but never taken for saying something else.  No continued header line
\* occurs, so the assertion of read_http on the header's name holds.
RequestsInOrder ==
    LET malformed == {k \in DOMAIN sent : sent[k].malformed}
        asked == SelectInSeq(sent, LAMBDA r : r.malformed)
        expected == [k \in 1..(IF malformed = {} THEN Len(sent) ELSE asked - 1) |->
                        <<sent[k].method, sent[k].body>>]
        got == [k \in DOMAIN handled |-> <<handled[k].method, handled[k].body>>]
    IN /\ IsPrefix(got, expected)
       /\ session.assertion = "none"
       /\ ~overlapping /\ sent # <<>> =>
            /\ session.state = "idle" => malformed # {} /\ got = expected
            /\ session.state = "reading" /\ Underway = <<>> => got = expected

=============================================================================
