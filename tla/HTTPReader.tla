---------------------------- MODULE HTTPReader ----------------------------
(* External/HTTP/util_http_reader.c: the incremental reader of HTTP/1.1 requests and
   responses.  It is called with the bytes that have arrived since the last call, and stops
   after each token.  A character is a one-character string, or the name of
   one that needs it: "SP", "HT", "CR", "LF", "NUL", "QUOTE", "BACKSLASH". *)
EXTENDS Naturals, Sequences, SequencesExt

Digits == {"0", "1", "2", "3", "4", "5", "6", "7", "8", "9"}

IsWhitespace(c) == c \in {"SP", "HT"}

IsTokenChar(c) == c \notin {"SP", "HT", "CR", "LF", "NUL", "QUOTE", "BACKSLASH", "<", ">", "@",
                            ",", ";", ":", "/", "[", "]", "?", "=", "{", "}"}

IsURIChar(c) == c \notin {"SP", "HT", "CR", "LF", "NUL", "QUOTE", "BACKSLASH", "<", ">", "^",
                          "{", "|", "}"}

IsVersionChar(c) == c \in Digits \cup {"H", "T", "P", "/", "."}

IsTextChar(c) == c \notin {"CR", "LF", "NUL"}

\* What a reader knows between two calls.  The token of the last call is part of the
\* buffer it was given; hasToken says whether there is one.
InitialReader(type) ==
    [type |-> type, substate |-> "none",
     state |-> IF type = "request" THEN "EXPECTING_METHOD" ELSE "EXPECTING_VERSION",
     inQuotedPair |-> FALSE, inQuotedString |-> FALSE, hasToken |-> FALSE, token |-> <<>>]

Entering(r, state) == [r EXCEPT !.state = state, !.substate = "none"]
Within(r, substate) == [r EXCEPT !.substate = substate]
Failing(r) == [r EXCEPT !.state = "ERROR"]

\* The number of characters at the beginning of text that fulfil P.
Span(text, P(_)) ==
    LET stop == {i \in DOMAIN text : ~P(text[i])}
    IN IF stop = {} THEN Len(text) ELSE (CHOOSE i \in stop : \A j \in stop : i <= j) - 1

Taken(r, text, n) == [r EXCEPT !.hasToken = TRUE, !.token = SubSeq(text, 1, n)]

\* read_octets_and_quotes for one character: a backslash in a quoted string protects the
\* next one, whatever it is.
Quoted(r, c) ==
    IF r.inQuotedPair THEN [r EXCEPT !.inQuotedPair = FALSE]
    ELSE IF r.inQuotedString THEN [r EXCEPT !.inQuotedPair = c = "BACKSLASH", !.inQuotedString = c # "QUOTE"]
    ELSE [r EXCEPT !.inQuotedString = c = "QUOTE"]

RECURSIVE ReadQuoted(_, _, _)
ReadQuoted(r, text, n) ==
    IF n = Len(text) \/ ~(r.inQuotedPair \/ IsTextChar(text[n + 1])) THEN <<Taken(r, text, n), n>>
    ELSE ReadQuoted(Quoted(r, text[n + 1]), text, n + 1)

-----------------------------------------------------------------------------
(* One turn of the loop: the reader after it and the number of characters it consumed.
   text is what is left of the buffer, and not empty. *)

\* Blank lines before a message.
SkipLines(r, text, next) ==
    LET n == Span(text, IsWhitespace)
        c == text[n + 1]
    IN IF r.substate = "none"
       THEN IF n = Len(text) THEN <<r, n>>
            ELSE IF c = "CR" THEN <<Within(r, "after CR"), n + 1>>
            ELSE IF c = "LF" THEN <<r, n + 1>>
            ELSE <<Entering(r, next), n>>
       ELSE IF text[1] = "LF" THEN <<Within(r, "none"), 1>>
       ELSE <<Failing(r), 0>>

\* At least one blank between two tokens of the first line.
SkipBlanks(r, text, next) ==
    LET n == Span(text, IsWhitespace)
    IN IF r.substate = "none"
       THEN IF IsWhitespace(text[1]) THEN <<Within(r, "after SP"), 1>> ELSE <<Failing(r), 0>>
       ELSE <<IF n < Len(text) THEN Entering(r, next) ELSE r, n>>

\* A token is complete when the first character behind it has arrived.
ReadToken(r, text, P(_), next, otherwise) ==
    LET n == Span(text, P)
    IN IF r.substate = "none"
       THEN <<IF P(text[1]) THEN Within(r, "reading") ELSE [r EXCEPT !.state = otherwise], 0>>
       ELSE <<IF n < Len(text) THEN Entering(Taken(r, text, n), next) ELSE Taken(r, text, n), n>>

\* An end of line: LF, or CR LF.
EndLine(r, text, next) ==
    IF text[1] = "LF" THEN <<Entering(r, next), 1>>
    ELSE IF r.substate = "none" /\ text[1] = "CR" THEN <<Within(r, "after CR"), 1>>
    ELSE <<Failing(r), 0>>

ReadReason(r, text) ==
    LET n == Span(text, IsTextChar)
    IN <<IF n < Len(text) THEN [Taken(r, text, n) EXCEPT !.state = "COMPLETED_REASON"]
         ELSE Taken(r, text, n), n>>

ReadHeaderValue(r, text) ==
    LET read == ReadQuoted(r, text, 0)
    IN IF read[2] < Len(text) THEN <<[read[1] EXCEPT !.state = "COMPLETED_HEADER_VALUE"], read[2]>>
       ELSE read

\* Behind a header line: a blank continues its value, anything else begins the next name.
EndHeaderLine(r, text) ==
    IF r.substate # "after LF"
    THEN IF text[1] = "LF" THEN <<Within(r, "after LF"), 1>>
         ELSE IF r.substate = "none" /\ text[1] = "CR" THEN <<Within(r, "after CR"), 1>>
         ELSE <<Failing(r), 0>>
    ELSE IF IsWhitespace(text[1]) THEN <<Entering(r, "READING_HEADER_VALUE"), 0>>
    ELSE IF r.inQuotedString THEN <<Failing(r), 0>>
    ELSE <<Entering(r, "READING_HEADER_NAME"), 0>>

AfterVersion(r) == IF r.type = "request" THEN "EXPECTING_HEADER_NAME" ELSE "EXPECTING_STATUS"

\* The state behind a completed token.
Follower(r) ==
    CASE r.state = "COMPLETED_METHOD" -> "EXPECTING_URI"
      [] r.state = "COMPLETED_URI" -> "EXPECTING_VERSION"
      [] r.state = "COMPLETED_VERSION" -> AfterVersion(r)
      [] r.state = "COMPLETED_STATUS" -> "EXPECTING_REASON"
      [] r.state = "COMPLETED_REASON" -> "EXPECTING_HEADER_NAME"
      [] r.state = "COMPLETED_HEADER_NAME" -> "EXPECTING_HEADER_VALUE"
      [] r.state = "COMPLETED_HEADER_VALUE" -> "ENDING_HEADER_LINE"

Completed == {"COMPLETED_METHOD", "COMPLETED_URI", "COMPLETED_VERSION", "COMPLETED_STATUS",
              "COMPLETED_REASON", "COMPLETED_HEADER_NAME", "COMPLETED_HEADER_VALUE"}

Stopped == Completed \cup {"DONE", "ERROR"}

Turn(r, text) ==
    CASE r.state = "EXPECTING_METHOD" -> SkipLines(r, text, "READING_METHOD")
      [] r.state = "READING_METHOD" -> ReadToken(r, text, IsTokenChar, "COMPLETED_METHOD", "ERROR")
      [] r.state = "EXPECTING_URI" -> SkipBlanks(r, text, "READING_URI")
      [] r.state = "READING_URI" -> ReadToken(r, text, IsURIChar, "COMPLETED_URI", "ERROR")
      [] r.state = "EXPECTING_VERSION" /\ r.type = "request" -> SkipBlanks(r, text, "READING_VERSION")
      [] r.state = "EXPECTING_VERSION" /\ r.type = "response" -> SkipLines(r, text, "READING_VERSION")
      [] r.state = "READING_VERSION" -> ReadToken(r, text, IsVersionChar, "COMPLETED_VERSION", "ERROR")
      [] r.state = "EXPECTING_STATUS" -> SkipBlanks(r, text, "READING_STATUS")
      [] r.state = "READING_STATUS" ->
            ReadToken(r, text, LAMBDA c : c \in Digits, "COMPLETED_STATUS", "ERROR")
      [] r.state = "EXPECTING_REASON" -> SkipBlanks(r, text, "READING_REASON")
      [] r.state = "READING_REASON" -> ReadReason(r, text)
      [] r.state = "EXPECTING_HEADER_NAME" -> EndLine(r, text, "READING_HEADER_NAME")
      [] r.state = "READING_HEADER_NAME" ->
            ReadToken(r, text, IsTokenChar, "COMPLETED_HEADER_NAME", "ENDING_HEADER_LINES")
      [] r.state = "EXPECTING_HEADER_VALUE" ->
            IF text[1] = ":" THEN <<[r EXCEPT !.state = "READING_HEADER_VALUE"], 1>>
            ELSE <<Failing(r), 0>>
      [] r.state = "READING_HEADER_VALUE" -> ReadHeaderValue(r, text)
      [] r.state = "ENDING_HEADER_LINE" -> EndHeaderLine(r, text)
      [] r.state = "ENDING_HEADER_LINES" -> EndLine(r, text, "DONE")
      [] r.state \in Completed -> <<[r EXCEPT !.state = Follower(r)], 0>>
      [] r.state \in {"DONE", "ERROR"} -> <<r, 0>>

\* util_http_reader_read: the reader after the call and the number of characters read.
RECURSIVE Turns(_, _, _)
Turned(turn, text, n) ==
    LET read == n + turn[2] IN
    IF read = Len(text) \/ turn[1].state \in Stopped THEN <<turn[1], read>>
    ELSE Turns(turn[1], text, read)

Turns(r, text, n) == Turned(Turn(r, SubSeq(text, n + 1, Len(text))), text, n)

Read(r, text) ==
    LET fresh == [r EXCEPT !.hasToken = FALSE, !.token = <<>>]
    IN IF text = <<>> THEN <<fresh, 0>> ELSE Turns(fresh, text, 0)

=============================================================================
