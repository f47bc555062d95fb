------------------------------- MODULE Codecs -------------------------------
(* The parts that stand alone, side by side: the algorithms that turn bytes into requests and
   values into bytes, and the platform's run loop and store.  One behaviour exercises one of them, its
   task.  A session's stream of bytes (IPStream) and the run loop (RunLoop) are state
   machines, and so is the store; a JSON text and a string grow a character at a time; a structure of TLVs is
   sent in any order; a response is written at once. *)
EXTENDS IPStream, Storage, RunLoop

CONSTANTS
    Tasks,          \* [codec, input]: where a behaviour may begin
    Characters,     \* of JSON texts
    TextLength,     \* no text that is read is longer
    StringBytes,    \* the bytes of strings
    StringLength,   \* their greatest length
    UnknownTLV,     \* a TLV of a type that no format knows
    MaxDepth, FragmentBytes,
    Characteristics, Attributes, Bits, Aid, Iid, UUID, MaxLength, Infinity,
    Alignment, ChunkOverhead, MaxResponses,
    Byte, UIntMax, IntMax, SmallMin, NumberBytes, MaxTTL,
    Precision, MinExponent, MaxExponent, MaxMantissa, MinExp10, MaxExp10, MinFixed, MaxFixed,
    RequestParts    \* RequestParts[kind]: what the requests of a controller are made of

ASSUME CodecsAssumption ==
    /\ FragmentBytes \in Nat \ {0}
    /\ {Aid, Infinity, TextLength, StringLength, MaxDepth, UIntMax, IntMax, MaxTTL, NumberBytes} \subseteq Nat
    /\ MaxTTL <= UIntMax /\ IntMax <= UIntMax /\ SmallMin \in -(IntMax + 1)..0
    /\ \A c \in Characteristics : Iid[c] \in Nat /\ (UUID[c] = <<>> \/ Len(UUID[c]) = 4)

VARIABLES
    task,
    response        \* of AccessoryResponse

loopVars == <<loop, manager>>
platformVars == <<loopVars, storage>>
codecVars == <<task, response, streamVars, platformVars>>

JSON == INSTANCE JSONReader
Strings == INSTANCE Encodings
TLV == INSTANCE TLV
Protocol == INSTANCE IPProtocol
Accessories == INSTANCE AccessoryResponse
Requests == INSTANCE IPRequestReader
Numbers == INSTANCE Floats

Is(codec) == task.codec = codec

-----------------------------------------------------------------------------

Skip(text) == JSON!SkipValue(JSON!InitialReader, text, 0)

\* A text goes on until the reader has turned down a character of it, or left one.
Type(x) ==
    /\ Is("json") /\ Len(task.input) < task.length
    /\ Skip(task.input).n = Len(task.input)
    /\ task' = [task EXCEPT !.input = Append(@, x)]
    /\ UNCHANGED <<response, streamVars, platformVars>>

\* A string goes on, whatever its bytes are.
Put(x) ==
    /\ Is("string") /\ Len(task.input) < StringLength
    /\ task' = [task EXCEPT !.input = Append(@, x)]
    /\ UNCHANGED <<response, streamVars, platformVars>>

\* A structure that has been encoded: its TLVs, and those of them that may change places.
EncodedTLVs(format, value) ==
    LET tlvs == TLV!GetAll(TLV!EncodeAggregate(TLV!Writer(SizeMax), format, value).bytes, 0).tlvs
    IN IF TLV!UsesType(format, UnknownTLV.type) THEN tlvs ELSE Append(tlvs, UnknownTLV)

WrittenTLVs(tlvs) ==
    FoldLeft(LAMBDA w, tlv : TLV!Append8(w, tlv.type, tlv.value), TLV!Writer(SizeMax), tlvs).bytes

\* Its TLVs arrive in any order, and one of a type that its format does not know with
\* them; only the items of a sequence stay in their order.
Transmit ==
    /\ Is("tlv")
    /\ LET tlvs == EncodedTLVs(task.input.format, task.input.value)
           orders == IF task.input.format.kind = "sequence" THEN {[i \in DOMAIN tlvs |-> i]}
                     ELSE Permutations(DOMAIN tlvs)
       IN \E order \in orders :
            task' = [codec |-> "received tlv",
                     input |-> [bytes |-> WrittenTLVs([i \in DOMAIN tlvs |-> tlvs[order[i]]])] @@ task.input]
    /\ UNCHANGED <<response, streamVars, platformVars>>

\* A controller puts another part into its request.
Compose(part) ==
    /\ Is("request") /\ task.length > 0
    /\ task' = [task EXCEPT !.length = @ - 1,
                            !.input = CASE task.kind = "write" ->
                                            [@ EXCEPT !.items = Front(@) \o <<Append(Last(@), part)>>]
                                        [] task.kind = "prepare" -> [@ EXCEPT !.members = Append(@, part)]
                                        [] task.kind = "query" -> [@ EXCEPT !.parts = Append(@, part)]]
    /\ UNCHANGED <<response, streamVars, platformVars>>

\* A body is sent; the server reads it token by token, and may find that it has been cut off.
Send ==
    /\ Is("request") /\ task.kind # "query"
    /\ \E text \in {Requests!BodyText(task.kind, task.input)} :
        task' = [codec |-> "received request", text |-> text, whole |-> TRUE,
                 end |-> Len(text) - Len(task.input.spaces), meaning |-> Requests!BodyMeaning(task.kind, task.input),
                 reader |-> Requests!InitialRequestReader(task.kind)]
    /\ UNCHANGED <<response, streamVars, platformVars>>

Reading == Is("received request") /\ ~Requests!HasRead(task.reader)

NextToken == {JSON!ReadNext(task.reader.at, task.text)}

Understand ==
    /\ Reading
    /\ \E next \in NextToken :
        task' = [task EXCEPT !.reader = Requests!ReadRequest(@, next, task.text)]
    /\ UNCHANGED <<response, streamVars, platformVars>>

CutOff ==
    /\ Reading /\ task.whole
    /\ \E next \in NextToken : \E n \in task.reader.at.n..(next.n - 1) :
        /\ n < task.end
        /\ task' = [task EXCEPT !.text = SubSeq(@, 1, n), !.whole = FALSE]
    /\ UNCHANGED <<response, streamVars, platformVars>>

Converse ==
    /\ Is("stream")
    /\ StreamNext
    /\ UNCHANGED <<task, response, platformVars>>

Respond ==
    /\ Is("database")
    /\ Accessories!ResponseNext
    /\ UNCHANGED <<task, streamVars, platformVars>>

Loop ==
    /\ Is("loop")
    /\ LoopNext
    /\ UNCHANGED <<task, response, streamVars, storage>>

Keep ==
    /\ Is("store")
    /\ StorageNext
    /\ UNCHANGED <<task, response, streamVars, loopVars>>

CodecInit ==
    /\ StreamInit
    /\ task \in Tasks
    /\ LoopInit(IF Is("loop") THEN task.input ELSE {[timers |-> 0]})
    /\ StorageInit(IF Is("store") THEN task.input ELSE {Nothing})
    /\ IF Is("database") THEN Accessories!ResponseInit({task.input}) ELSE response = [state |-> "none"]

CodecNext ==
    \/ Converse
    \/ \E x \in Characters : Type(x)
    \/ \E x \in StringBytes : Put(x)
    \/ Transmit
    \/ Is("request") /\ \E part \in RequestParts[task.kind] : Compose(part)
    \/ Send
    \/ Understand
    \/ CutOff
    \/ Respond
    \/ Loop
    \/ Keep

CodecSpec == CodecInit /\ [][CodecNext]_codecVars

-----------------------------------------------------------------------------

SkippedAsOne(text, skipped) ==
    /\ skipped.error = "None" => JSON!IsValue(SubSeq(text, 1, skipped.n), MaxDepth)
    /\ JSON!IsValue(text, TextLength) =>
        IF JSON!IsValue(text, MaxDepth) THEN skipped.error = "None" /\ skipped.n = Len(text)
        ELSE skipped.error = "OutOfResources"

\* A member of a request that the server does not know is skipped as one value, neither
\* more nor less of the text, whatever it holds; what is not a value is refused, and so is
\* one that is nested too deep.
SkipsOneValue == Is("json") => SkippedAsOne(task.input, Skip(Append(task.input, ",")))

Stands(decoded, input) ==
    decoded.ok /\ TLV!Resolved(decoded.reader.bytes, input.format, decoded.value) = input.value

\* The members of a structure are found in any order, unknown ones are passed over, and
\* what has been read in place is still there when everything has been read, however many
\* fragments it came in; a structure that has been cut off is not taken for a whole one.
TLVsStayReadable ==
    Is("received tlv") =>
        LET format == task.input.format
            bytes == task.input.bytes
            short == SubSeq(bytes, 1, Len(bytes) - 1)
        IN /\ TLV!IsValid(format)
           /\ Stands(TLV!Decode(bytes, format), task.input)
           /\ ~TLV!GetAll(short, 0).ok => ~TLV!Decode(short, format).ok

\* Content-Length, which is sent before the body and counted apart from it, is its length;
\* the buffer made for it is large enough.
ContentLengthExact ==
    Is("body") =>
        LET contexts ==
                [i \in DOMAIN task.input.contexts |->
                    LET c == task.input.contexts[i]
                    IN [char |-> c[1], status |-> c[2], value |-> c[3],
                        ev |-> i = 1, response |-> c[2] = "Success"]]
            parameters == task.input.parameters
        IN CASE task.input.body = "read" ->
                    Len(Protocol!ReadResponseText(contexts, parameters))
                        = Protocol!ReadResponseNumBytes(contexts, parameters)
             [] task.input.body = "write" ->
                    Len(Protocol!WriteResponseText(contexts)) = Protocol!WriteResponseNumBytes(contexts)
             [] task.input.body = "event" ->
                    Len(Protocol!EventText(contexts)) = Protocol!EventNumBytes(contexts)

\* A request says the same to the server as to the controller that has written it, whatever
\* the order of its members, whether they are known to the server, and wherever there is
\* whitespace; what is wrong with a part of it is wrong with the whole, and a body that has
\* been cut off is refused.  What is skipped is one value (SkipsOneValue).
RequestsAreUnderstood ==
    /\ SkipsOneValue
    /\ Is("request") /\ task.kind = "query" =>
            Requests!ReadQuery(Requests!QueryText(task.input.parts, task.input.fragment))
                = Requests!QueryMeaning(task.input.parts)
    /\ Is("received request") /\ Requests!HasRead(task.reader) =>
            IF task.whole
            THEN Requests!Result(task.reader.error, 0, task.reader.of) = task.meaning
            ELSE task.reader.error # "None"

StringSurvives(bytes) ==
    LET numEscaped == Strings!NumEscapedBytes(bytes)
        escaped == Strings!EscapeStringData(bytes, numEscaped)
        base64 == Strings!Base64Encode(bytes, 4 * ((Len(bytes) + 2) \div 3))
        unescaped == Strings!UnescapeStringData(bytes)
    IN /\ escaped.error = "None" /\ Len(escaped.bytes) = numEscaped
       /\ Strings!UnescapeStringData(escaped.bytes) = [error |-> "None", bytes |-> bytes]
       /\ Strings!Base64Decode(base64) = [error |-> "None", bytes |-> bytes]
       /\ Strings!UTF8IsValidData(bytes) <=> Strings!IsUTF8(bytes)
       /\ Strings!IsUTF8(bytes) /\ unescaped.error = "None" => Strings!IsUTF8(unescaped.bytes)

\* Strings survive being escaped and unescaped, and encoded as base64 and decoded, in the
\* smallest buffer that holds the result; what is taken for UTF-8 is UTF-8, and what has
\* been unescaped is, too.  A number is written so that it reads back as itself, and what is
\* read is the nearest to what the text says, the even one when two are.
ValuesSurvive ==
    /\ Is("string") => StringSurvives(task.input)
    /\ Is("float") => Numbers!FloatFromString(Numbers!FloatDescription(task.input))
                        = [error |-> "None", value |-> task.input]
    /\ Is("decimal") =>
            LET read == Numbers!FloatFromString(task.input.text)
            IN /\ read.error = "None" /\ ~read.value.negative
               /\ Numbers!IsNearest(read.value.bits, task.input.numerator, task.input.denominator)

\* The controller that asks for the accessories is told all of them (AccessoryResponse).
DatabaseIsWhole == Is("database") => Accessories!ToldTheDatabase

=============================================================================
