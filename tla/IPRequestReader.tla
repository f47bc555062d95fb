--------------------------- MODULE IPRequestReader ---------------------------
(* HAPIPAccessoryProtocol: the requests that arrive in the body or in the query of an HTTP
   request.  The JSON reader stops at tokens; the text between two stops is looked at where
   it lies.

   The name of a member is a character of its own, and so is a parameter of a query with its
   "=".  Byte[c] is the byte that a character of a string value is. *)
EXTENDS JSONReader, Encodings

CONSTANTS
    Byte,
    UIntMax,        \* UINT64_MAX
    IntMax,         \* INT64_MAX; INT64_MIN is one less than its negative
    SmallMin,       \* INT32_MIN
    NumberBytes,    \* 64: of the buffer for a number
    MaxTTL          \* 9007199254740991: the greatest TTL

CONSTANTS Precision, MinExponent, MaxExponent, MaxMantissa, MinExp10, MaxExp10, MinFixed, MaxFixed

FloatsOf == INSTANCE Floats

-----------------------------------------------------------------------------
(* Numbers and values *)

\* try_read_uint and the loops of HAPBase+Int: digits whose number does not exceed a limit,
\* or -1.
Numeral(digits, limit) ==
    LET value == [c \in Digits |-> CHOOSE v \in 0..9 : ToString(v) = c]
        Next(n, c) == IF n = -1 \/ c \notin Digits THEN -1
                      ELSE IF n > (limit - value[c]) \div 10 THEN -1 ELSE n * 10 + value[c]
    IN IF digits = <<>> THEN -1 ELSE FoldLeft(Next, 0, digits)

Value(error, type, value) == [error |-> error, type |-> type, value |-> value]
NoValue == Value("None", "None", 0)
Invalid == Value("InvalidData", "None", 0)

\* The value of a number without a point: an Int when it is negative.
Integer(token) ==
    LET negative == token[1] = "-"
        n == Numeral(IF negative THEN Tail(token) ELSE token, IF negative THEN IntMax + 1 ELSE UIntMax)
    IN IF n = -1 THEN Invalid
       ELSE IF ~negative \/ n = 0 THEN Value("None", "UInt", n)
       ELSE IF -n >= SmallMin THEN Value("None", "Int", -n)
       ELSE Invalid

Number(token) ==
    LET float == FloatsOf!FloatFromString(token)
    IN IF Len(token) >= NumberBytes THEN Invalid
       ELSE IF \A i \in DOMAIN token : token[i] # "." THEN Integer(token)
       ELSE Value(float.error, "Float", float.value)

\* A string is checked and unescaped where it lies.
StringValue(token) ==
    LET bytes == [i \in 1..(Len(token) - 2) |-> Byte[token[i + 1]]]
        unescaped == UnescapeStringData(bytes)
    IN IF ~UTF8IsValidData(bytes) THEN Invalid ELSE Value(unescaped.error, "String", unescaped.bytes)

Literal(token) ==
    CASE token = <<"t", "r", "u", "e">> -> Value("None", "UInt", 1)
      [] token = <<"f", "a", "l", "s", "e">> -> Value("None", "UInt", 0)
      [] OTHER -> Invalid

WriteValue(token) ==
    CASE token.kind = "COMPLETED_NUMBER" -> Number(token.text)
      [] token.kind = "COMPLETED_STRING" -> StringValue(token.text)
      [] token.kind = "COMPLETED_LITERAL" -> Literal(token.text)
      [] OTHER -> Invalid

UInt(token, limit) ==
    LET n == IF token.kind = "COMPLETED_NUMBER" THEN Numeral(token.text, limit) ELSE -1
    IN IF n = -1 THEN Invalid ELSE Value("None", "UInt", n)

\* 0, 1, false or true.
Flag(token) ==
    LET flag == IF token.kind = "COMPLETED_NUMBER" THEN UInt(token, UIntMax)
                ELSE IF token.kind = "COMPLETED_LITERAL" THEN Literal(token.text) ELSE Invalid
    IN IF flag.value \in {0, 1} THEN flag ELSE Invalid

String(token) == IF token.kind = "COMPLETED_STRING" THEN StringValue(token.text) ELSE Invalid

-----------------------------------------------------------------------------
(* Objects.  The kinds are "write", the body of PUT /characteristics, "characteristic", an
   item of it, and "prepare", the body of PUT /prepare. *)

NoParameters ==
    [aid |-> NoValue, iid |-> NoValue, value |-> NoValue, ev |-> NoValue, authData |-> NoValue,
     remote |-> NoValue, r |-> NoValue]

NoRequest == [contexts |-> <<>>, pid |-> NoValue, ttl |-> NoValue]

Result(error, at, of) == [error |-> error, at |-> at, of |-> of]

IsDefined(v) == v.type # "None"

\* What a member of an object says; pid and ttl may be there once.
MemberOf(kind, of, name, token) ==
    CASE kind = "characteristic" /\ name \in {"aid", "iid"} -> UInt(token, UIntMax)
      [] kind = "characteristic" /\ name = "value" -> WriteValue(token)
      [] kind = "characteristic" /\ name \in {"ev", "remote", "r"} -> Flag(token)
      [] kind = "characteristic" /\ name = "authData" -> String(token)
      [] name = "pid" -> IF IsDefined(of.pid) THEN Invalid ELSE UInt(token, UIntMax)
      [] name = "ttl" -> IF IsDefined(of.ttl) THEN Invalid ELSE UInt(token, MaxTTL)

Known == [characteristic |-> DOMAIN NoParameters, write |-> {"pid"}, prepare |-> {"pid", "ttl"}]

Failed(s, error) == [s EXCEPT !.mode = "failed", !.error = error, !.of = NoRequest]

To(s, mode, at) == [s EXCEPT !.mode = mode, !.at = at]

\* Mutant: of a member that is not known, the first token of its value is skipped.
SkipToken(s, value, text) == To(s, "after member", ReadNext(value, text))

\* A member that is not known is skipped.
SkipMember(s, value, text) ==
    LET skipped == SkipValueAt(value, text, <<>>)
    IN IF skipped.error = "None" THEN To(s, "after member", [reader |-> skipped.reader, n |-> skipped.n])
       ELSE Failed(s, IF s.kind = "characteristic" THEN skipped.error ELSE "InvalidData")

\* read_characteristic_write_request_parameters, and the body of the other loops: a value
\* begins.
BeginValue(s, value, text) ==
    IF s.kind = "write" /\ s.name = "characteristics"
    THEN IF value.reader.state = "BEGINNING_ARRAY" THEN To(s, "item", value) ELSE Failed(s, "InvalidData")
    ELSE IF s.name \notin Known[s.kind] THEN SkipMember(s, value, text)
    ELSE IF value.reader.state \in {"BEGINNING_NUMBER", "BEGINNING_STRING", "BEGINNING_LITERAL"}
    THEN To([s EXCEPT !.expected = Completes(value.reader.state)], "token", value)
    ELSE Failed(s, "InvalidData")

WithMember(s, read, at) ==
    IF read.error # "None" THEN Failed(s, read.error)
    ELSE IF s.kind = "characteristic" THEN To([s EXCEPT !.item[s.name] = read], "after member", at)
    ELSE To([s EXCEPT !.of[s.name] = read], "after member", at)

\* A preparation needs a pid and a ttl, an item of a write request an aid and an iid.
EndObject(s, at) ==
    IF s.kind = "write" THEN To(s, "end", at)
    ELSE IF s.kind = "prepare"
    THEN IF IsDefined(s.of.ttl) /\ IsDefined(s.of.pid) THEN To(s, "end", at) ELSE Failed(s, "InvalidData")
    ELSE IF ~IsDefined(s.item.aid) \/ ~IsDefined(s.item.iid) THEN Failed(s, "InvalidData")
    ELSE To([s EXCEPT !.of.contexts = Append(@, s.item)], "after item", at)

\* The reader has come to a token, next; what it has read since the last one is read.
AtToken(s, next, read, text) ==
    LET state == next.reader.state
        more == state = "AFTER_VALUE_SEPARATOR" /\ next.n < Len(text)
    IN CASE s.mode = "start" /\ state = "BEGINNING_OBJECT" -> To(s, "member", next)
         [] s.mode = "member" /\ state = "BEGINNING_STRING" -> To(s, "name", next)
         [] s.mode = "name" /\ state = "COMPLETED_STRING" ->
                To([s EXCEPT !.name = IF Len(read) = 3 THEN read[2] ELSE "another"], "separator", next)
         [] s.mode = "separator" /\ state = "AFTER_NAME_SEPARATOR" -> To(s, "value", next)
         [] s.mode = "value" -> BeginValue(s, next, text)
         [] s.mode = "token" /\ state = s.expected ->
                WithMember(s, MemberOf(s.kind, s.of, s.name, [kind |-> state, text |-> read]), next)
         [] s.mode = "after member" /\ more -> To(s, "member", next)
         [] s.mode = "after member" /\ state = "COMPLETED_OBJECT" -> EndObject(s, next)
         [] s.mode = "item" /\ state = "BEGINNING_OBJECT" ->
                To([s EXCEPT !.kind = "characteristic", !.item = NoParameters], "member", next)
         [] s.mode = "after item" /\ more -> To(s, "item", next)
         [] s.mode = "after item" /\ state = "COMPLETED_ARRAY" ->
                To([s EXCEPT !.kind = "write"], "after member", next)
         [] s.mode = "end" /\ next.n = Len(text) -> To(s, "done", next)
         [] OTHER -> Failed(s, "InvalidData")

InitialRequestReader(kind) ==
    [mode |-> "start", kind |-> kind, at |-> [reader |-> InitialReader, n |-> 0], of |-> NoRequest,
     item |-> NoParameters, error |-> "None", name |-> "none", expected |-> "none"]

HasRead(s) == s.mode \in {"done", "failed"}

\* HAPIPAccessoryProtocolGetCharacteristicWriteRequests and ..WritePreparation, up to the
\* next token: one object, and nothing but whitespace behind it.
ReadRequest(s, next, text) == AtToken(s, next, SubSeq(text, s.at.n + 1, next.n), text)

-----------------------------------------------------------------------------
(* HAPIPAccessoryProtocolGetCharacteristicReadRequests: the query of GET /characteristics *)

NoQuery == [contexts |-> <<>>, meta |-> FALSE, perms |-> FALSE, type |-> FALSE, ev |-> FALSE]

FlagNames == "meta=" :> "meta" @@ "perms=" :> "perms" @@ "type=" :> "type" @@ "ev=" :> "ev"

\* try_read_uint64 behind position i: the digits that fit.
NumDigits(text, i) ==
    LET fits == {n \in 1..(Len(text) - i) : Numeral(SubSeq(text, i + 1, i + n), UIntMax) # -1}
    IN IF fits = {} THEN 0 ELSE CHOOSE n \in fits : \A m \in fits : m <= n

NumberAt(text, i) == Numeral(SubSeq(text, i + 1, i + NumDigits(text, i)), UIntMax)

At(text, i) == IF i < Len(text) THEN text[i + 1] ELSE "end"

RECURSIVE ReadIDs(_, _, _), ReadQueryFrom(_, _, _)

\* aid.iid, and others behind commas.
ReadIDs(text, i, query) ==
    LET dot == i + NumDigits(text, i)
        end == dot + 1 + NumDigits(text, dot + 1)
        context == [aid |-> NumberAt(text, i), iid |-> NumberAt(text, dot + 1)]
        more == [query EXCEPT !.contexts = Append(@, context)]
    IN IF \/ dot = i \/ At(text, dot) # "."
          \/ end = dot + 1 \/ At(text, end) \in Digits
       THEN Result("InvalidData", i, query)
       ELSE IF At(text, end) = "," THEN ReadIDs(text, end + 1, more)
       ELSE Result("None", end, more)

\* One digit, 0 or 1.
ReadFlag(text, i, name, query) ==
    IF NumDigits(text, i) = 1 /\ text[i + 1] \in {"0", "1"}
    THEN Result("None", i + 1, [query EXCEPT ![name] = text[i + 1] = "1"])
    ELSE Result("InvalidData", i, query)

ReadParameter(text, i, query) ==
    CASE text[i + 1] = "id=" -> IF i + 1 < Len(text) THEN ReadIDs(text, i + 1, query)
                                ELSE Result("None", i + 1, query)
      [] text[i + 1] \in DOMAIN FlagNames -> ReadFlag(text, i + 1, FlagNames[text[i + 1]], query)
      [] OTHER -> Result("InvalidData", i, query)

AfterParameter(text, r) ==
    IF r.error # "None" THEN Result(r.error, 0, NoQuery)
    ELSE IF At(text, r.at) = "&" THEN ReadQueryFrom(text, r.at + 1, r.of)
    ELSE IF At(text, r.at) \in {"end", "#"} THEN Result("None", 0, r.of)
    ELSE Result("InvalidData", 0, NoQuery)

ReadQueryFrom(text, i, query) ==
    IF i >= Len(text) THEN Result("None", 0, query) ELSE AfterParameter(text, ReadParameter(text, i, query))

ReadQuery(text) == ReadQueryFrom(text, 0, NoQuery)

-----------------------------------------------------------------------------
(* A reference: requests as a controller writes them.  A part of a request is its name, its
   text, and what it means: a value, or an error. *)

Spaced(text, spaces) == FlattenSeq([i \in DOMAIN text |-> <<text[i]>> \o spaces])

Joined(texts, separator) ==
    FlattenSeq([i \in DOMAIN texts |-> IF i = 1 THEN texts[i] ELSE separator \o texts[i]])

MemberText(part, spaces) ==
    <<"\"", part.name, "\"">> \o spaces \o <<":">> \o spaces \o part.text \o spaces

ObjectText(parts, spaces) ==
    <<"{">> \o spaces \o Joined([i \in DOMAIN parts |-> MemberText(parts[i], spaces)], <<",">> \o spaces)
    \o <<"}">> \o spaces

\* The first part that is wrong spoils the whole; the last one of a name counts.
Meaning(parts, empty) ==
    FoldLeft(LAMBDA r, part :
        IF r.error # "None" \/ part.means.error # "None"
        THEN Result(IF r.error # "None" THEN r.error ELSE part.means.error, 0, empty)
        ELSE IF part.name \notin DOMAIN empty THEN r
        ELSE Result("None", 0, [r.of EXCEPT ![part.name] = part.means]),
        Result(IF parts = <<>> THEN "InvalidData" ELSE "None", 0, empty), parts)

Required(r, names, empty) ==
    IF r.error = "None" /\ \E name \in names : ~IsDefined(r.of[name])
    THEN Result("InvalidData", 0, empty) ELSE r

ItemMeaning(parts) == Required(Meaning(parts, NoParameters), {"aid", "iid"}, NoParameters)

Then(r, s, of) == IF r.error # "None" THEN r ELSE IF s.error # "None" THEN s ELSE Result("None", 0, of)

ItemsMeaning(items) ==
    LET Add(r, item) ==
            LET m == ItemMeaning(item)
            IN Then(Result(r.error, 0, NoRequest), Result(m.error, 0, NoRequest),
                    [r.of EXCEPT !.contexts = Append(@, m.of)])
    IN FoldLeft(Add, Result(IF items = <<>> THEN "InvalidData" ELSE "None", 0, NoRequest), items)

\* A pid or a ttl that is there twice is wrong.
MembersMeaning(parts) ==
    Meaning([i \in DOMAIN parts |->
                IF \E j \in 1..(i - 1) : parts[j].name = parts[i].name /\ parts[i].name \in {"pid", "ttl"}
                THEN [parts[i] EXCEPT !.means = Invalid] ELSE parts[i]], NoRequest)

\* A body: its items, its other members, and whether the items come first.
ItemsMember(items, spaces) ==
    [name |-> "characteristics",
     text |-> <<"[">> \o spaces \o Joined([i \in DOMAIN items |-> ObjectText(items[i], spaces)], <<",">> \o spaces)
              \o <<"]">>]

BodyText(kind, body) ==
    LET items == <<ItemsMember(body.items, body.spaces)>>
    IN ObjectText(IF kind = "prepare" THEN body.members
                  ELSE IF body.itemsFirst THEN items \o body.members ELSE body.members \o items, body.spaces)

BodyMeaning(kind, body) ==
    LET items == ItemsMeaning(body.items)
        members == IF body.members = <<>> THEN Result("None", 0, NoRequest) ELSE MembersMeaning(body.members)
        both == [members.of EXCEPT !.contexts = items.of.contexts]
    IN IF kind = "prepare" THEN Required(MembersMeaning(body.members), {"pid", "ttl"}, NoRequest)
       ELSE IF body.itemsFirst THEN Then(items, members, both) ELSE Then(members, items, both)

\* A query: its parameters, each with its text, and whether a fragment follows.
QueryText(parts, fragment) ==
    Joined([i \in DOMAIN parts |-> parts[i].text], <<"&">>) \o (IF fragment /\ parts # <<>> THEN <<"#", "1">> ELSE <<>>)

QueryMeaning(parts) ==
    LET Add(query, part) == IF part.name = "contexts" THEN [query EXCEPT !.contexts = @ \o part.means.value]
                            ELSE [query EXCEPT ![part.name] = part.means.value]
    IN IF \E i \in DOMAIN parts : parts[i].means.error # "None" THEN Result("InvalidData", 0, NoQuery)
       ELSE Result("None", 0, FoldLeft(Add, NoQuery, parts))

=============================================================================
