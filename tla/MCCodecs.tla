---- MODULE MCCodecs ----
EXTENDS Codecs

(* Conversations *)

Ask(line, headers, body, malformed) ==
    [text |-> line \o headers \o body, method |-> <<line[1]>>, body |-> body, malformed |-> malformed]

GetLine == <<"G", "SP", "/", "SP", "H", "CR", "LF">>
PutLine == <<"P", "SP", "/", "a", "SP", "H", "LF">>
Length(n) == <<"C", "L", ":", "SP", n, "LF">>
Blank == <<"CR", "LF">>
GetRequest == Ask(GetLine, Blank, <<>>, FALSE)
GetQuoted ==
    Ask(GetLine, <<"X", ":", "QUOTE", "BACKSLASH", "QUOTE", ":", "QUOTE", "LF", "LF">>, <<>>, FALSE)
PutBody == Ask(PutLine, Length("3") \o Blank, <<"{", "LF", "}">>, FALSE)
PutTyped ==
    Ask(PutLine, <<"c", "t", ":", "application/hap+json", "LF">> \o Length("1") \o Blank, <<"{">>, FALSE)
PutTwice == Ask(PutLine, Length("1") \o Length("2") \o Blank, <<"x", "y">>, TRUE)
PutTooLong == Ask(PutLine, <<"C", "L", ":", "9", "9", "9", "LF">> \o Blank, <<>>, TRUE)
MCConversations ==
    {<<GetRequest>>, <<GetRequest, PutBody, GetRequest>>, <<GetQuoted, PutTyped>>, <<PutBody, PutTwice>>, <<PutTooLong>>}

MCCharacters == {"{", "[", "]", "}", ":", ",", "\"", "\\", "1", "0", "-", ".", "e", "t", "r", "u"}

(* Structures of TLVs: a record, a choice, lists of both, and all of it in one. *)

UInt == [kind |-> "uint", width |-> 2, minimum |-> 1, maximum |-> 30]
String == [kind |-> "string", minimum |-> 0, maximum |-> 8]
Data == [kind |-> "data", minimum |-> 1, maximum |-> 60]
Enum == [kind |-> "enum", valid |-> {0, 2}]
Member(t, f, optional) == [type |-> t, format |-> f, optional |-> optional, flat |-> FALSE]
Choice(s, t) ==
    [kind |-> "union", variants |-> <<[type |-> s, format |-> String], [type |-> t, format |-> Enum]>>]
Record ==
    [kind |-> "struct", members |-> <<Member(1, UInt, FALSE), Member(2, String, TRUE), Member(4, Data, FALSE)>>]
Records == [kind |-> "sequence", item |-> [type |-> 1, format |-> Record, flat |-> FALSE], separator |-> 0]
Several == [kind |-> "sequence", item |-> [type |-> 1, format |-> Choice(2, 3), flat |-> TRUE], separator |-> 1]
All ==
    [kind |-> "struct",
     members |-> <<Member(2, Data, TRUE), Member(0, Records, TRUE),
                   [type |-> 6, format |-> Choice(5, 6), optional |-> FALSE, flat |-> TRUE]>>]

DataBytes(n) == [i \in 1..n |-> i % 5]
TextBytes(n) == [i \in 1..n |-> 1 + (i % 4)]
Chosen == {[variant |-> 1, value |-> TextBytes(n)] : n \in {0, 2, 8}}
          \cup {[variant |-> 2, value |-> v] : v \in {0, 2}}
IsSet(v) == [set |-> TRUE, value |-> v]
Optional(S) == {[set |-> FALSE]} \cup {IsSet(v) : v \in S}
Recorded ==
    {<<IsSet(a), b, IsSet(c)>> : a \in {1, 9, 30}, b \in Optional({TextBytes(0), TextBytes(8)}),
                             c \in {DataBytes(n) : n \in {1, 6, 14, 46}}}
RecordLists == {<<>>} \cup {<<[r EXCEPT ![2] = [set |-> FALSE]], r>> : r \in Recorded}
Everything ==
    {<<a, b, IsSet(c)>> : a \in Optional({DataBytes(14)}), b \in Optional(RecordLists),
                        c \in {[variant |-> 1, value |-> TextBytes(7)], [variant |-> 2, value |-> 2]}}

MCUnknownTLV == [type |-> 3, value |-> TextBytes(7)]

Structures ==
    {[format |-> Record, value |-> v] : v \in Recorded}
    \cup {[format |-> Records, value |-> v] : v \in RecordLists}
    \cup {[format |-> Choice(2, 3), value |-> v] : v \in Chosen}
    \cup {[format |-> Several, value |-> <<v, w>>] : v, w \in Chosen}
    \cup {[format |-> All, value |-> v] : v \in Everything}

(* Responses *)

Usual == [
    format |-> "uint8", hidden |-> FALSE, supportsAuthorizationData |-> FALSE, unit |-> "none",
    readable |-> TRUE, writable |-> TRUE, supportsEventNotification |-> TRUE,
    requiresTimedWrite |-> FALSE, supportsWriteResponse |-> FALSE, controlPoint |-> FALSE,
    readRequiresAdmin |-> FALSE, writeRequiresAdmin |-> FALSE, switchEvent |-> FALSE,
    minimum |-> 0, maximum |-> 3, step |-> 0, validValues |-> {}]

MCAttributes ==
    "on" :> [Usual EXCEPT !.format = "bool", !.maximum = 1]
    @@ "level" :> [Usual EXCEPT !.unit = "percentage", !.maximum = 100, !.step = 10,
                                !.validValues = {0, 10, 100}]
    @@ "count" :> [Usual EXCEPT !.format = "uint32", !.maximum = 2 ^ 20 - 1, !.hidden = TRUE]
    @@ "delta" :> [Usual EXCEPT !.format = "int", !.minimum = -100, !.maximum = 100, !.unit = "seconds"]
    @@ "heat" :> [Usual EXCEPT !.format = "float", !.minimum = -30, !.maximum = 999,
                               !.unit = "celsius", !.supportsAuthorizationData = TRUE]
    @@ "name" :> [Usual EXCEPT !.format = "string", !.maximum = 64, !.writable = FALSE]
    @@ "blob" :> [Usual EXCEPT !.format = "data", !.maximum = 12, !.requiresTimedWrite = TRUE,
                               !.supportsWriteResponse = TRUE]
    @@ "button" :> [Usual EXCEPT !.switchEvent = TRUE, !.writable = FALSE]

MCBits == "uint8" :> 8 @@ "uint16" :> 16 @@ "uint32" :> 20 @@ "uint64" :> 24 @@ "int" :> 16
MCIid == [c \in {"on", "level", "count", "delta", "heat", "name", "blob", "button", "absent"} |->
            CASE c = "on" -> 9 [] c = "level" -> 10 [] c = "absent" -> 12345 [] OTHER -> 99]
MCUUID == [c \in DOMAIN MCAttributes |->
            CASE c = "on" -> <<0, 0, 0, 37>> [] c = "level" -> <<0, 0, 0, 8>> [] c = "count" -> <<0, 1, 0, 0>>
              [] c = "delta" -> <<0, 0, 2, 17>> [] c = "heat" -> <<16, 0, 0, 0>> [] c = "button" -> <<0, 0, 0, 0>>
              [] OTHER -> <<>>]
MCMaxLength == "string" :> 64 @@ "data" :> 2097152

ValuesOf(c) ==
    CASE c = "on" -> {0, 1} [] c = "level" -> {0, 10, 100} [] c = "count" -> {0, 99999}
      [] c = "delta" -> {-100, -1, 0, 10} [] c = "heat" -> {-30, 0, 100}
      [] c = "name" -> {<<>>, <<65, 34, 10, 1>>} [] c = "blob" -> {<<65, 65, 61, 61>>} [] OTHER -> {0}

\* The contexts of a response, as tuples, which TLC can tell apart by their first members.
Context(c, status, v) == <<c, status, v>>
Contexts ==
    UNION {{Context(c, "Success", v) : v \in ValuesOf(c)} : c \in DOMAIN MCAttributes}
    \cup {Context("absent", "ResourceDoesNotExist", 0), Context("heat", "ResourceIsBusy", 0)}

Bodies ==
    {[body |-> "read", contexts |-> cs,
      parameters |-> [meta |-> m, perms |-> p, type |-> t, ev |-> e]] :
        cs \in {<<a>> : a \in Contexts}
              \cup {<<a, b>> : a \in Contexts, b \in {Context("name", "Success", <<34>>), Context("on", "ResourceIsBusy", 0)}},
        m, p, t, e \in BOOLEAN}
    \cup {[body |-> b, contexts |-> <<a, c>>, parameters |-> <<>>] : a, c \in Contexts, b \in {"write", "event"}}

(* The attribute database of a bridge *)

Shown(c, value, description) ==
    [char |-> c, supported |-> TRUE, status |-> "Success", value |-> value, ev |-> FALSE,
     description |-> description, ranges |-> <<>>]
Level ==
    [Shown("level", 10, <<66>>) EXCEPT
        !.ranges = <<[start |-> 1, end |-> 2], [start |-> 5, end |-> 6]>>, !.ev = TRUE]
Service(iid, linked, characteristics) ==
    [iid |-> iid, type |-> "3E", primary |-> iid = 1, hidden |-> FALSE, linked |-> linked,
     supported |-> TRUE, characteristics |-> characteristics]
Bridge ==
    [aid |-> 1,
     services |-> <<Service(1, <<2, 3>>, <<Shown("name", <<65, 34>>, <<>>), Level>>),
                    [Service(7, <<>>, <<>>) EXCEPT !.supported = FALSE], Service(2, <<>>, <<>>)>>]
Bridged ==
    [aid |-> 2,
     services |-> <<Service(1, <<>>,
        <<[Shown("name", <<65>>, <<>>) EXCEPT !.supported = FALSE], Shown("blob", <<10>>, <<>>),
          [Shown("heat", 5, <<>>) EXCEPT !.status = "ResourceIsBusy"], Shown("button", 0, <<>>)>>)>>]

(* Requests *)

MCByte == "A" :> 65 @@ "n" :> 110 @@ "\\" :> 92 @@ "\"" :> 34 @@ "two" :> 195 @@ "tail" :> 169

Part(name, text, means) == [name |-> name, text |-> text, means |-> means]
Means(type, v) == [error |-> "None", type |-> type, value |-> v]
Wrong == [error |-> "InvalidData", type |-> "None", value |-> 0]
MeansUInt(name, text, n) == Part(name, text, Means("UInt", n))
Skipped == Means("None", 0)
True == <<"t", "r", "u", "e">>

AidPart == MeansUInt("aid", <<"1">>, 1)
IidPart == MeansUInt("iid", <<"1", "0">>, 10)
PidPart == MeansUInt("pid", <<"7">>, 7)
OtherPart == Part("other", <<"[", "1", ",", "{", "}", "]">>, Skipped)

ItemParts ==
    {AidPart, IidPart, OtherPart, MeansUInt("aid", <<"1", "2", "7">>, 127), Part("iid", <<"1", "2", "8">>, Wrong),
     Part("aid", <<"-", "1">>, Wrong), Part("iid", True, Wrong),
     MeansUInt("value", <<"-", "0">>, 0), MeansUInt("value", <<"1", "0", "0">>, 100),
     Part("value", <<"-", "1", "6">>, Means("Int", -16)), Part("value", <<"-", "1", "7">>, Wrong),
     Part("value", <<"1", "e", "1">>, Wrong), Part("value", <<"n", "u", "l", "l">>, Wrong),
     Part("value", <<"1", "2", "3", "4", "5", "6">>, Wrong),
     Part("value", <<"1", ".", "5">>, Means("Float", [negative |-> FALSE, bits |-> 60])),
     MeansUInt("value", True, 1), Part("value", <<"[", "]">>, Wrong),
     Part("value", <<"\"", "\\", "n", "two", "tail", "\\", "\"", "\"">>, Means("String", <<10, 195, 169, 34>>)),
     Part("value", <<"\"", "two", "\"">>, Wrong), Part("value", <<"\"", "\\", "A", "\"">>, Wrong),
     Part("authData", <<"\"", "\"">>, Means("String", <<>>)), Part("authData", <<"1">>, Wrong),
     MeansUInt("ev", <<"1">>, 1), MeansUInt("ev", <<"f", "a", "l", "s", "e">>, 0), Part("ev", <<"2">>, Wrong),
     MeansUInt("remote", True, 1), MeansUInt("r", <<"0">>, 0), Part("r", <<"\"", "A", "\"">>, Wrong),
     Part("deep", <<"[", "[", "[", "]", "]", "]">>, [error |-> "OutOfResources", type |-> "None", value |-> 0])}

IDs == <<[aid |-> 1, iid |-> 10], [aid |-> 127, iid |-> 2]>>
QueryParts ==
    {Part("contexts", <<"id=", "1", ".", "1", "0">>, Means("", <<IDs[1]>>)),
     Part("contexts", <<"id=", "1", ".", "1", "0", ",", "1", "2", "7", ".", "2">>, Means("", IDs)),
     Part("contexts", <<"id=", "1", "2", "8", ".", "1">>, Wrong), Part("contexts", <<"id=", "1", ".", "1", "2", "8">>, Wrong),
     Part("contexts", <<"id=", "1", ".", "1", ",">>, Wrong), Part("contexts", <<"id=", "1">>, Wrong),
     Part("meta", <<"meta=", "1">>, Means("", TRUE)), Part("meta", <<"meta=", "0">>, Means("", FALSE)),
     Part("perms", <<"perms=", "1">>, Means("", TRUE)), Part("type", <<"type=", "1">>, Means("", TRUE)),
     Part("type", <<"type=", "0", "1">>, Wrong), Part("ev", <<"ev=", "1">>, Means("", TRUE)),
     Part("ev", <<"ev=", "2">>, Wrong), Part("other", <<"A">>, Wrong)}

MCRequestParts ==
    [write |-> ItemParts,
     prepare |-> {PidPart, OtherPart, MeansUInt("ttl", <<"1", "0", "0">>, 100), Part("ttl", <<"1", "0", "1">>, Wrong),
                  Part("pid", <<"1", "2", "8">>, Wrong), MeansUInt("ttl", <<"0">>, 0)},
     query |-> QueryParts]

Body(items, members, first, spaces) ==
    [items |-> items, members |-> members, itemsFirst |-> first, spaces |-> spaces]
Writes ==
    {[codec |-> "request", kind |-> "write", length |-> 1, input |-> Body(items, members, first, spaces)] :
        items \in {<<<<IidPart>>>>, <<<<AidPart, IidPart>>, <<AidPart>>>>},
        members \in {<<>>, <<OtherPart, PidPart>>, <<PidPart, PidPart>>}, first \in BOOLEAN, spaces \in {<<>>, <<" ">>}}
    \cup {[codec |-> "request", kind |-> "write", length |-> 2, input |-> Body(<<<<AidPart, IidPart>>>>, <<>>, TRUE, <<>>)]}
Prepares ==
    {[codec |-> "request", kind |-> "prepare", length |-> 3, input |-> Body(<<>>, <<>>, FALSE, spaces)] :
        spaces \in {<<>>, <<" ">>}}
Queries ==
    {[codec |-> "request", kind |-> "query", length |-> 3, input |-> [parts |-> <<>>, fragment |-> fragment]] :
        fragment \in BOOLEAN}

(* Numbers: all of them that are finite, and texts of decimals *)

MCMinExponent == -6
MCMinExp10 == -7
MCMinFixed == -1
MCSmallMin == -16
AllFloats ==
    {[codec |-> "float", input |-> [negative |-> negative, bits |-> bits]] : negative \in BOOLEAN, bits \in 0..119}

Written(n) == [i \in 1..Len(ToString(n)) |-> SubSeq(ToString(n), i, i)]
Exponents == <<"-", "3">> :> -3 @@ <<"-", "2">> :> -2 @@ <<"+", "1">> :> 1 @@ <<"0">> :> 0
\* whole.5 * 10^e or whole.25 * 10^e, in multiples of 2^-9.
Decimal(whole, quarters, e) ==
    LET fraction == CASE quarters = 0 -> <<>> [] quarters = 1 -> <<".", "2", "5">>
                      [] quarters = 2 -> <<".", "5">> [] quarters = 3 -> <<".", "7", "5">>
        exp10 == Exponents[e]
    IN [codec |-> "decimal",
        input |-> [text |-> Written(whole) \o fraction \o <<"e">> \o e,
                   numerator |-> (4 * whole + quarters) * 128 * (IF exp10 > 0 THEN 10 ELSE 1),
                   denominator |-> IF exp10 < 0 THEN 10 ^ (-exp10) ELSE 1]]
Decimals ==
    {Decimal(whole, quarters, e) : whole \in 0..20 \cup {24, 25, 31, 97, 98, 99}, quarters \in 0..3, e \in DOMAIN Exponents}
    \cup {Decimal(whole, 0, e) : whole \in 100..255, e \in DOMAIN Exponents}

(* What the callbacks of the run loop may do *)

Most(timers, scheduled, accepted) == [timers |-> timers, scheduled |-> scheduled, accepted |-> accepted]
Callbacks == {Most(3, 0, 0), Most(0, 3, 0), Most(0, 0, 3), Most(1, 0, 2), Most(1, 1, 1), Most(2, 2, 0)}

(* What an accessory does with its store, how often it dies, and how often a call fails. *)

Pair(admin) == [do |-> "pair", admin |-> admin]
Enabled(cid, interval) == [do |-> "enable", cid |-> cid, interval |-> interval]
Disabled(cid) == [do |-> "disable", cid |-> cid]
Imported(name, value) == [do |-> "import", name |-> name, value |-> value]
Act(what) == [do |-> what]
Behaviour(script, losses, failures) ==
    [script |-> script, privileged |-> TRUE, losses |-> losses, failures |-> failures]
Behaviours ==
    {Behaviour(<<Pair(1), Pair(0), Enabled(2, 1), Enabled(1, 1), Enabled(3, 1), Enabled(2, 2), Disabled(1), Disabled(2)>>, 1, 0),
     Behaviour(<<Pair(1), Enabled(1, 1), Disabled(1)>>, 1, 1),
     Behaviour(<<Pair(1), Act("broadcast key"), Act("stop"), Act("restore"), Act("start"), Pair(0)>>, 1, 0),
     Behaviour(<<Imported(DeviceID, <<8>>), Imported(LTSK, <<9>>), [do |-> "import pairing", key |-> 1, ltsk |-> 9, admin |-> 1],
                 Act("start"), Act("stop"), Act("remove all pairings"), Act("start")>>, 1, 0),
     [Behaviour(<<Pair(0)>>, 1, 1) EXCEPT !.privileged = FALSE]}

LoopTask == [codec |-> "loop", input |-> Callbacks]

MCTasks ==
    {LoopTask, [codec |-> "store", input |-> Behaviours]} \cup
    Writes \cup Prepares \cup Queries \cup AllFloats \cup Decimals \cup
    {[codec |-> "database", input |-> <<Bridge, Bridged>>], [codec |-> "database", input |-> <<Bridged>>]}
    \cup
    {[codec |-> "stream", input |-> <<>>], [codec |-> "string", input |-> <<>>]}
    \cup {[codec |-> "json", input |-> t, length |-> Len(t) + 4] : t \in {<<>>, <<"[">>, <<"{", "\"", "1", "\"", ":">>}}
    \cup {[codec |-> "tlv", input |-> s] : s \in Structures}
    \cup {[codec |-> "body", input |-> b] : b \in Bodies}

====
