-------------------------- MODULE AccessoryDatabase --------------------------
(* HAPIPAccessorySerializeReadResponse: the attribute database of all accessories as JSON,
   by a machine that stops behind any token and goes on from there.

   A token is one unit of text, be it a name, a number, a UUID, a literal or a mark; a string
   is its quotes and its bytes.  States of the machine that append nothing are passed over.

   A database is a sequence of accessories [aid, services]; a service is [iid, type, primary,
   hidden, linked, supported, characteristics]; a characteristic is [char, supported, status,
   value, ev, description, ranges], with the attributes of char. *)
EXTENDS IPProtocol

-----------------------------------------------------------------------------
(* Members of objects, in the order they are written *)

Members ==
    "Response" :> <<"accessories">>
    @@ "Accessory" :> <<"aid", "services">>
    @@ "Service" :> <<"iid", "type", "primary", "hidden", "linked", "characteristics">>
    @@ "Characteristic" :>
        <<"iid", "type", "format", "value", "perms", "ev", "description", "unit", "minValue",
          "maxValue", "minStep", "maxLen", "maxDataLen", "valid-values", "valid-values-range">>

\* The arrays of objects, and what they hold.
ObjectArrays ==
    "accessories" :> "Accessory" @@ "services" :> "Service" @@ "characteristics" :> "Characteristic"

ScalarArrays == {"linked", "perms", "valid-values", "valid-values-range"}

\* The array an object is in: its own object, and the member of it.
Enclosing ==
    "Accessory" :> <<"Response", "accessories">>
    @@ "Service" :> <<"Accessory", "services">>
    @@ "Characteristic" :> <<"Service", "characteristics">>

\* Here the step counts, other than for the metadata of a read response.
IsRanged(a) ==
    /\ a.format \in UIntFormats \cup {"int", "float"}
    /\ IsConstrained(a) \/ (IF a.format = "float" THEN a.step # 0 ELSE a.step > 1)

\* Only for UInt8 characteristics that Apple has defined.
HasValidValues(ch) == Attributes[ch.char].format = "uint8" /\ UUID[ch.char] # <<>>

IsPresent(ch, m) ==
    LET a == Attributes[ch.char]
    IN CASE m \in {"value", "ev"} -> a.readable
         [] m = "description" -> ch.description # <<>>
         [] m = "unit" -> a.unit # "none"
         [] m \in {"minValue", "maxValue", "minStep"} -> IsRanged(a)
         [] m = "maxLen" -> a.format = "string" /\ a.maximum # MaxLength["string"]
         [] m = "maxDataLen" -> a.format = "data" /\ a.maximum # MaxLength["data"]
         [] m = "valid-values" -> HasValidValues(ch) /\ a.validValues # {}
         [] m = "valid-values-range" -> HasValidValues(ch) /\ ch.ranges # <<>>
         [] OTHER -> TRUE

-----------------------------------------------------------------------------
(* Values *)

Boolean(b) == IF b THEN "true" ELSE "false"

Quoted(bytes) == <<"\"">> \o [i \in DOMAIN bytes |-> ToString(bytes[i])] \o <<"\"">>

EscapedString(bytes) == Quoted(EscapeStringData(bytes, NumEscapedBytes(bytes)).bytes)

\* HAPIPSessionHandleReadRequest with what is left of the buffer, which must hold the string.
IsRead(ch, room) ==
    ch.status = "Success" /\ (Attributes[ch.char].format \in BytesFormats => Len(ch.value) <= room - 2)

ReadValue(ch, room) ==
    LET a == Attributes[ch.char]
        Empty == <<"\"", "\"">>
    IN CASE a.switchEvent -> <<"null">>
         [] a.controlPoint /\ a.format = "tlv8" -> Empty
         [] ~IsRead(ch, room) -> IF a.format = "tlv8" THEN Empty ELSE <<"null">>
         [] a.format \in BytesFormats -> EscapedString(ch.value)
         [] OTHER -> <<ValueText(a, ch.value)>>

Perms(a) ==
    LET Perm(p, text) == IF a[p] THEN <<text>> ELSE <<>>
    IN  Perm("readable", "pr") \o Perm("writable", "pw") \o Perm("supportsEventNotification", "ev")
        \o Perm("supportsAuthorizationData", "aa") \o Perm("requiresTimedWrite", "tw")
        \o Perm("supportsWriteResponse", "wr") \o Perm("hidden", "hd")

ConstraintValue(a, m) ==
    CASE m = "minValue" -> ValueText(a, a.minimum)
      [] m = "maxValue" -> ValueText(a, a.maximum)
      [] m = "minStep" -> ValueText(a, a.step)
      [] m \in {"maxLen", "maxDataLen"} -> ToString(a.maximum)

CharacteristicValue(ch, m, room) ==
    LET a == Attributes[ch.char]
    IN CASE m = "iid" -> <<ToString(Iid[ch.char])>>
         [] m = "type" -> <<UUIDText(UUID[ch.char])>>
         [] m = "format" -> <<a.format>>
         [] m = "value" -> ReadValue(ch, room)
         [] m = "ev" -> <<Boolean(ch.ev)>>
         [] m = "description" -> EscapedString(ch.description)
         [] m = "unit" -> <<a.unit>>
         [] OTHER -> <<ConstraintValue(a, m)>>

ServiceValue(service, m) ==
    CASE m = "iid" -> <<ToString(service.iid)>>
      [] m = "type" -> <<service.type>>
      [] m = "primary" -> <<Boolean(service.primary)>>
      [] m = "hidden" -> <<Boolean(service.hidden)>>

\* The items of an array of scalars.
CharacteristicItems(ch, m) ==
    LET a == Attributes[ch.char]
        valid == SetToSortSeq(a.validValues, <)
    IN CASE m = "perms" -> Perms(a)
         [] m = "valid-values" -> [i \in DOMAIN valid |-> ToString(valid[i])]
         [] m = "valid-values-range" -> ch.ranges

-----------------------------------------------------------------------------
(* HAPIPAccessorySerializationContext *)

InitialContext ==
    [object |-> "Response", member |-> "none", part |-> "Begin",
     accessory |-> 0, service |-> 0, characteristic |-> 0, index |-> 0]

IsComplete(c) == c.part = "Complete"

AccessoryAt(db, c) == db[c.accessory]
ServiceAt(db, c) == AccessoryAt(db, c).services[c.service]
CharacteristicAt(db, c) == ServiceAt(db, c).characteristics[c.characteristic]

Items(db, c) ==
    IF c.member = "linked" THEN LET linked == ServiceAt(db, c).linked
                                IN [i \in DOMAIN linked |-> ToString(linked[i])]
    ELSE CharacteristicItems(CharacteristicAt(db, c), c.member)

\* The next supported one in a sequence of services or characteristics, or 0.
NextSupported(seq, i) ==
    LET rest == {j \in DOMAIN seq : j > i /\ seq[j].supported}
    IN IF rest = {} THEN 0 ELSE CHOOSE j \in rest : \A k \in rest : j <= k

\* The context of the next object of an array, its index 0 when there is none.
NextObject(db, c, object) ==
    CASE object = "Accessory" ->
            [c EXCEPT !.accessory = IF @ < Len(db) THEN @ + 1 ELSE 0]
      [] object = "Service" ->
            [c EXCEPT !.service = NextSupported(AccessoryAt(db, c).services, @)]
      [] object = "Characteristic" ->
            [c EXCEPT !.characteristic = NextSupported(ServiceAt(db, c).characteristics, @)]

IndexOf(c, object) ==
    CASE object = "Accessory" -> c.accessory [] object = "Service" -> c.service
      [] object = "Characteristic" -> c.characteristic

\* The member behind one that is written, or "none".
NextMember(db, c) ==
    LET members == Members[c.object]
        at == IF c.member = "none" THEN 0 ELSE CHOOSE i \in DOMAIN members : members[i] = c.member
        rest == {i \in DOMAIN members :
                    i > at /\ (c.object = "Characteristic" => IsPresent(CharacteristicAt(db, c), members[i]))}
    IN IF rest = {} THEN "none" ELSE members[CHOOSE i \in rest : \A j \in rest : i <= j]

To(c, part) == [c EXCEPT !.part = part]

AfterMember(db, c) == To(c, IF NextMember(db, c) = "none" THEN "End" ELSE "ValueSeparator")

\* The first object of an array, or the end of the array.
FirstObject(db, c) ==
    LET object == ObjectArrays[c.member]
        reset == CASE object = "Accessory" -> [c EXCEPT !.accessory = 0]
                   [] object = "Service" -> [c EXCEPT !.service = 0]
                   [] object = "Characteristic" -> [c EXCEPT !.characteristic = 0]
        next == NextObject(db, reset, object)
    IN IF IndexOf(next, object) = 0 THEN To(c, "ArrayEnd")
       ELSE [next EXCEPT !.object = object, !.member = "none", !.part = "Begin"]

\* An object is closed: the next one of the array, or the end of the array.
AfterObject(db, c) ==
    LET next == NextObject(db, c, c.object)
    IN IF c.object = "Response" THEN To(c, "Complete")
       ELSE IF IndexOf(next, c.object) = 0
       THEN [c EXCEPT !.object = Enclosing[c.object][1], !.member = Enclosing[c.object][2], !.part = "ArrayEnd"]
       ELSE To(next, "Separator")

\* The item of an array of scalars at an index, or the end of the array.
ItemAt(db, c, index, part) ==
    IF index > Len(Items(db, c)) THEN To(c, "ArrayEnd") ELSE [c EXCEPT !.index = index, !.part = part]

FirstPart(c) == IF c.member = "valid-values-range" THEN "RangeBegin" ELSE "Item"

\* The state of the machine once the token of a state has been appended.
After(db, c) ==
    CASE c.part = "Begin" -> [c EXCEPT !.member = Members[c.object][1], !.part = "Name"]
      [] c.part = "Name" -> To(c, "NameSeparator")
      [] c.part = "NameSeparator" ->
            To(c, IF c.member \in DOMAIN ObjectArrays \cup ScalarArrays THEN "ArrayBegin" ELSE "Value")
      [] c.part = "ArrayBegin" ->
            IF c.member \in ScalarArrays THEN ItemAt(db, c, 1, FirstPart(c)) ELSE FirstObject(db, c)
      [] c.part \in {"Item", "RangeEnd"} -> ItemAt(db, c, c.index + 1, "ItemSeparator")
      [] c.part = "ItemSeparator" -> To(c, FirstPart(c))
      [] c.part = "RangeBegin" -> To(c, "RangeStart")
      [] c.part = "RangeStart" -> To(c, "RangeSeparator")
      [] c.part = "RangeSeparator" -> To(c, "RangeStop")
      [] c.part = "RangeStop" -> To(c, "RangeEnd")
      [] c.part \in {"Value", "ArrayEnd"} -> AfterMember(db, c)
      [] c.part = "ValueSeparator" -> [c EXCEPT !.member = NextMember(db, c), !.part = "Name"]
      [] c.part = "Separator" -> [c EXCEPT !.member = "none", !.part = "Begin"]
      [] c.part = "End" -> AfterObject(db, c)

\* What a state appends, when room units are left.
Token(db, c, room) ==
    CASE c.part = "Begin" -> <<"{">>
      [] c.part = "End" -> <<"}">>
      [] c.part = "Name" -> <<c.member>>
      [] c.part = "NameSeparator" -> <<":">>
      [] c.part \in {"ArrayBegin", "RangeBegin"} -> <<"[">>
      [] c.part \in {"ArrayEnd", "RangeEnd"} -> <<"]">>
      [] c.part \in {"ValueSeparator", "ItemSeparator", "Separator", "RangeSeparator"} -> <<",">>
      [] c.part = "Item" -> <<Items(db, c)[c.index]>>
      [] c.part = "RangeStart" -> <<ToString(Items(db, c)[c.index].start)>>
      [] c.part = "RangeStop" -> <<ToString(Items(db, c)[c.index].end)>>
      [] c.part = "Value" ->
            CASE c.object = "Accessory" -> <<ToString(AccessoryAt(db, c).aid)>>
              [] c.object = "Service" -> ServiceValue(ServiceAt(db, c), c.member)
              [] c.object = "Characteristic" -> CharacteristicValue(CharacteristicAt(db, c), c.member, room)

\* HAPIPAccessorySerializeReadResponse: at least minUnits of text, unless it is complete, and
\* at most maxUnits.
RECURSIVE Serialize(_, _, _, _, _)
SerializeToken(db, c, text, token, minUnits, maxUnits) ==
    IF Len(token) > maxUnits - Len(text)
    THEN [error |-> "OutOfResources", text |-> text, context |-> c]
    ELSE Serialize(db, After(db, c), text \o token, minUnits, maxUnits)

Serialize(db, c, text, minUnits, maxUnits) ==
    IF IsComplete(c) \/ (text # <<>> /\ Len(text) >= minUnits)
    THEN [error |-> "None", text |-> text, context |-> c]
    ELSE SerializeToken(db, c, text, Token(db, c, maxUnits - Len(text)), minUnits, maxUnits)

-----------------------------------------------------------------------------
(* The document that these tokens make up *)

Listed(open, texts, close) ==
    <<open>> \o FlattenSeq([i \in DOMAIN texts |-> IF i = 1 THEN texts[i] ELSE <<",">> \o texts[i]])
    \o <<close>>

Array(texts) == Listed("[", texts, "]")

Object(texts) == Listed("{", texts, "}")

Pair(name, text) == <<name, ":">> \o text

Scalars(items) == Array([i \in DOMAIN items |-> <<items[i]>>])

Supported(seq) == SelectSeq(seq, LAMBDA x : x.supported)

CharacteristicDocument(ch) ==
    LET names == SelectSeq(Members["Characteristic"], LAMBDA m : IsPresent(ch, m))
        Text(m) ==
            IF m = "valid-values-range"
            THEN Array([i \in DOMAIN ch.ranges |->
                            Scalars(<<ToString(ch.ranges[i].start), ToString(ch.ranges[i].end)>>)])
            ELSE IF m \in ScalarArrays THEN Scalars(CharacteristicItems(ch, m))
            ELSE CharacteristicValue(ch, m, 2 + IF m = "value" /\ Attributes[ch.char].format \in BytesFormats
                                                THEN Len(ch.value) ELSE 0)
    IN Object([i \in DOMAIN names |-> Pair(names[i], Text(names[i]))])

ServiceDocument(service) ==
    LET chars == Supported(service.characteristics)
        linked == service.linked
    IN Object(<<Pair("iid", <<ToString(service.iid)>>), Pair("type", <<service.type>>),
                Pair("primary", <<Boolean(service.primary)>>), Pair("hidden", <<Boolean(service.hidden)>>),
                Pair("linked", Scalars([i \in DOMAIN linked |-> ToString(linked[i])])),
                Pair("characteristics", Array([i \in DOMAIN chars |-> CharacteristicDocument(chars[i])]))>>)

AccessoryDocument(accessory) ==
    LET services == Supported(accessory.services)
    IN Object(<<Pair("aid", <<ToString(accessory.aid)>>),
                Pair("services", Array([i \in DOMAIN services |-> ServiceDocument(services[i])]))>>)

Document(db) ==
    Object(<<Pair("accessories", Array([i \in DOMAIN db |-> AccessoryDocument(db[i])]))>>)

=============================================================================
