---- MODULE IPProtocol ----
(***************************************************************************)
(* HAPIPAccessoryProtocol: the bodies of responses and event notifications. *)
(* Each is written twice: once to count its bytes, for Content-Length and   *)
(* for the size of the buffer, and once for real.                           *)
(*                                                                         *)
(* A value is a number; that of a string is the sequence of its bytes.      *)
(***************************************************************************)
EXTENDS Characteristics, JSONUtils, TLC

CONSTANTS
    Aid, Iid,       \* Iid[c]; 0 is no instance ID
    UUID,           \* UUID[c]: its bytes 15 to 12 when Apple has defined it, else <<>>
    MaxLength,      \* MaxLength[f]: the default of maxLength, which goes without saying
    Infinity        \* the limit of a float that has none

StatusCode == "Success" :> 0 @@ "InsufficientPrivileges" :> -70401
    @@ "UnableToPerformOperation" :> -70402 @@ "ResourceIsBusy" :> -70403
    @@ "WriteToReadOnlyCharacteristic" :> -70404 @@ "ReadFromWriteOnlyCharacteristic" :> -70405
    @@ "NotificationNotSupported" :> -70406 @@ "OutOfResources" :> -70407
    @@ "ResourceDoesNotExist" :> -70409 @@ "InvalidValueInWrite" :> -70410
    @@ "InsufficientAuthorization" :> -70411

\* HAPIPReadContext and HAPIPWriteContext, as a response shows them.
ResponseContext == [char : STRING, status : DOMAIN StatusCode, value : Int \cup Seq(Nat),
                    ev : BOOLEAN, response : BOOLEAN]

\* HAPIPReadRequestParameters
Parameters == [meta : BOOLEAN, perms : BOOLEAN, type : BOOLEAN, ev : BOOLEAN]

\* GetCharacteristic finds it.
Exists(c) == c \in Characteristics

IsSuccess(contexts) == \A i \in DOMAIN contexts : contexts[i].status = "Success"

SumOver(f) == FoldFunction(LAMBDA n, sum : n + sum, 0, f)

-----------------------------------------------------------------------------
(* Numbers and UUIDs *)

\* HAPInt32GetNumDescriptionBytes and HAPUInt64GetNumDescriptionBytes
NumDescriptionBytes(n) ==
    LET Count[k \in Nat] == IF k < 10 THEN 1 ELSE 1 + Count[k \div 10]
    IN  IF n < 0 THEN 1 + Count[-n] ELSE Count[n]

\* HAPFloatGetDescription, null when it is not finite.
FloatText(v) == IF v \in {Infinity, -Infinity} THEN "null" ELSE ToString(v)

\* HAPUUIDGetNumDescriptionBytes
UUIDNumBytes(u) ==
    LET first == CHOOSE i \in 1 .. 4 : (u[i] # 0 \/ i = 4) /\ \A j \in 1 .. i - 1 : u[j] = 0
    IN  IF u = <<>> THEN 36 ELSE 2 * (5 - first) - (IF u[first] < 16 THEN 1 ELSE 0)

\* HAPUUIDGetDescription: %X, then %02X for each of the others.
UUIDText(u) ==
    LET Hex(b) == IF b < 16 THEN "X" ELSE "XX"
    IN  IF u = <<>> THEN "XXXXXXXX-XXXX-XXXX-XXXX-XXXXXXXXXXXX"
        ELSE IF u[1] # 0 THEN Hex(u[1]) \o "XXXXXX"
        ELSE IF u[2] # 0 THEN Hex(u[2]) \o "XXXX"
        ELSE IF u[3] # 0 THEN Hex(u[3]) \o "XX"
        ELSE Hex(u[4])

-----------------------------------------------------------------------------
(* Counting *)

FormatNumBytes(f) ==
    CASE f = "bool" -> 16 [] f = "uint8" -> 17 [] f \in {"uint16", "uint32", "uint64"} -> 18
      [] f = "int" -> 15 [] f = "float" -> 17 [] f = "string" -> 18 [] f \in {"tlv8", "data"} -> 16

\* Mutant: a string is counted as it is stored.
ValueNumBytesUnescaped(a, v) ==
    IF a.format \in BytesFormats THEN 2 + Len(v) ELSE NumDescriptionBytes(v)

ValueNumBytes(a, v) ==
    CASE a.format = "bool" -> 1
      [] a.format = "float" -> Len(FloatText(v))
      [] a.format \in BytesFormats -> 2 + NumEscapedBytes(v)
      [] OTHER -> NumDescriptionBytes(v)

UnitNumBytes(unit) ==
    CASE unit = "none" -> 0 [] unit = "celsius" -> 17 [] unit \in {"arcdegrees", "percentage"} -> 20
      [] unit = "lux" -> 13 [] unit = "seconds" -> 17

FormatMinimum(f) ==
    IF f = "int" THEN -IntLimit - 1 ELSE IF f = "float" THEN -Infinity ELSE 0

FormatMaximum(f) ==
    IF f = "int" THEN IntLimit ELSE IF f = "float" THEN Infinity ELSE UIntLimit(f)

\* The range of its format goes without saying, and then the step does, too.
IsConstrained(a) ==
    a.minimum # FormatMinimum(a.format) \/ a.maximum # FormatMaximum(a.format)

ConstraintsNumBytes(a) ==
    CASE a.format \in UIntFormats \cup {"int", "float"} ->
            IF ~IsConstrained(a) THEN 0
            ELSE 35 + ValueNumBytes(a, a.minimum) + ValueNumBytes(a, a.maximum)
                    + ValueNumBytes(a, a.step)
      [] a.format = "string" ->
            IF a.maximum = MaxLength["string"] THEN 0 ELSE 10 + NumDescriptionBytes(a.maximum)
      [] a.format = "data" ->
            IF a.maximum = MaxLength["data"] THEN 0 ELSE 14 + NumDescriptionBytes(a.maximum)
      [] OTHER -> 0

\* HAPCharacteristicGetNumEnabledProperties
NumEnabledProperties(a) ==
    Cardinality({p \in {"readable", "writable", "supportsEventNotification",
                        "supportsAuthorizationData", "requiresTimedWrite",
                        "supportsWriteResponse", "hidden"} : a[p]})

PermsNumBytes(a) ==
    LET n == NumEnabledProperties(a) IN 11 + (IF n = 0 THEN 0 ELSE n * 4 + n - 1)

\* What "meta", "perms", "type" and "ev" of a request add.
ParametersNumBytes(r, p) ==
    LET a == Attributes[r.char]
    IN  IF ~Exists(r.char) THEN 0
        ELSE (IF p.type THEN 10 + UUIDNumBytes(UUID[r.char]) ELSE 0)
             + (IF p.meta THEN FormatNumBytes(a.format) + UnitNumBytes(a.unit)
                               + ConstraintsNumBytes(a) ELSE 0)
             + (IF p.perms THEN PermsNumBytes(a) ELSE 0)
             + (IF p.ev THEN 6 + (IF r.ev THEN 4 ELSE 5) ELSE 0)

IdNumBytes(r) == NumDescriptionBytes(Aid) + NumDescriptionBytes(Iid[r.char])

\* HAPIPAccessoryProtocolGetNumCharacteristicReadResponseBytes
ReadResponseNumBytes(contexts, p) ==
    22 + SumOver([i \in DOMAIN contexts |->
        LET r == contexts[i]
        IN  (IF i = 1 THEN 15 ELSE 16) + IdNumBytes(r) + ParametersNumBytes(r, p)
            + (IF r.status # "Success" THEN 10 + NumDescriptionBytes(StatusCode[r.status])
               ELSE (IF IsSuccess(contexts) THEN 9 ELSE 20)
                    + (IF Attributes[r.char].switchEvent THEN 4
                       ELSE ValueNumBytes(Attributes[r.char], r.value)))])

\* HAPIPAccessoryProtocolGetNumCharacteristicWriteResponseBytes
WriteResponseNumBytes(contexts) ==
    22 + SumOver([i \in DOMAIN contexts |->
        LET w == contexts[i]
        IN  (IF i = 1 THEN 25 ELSE 26) + IdNumBytes(w) + NumDescriptionBytes(StatusCode[w.status])
            + (IF w.status = "Success" /\ w.response
               THEN 9 + ValueNumBytes(Attributes[w.char], w.value) ELSE 0)])

\* HAPIPAccessoryProtocolGetNumEventNotificationBytes
EventNumBytes(contexts) ==
    22 + SumOver([i \in DOMAIN contexts |->
        LET r == contexts[i]
        IN  (IF i = 1 THEN 24 ELSE 25) + IdNumBytes(r)
            + (IF r.status = "Success" THEN ValueNumBytes(Attributes[r.char], r.value) ELSE 4)])

-----------------------------------------------------------------------------
(* Writing *)

FormatText(f) == ",\"format\":\"" \o f \o "\""

\* A string of n bytes.
BytesText(n) == FoldLeft(LAMBDA t, i : t \o "x", "", [i \in 1 .. n |-> i])

ValueText(a, v) ==
    CASE a.format = "bool" -> IF v # 0 THEN "1" ELSE "0"
      [] a.format = "float" -> FloatText(v)
      [] a.format \in BytesFormats ->
            "\"" \o BytesText(Len(EscapeStringData(v, 6 * Len(v)).bytes)) \o "\""
      [] OTHER -> ToString(v)

UnitText(unit) == IF unit = "none" THEN "" ELSE ",\"unit\":\"" \o unit \o "\""

ConstraintsText(a) ==
    CASE a.format \in UIntFormats \cup {"int", "float"} ->
            IF ~IsConstrained(a) THEN ""
            ELSE ",\"minValue\":" \o ValueText(a, a.minimum)
                 \o ",\"maxValue\":" \o ValueText(a, a.maximum)
                 \o ",\"minStep\":" \o ValueText(a, a.step)
      [] a.format = "string" ->
            IF a.maximum = MaxLength["string"] THEN "" ELSE ",\"maxLen\":" \o ToString(a.maximum)
      [] a.format = "data" ->
            IF a.maximum = MaxLength["data"] THEN "" ELSE ",\"maxDataLen\":" \o ToString(a.maximum)
      [] OTHER -> ""

\* The texts with a separator between any two.
Joined(texts) ==
    FoldLeft(LAMBDA t, i : t \o (IF i = 1 THEN "" ELSE ",") \o texts[i], "",
             [i \in DOMAIN texts |-> i])

PermsText(a) ==
    LET Perm(p, text) == IF a[p] THEN <<text>> ELSE <<>>
    IN  ",\"perms\":["
        \o Joined(Perm("readable", "\"pr\"") \o Perm("writable", "\"pw\"")
                  \o Perm("supportsEventNotification", "\"ev\"")
                  \o Perm("supportsAuthorizationData", "\"aa\"")
                  \o Perm("requiresTimedWrite", "\"tw\"") \o Perm("supportsWriteResponse", "\"wr\"")
                  \o Perm("hidden", "\"hd\"")) \o "]"

IdText(r) == "{\"aid\":" \o ToString(Aid) \o ",\"iid\":" \o ToString(Iid[r.char])

Body(texts) == "{\"characteristics\":[" \o Joined(texts) \o "]}"

\* One object of a read response: the members that "perms", "ev" and "meta" ask
\* for follow the brace that closes it.
ReadText(r, p, success) ==
    LET a == Attributes[r.char]
    IN  IdText(r)
        \o (IF p.type /\ Exists(r.char) THEN ",\"type\":\"" \o UUIDText(UUID[r.char]) \o "\"" ELSE "")
        \o (IF p.meta /\ Exists(r.char) THEN FormatText(a.format) ELSE "")
        \o (IF r.status # "Success" THEN ",\"status\":" \o ToString(StatusCode[r.status]) \o "}"
            ELSE (IF success THEN "" ELSE ",\"status\":0")
                 \o ",\"value\":" \o (IF a.switchEvent THEN "null" ELSE ValueText(a, r.value)) \o "}")
        \o (IF p.perms /\ Exists(r.char) THEN PermsText(a) ELSE "")
        \o (IF p.ev /\ Exists(r.char) THEN ",\"ev\":" \o (IF r.ev THEN "true" ELSE "false") ELSE "")
        \o (IF p.meta /\ Exists(r.char) THEN UnitText(a.unit) \o ConstraintsText(a) ELSE "")

\* HAPIPAccessoryProtocolGetCharacteristicReadResponseBytes
ReadResponseText(contexts, p) ==
    Body([i \in DOMAIN contexts |-> ReadText(contexts[i], p, IsSuccess(contexts))])

\* HAPIPAccessoryProtocolGetCharacteristicWriteResponseBytes
WriteResponseText(contexts) ==
    Body([i \in DOMAIN contexts |->
        LET w == contexts[i]
        IN  IdText(w) \o ",\"status\":" \o ToString(StatusCode[w.status])
            \o (IF w.status = "Success" /\ w.response
                THEN ",\"value\":" \o ValueText(Attributes[w.char], w.value) ELSE "") \o "}"])

\* HAPIPAccessoryProtocolGetEventNotificationBytes
EventText(contexts) ==
    Body([i \in DOMAIN contexts |->
        LET r == contexts[i]
        IN  IdText(r) \o ",\"value\":"
            \o (IF r.status = "Success" THEN ValueText(Attributes[r.char], r.value) ELSE "null") \o "}"])

====
