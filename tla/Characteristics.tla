---- MODULE Characteristics ----
(***************************************************************************)
(* Characteristics: their properties and constraints, and the handlers that *)
(* stand between a transport and the callbacks of the application.          *)
(*                                                                         *)
(* A value is a natural or an integer: the number for a number format, the  *)
(* number of bytes for data, strings and TLV8 (their content is abstracted).*)
(* A float is counted in FloatUnit-ths of the step of its characteristic.   *)
(***************************************************************************)
EXTENDS Integers

CONSTANTS
    Characteristics,    \* the characteristics of the accessory
    Attributes,         \* Attributes[c]: see Characteristic
    Bits                \* Bits[f]: the width of the integer format f

UIntFormats == {"uint8", "uint16", "uint32", "uint64"}
BytesFormats == {"data", "string", "tlv8"}
Formats == UIntFormats \cup BytesFormats \cup {"bool", "int", "float"}

\* HAPBaseCharacteristic with its properties and constraints; a step of 0 is no
\* step, and maximum is maxLength for the formats that have one.
Characteristic == [
    format : Formats, hidden : BOOLEAN, supportsAuthorizationData : BOOLEAN,
    unit : {"none", "celsius", "arcdegrees", "percentage", "lux", "seconds"},
    readable : BOOLEAN, writable : BOOLEAN, supportsEventNotification : BOOLEAN,
    requiresTimedWrite : BOOLEAN, supportsWriteResponse : BOOLEAN, controlPoint : BOOLEAN,
    readRequiresAdmin : BOOLEAN, writeRequiresAdmin : BOOLEAN,
    switchEvent : BOOLEAN,      \* of type ProgrammableSwitchEvent
    minimum : Int, maximum : Int, step : Nat,
    validValues : SUBSET Nat]   \* with validValuesRanges; {}: not constrained

ASSUME CharacteristicsAssumption ==
    /\ Attributes \in [Characteristics -> Characteristic]
    /\ Bits \in [UIntFormats \cup {"int"} -> Nat \ {0}]

UIntLimit(f) == 2 ^ Bits[f] - 1
IntLimit == 2 ^ (Bits["int"] - 1) - 1

ReadRequiresAdmin(c) == Attributes[c].readRequiresAdmin
WriteRequiresAdmin(c) == Attributes[c].writeRequiresAdmin

-----------------------------------------------------------------------------
(* Constraints *)

FloatUnit == 20     \* a step of a float is 20 units
FloatTolerance == 2 \* 0.1

\* The distance of v to the step it is next to, halves rounded up.
FromStep(a, v) == ((v - a.minimum + FloatUnit \div 2) % FloatUnit) - FloatUnit \div 2

InRange(a, v) == a.minimum <= v /\ v <= a.maximum

OnStep(a, v) == a.step = 0 \/ ((v - a.minimum) % a.step) = 0

\* value - minimum is an int32_t: when it overflows, a build may go on with the
\* difference or with the difference modulo 2^32.
Differences(a, v) ==
    LET d == v - a.minimum IN IF d > IntLimit THEN {d, d - 2 ^ Bits["int"]} ELSE {d}

IntOnStep(a, v) == a.step = 0 \/ \E d \in Differences(a, v) : d % a.step = 0

FloatOnStep(a, v) == a.step = 0 \/ FromStep(a, v) \in -FloatTolerance .. FloatTolerance

FloatRoundedToStep(a, v) == IF a.step = 0 THEN v ELSE v - FromStep(a, v)

(* Handled: the value that HandleRead and HandleWrite of a format let through, *)
(* {} when it is refused.                                                       *)

DataHandled(a, v) == IF v <= a.maximum THEN {v} ELSE {}

BoolHandled(a, v) == {v}

UInt8Handled(a, v) ==
    IF /\ InRange(a, v) /\ OnStep(a, v)
       /\ a.validValues = {} \/ v \in a.validValues
    THEN {v} ELSE {}

UInt16Handled(a, v) == IF InRange(a, v) /\ OnStep(a, v) THEN {v} ELSE {}
UInt32Handled(a, v) == IF InRange(a, v) /\ OnStep(a, v) THEN {v} ELSE {}
UInt64Handled(a, v) == IF InRange(a, v) /\ OnStep(a, v) THEN {v} ELSE {}

IntHandled(a, v) == IF InRange(a, v) /\ IntOnStep(a, v) THEN {v} ELSE {}

FloatHandled(a, v) ==
    IF InRange(a, v) /\ FloatOnStep(a, v) THEN {FloatRoundedToStep(a, v)} ELSE {}

StringHandled(a, v) == IF v <= a.maximum THEN {v} ELSE {}

TLV8Handled(a, v) == {v}

Handled(a, v) ==
    CASE a.format = "data" -> DataHandled(a, v)
      [] a.format = "bool" -> BoolHandled(a, v)
      [] a.format = "uint8" -> UInt8Handled(a, v)
      [] a.format = "uint16" -> UInt16Handled(a, v)
      [] a.format = "uint32" -> UInt32Handled(a, v)
      [] a.format = "uint64" -> UInt64Handled(a, v)
      [] a.format = "int" -> IntHandled(a, v)
      [] a.format = "float" -> FloatHandled(a, v)
      [] a.format = "string" -> StringHandled(a, v)
      [] a.format = "tlv8" -> TLV8Handled(a, v)

\* HAP<Format>CharacteristicIsValueFulfillingConstraints, of a build that takes v.
Fulfils(a, v) == Handled(a, v) # {}

\* There are builds that refuse v.
MayRefuse(a, v) ==
    \/ ~Fulfils(a, v)
    \/ a.format = "int" /\ a.step # 0 /\ \E d \in Differences(a, v) : d % a.step # 0

\* The values the constraints of a characteristic mean; a TLV8 has no maximal
\* length.
Values(a) ==
    CASE a.format = "bool" -> {0, 1}
      [] a.format = "tlv8" -> Nat
      [] a.format \in {"data", "string"} -> {v \in Nat : v <= a.maximum}
      [] a.format = "float" -> {v \in a.minimum .. a.maximum : FloatOnStep(a, v)}
      [] a.format = "uint8" ->
            {v \in a.minimum .. a.maximum :
                OnStep(a, v) /\ (a.validValues = {} \/ v \in a.validValues)}
      [] OTHER -> {v \in a.minimum .. a.maximum : OnStep(a, v)}

-----------------------------------------------------------------------------
(* Callbacks of the application *)

ReadErrors == {"Unknown", "InvalidState", "OutOfResources", "Busy"}
WriteErrors == ReadErrors \cup {"InvalidData", "NotAuthorized"}

Ok(v) == [error |-> "None", value |-> v]
Failed(e) == [error |-> e, value |-> 0]

\* HAP<Format>CharacteristicHandleRead of a characteristic that has the value v;
\* the application answers with its value or, when it may, with an error.  A value
\* off the constraints fails an assertion: the process ends, no step follows.
HandleRead(a, v, errors) ==
    {Ok(x) : x \in Handled(a, v)} \cup {Failed(e) : e \in errors \cap ReadErrors}

\* Mutant: a value off the constraints reaches the application.
HandleAnyWrite(a, v, errors) ==
    {Ok(v)} \cup {Failed(e) : e \in errors \cap WriteErrors}

\* HAP<Format>CharacteristicHandleWrite: the application takes the value, or
\* refuses it and keeps its own.
HandleWrite(a, v, errors) ==
    (IF MayRefuse(a, v) THEN {Failed("InvalidData")} ELSE {})
    \cup (IF Fulfils(a, v)
          THEN {Ok(x) : x \in Handled(a, v)} \cup {Failed(e) : e \in errors \cap WriteErrors}
          ELSE {})

====
