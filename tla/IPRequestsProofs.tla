------------------------- MODULE IPRequestsProofs -------------------------
(***************************************************************************)
(* Theorems about IPRequests: values fulfil their constraints, the values   *)
(* of one answer lie side by side in the scratch buffer, prepared writes    *)
(* get there and no others, and values for admins stay private.  A request  *)
(* is a loop over its contexts: what holds of the answer is shown by        *)
(* induction on the number of turns.                                        *)
(***************************************************************************)
EXTENDS IPRequests, FiniteSetTheorems, TLAPS

-----------------------------------------------------------------------------
(* Loops *)

\* Induction over the natural numbers, for a set.
LEMMA CountingReachesAll ==
    ASSUME NEW S, 0 \in S, \A n \in S \cap Nat : n + 1 \in S
    PROVE  Nat \subseteq S
  <1> SUFFICES ASSUME NEW n \in Nat, n \notin S PROVE FALSE
    OBVIOUS
  <1> DEFINE A == S \cap 0 .. n
             f == [i \in A |-> i + 1]
  <1>1. IsFiniteSet(0 .. n)
    BY FS_Interval
  <1>2. IsFiniteSet(A) /\ 0 \in A
    BY <1>1, FS_Subset
  <1>3. f \in [A -> A \ {0}] /\ \A i, j \in A : f[i] = f[j] => i = j
    OBVIOUS
  <1> HIDE DEF A, f
  <1>4. IsFiniteSet(A \ {0}) /\ Cardinality(A \ {0}) < Cardinality(A)
    <2>1. Cardinality(A \ {0}) = Cardinality(A) - 1 /\ IsFiniteSet(A \ {0})
      BY <1>2, FS_RemoveElement
    <2>2. Cardinality(A) \in Nat
      BY <1>2, FS_CardinalityType
    <2>3. QED
      BY <2>1, <2>2
  <1>5. QED
    BY <1>2, <1>3, <1>4, FS_PigeonHole

\* The recursive functions of the loops over the contexts of a request.
IsReadLoop(f, request, isAdmin, purpose) ==
    f = [i \in 0 .. Len(request) |->
            IF i = 0 THEN {[contexts |-> <<>>, position |-> 0]}
            ELSE ReadNext(f[i - 1], request[i], isAdmin, purpose)]

IsWriteLoop(f, request, e0, isAdmin, timed) ==
    f = [i \in 0 .. Len(request) |->
            IF i = 0 THEN {e0} ELSE WriteNext(f[i - 1], request[i], isAdmin, timed)]

\* handle_characteristic_read_requests: its function is defined.
LEMMA ReadLoopExists ==
    ASSUME NEW request, NEW isAdmin, NEW purpose, Len(request) \in Nat
    PROVE  \E f : IsReadLoop(f, request, isAdmin, purpose)
  <1> DEFINE Base == {[contexts |-> <<>>, position |-> 0]}
             Turn(X, i) == ReadNext(X, request[i], isAdmin, purpose)
             IsLoop(f, k) == f = [i \in 0 .. k |-> IF i = 0 THEN Base ELSE Turn(f[i - 1], i)]
             Lengths == {k \in Nat : \E f : IsLoop(f, k)}
  <1> HIDE DEF Base, Turn
  <1>1. 0 \in Lengths
    <2>1. IsLoop([i \in 0 .. 0 |-> Base], 0)
      OBVIOUS
    <2>2. QED
      BY <2>1
  <1>2. ASSUME NEW k \in Lengths \cap Nat
        PROVE  k + 1 \in Lengths
    <2>1. PICK f : IsLoop(f, k)
      OBVIOUS
    <2> DEFINE g == [i \in 0 .. k + 1 |-> IF i = k + 1 THEN Turn(f[k], i) ELSE f[i]]
    <2>2. \A i \in 0 .. k + 1 : g[i] = IF i = 0 THEN Base ELSE Turn(g[i - 1], i)
      <3> SUFFICES ASSUME NEW i \in 0 .. k + 1
                   PROVE  g[i] = IF i = 0 THEN Base ELSE Turn(g[i - 1], i)
        OBVIOUS
      <3>1. CASE i = k + 1
        <4>1. i - 1 = k /\ k \in 0 .. k + 1 /\ k # k + 1 /\ i # 0
          BY <3>1
        <4>2. QED
          BY <3>1, <4>1
      <3>2. CASE i = 0
        <4>1. 0 \in 0 .. k /\ 0 # k + 1 /\ f[0] = Base
          BY <2>1
        <4>2. QED
          BY <3>2, <4>1
      <3>3. CASE i # 0 /\ i # k + 1
        <4>1. i \in 0 .. k /\ i - 1 \in 0 .. k /\ i - 1 # k + 1 /\ i - 1 \in 0 .. k + 1
          BY <3>3
        <4>2. f[i] = Turn(f[i - 1], i)
          BY <2>1, <3>3, <4>1
        <4>3. g[i] = f[i] /\ g[i - 1] = f[i - 1]
          BY <3>3, <4>1
        <4>4. QED
          BY <3>3, <4>2, <4>3
      <3>4. QED
        BY <3>1, <3>2, <3>3
    <2>3. IsLoop(g, k + 1)
      BY <2>2
    <2> HIDE DEF g
    <2>4. \E h : IsLoop(h, k + 1)
      BY <2>3
    <2> HIDE DEF IsLoop
    <2>5. QED
      BY <2>4
  <1> HIDE DEF Lengths
  <1>3. Nat \subseteq Lengths
    BY <1>1, <1>2, CountingReachesAll
  <1>4. \E f : IsLoop(f, Len(request))
    BY <1>3 DEF Lengths
  <1>5. QED
    BY <1>4 DEF Base, Turn, IsReadLoop


\* handle_characteristic_write_requests: its function is defined.
LEMMA WriteLoopExists ==
    ASSUME NEW request, NEW e0, NEW isAdmin, NEW timed, Len(request) \in Nat
    PROVE  \E f : IsWriteLoop(f, request, e0, isAdmin, timed)
  <1> DEFINE Turn(X, i) == WriteNext(X, request[i], isAdmin, timed)
             IsLoop(f, k) == f = [i \in 0 .. k |-> IF i = 0 THEN {e0} ELSE Turn(f[i - 1], i)]
             Lengths == {k \in Nat : \E f : IsLoop(f, k)}
  <1> HIDE DEF Turn
  <1>1. 0 \in Lengths
    <2>1. IsLoop([i \in 0 .. 0 |-> {e0}], 0)
      OBVIOUS
    <2>2. QED
      BY <2>1
  <1>2. ASSUME NEW k \in Lengths \cap Nat
        PROVE  k + 1 \in Lengths
    <2>1. PICK f : IsLoop(f, k)
      OBVIOUS
    <2> DEFINE g == [i \in 0 .. k + 1 |-> IF i = k + 1 THEN Turn(f[k], i) ELSE f[i]]
    <2>2. \A i \in 0 .. k + 1 : g[i] = IF i = 0 THEN {e0} ELSE Turn(g[i - 1], i)
      <3> SUFFICES ASSUME NEW i \in 0 .. k + 1
                   PROVE  g[i] = IF i = 0 THEN {e0} ELSE Turn(g[i - 1], i)
        OBVIOUS
      <3>1. CASE i = k + 1
        <4>1. i - 1 = k /\ k \in 0 .. k + 1 /\ k # k + 1 /\ i # 0
          BY <3>1
        <4>2. QED
          BY <3>1, <4>1
      <3>2. CASE i = 0
        <4>1. 0 \in 0 .. k /\ 0 # k + 1 /\ f[0] = {e0}
          BY <2>1
        <4>2. QED
          BY <3>2, <4>1
      <3>3. CASE i # 0 /\ i # k + 1
        <4>1. i \in 0 .. k /\ i - 1 \in 0 .. k /\ i - 1 # k + 1 /\ i - 1 \in 0 .. k + 1
          BY <3>3
        <4>2. f[i] = Turn(f[i - 1], i)
          BY <2>1, <3>3, <4>1
        <4>3. g[i] = f[i] /\ g[i - 1] = f[i - 1]
          BY <3>3, <4>1
        <4>4. QED
          BY <3>3, <4>2, <4>3
      <3>4. QED
        BY <3>1, <3>2, <3>3
    <2>3. IsLoop(g, k + 1)
      BY <2>2
    <2> HIDE DEF g
    <2>4. \E h : IsLoop(h, k + 1)
      BY <2>3
    <2> HIDE DEF IsLoop
    <2>5. QED
      BY <2>4
  <1> HIDE DEF Lengths
  <1>3. Nat \subseteq Lengths
    BY <1>1, <1>2, CountingReachesAll
  <1>4. \E f : IsLoop(f, Len(request))
    BY <1>3 DEF Lengths
  <1>5. QED
    BY <1>4 DEF Turn, IsWriteLoop

-----------------------------------------------------------------------------
(* Constraints *)

LEMMA AttributesTyped ==
    ASSUME NEW c \in Characteristics
    PROVE  /\ Attributes[c] \in Characteristic
           /\ Attributes[c].format \in Formats
           /\ Attributes[c].minimum \in Int /\ Attributes[c].maximum \in Int
           /\ Attributes[c].step \in Nat
  BY CharacteristicsAssumption DEF Characteristic

LEMMA BitsTyped == 2 ^ (Bits["int"] - 1) \in Int
  BY CharacteristicsAssumption

\* Rounding to a step moves a float by less than half of it, to the step.
LEMMA RoundingIsStable ==
    ASSUME NEW a, a.minimum \in Int, NEW v \in Int
    PROVE  /\ FromStep(a, v) \in -10 .. 9
           /\ v - FromStep(a, v) \in Int
           /\ FromStep(a, v - FromStep(a, v)) = 0
           /\ (v - FromStep(a, v) - a.minimum) % 20 = 0
  <1> DEFINE m == a.minimum
             d == v - m + 10
             r == d % 20
             q == d \div 20
  <1>0. m \in Int /\ d \in Int
    OBVIOUS
  <1>1. r \in 0 .. 19 /\ q \in Int /\ d = 20 * q + r
    <2> HIDE DEF d
    <2>1. QED
      BY <1>0
  <1>2. FromStep(a, v) = r - 10
    BY DEF FromStep, FloatUnit
  <1> HIDE DEF d, r, q
  <1>3. v - (r - 10) - m = 20 * q
    BY <1>0, <1>1 DEF d
  <1>4. (20 * q) % 20 = 0 /\ (20 * q + 10) % 20 = 10
    BY <1>1
  <1>5. v - (r - 10) - m + 10 = 20 * q + 10
    BY <1>0, <1>1, <1>3
  <1>6. FromStep(a, v - (r - 10)) = 0
    <2>1. FromStep(a, v - (r - 10)) = ((v - (r - 10) - m + 10) % 20) - 10
      BY DEF FromStep, FloatUnit
    <2>2. QED
      BY <1>4, <1>5, <2>1
  <1>7. QED
    BY <1>0, <1>1, <1>2, <1>3, <1>4, <1>6


\* Values are what the formats are made of.
LEMMA ValuesTyped ==
    ASSUME NEW c \in Characteristics, NEW v, Near(Attributes[c], v)
    PROVE  /\ v \in Int
           /\ Attributes[c].format = "bool" => v \in {0, 1}
           /\ Attributes[c].format \in BytesFormats => v \in Nat
  <1> DEFINE a == Attributes[c]
  <1>1. a.format \in Formats /\ a.minimum \in Int /\ a.maximum \in Int
    BY AttributesTyped
  <1>2. CASE v \in Values(a)
    BY <1>1, <1>2 DEF Values, BytesFormats, Formats, UIntFormats
  <1>3. CASE PastMaximum(a, v)
    BY <1>1, <1>3 DEF PastMaximum, BytesFormats, FloatTolerance
  <1>4. CASE PastWidth(a, v)
    BY <1>1, <1>4 DEF PastWidth, BytesFormats
  <1>5. QED
    BY <1>2, <1>3, <1>4 DEF Near

\* The formats whose values are passed on as they are.
LEMMA PlainHandled ==
    ASSUME NEW a, a.format \in Formats \ {"float"}, NEW v \in Int, NEW x \in Handled(a, v)
    PROVE  x = v
  <1>1. x \in {v}
    BY DEF Handled, Formats, UIntFormats, BytesFormats, DataHandled, BoolHandled, UInt8Handled,
           UInt16Handled, UInt32Handled, UInt64Handled, IntHandled, StringHandled, TLV8Handled
  <1>2. QED
    BY <1>1

\* A float is passed on when it is near a step, as that step, which may lie past the
\* maximum.
LEMMA FloatHandledFits ==
    ASSUME NEW a, a.minimum \in Int, a.maximum \in Int, a.format = "float",
           NEW v \in Int, NEW x \in Handled(a, v)
    PROVE  Near(a, x)
  <1> DEFINE m == a.minimum
             M == a.maximum
  <1>1. x \in FloatHandled(a, v)
    BY DEF Handled
  <1>2. InRange(a, v) /\ FloatOnStep(a, v) /\ x = FloatRoundedToStep(a, v)
    BY <1>1 DEF FloatHandled
  <1>3. CASE a.step = 0
    <2>1. x = v
      BY <1>2, <1>3 DEF FloatRoundedToStep
    <2>2. QED
      BY <1>2, <2>1 DEF InRange, Near, Values
  <1>4. CASE a.step # 0
    <2>1. FromStep(a, v) \in -2 .. 2 /\ x = v - FromStep(a, v)
      BY <1>2, <1>4 DEF FloatOnStep, FloatRoundedToStep, FloatTolerance
    <2>2. x \in Int /\ FromStep(a, x) = 0 /\ (x - m) % 20 = 0
      BY <2>1, RoundingIsStable
    <2>3. m <= v /\ v <= M /\ m \in Int /\ M \in Int
      BY <1>2 DEF InRange
    <2>4. m <= x /\ x <= M + 2
      BY <2>1, <2>2, <2>3
    <2>5. CASE x <= M
      <3>1. FloatOnStep(a, x)
        BY <2>2 DEF FloatOnStep, FloatTolerance
      <3>2. QED
        BY <2>2, <2>3, <2>4, <2>5, <3>1 DEF Near, Values
    <2>6. CASE x > M
      BY <1>4, <2>2, <2>3, <2>4, <2>6 DEF Near, PastMaximum, FloatTolerance
    <2>7. QED
      BY <2>2, <2>3, <2>5, <2>6
  <1>5. QED
    BY <1>3, <1>4

\* An integer is passed on as it is, and when its distance to the minimum does not
\* overflow it is on the step.
LEMMA IntHandledFits ==
    ASSUME NEW a, a.minimum \in Int, a.maximum \in Int, a.step \in Nat, a.format = "int",
           NEW v \in Int, v \in IntHandled(a, v)
    PROVE  Near(a, v)
  <1>1. InRange(a, v) /\ IntOnStep(a, v)
    BY DEF IntHandled
  <1>2. v \in a.minimum .. a.maximum
    BY <1>1 DEF InRange
  <1>3. CASE a.step = 0
    BY <1>2, <1>3 DEF Near, Values, OnStep
  <1>4. CASE a.step # 0 /\ v - a.minimum > IntLimit
    BY <1>2, <1>4 DEF Near, PastWidth
  <1>5. CASE a.step # 0 /\ ~(v - a.minimum > IntLimit)
    <2>1. Differences(a, v) = {v - a.minimum}
      BY <1>5 DEF Differences
    <2>2. OnStep(a, v)
      BY <1>1, <1>5, <2>1 DEF IntOnStep, OnStep
    <2>3. QED
      BY <1>2, <2>2 DEF Near, Values
  <1>6. QED
    BY <1>3, <1>4, <1>5

\* What a handler passes on is a value of the characteristic, or nearly.
LEMMA HandledFits ==
    ASSUME NEW c \in Characteristics, NEW v \in Int, NEW x \in Handled(Attributes[c], v),
           Attributes[c].format = "bool" => v \in {0, 1},
           Attributes[c].format \in BytesFormats => v \in Nat
    PROVE  /\ Near(Attributes[c], x)
           /\ Attributes[c].format \in BytesFormats => x = v
  <1> DEFINE a == Attributes[c]
  <1>1. a.format \in Formats /\ a.minimum \in Int /\ a.maximum \in Int /\ a.step \in Nat
    BY AttributesTyped
  <1> HIDE DEF a
  <1>2. CASE a.format = "float"
    <2>1. Near(a, x)
      BY <1>1, <1>2, FloatHandledFits DEF a
    <2>2. QED
      BY <1>2, <2>1 DEF BytesFormats, a
  <1>3. CASE a.format = "int"
    <2>1. x = v /\ v \in IntHandled(a, v)
      BY <1>1, <1>3, PlainHandled DEF a, Handled
    <2>2. Near(a, v)
      BY <1>1, <1>3, <2>1, IntHandledFits
    <2>3. QED
      BY <1>3, <2>1, <2>2 DEF BytesFormats, a
  <1>4. CASE a.format \notin {"float", "int"}
    <2>1. x = v /\ v \in Handled(a, v)
      BY <1>1, <1>4, PlainHandled DEF a
    <2>2. CASE a.format \in BytesFormats \cup {"bool"}
      <3>1. v \in Values(a)
        BY <2>1, <2>2 DEF Values, Handled, DataHandled, StringHandled, BytesFormats, a
      <3>2. QED
        BY <2>1, <3>1 DEF Near, a
    <2>3. CASE a.format \in UIntFormats
      <3>1. InRange(a, v) /\ OnStep(a, v)
            /\ (a.format = "uint8" => a.validValues = {} \/ v \in a.validValues)
        BY <2>1, <2>3 DEF Handled, UIntFormats, UInt8Handled, UInt16Handled, UInt32Handled,
                          UInt64Handled
      <3>2. v \in a.minimum .. a.maximum
        BY <1>1, <3>1 DEF InRange
      <3>3. v \in Values(a)
        BY <2>3, <3>1, <3>2 DEF Values, UIntFormats
      <3>4. QED
        BY <2>1, <3>3 DEF Near, a
    <2>4. QED
      BY <1>1, <1>4, <2>2, <2>3 DEF Formats
  <1>5. QED
    BY <1>2, <1>3, <1>4

\* The constraints leave no room for the exceptions.
IsExact(a) ==
    /\ a.format = "float" /\ a.step # 0 => FloatRoundedToStep(a, a.maximum) <= a.maximum
    /\ a.format = "int" /\ a.step # 0 => a.maximum - a.minimum <= IntLimit

LEMMA NearIsExact ==
    ASSUME NEW c \in Characteristics, IsExact(Attributes[c]), NEW v, Near(Attributes[c], v)
    PROVE  v \in Values(Attributes[c])
  <1> DEFINE a == Attributes[c]
             m == a.minimum
             M == a.maximum
  <1>1. m \in Int /\ M \in Int /\ v \in Int
    BY AttributesTyped, ValuesTyped
  <1>2. ASSUME PastMaximum(a, v) PROVE FALSE
    <2>1. a.format = "float" /\ a.step # 0 /\ M < v /\ v <= M + 2 /\ FromStep(a, v) = 0
      BY <1>1, <1>2 DEF PastMaximum, FloatTolerance
    <2>2. (v - m) % 20 = 0
      <3>1. (v - FromStep(a, v) - m) % 20 = 0
        BY <1>1, RoundingIsStable
      <3>2. QED
        BY <1>1, <2>1, <3>1
    <2> DEFINE d == M - m + 10
    <2>3. M - v \in -2 .. -1
      BY <1>1, <2>1
    <2>4. d % 20 = 10 + (M - v)
      <3> DEFINE y == v - m
      <3>1. y \in Int /\ y % 20 = 0 /\ d = y + 10 + (M - v)
        BY <1>1, <2>2
      <3> HIDE DEF y, d
      <3>2. QED
        BY <2>3, <3>1
    <2>5. FromStep(a, M) = M - v
      BY <1>1, <2>4 DEF FromStep, FloatUnit
    <2>6. FloatRoundedToStep(a, M) = v
      BY <1>1, <2>1, <2>5 DEF FloatRoundedToStep
    <2>7. QED
      BY <1>1, <2>1, <2>6 DEF IsExact
  <1>3. ASSUME PastWidth(a, v) PROVE FALSE
    <2>1. IntLimit \in Int
      BY BitsTyped DEF IntLimit
    <2>2. QED
      BY <1>1, <1>3, <2>1 DEF PastWidth, IsExact
  <1>4. QED
    BY <1>2, <1>3 DEF Near


-----------------------------------------------------------------------------
(* Answers *)

Statuses == {
    "Success", "UnableToPerformOperation", "OutOfResources", "InsufficientAuthorization",
    "ResourceIsBusy", "InsufficientPrivileges", "ReadFromWriteOnlyCharacteristic",
    "ResourceDoesNotExist", "WriteToReadOnlyCharacteristic", "NotificationNotSupported",
    "InvalidValueInWrite"}

ContextType == [
    char : STRING, status : Statuses, read : BOOLEAN, value : Int, from : Nat, to : Nat,
    handled : BOOLEAN]

HasSlice(x) == x.from # x.to

\* The slices of the contexts lie side by side, before the position.
Packed(contexts, position) ==
    \A i \in 1 .. Len(contexts) : HasSlice(contexts[i]) =>
        /\ contexts[i].to <= ScratchBytes /\ contexts[i].to <= position
        /\ \A j \in 1 .. Len(contexts) :
               i < j /\ HasSlice(contexts[j]) => contexts[i].to <= contexts[j].from

\* Only an admin is shown a value for admins.
IsPrivate(x, isAdmin) == x.read /\ ReadRequiresAdmin(x.char) => isAdmin

\* A context that has its slice, if any, between two positions.
Between(x, position, next) ==
    /\ position \in Nat /\ next \in Nat /\ position <= next
    /\ HasSlice(x) => x.from = position /\ x.to <= next /\ x.to <= ScratchBytes

LEMMA ContextTyped ==
    ASSUME NEW c \in STRING, NEW status \in Statuses
    PROVE  /\ Context(c, status) \in ContextType
           /\ Context(c, status).char = c /\ Context(c, status).status = status
           /\ ~HasSlice(Context(c, status))
           /\ ~Context(c, status).read /\ ~Context(c, status).handled
  BY DEF Context, ContextType, HasSlice

LEMMA StatusesTyped ==
    /\ \A e \in ReadErrors : ReadStatus(e) \in Statuses \ {"InvalidValueInWrite", "Success"}
    /\ \A e \in WriteErrors : WriteStatus(e) \in Statuses
    /\ \A e \in WriteErrors \ {"InvalidData"} : WriteStatus(e) # "InvalidValueInWrite"
  <1>1. ASSUME NEW e \in ReadErrors \cup {"NotAuthorized"}
        PROVE  /\ ReadStatus(e) \in Statuses
               /\ ReadStatus(e) # "InvalidValueInWrite" /\ ReadStatus(e) # "Success"
    <2>1. CASE e \in {"Unknown", "InvalidState"}
      BY <2>1 DEF ReadStatus, Statuses
    <2>2. CASE e = "OutOfResources"
      BY <2>2 DEF ReadStatus, Statuses
    <2>3. CASE e = "NotAuthorized"
      BY <2>3 DEF ReadStatus, Statuses
    <2>4. CASE e = "Busy"
      BY <2>4 DEF ReadStatus, Statuses
    <2>5. QED
      BY <2>1, <2>2, <2>3, <2>4 DEF ReadErrors
  <1>2. WriteStatus("InvalidData") \in Statuses
    BY DEF WriteStatus, Statuses
  <1>3. ASSUME NEW e \in WriteErrors \ {"InvalidData"}
        PROVE  WriteStatus(e) \in Statuses /\ WriteStatus(e) # "InvalidValueInWrite"
    <2>1. e \in ReadErrors \cup {"NotAuthorized"} /\ WriteStatus(e) = ReadStatus(e)
      BY DEF WriteErrors, WriteStatus
    <2>2. QED
      BY <1>1, <2>1
  <1>4. QED
    BY <1>1, <1>2, <1>3 DEF WriteErrors

\* Placing one more value behind the others.
LEMMA AppendFits ==
    ASSUME NEW contexts \in Seq(ContextType), NEW x \in ContextType,
           NEW position, NEW next, Packed(contexts, position), Between(x, position, next)
    PROVE  /\ Append(contexts, x) \in Seq(ContextType)
           /\ Len(Append(contexts, x)) = Len(contexts) + 1 /\ Len(contexts) \in Nat
           /\ \A i \in 1 .. Len(contexts) : Append(contexts, x)[i] = contexts[i]
           /\ Append(contexts, x)[Len(contexts) + 1] = x
           /\ Packed(Append(contexts, x), next)
  <1> DEFINE longer == Append(contexts, x)
             n == Len(contexts)
  <1>1. /\ longer \in Seq(ContextType) /\ Len(longer) = n + 1 /\ n \in Nat
        /\ \A i \in 1 .. n : longer[i] = contexts[i] /\ contexts[i] \in ContextType
        /\ longer[n + 1] = x
    OBVIOUS
  <1> HIDE DEF longer, n
  <1>2. position \in Nat /\ next \in Nat /\ position <= next /\ ScratchBytes \in Nat
    BY IPRequestsAssumption DEF Between
  <1>3. ASSUME NEW i \in 1 .. n + 1, HasSlice(longer[i])
        PROVE  /\ longer[i].to <= ScratchBytes /\ longer[i].to <= next
               /\ \A j \in 1 .. n + 1 :
                      i < j /\ HasSlice(longer[j]) => longer[i].to <= longer[j].from
    <2>1. CASE i = n + 1
      BY <1>1, <1>2, <1>3, <2>1 DEF Between
    <2>2. CASE i # n + 1
      <3>1. i \in 1 .. n /\ longer[i] = contexts[i] /\ contexts[i].to \in Nat
        BY <1>1, <2>2 DEF ContextType
      <3>2. /\ contexts[i].to <= ScratchBytes /\ contexts[i].to <= position
            /\ \A j \in 1 .. n :
                   i < j /\ HasSlice(contexts[j]) => contexts[i].to <= contexts[j].from
        BY <1>3, <3>1 DEF Packed, n
      <3>3. ASSUME NEW j \in 1 .. n + 1, i < j, HasSlice(longer[j])
            PROVE  longer[i].to <= longer[j].from
        <4>1. CASE j = n + 1
          BY <1>1, <1>2, <3>1, <3>2, <3>3, <4>1 DEF Between
        <4>2. CASE j # n + 1
          BY <1>1, <3>1, <3>2, <3>3, <4>2
        <4>3. QED
          BY <4>1, <4>2
      <3>4. QED
        BY <1>2, <3>1, <3>2, <3>3
    <2>3. QED
      BY <2>1, <2>2
  <1>4. Packed(longer, next)
    BY <1>1, <1>3 DEF Packed
  <1>5. QED
    BY <1>1, <1>4 DEF longer, n


\* handle_characteristic_read_request: the value gets the slice at the position, if it fits.
LEMMA ReadRequestFits ==
    ASSUME NEW c \in Characteristics, NEW v, Near(Attributes[c], v), NEW position \in Nat,
           NEW n \in HandleReadRequest(c, v, position)
    PROVE  /\ n.context \in ContextType /\ n.context.char = c
           /\ n.context.status # "InvalidValueInWrite" /\ ~n.context.handled
           /\ Between(n.context, position, n.position)
  <1> DEFINE a == Attributes[c]
             x == n.context
  <1>1. /\ v \in Int
        /\ a.format \in BytesFormats => v \in Nat
        /\ a.format = "bool" => v \in {0, 1}
    BY ValuesTyped
  <1>2. c \in STRING /\ ScratchBytes \in Nat
    BY IPRequestsAssumption
  <1>3. PICK r \in HandleRead(a, v, Errors) :
            LET slice == Slice(a, position, r.value)
            IN  n = IF r.error # "None"
                    THEN [context |-> Context(c, ReadStatus(r.error)), position |-> position]
                    ELSE IF slice.to > ScratchBytes
                    THEN [context |-> Context(c, "OutOfResources"), position |-> position]
                    ELSE [context |-> [Context(c, "Success") EXCEPT
                                           !.read = TRUE, !.value = r.value,
                                           !.from = slice.from, !.to = slice.to],
                          position |-> slice.next]
    BY DEF HandleReadRequest
  <1>4. \/ r.error \in ReadErrors
        \/ r.error = "None" /\ r.value \in Handled(a, v)
    BY <1>3 DEF HandleRead, Ok, Failed
  <1> DEFINE slice == Slice(a, position, r.value)
  <1>5. CASE r.error \in ReadErrors
    <2>1. r.error # "None"
      BY <1>5 DEF ReadErrors
    <2>2. x = Context(c, ReadStatus(r.error)) /\ n.position = position
      BY <1>3, <2>1
    <2>3. ReadStatus(r.error) \in Statuses /\ ReadStatus(r.error) # "InvalidValueInWrite"
      BY <1>5, StatusesTyped
    <2>4. QED
      BY <1>2, <2>2, <2>3, ContextTyped DEF Between
  <1>6. CASE r.error = "None" /\ slice.to > ScratchBytes
    <2>1. x = Context(c, "OutOfResources") /\ n.position = position
      BY <1>3, <1>6
    <2>2. "OutOfResources" \in Statuses /\ "OutOfResources" # "InvalidValueInWrite"
      BY DEF Statuses
    <2>3. QED
      BY <1>2, <2>1, <2>2, ContextTyped DEF Between
  <1>7. CASE r.error = "None" /\ ~(slice.to > ScratchBytes)
    <2>1. /\ x = [Context(c, "Success") EXCEPT !.read = TRUE, !.value = r.value,
                                              !.from = slice.from, !.to = slice.to]
          /\ n.position = slice.next
      BY <1>3, <1>7
    <2>2. /\ r.value \in Int
          /\ a.format \in BytesFormats => r.value \in Nat
      <3>1. r.value \in Handled(a, v)
        BY <1>4, <1>7 DEF ReadErrors
      <3>2. Near(a, r.value)
        BY <1>1, <3>1, HandledFits
      <3>3. QED
        BY <3>2, ValuesTyped
    <2>3. /\ slice.from = position /\ slice.to \in Nat /\ slice.next \in Nat
          /\ position <= slice.next /\ slice.to <= slice.next
      <3>1. CASE a.format \notin BytesFormats
        BY <3>1 DEF Slice
      <3>2. CASE a.format \in BytesFormats
        <4>1. EncodedBytes(a, r.value) \in Nat
          <5>1. r.value \in Nat
            BY <2>2, <3>2
          <5>2. (r.value + 2) \div 3 \in Nat
            BY <5>1
          <5>3. QED
            BY <5>1, <5>2 DEF EncodedBytes
        <4>2. QED
          BY <3>2, <4>1 DEF Slice
      <3>3. QED
        BY <3>1, <3>2
    <2> HIDE DEF slice
    <2>4. /\ x.char = c /\ x.status = "Success" /\ x.read = TRUE /\ x.value = r.value
          /\ x.from = slice.from /\ x.to = slice.to /\ x.handled = FALSE
          /\ x \in ContextType
      BY <1>2, <2>1, <2>2, <2>3 DEF Context, ContextType, Statuses
    <2>5. Between(x, position, n.position)
      BY <1>2, <1>7, <2>1, <2>3, <2>4 DEF Between
    <2>6. QED
      BY <2>4, <2>5
  <1>8. QED
    BY <1>4, <1>5, <1>6, <1>7


\* One turn of handle_characteristic_read_requests.
LEMMA ReadOneFits ==
    ASSUME ValuesNearConstraints, NEW c \in STRING, NEW isAdmin, NEW purpose,
           NEW position \in Nat, NEW n \in ReadOne(c, isAdmin, purpose, position)
    PROVE  /\ n.context \in ContextType /\ IsPrivate(n.context, isAdmin)
           /\ Between(n.context, position, n.position)
  <1> DEFINE Without(status) == {[context |-> Context(c, status), position |-> position]}
  <1>1. ASSUME NEW status \in Statuses, n \in Without(status)
        PROVE  /\ n.context \in ContextType /\ IsPrivate(n.context, isAdmin)
               /\ Between(n.context, position, n.position)
    <2>1. n.context = Context(c, status) /\ n.position = position
      BY <1>1
    <2>2. QED
      BY <2>1, ContextTyped DEF Between, IsPrivate
  <1>2. \A status \in {"Success", "ResourceDoesNotExist", "UnableToPerformOperation",
                       "InsufficientPrivileges", "ReadFromWriteOnlyCharacteristic"} :
            status \in Statuses
    BY DEF Statuses
  <1>3. CASE c \notin Characteristics
    <2>1. n \in Without("ResourceDoesNotExist")
      BY <1>3 DEF ReadOne
    <2>2. QED
      BY <1>1, <1>2, <2>1
  <1>4. CASE c \in Characteristics /\ MayRead(c, isAdmin, purpose) # "Success"
    <2> DEFINE status == MayRead(c, isAdmin, purpose)
    <2>1. n \in Without(status)
      BY <1>4 DEF ReadOne
    <2>2. status \in Statuses
      BY <1>2, <1>4 DEF MayRead
    <2> HIDE DEF status
    <2>3. QED
      BY <1>1, <2>1, <2>2
  <1>5. CASE c \in Characteristics /\ MayRead(c, isAdmin, purpose) = "Success"
    <2>1. \/ n \in Without("Success") \/ n \in Without("UnableToPerformOperation")
          \/ n \in HandleReadRequest(c, value[c], position)
      BY <1>5 DEF ReadOne
    <2>2. CASE n \in HandleReadRequest(c, value[c], position)
      <3>1. /\ n.context \in ContextType /\ n.context.char = c
            /\ Between(n.context, position, n.position)
        BY <1>5, <2>2, ReadRequestFits DEF ValuesNearConstraints
      <3>2. ReadRequiresAdmin(c) => isAdmin
        BY <1>5 DEF MayRead
      <3>3. QED
        BY <3>1, <3>2 DEF IsPrivate
    <2>3. QED
      BY <1>1, <1>2, <2>1, <2>2
  <1>6. QED
    BY <1>3, <1>4, <1>5

\* What the first turns of a loop leave.
ReadSoFar(r, k, isAdmin) ==
    /\ r.contexts \in Seq(ContextType) /\ Len(r.contexts) = k
    /\ r.position \in Nat /\ Packed(r.contexts, r.position)
    /\ \A i \in 1 .. k : IsPrivate(r.contexts[i], isAdmin)

LEMMA ReadNextFits ==
    ASSUME ValuesNearConstraints, NEW c \in STRING, NEW isAdmin, NEW purpose,
           NEW k \in Nat, NEW R, \A r \in R : ReadSoFar(r, k, isAdmin),
           NEW d \in ReadNext(R, c, isAdmin, purpose)
    PROVE  ReadSoFar(d, k + 1, isAdmin)
  <1>0. PICK r \in R : \E n \in ReadOne(c, isAdmin, purpose, r.position) :
            d = [contexts |-> Append(r.contexts, n.context), position |-> n.position]
    BY DEF ReadNext
  <1>1. PICK n \in ReadOne(c, isAdmin, purpose, r.position) :
            d = [contexts |-> Append(r.contexts, n.context), position |-> n.position]
    BY <1>0
  <1>2. /\ n.context \in ContextType /\ IsPrivate(n.context, isAdmin)
        /\ Between(n.context, r.position, n.position)
    BY <1>1, ReadOneFits DEF ReadSoFar
  <1> DEFINE x == n.context
             longer == Append(r.contexts, x)
  <1>3. d.contexts = longer /\ d.position = n.position /\ n.position \in Nat
    BY <1>1, <1>2 DEF Between
  <1>4. /\ r.contexts \in Seq(ContextType) /\ Len(r.contexts) = k
        /\ Packed(r.contexts, r.position)
    BY DEF ReadSoFar
  <1>5. /\ longer \in Seq(ContextType) /\ Len(longer) = k + 1
        /\ \A i \in 1 .. k : longer[i] = r.contexts[i]
        /\ longer[k + 1] = x
        /\ Packed(longer, n.position)
    BY <1>2, <1>4, AppendFits
  <1> HIDE DEF longer, x
  <1>6. \A i \in 1 .. k + 1 : IsPrivate(longer[i], isAdmin)
    <2>1. ASSUME NEW i \in 1 .. k + 1 PROVE IsPrivate(longer[i], isAdmin)
      <3>1. CASE i = k + 1
        BY <1>2, <1>5, <3>1 DEF x
      <3>2. CASE i # k + 1
        <4>1. i \in 1 .. k
          BY <3>2
        <4>2. QED
          BY <1>5, <4>1 DEF ReadSoFar
      <3>3. QED
        BY <3>1, <3>2
    <2>2. QED
      BY <2>1
  <1>7. QED
    BY <1>3, <1>5, <1>6 DEF ReadSoFar

IsRequest(request) == Len(request) \in Nat /\ \A i \in 1 .. Len(request) : request[i] \in STRING

\* The contexts of an answer to a read.
LEMMA HandleReadRequestsFits ==
    ASSUME ValuesNearConstraints, NEW request, IsRequest(request), NEW isAdmin,
           NEW purpose, NEW contexts \in HandleReadRequests(request, isAdmin, purpose)
    PROVE  \E r : ReadSoFar(r, Len(request), isAdmin) /\ contexts = r.contexts
  <1> DEFINE n == Len(request)
             Base == {[contexts |-> <<>>, position |-> 0]}
             Turn(X, i) == ReadNext(X, request[i], isAdmin, purpose)
             IsLoop(f) == IsReadLoop(f, request, isAdmin, purpose)
  <1>1. n \in Nat /\ Len(request) \in Nat
    BY DEF IsRequest
  <1>2. \E f : IsLoop(f)
    BY <1>1, ReadLoopExists, Zenon
  <1>3. IsLoop(CHOOSE f : IsLoop(f))
    BY <1>2
  <1>4. contexts \in {r.contexts : r \in (CHOOSE f : IsLoop(f))[Len(request)]}
    BY DEF HandleReadRequests, IsReadLoop
  <1>5. PICK f : IsLoop(f) /\ contexts \in {r.contexts : r \in f[n]}
    BY <1>3, <1>4
  <1>6. /\ f[0] = Base
        /\ \A k \in Nat : k + 1 <= n => f[k + 1] = Turn(f[k], k + 1)
    BY <1>1, <1>5 DEF IsReadLoop
  <1> HIDE DEF n, IsLoop, Base
  <1> DEFINE Good == {k \in Nat : k <= n => \A r \in f[k] : ReadSoFar(r, k, isAdmin)}
  <1>7. 0 \in Good
    <2>1. ASSUME NEW r \in f[0] PROVE ReadSoFar(r, 0, isAdmin)
      <3>1. r.contexts = <<>> /\ r.position = 0
        BY <1>6, <2>1 DEF Base
      <3>2. QED
        BY <3>1 DEF ReadSoFar, Packed
    <2>2. QED
      BY <2>1
  <1>8. ASSUME NEW k \in Good \cap Nat PROVE k + 1 \in Good
    <2> SUFFICES ASSUME k + 1 <= n, NEW d \in f[k + 1] PROVE ReadSoFar(d, k + 1, isAdmin)
      OBVIOUS
    <2>1. k <= n
      BY <1>1
    <2>2. d \in ReadNext(f[k], request[k + 1], isAdmin, purpose)
      BY <1>6
    <2>3. \A r \in f[k] : ReadSoFar(r, k, isAdmin)
      BY <2>1
    <2>4. request[k + 1] \in STRING
      BY <1>1 DEF IsRequest, n
    <2>5. QED
      BY <2>2, <2>3, <2>4, ReadNextFits
  <1> HIDE DEF Good
  <1>9. n \in Good
    BY <1>1, <1>7, <1>8, CountingReachesAll
  <1>10. \A r \in f[n] : ReadSoFar(r, n, isAdmin)
    BY <1>1, <1>9 DEF Good
  <1>11. QED
    BY <1>5, <1>10 DEF n


-----------------------------------------------------------------------------
(* Writes *)

\* The values and subscriptions that a write has made.
IsLegal(e) ==
    /\ DOMAIN e = {"value", "subscribed", "position", "contexts"}
    /\ e.value \in [Characteristics -> Int] /\ e.subscribed \subseteq Characteristics
    /\ \A c \in Characteristics : Near(Attributes[c], e.value[c])
    /\ e.position \in Nat

\* One more context is answered.
Grows(e, d, x) ==
    /\ IsLegal(d) /\ x \in ContextType /\ d.contexts = Append(e.contexts, x)
    /\ Between(x, e.position, d.position)

\* The application can take the value.
IsFit(w) ==
    /\ w.char \in Characteristics /\ w.type # "none" /\ w.auth # "invalid"
    /\ Accepted(Attributes[w.char], w) /\ ~MayRefuse(Attributes[w.char], w.n)

\* An application that turns no value down as invalid that fulfils the constraints it has declared.
ApplicationTakesFittingValues == "InvalidData" \notin Errors

\* What is answered to one write context.
TurnFits(x, w, isAdmin, timed) ==
    /\ IsPrivate(x, isAdmin)
    /\ x.handled /\ Attributes[w.char].requiresTimedWrite => timed
    /\ ApplicationTakesFittingValues /\ timed /\ IsFit(w) => x.status # "InvalidValueInWrite"

\* A value is written with what its type in JSON says.
IsWrite(w) == w \in WriteContext /\ (w.type \in {"uint", "string"} => w.n >= 0)

\* A context without a value.
LEMMA RefuseFits ==
    ASSUME NEW e, IsLegal(e), NEW c \in STRING, NEW status \in Statuses,
           NEW d, d = [e EXCEPT !.contexts = Append(@, Context(c, status))]
    PROVE  Grows(e, d, Context(c, status))
  <1>1. IsLegal(d) /\ d.contexts = Append(e.contexts, Context(c, status)) /\ d.position = e.position
    BY DEF IsLegal
  <1>2. QED
    BY <1>1, ContextTyped DEF Grows, Between, IsLegal

\* The value is read again for the response only when that is supported.
LEMMA WriteResponseFits ==
    ASSUME NEW e, IsLegal(e), NEW c \in Characteristics, NEW w, NEW d \in WriteResponse(e, c, w)
    PROVE  \E x : /\ Grows(e, d, x) /\ x.char = c /\ x.status # "InvalidValueInWrite"
                  /\ x.read => Attributes[c].supportsWriteResponse
  <1> DEFINE a == Attributes[c]
             h == ~Ignored(a, w)
             With(context) == [context EXCEPT !.handled = h]
             Answer(context, position) ==
                 [e EXCEPT !.contexts = Append(@, [context EXCEPT !.handled = ~Ignored(a, w)]),
                           !.position = position]
  <1>1. c \in STRING /\ e.position \in Nat
    BY IPRequestsAssumption DEF IsLegal
  <1>2. h \in BOOLEAN
    BY DEF Ignored
  <1>3. ASSUME NEW context \in ContextType, NEW position, Between(context, e.position, position),
               context.char = c, context.status # "InvalidValueInWrite",
               context.read => a.supportsWriteResponse, d = Answer(context, position)
        PROVE  \E x : /\ Grows(e, d, x) /\ x.char = c /\ x.status # "InvalidValueInWrite"
                      /\ x.read => a.supportsWriteResponse
    <2> DEFINE x == With(context)
    <2> HIDE DEF h
    <2>1. /\ x \in ContextType /\ x.char = c /\ x.status = context.status /\ x.read = context.read
          /\ x.from = context.from /\ x.to = context.to
      BY <1>2, <1>3 DEF ContextType
    <2>2. d = [e EXCEPT !.contexts = Append(@, x), !.position = position]
      BY <1>3 DEF h
    <2> HIDE DEF x
    <2>3. position \in Nat /\ Between(x, e.position, position)
      BY <1>3, <2>1 DEF Between, HasSlice
    <2>4. IsLegal(d) /\ d.contexts = Append(e.contexts, x) /\ d.position = position
      BY <2>2, <2>3 DEF IsLegal
    <2>5. Grows(e, d, x)
      BY <2>1, <2>3, <2>4 DEF Grows
    <2>6. QED
      BY <1>3, <2>1, <2>5
  <1>4. \A status \in {"Success", "ReadFromWriteOnlyCharacteristic"} :
            /\ Context(c, status) \in ContextType /\ Context(c, status).char = c
            /\ Context(c, status).status # "InvalidValueInWrite" /\ ~Context(c, status).read
            /\ Between(Context(c, status), e.position, e.position)
    <2>1. \A status \in {"Success", "ReadFromWriteOnlyCharacteristic"} :
              status \in Statuses /\ status # "InvalidValueInWrite"
      BY DEF Statuses
    <2>2. QED
      BY <1>1, <2>1, ContextTyped DEF Between
  <1>5. CASE a.supportsWriteResponse
    <2>1. PICK r \in HandleReadRequest(c, e.value[c], e.position) :
              d = IF r.context.status = "Success" /\ ~w.response
                  THEN Answer(Context(c, "Success"), e.position)
                  ELSE Answer(r.context, r.position)
      BY <1>5 DEF WriteResponse
    <2>2. /\ r.context \in ContextType /\ r.context.char = c
          /\ r.context.status # "InvalidValueInWrite"
          /\ Between(r.context, e.position, r.position)
      BY <1>1, <2>1, ReadRequestFits DEF IsLegal
    <2> HIDE DEF Answer, a, With
    <2>3. \/ d = Answer(Context(c, "Success"), e.position)
          \/ d = Answer(r.context, r.position)
      BY <2>1
    <2>4. CASE d = Answer(Context(c, "Success"), e.position)
      BY <1>3, <1>4, <2>4 DEF a
    <2>5. CASE d = Answer(r.context, r.position)
      BY <1>3, <1>5, <2>2, <2>5 DEF a
    <2>6. QED
      BY <2>3, <2>4, <2>5
  <1>6. CASE ~a.supportsWriteResponse
    <2>1. d = Answer(Context(c, IF w.response THEN "ReadFromWriteOnlyCharacteristic"
                                ELSE "Success"), e.position)
      BY <1>6 DEF WriteResponse
    <2> HIDE DEF Answer, a, With
    <2>2. PICK status \in {"Success", "ReadFromWriteOnlyCharacteristic"} :
              d = Answer(Context(c, status), e.position)
      BY <2>1
    <2>3. QED
      BY <1>3, <1>4, <2>2 DEF a
  <1>7. QED
    BY <1>5, <1>6


\* The value of a context that was accepted is of the format of its characteristic.
LEMMA AcceptedFits ==
    ASSUME NEW a, a.format \in Formats, NEW w, IsWrite(w), Accepted(a, w), ~Ignored(a, w)
    PROVE  /\ w.n \in Int
           /\ a.format = "bool" => w.n \in {0, 1}
           /\ a.format \in BytesFormats => w.n \in Nat
  <1>1. w.n \in Int /\ (w.type \in {"uint", "string"} => w.n >= 0)
    BY DEF IsWrite, WriteContext
  <1>2. a.format = "bool" => w.type = "uint" /\ w.n <= 1
    BY DEF Accepted, UIntFormats
  <1>3. a.format \in BytesFormats => w.type = "string"
    BY DEF Accepted, Ignored, UIntFormats, BytesFormats
  <1>4. QED
    BY <1>1, <1>2, <1>3

\* The part of handle_characteristic_write_request about "value".
LEMMA WriteValueFits ==
    ASSUME NEW e, IsLegal(e), NEW c \in Characteristics, NEW w, IsWrite(w), w.char = c,
           NEW isAdmin, NEW d \in WriteValue(e, c, w, isAdmin)
    PROVE  \E x : /\ Grows(e, d, x) /\ IsPrivate(x, isAdmin) /\ x.char = c
                  /\ ApplicationTakesFittingValues /\ IsFit(w) => x.status # "InvalidValueInWrite"
  <1> DEFINE a == Attributes[c]
             refusal == WriteRefusal(c, w, isAdmin, e.position)
             Refuse(status) == [e EXCEPT !.contexts = Append(@, Context(c, status))]
             Goal(x) == /\ Grows(e, d, x) /\ IsPrivate(x, isAdmin) /\ x.char = c
                        /\ ApplicationTakesFittingValues /\ IsFit(w) => x.status # "InvalidValueInWrite"
  <1>1. c \in STRING /\ a \in Characteristic /\ a.format \in Formats
    BY AttributesTyped, IPRequestsAssumption
  <1>2. ASSUME NEW status \in Statuses, d = Refuse(status),
               ApplicationTakesFittingValues /\ IsFit(w) => status # "InvalidValueInWrite"
        PROVE  \E x : Goal(x)
    <2>1. Grows(e, d, Context(c, status))
      BY <1>1, <1>2, RefuseFits
    <2>2. Goal(Context(c, status))
      BY <1>1, <1>2, <2>1, ContextTyped DEF IsPrivate
    <2>3. QED
      BY <2>2
  <1>3. ASSUME NEW b, IsLegal(b), b.contexts = e.contexts, b.position = e.position,
               d \in WriteResponse(b, c, w), MayWrite(c, w, isAdmin)
        PROVE  \E x : Goal(x)
    <2>1. PICK x : /\ Grows(b, d, x) /\ x.char = c /\ x.status # "InvalidValueInWrite"
                   /\ x.read => a.supportsWriteResponse
      BY <1>3, WriteResponseFits
    <2>2. Grows(e, d, x)
      BY <1>3, <2>1 DEF Grows
    <2>3. IsPrivate(x, isAdmin)
      BY <1>3, <2>1 DEF MayWrite, IsPrivate
    <2>4. QED
      BY <2>1, <2>2, <2>3
  <1>4. CASE refusal # "Success"
    <2>1. d = Refuse(refusal)
      BY <1>4 DEF WriteValue
    <2>2. refusal \in Statuses
      BY <1>4 DEF WriteRefusal, Statuses
    <2>3. IsFit(w) => refusal # "InvalidValueInWrite"
      BY DEF WriteRefusal, IsFit
    <2> HIDE DEF refusal, Refuse
    <2>4. QED
      BY <1>2, <2>1, <2>2, <2>3
  <1>5. CASE refusal = "Success"
    <2>1. MayWrite(c, w, isAdmin) /\ Accepted(a, w)
      BY <1>5 DEF WriteRefusal
    <2>2. CASE Ignored(a, w)
      <3>1. d \in WriteResponse(e, c, w)
        BY <1>5, <2>2 DEF WriteValue
      <3>2. QED
        BY <1>3, <2>1, <3>1
    <2>3. CASE ~Ignored(a, w)
      <3>1. PICK r \in HandleWrite(a, w.n, Errors) :
                d \in IF r.error # "None" THEN {Refuse(WriteStatus(r.error))}
                      ELSE WriteResponse([e EXCEPT !.value[c] = r.value], c, w)
        BY <1>5, <2>3 DEF WriteValue
      <3>2. CASE r.error # "None"
        <4>1. d = Refuse(WriteStatus(r.error))
          BY <3>1, <3>2
        <4>2. /\ r.error \in WriteErrors
              /\ r.error = "InvalidData" => MayRefuse(a, w.n) \/ "InvalidData" \in Errors
          BY <3>1, <3>2 DEF HandleWrite, Ok, Failed, WriteErrors
        <4>3. /\ WriteStatus(r.error) \in Statuses
              /\ r.error # "InvalidData" => WriteStatus(r.error) # "InvalidValueInWrite"
          BY <4>2, StatusesTyped
        <4>4. ApplicationTakesFittingValues /\ IsFit(w) => WriteStatus(r.error) # "InvalidValueInWrite"
          BY <4>2, <4>3 DEF ApplicationTakesFittingValues, IsFit
        <4> HIDE DEF Refuse
        <4>5. QED
          BY <1>2, <4>1, <4>3, <4>4
      <3>3. CASE r.error = "None"
        <4> DEFINE b == [e EXCEPT !.value[c] = r.value]
        <4>1. d \in WriteResponse(b, c, w)
          BY <3>1, <3>3
        <4>2. r.value \in Handled(a, w.n)
          BY <3>1, <3>3 DEF HandleWrite, Ok, Failed, WriteErrors, ReadErrors
        <4>3. Near(a, r.value)
          BY <1>1, <2>1, <2>3, <4>2, AcceptedFits, HandledFits
        <4>4. r.value \in Int
          BY <4>3, ValuesTyped
        <4>5. IsLegal(b) /\ b.contexts = e.contexts /\ b.position = e.position
          BY <4>3, <4>4 DEF IsLegal
        <4> HIDE DEF b
        <4>6. QED
          BY <1>3, <2>1, <4>1, <4>5
      <3>4. QED
        BY <3>2, <3>3
    <2>4. QED
      BY <2>2, <2>3
  <1>6. QED
    BY <1>4, <1>5

\* One turn of handle_characteristic_write_requests.
LEMMA WriteOneFits ==
    ASSUME NEW e, IsLegal(e), NEW w, IsWrite(w), NEW isAdmin, NEW timed,
           NEW d \in WriteOne(e, w, isAdmin, timed)
    PROVE  \E x : Grows(e, d, x) /\ TurnFits(x, w, isAdmin, timed)
  <1> DEFINE c == w.char
             ev == Subscription(c, w, isAdmin, e.subscribed)
             told == IF w.ev = "undefined" THEN e ELSE [e EXCEPT !.subscribed = ev.subscribed]
             With(b, status) == [b EXCEPT !.contexts = Append(@, Context(c, status))]
             Goal(x) == Grows(e, d, x) /\ TurnFits(x, w, isAdmin, timed)
  <1>1. c \in STRING
    BY DEF IsWrite, WriteContext
  <1>2. ASSUME NEW b, IsLegal(b), b.contexts = e.contexts, b.position = e.position,
               NEW status \in Statuses, d = With(b, status),
               ApplicationTakesFittingValues /\ timed /\ IsFit(w) => status # "InvalidValueInWrite"
        PROVE  \E x : Goal(x)
    <2>1. Grows(b, d, Context(c, status))
      BY <1>1, <1>2, RefuseFits
    <2>2. Grows(e, d, Context(c, status))
      BY <1>2, <2>1 DEF Grows
    <2>3. TurnFits(Context(c, status), w, isAdmin, timed)
      BY <1>1, <1>2, ContextTyped DEF TurnFits, IsPrivate
    <2>4. QED
      BY <2>2, <2>3
  <1>3. CASE c \notin Characteristics
    <2>1. d = With(e, "ResourceDoesNotExist")
      BY <1>3 DEF WriteOne
    <2>2. "ResourceDoesNotExist" \in Statuses /\ ~IsFit(w)
      BY <1>3 DEF Statuses, IsFit
    <2> HIDE DEF With
    <2>3. QED
      BY <1>2, <2>1, <2>2
  <1>4. CASE c \in Characteristics /\ (NeedsPrepare(c, w, timed) \/ (w.type = "none" /\ w.ev = "undefined"))
    <2>1. d = With(e, "InvalidValueInWrite")
      BY <1>4 DEF WriteOne
    <2>2. "InvalidValueInWrite" \in Statuses /\ ~(timed /\ IsFit(w))
      BY <1>4 DEF Statuses, IsFit, NeedsPrepare
    <2> HIDE DEF With
    <2>3. QED
      BY <1>2, <2>1, <2>2
  <1>5. CASE c \in Characteristics /\ ~(NeedsPrepare(c, w, timed) \/ (w.type = "none" /\ w.ev = "undefined"))
    <2>1. /\ ev.status \in Statuses
          /\ ev.subscribed \subseteq Characteristics
      BY <1>5 DEF Subscription, Statuses, IsLegal
    <2> HIDE DEF ev
    <2>2. IsLegal(told) /\ told.contexts = e.contexts /\ told.position = e.position
      BY <2>1 DEF IsLegal
    <2>3. \/ w.type # "none" /\ d \in WriteValue(told, c, w, isAdmin)
          \/ w.type = "none" /\ d = With(told, ev.status)
      BY <1>5 DEF WriteOne, ev
    <2> HIDE DEF told
    <2>4. CASE w.type # "none" /\ d \in WriteValue(told, c, w, isAdmin)
      <3>1. PICK x : /\ Grows(told, d, x) /\ IsPrivate(x, isAdmin) /\ x.char = c
                     /\ ApplicationTakesFittingValues /\ IsFit(w) => x.status # "InvalidValueInWrite"
        BY <1>5, <2>2, <2>4, WriteValueFits
      <3>2. Grows(e, d, x)
        BY <2>2, <3>1 DEF Grows
      <3>3. Attributes[c].requiresTimedWrite => timed
        BY <1>5, <2>4 DEF NeedsPrepare
      <3>4. QED
        BY <3>1, <3>2, <3>3 DEF TurnFits
    <2>5. CASE w.type = "none" /\ d = With(told, ev.status)
      <3>1. ~IsFit(w)
        BY <2>5 DEF IsFit
      <3> HIDE DEF With
      <3>2. QED
        BY <1>2, <2>1, <2>2, <2>5, <3>1
    <2>6. QED
      BY <2>3, <2>4, <2>5
  <1>6. QED
    BY <1>3, <1>4, <1>5


\* What the first turns of the loop leave.
WrittenSoFar(e, k, request, isAdmin, timed) ==
    /\ IsLegal(e)
    /\ e.contexts \in Seq(ContextType) /\ Len(e.contexts) = k
    /\ Packed(e.contexts, e.position)
    /\ \A i \in 1 .. k : TurnFits(e.contexts[i], request[i], isAdmin, timed)

LEMMA WriteNextFits ==
    ASSUME NEW request, NEW isAdmin, NEW timed, NEW k \in Nat, NEW E,
           \A e \in E : WrittenSoFar(e, k, request, isAdmin, timed), IsWrite(request[k + 1]),
           NEW d \in WriteNext(E, request[k + 1], isAdmin, timed)
    PROVE  WrittenSoFar(d, k + 1, request, isAdmin, timed)
  <1> DEFINE w == request[k + 1]
  <1>1. PICK e \in E : d \in WriteOne(e, w, isAdmin, timed)
    BY DEF WriteNext
  <1>2. WrittenSoFar(e, k, request, isAdmin, timed)
    BY <1>1
  <1>3. PICK x : Grows(e, d, x) /\ TurnFits(x, w, isAdmin, timed)
    BY <1>1, <1>2, WriteOneFits DEF WrittenSoFar
  <1> DEFINE longer == Append(e.contexts, x)
  <1>4. /\ IsLegal(d) /\ x \in ContextType /\ d.contexts = longer
        /\ Between(x, e.position, d.position)
    BY <1>3 DEF Grows
  <1>5. /\ longer \in Seq(ContextType) /\ Len(longer) = k + 1
        /\ \A i \in 1 .. k : longer[i] = e.contexts[i]
        /\ longer[k + 1] = x
        /\ Packed(longer, d.position)
    BY <1>2, <1>4, AppendFits DEF WrittenSoFar
  <1> HIDE DEF longer
  <1>6. ASSUME NEW i \in 1 .. k + 1 PROVE TurnFits(longer[i], request[i], isAdmin, timed)
    <2>1. CASE i = k + 1
      BY <1>3, <1>5, <2>1
    <2>2. CASE i # k + 1
      <3>1. i \in 1 .. k
        BY <2>2
      <3>2. QED
        BY <1>2, <1>5, <3>1 DEF WrittenSoFar
    <2>3. QED
      BY <2>1, <2>2
  <1>7. QED
    BY <1>4, <1>5, <1>6 DEF WrittenSoFar

\* What a write answers and leaves.
LEMMA HandleWriteRequestsFits ==
    ASSUME value \in [Characteristics -> Int], ValuesNearConstraints, NEW s,
           subscribed[s] \subseteq Characteristics, NEW request \in WriteRequests, NEW timed,
           NEW e \in HandleWriteRequests(request, s, timed)
    PROVE  WrittenSoFar(e, Len(request), request, admin[s], timed)
  <1> DEFINE n == Len(request)
             e0 == [value |-> value, subscribed |-> subscribed[s], position |-> 0, contexts |-> <<>>]
             Turn(X, i) == WriteNext(X, request[i], admin[s], timed)
             IsLoop(f) == IsWriteLoop(f, request, e0, admin[s], timed)
  <1>1. /\ n \in Nat /\ Len(request) \in Nat
        /\ \A i \in 1 .. n : IsWrite(request[i])
    BY IPRequestsAssumption DEF IsWrite
  <1>2. \E f : IsLoop(f)
    BY <1>1, WriteLoopExists, Zenon
  <1>3. IsLoop(CHOOSE f : IsLoop(f))
    BY <1>2
  <1>4. e \in (CHOOSE f : IsLoop(f))[Len(request)]
    BY DEF HandleWriteRequests, IsWriteLoop
  <1>5. PICK f : IsLoop(f) /\ e \in f[n]
    BY <1>3, <1>4
  <1>6. WrittenSoFar(e0, 0, request, admin[s], timed)
    BY DEF WrittenSoFar, IsLegal, Packed, ValuesNearConstraints
  <1> HIDE DEF e0
  <1>7. /\ f[0] = {e0}
        /\ \A k \in Nat : k + 1 <= n => f[k + 1] = Turn(f[k], k + 1)
    <2> SUFFICES ASSUME NEW k \in Nat
                 PROVE  f[0] = {e0} /\ (k + 1 <= n => f[k + 1] = Turn(f[k], k + 1))
      OBVIOUS
    <2>1. \A i \in 0 .. n : f[i] = IF i = 0 THEN {e0} ELSE Turn(f[i - 1], i)
      BY <1>5 DEF IsWriteLoop
    <2> HIDE DEF n, Turn, IsLoop
    <2>2. 0 \in 0 .. n /\ (k + 1 <= n => k + 1 \in 0 .. n) /\ (k + 1) - 1 = k /\ k + 1 # 0
      BY <1>1
    <2>3. QED
      BY <2>1, <2>2
  <1> HIDE DEF n, IsLoop
  <1> DEFINE Good == {k \in Nat : k <= n => \A x \in f[k] : WrittenSoFar(x, k, request, admin[s], timed)}
  <1>8. 0 \in Good
    BY <1>6, <1>7
  <1>9. ASSUME NEW k \in Good \cap Nat PROVE k + 1 \in Good
    <2> SUFFICES ASSUME k + 1 <= n, NEW d \in f[k + 1]
                 PROVE  WrittenSoFar(d, k + 1, request, admin[s], timed)
      OBVIOUS
    <2>1. \A x \in f[k] : WrittenSoFar(x, k, request, admin[s], timed)
      BY <1>1
    <2>2. d \in WriteNext(f[k], request[k + 1], admin[s], timed)
      BY <1>7
    <2>3. IsWrite(request[k + 1])
      BY <1>1
    <2>4. QED
      BY <2>1, <2>2, <2>3, WriteNextFits
  <1> HIDE DEF Good
  <1>10. n \in Good
    BY <1>1, <1>8, <1>9, CountingReachesAll
  <1>11. QED
    BY <1>1, <1>5, <1>10 DEF Good, n


-----------------------------------------------------------------------------
(* The invariant *)

\* A session's prepare is the one that was granted last and has not been used; its expiration
\* time is never later than was promised, and only earlier at the limit of the clock.
GrantFits(p, G) ==
    /\ p.expiration # 0 => G # {}
    /\ \A g \in G : /\ g.pid = p.pid /\ g.deadline >= 1
                    /\ p.expiration = IF g.deadline > TimeLimit THEN TimeLimit ELSE g.deadline

RequestInv ==
    /\ clock \in 1 .. TimeLimit
    /\ value \in [Characteristics -> Int] /\ ValuesNearConstraints
    /\ admin \in [Sessions -> BOOLEAN]
    /\ prepare \in [Sessions -> [expiration : Nat, pid : Nat]]
    /\ subscribed \in [Sessions -> SUBSET Characteristics]
    /\ granted \in [Sessions -> SUBSET [pid : Nat, deadline : Nat]]
    /\ \A s \in Sessions : GrantFits(prepare[s], granted[s])

\* The write is one that was granted.
IsGranted(s, pid) == \E g \in granted[s] : pid = {g.pid} /\ clock <= g.deadline

\* What the properties say of one step.
SlicesStep ==
    LET contexts == answer'.contexts
        slices == {i \in DOMAIN contexts : contexts[i].from # contexts[i].to}
    IN  \A i, j \in slices :
            /\ contexts[i].to <= ScratchBytes
            /\ i < j => contexts[i].to <= contexts[j].from

PrivateStep ==
    \A i \in DOMAIN answer'.contexts :
        answer'.contexts[i].read /\ ReadRequiresAdmin(answer'.contexts[i].char)
        => admin[answer'.session]

PreparedStep ==
    \A i \in DOMAIN answer'.request :
        LET w == answer'.request[i]
            prepared == \E g \in granted[answer'.session] :
                           answer'.pid = {g.pid} /\ clock <= g.deadline
        IN  /\ answer'.contexts[i].handled /\ Attributes[w.char].requiresTimedWrite => prepared
            /\ /\ prepared
               /\ w.char \in Characteristics
               /\ w.type # "none" /\ w.auth # "invalid"
               /\ Accepted(Attributes[w.char], w) /\ ~MayRefuse(Attributes[w.char], w.n)
               => answer'.contexts[i].status # "InvalidValueInWrite"

StepFits ==
    SlicesStep /\ PrivateStep /\ (ApplicationTakesFittingValues => PreparedStep)

\* A timed write is turned down exactly when it was not granted.
LEMMA GrantsMatch ==
    ASSUME RequestInv, NEW s \in Sessions, NEW pid
    PROVE  /\ IsGranted(s, pid) => pid # {} /\ ~Unprepared(s, pid)
           /\ pid # {} /\ ~Unprepared(s, pid) => IsGranted(s, pid)
  <1>1. /\ prepare[s] \in [expiration : Nat, pid : Nat] /\ GrantFits(prepare[s], granted[s])
        /\ granted[s] \subseteq [pid : Nat, deadline : Nat] /\ clock \in 1 .. TimeLimit
        /\ TimeLimit \in Nat
    BY IPRequestsAssumption DEF RequestInv
  <1>2. IsGranted(s, pid) => pid # {} /\ ~Unprepared(s, pid)
    <2> SUFFICES ASSUME NEW g \in granted[s], pid = {g.pid}, clock <= g.deadline
                 PROVE  pid # {} /\ ~Unprepared(s, pid)
      BY DEF IsGranted
    <2>1. g.pid = prepare[s].pid /\ g.deadline \in Nat
      BY <1>1 DEF GrantFits
    <2>2. prepare[s].expiration = IF g.deadline > TimeLimit THEN TimeLimit ELSE g.deadline
      BY <1>1 DEF GrantFits
    <2>3. prepare[s].expiration # 0 /\ ~(prepare[s].expiration < clock)
      BY <1>1, <2>1, <2>2
    <2>4. QED
      BY <2>1, <2>3 DEF Unprepared
  <1>3. pid # {} /\ ~Unprepared(s, pid) => IsGranted(s, pid)
    <2> SUFFICES ASSUME pid # {}, ~Unprepared(s, pid) PROVE IsGranted(s, pid)
      OBVIOUS
    <2>1. /\ prepare[s].expiration # 0 /\ ~(prepare[s].expiration < clock)
          /\ pid = {prepare[s].pid}
      BY DEF Unprepared
    <2>2. PICK g \in granted[s] : TRUE
      BY <1>1, <2>1 DEF GrantFits
    <2>3. /\ g.pid = prepare[s].pid /\ g.deadline \in Nat
          /\ prepare[s].expiration = IF g.deadline > TimeLimit THEN TimeLimit ELSE g.deadline
      BY <1>1, <2>2 DEF GrantFits
    <2>4. clock <= g.deadline
      BY <1>1, <2>1, <2>3
    <2>5. QED
      BY <2>1, <2>3, <2>4 DEF IsGranted
  <1>4. QED
    BY <1>2, <1>3

\* An answer with contexts that lie side by side and are private.
LEMMA PackedAnswers ==
    ASSUME answer'.contexts \in Seq(ContextType), NEW position, Packed(answer'.contexts, position)
    PROVE  SlicesStep
  <1> DEFINE contexts == answer'.contexts
  <1>1. DOMAIN contexts = 1 .. Len(contexts)
    OBVIOUS
  <1>2. QED
    BY <1>1 DEF SlicesStep, Packed, HasSlice

LEMMA ReadAnswers ==
    ASSUME NEW s, NEW code, NEW contexts, NEW r, ReadSoFar(r, Len(contexts), admin[s]),
           contexts = r.contexts, answer' = Message(s, code, <<>>, {}, contexts)
    PROVE  StepFits
  <1>1. /\ answer'.contexts = contexts /\ answer'.session = s /\ answer'.request = <<>>
    BY DEF Message
  <1>2. /\ contexts \in Seq(ContextType) /\ Packed(contexts, r.position)
        /\ \A i \in 1 .. Len(contexts) : IsPrivate(contexts[i], admin[s])
    BY DEF ReadSoFar
  <1>3. SlicesStep
    BY <1>1, <1>2, PackedAnswers
  <1>4. PrivateStep
    <2>1. DOMAIN contexts = 1 .. Len(contexts)
      BY <1>2
    <2>2. QED
      BY <1>1, <1>2, <2>1 DEF PrivateStep, IsPrivate
  <1>5. PreparedStep
    <2>1. DOMAIN answer'.request = {}
      BY <1>1
    <2>2. QED
      BY <2>1 DEF PreparedStep
  <1>6. QED
    BY <1>3, <1>4, <1>5 DEF StepFits

\* An answer without contexts.
LEMMA EmptyAnswers ==
    ASSUME NEW s, NEW code, answer' = Message(s, code, <<>>, {}, <<>>)
    PROVE  StepFits
  <1> DEFINE r == [contexts |-> <<>>, position |-> 0]
  <1>1. ReadSoFar(r, Len(<<>>), admin[s]) /\ <<>> = r.contexts
    BY DEF ReadSoFar, Packed
  <1> HIDE DEF r
  <1>2. QED
    BY <1>1, ReadAnswers

\* A read leaves everything alone.
LEMMA ReadsFit ==
    ASSUME RequestInv, NEW s \in Sessions, NEW code, NEW request, IsRequest(request),
           NEW purpose, NEW contexts \in HandleReadRequests(request, admin[s], purpose),
           answer' = Message(s, code, <<>>, {}, contexts),
           UNCHANGED <<clock, value, admin, prepare, subscribed, granted>>
    PROVE  RequestInv' /\ StepFits
  <1>1. PICK r : ReadSoFar(r, Len(request), admin[s]) /\ contexts = r.contexts
    BY HandleReadRequestsFits DEF RequestInv
  <1>2. Len(request) = Len(contexts)
    BY <1>1 DEF ReadSoFar
  <1>3. StepFits
    BY <1>1, <1>2, ReadAnswers
  <1>4. RequestInv'
    BY DEF RequestInv, ValuesNearConstraints
  <1>5. QED
    BY <1>3, <1>4


-----------------------------------------------------------------------------
(* Actions *)

LEMMA PutPrepareFits ==
    ASSUME RequestInv, NEW s \in Sessions, PutPrepare(s)
    PROVE  RequestInv' /\ StepFits
  <1>1. PICK ttl \in TTLs, pid \in Pids :
            /\ prepare' = [prepare EXCEPT ![s] = [expiration |-> Expiration(ttl), pid |-> pid]]
            /\ granted' = [granted EXCEPT ![s] = {[pid |-> pid, deadline |-> clock + ttl]}]
            /\ answer' = Message(s, "OK", <<>>, {}, <<>>)
    BY DEF PutPrepare, Send
  <1>2. UNCHANGED <<clock, value, admin, subscribed>>
    BY DEF PutPrepare
  <1> DEFINE p == [expiration |-> Expiration(ttl), pid |-> pid]
             g == [pid |-> pid, deadline |-> clock + ttl]
  <1>3. ttl \in Nat /\ pid \in Nat /\ TimeLimit \in Nat /\ clock \in 1 .. TimeLimit
    BY IPRequestsAssumption DEF RequestInv
  <1>4. /\ p \in [expiration : Nat, pid : Nat] /\ g \in [pid : Nat, deadline : Nat]
        /\ g.pid = p.pid /\ g.deadline >= 1
        /\ p.expiration = IF g.deadline > TimeLimit THEN TimeLimit ELSE g.deadline
    BY <1>3 DEF Expiration
  <1> HIDE DEF p, g
  <1>5. GrantFits(p, {g})
    BY <1>4 DEF GrantFits
  <1>6. prepare' = [prepare EXCEPT ![s] = p] /\ granted' = [granted EXCEPT ![s] = {g}]
    BY <1>1 DEF p, g
  <1>7. /\ prepare' \in [Sessions -> [expiration : Nat, pid : Nat]]
        /\ granted' \in [Sessions -> SUBSET [pid : Nat, deadline : Nat]]
        /\ \A t \in Sessions : GrantFits(prepare'[t], granted'[t])
    BY <1>4, <1>5, <1>6 DEF RequestInv
  <1>8. RequestInv'
    BY <1>2, <1>7 DEF RequestInv, ValuesNearConstraints, GrantFits
  <1>9. StepFits
    BY <1>1, EmptyAnswers
  <1>10. QED
    BY <1>8, <1>9

\* What is answered to a write.
LEMMA WriteAnswers ==
    ASSUME RequestInv, NEW s \in Sessions, NEW request \in WriteRequests, NEW pid, NEW code,
           NEW e, ~Unprepared(s, pid), NEW timed, timed <=> pid # {},
           WrittenSoFar(e, Len(request), request, admin[s], timed),
           answer' = Message(s, code, request, pid, e.contexts)
    PROVE  StepFits
  <1> DEFINE contexts == e.contexts
             n == Len(request)
  <1>1. /\ answer'.contexts = contexts /\ answer'.session = s /\ answer'.request = request
        /\ answer'.pid = pid
    BY DEF Message
  <1>2. /\ contexts \in Seq(ContextType) /\ Len(contexts) = n /\ Packed(contexts, e.position)
        /\ \A i \in 1 .. n : TurnFits(contexts[i], request[i], admin[s], timed)
    BY DEF WrittenSoFar
  <1>3. DOMAIN contexts = 1 .. n /\ DOMAIN request = 1 .. n
    BY <1>2, IPRequestsAssumption
  <1> HIDE DEF contexts, n
  <1>4. SlicesStep
    BY <1>1, <1>2, PackedAnswers
  <1>5. PrivateStep
    BY <1>1, <1>2, <1>3 DEF PrivateStep, TurnFits, IsPrivate
  <1>6. ASSUME ApplicationTakesFittingValues PROVE PreparedStep
    <2> SUFFICES ASSUME NEW i \in 1 .. n
                 PROVE  /\ contexts[i].handled /\ Attributes[request[i].char].requiresTimedWrite
                               => IsGranted(s, pid)
                        /\ IsGranted(s, pid) /\ IsFit(request[i])
                               => contexts[i].status # "InvalidValueInWrite"
      BY <1>1, <1>3 DEF PreparedStep, IsGranted, IsFit
    <2>1. timed <=> IsGranted(s, pid)
      BY GrantsMatch
    <2>2. TurnFits(contexts[i], request[i], admin[s], timed)
      BY <1>2
    <2>3. QED
      BY <1>6, <2>1, <2>2 DEF TurnFits
  <1>7. QED
    BY <1>4, <1>5, <1>6 DEF StepFits

\* What is answered to a write that was not prepared.
LEMMA RefusedAnswers ==
    ASSUME RequestInv, NEW s \in Sessions, NEW request \in WriteRequests, NEW pid, NEW code,
           Unprepared(s, pid),
           answer' = Message(s, code, request, pid,
                             [i \in DOMAIN request |-> Context(request[i].char, "InvalidValueInWrite")])
    PROVE  StepFits
  <1> DEFINE contexts == [i \in DOMAIN request |-> Context(request[i].char, "InvalidValueInWrite")]
             n == Len(request)
  <1>1. /\ answer'.contexts = contexts /\ answer'.session = s /\ answer'.request = request
        /\ answer'.pid = pid
    BY DEF Message
  <1>2. /\ n \in Nat /\ DOMAIN request = 1 .. n
        /\ \A i \in 1 .. n : request[i].char \in STRING
    <2>1. request \in Seq(WriteContext)
      BY IPRequestsAssumption
    <2>2. n \in Nat /\ DOMAIN request = 1 .. n /\ \A i \in 1 .. n : request[i] \in WriteContext
      BY <2>1
    <2>3. \A w \in WriteContext : w.char \in STRING
      BY DEF WriteContext
    <2>4. QED
      BY <2>2, <2>3
  <1>3. "InvalidValueInWrite" \in Statuses
    BY DEF Statuses
  <1>4. ASSUME NEW i \in DOMAIN contexts
        PROVE  ~HasSlice(contexts[i]) /\ ~contexts[i].read /\ ~contexts[i].handled
    <2> DEFINE c == request[i].char
               status == "InvalidValueInWrite"
    <2>1. contexts[i] = Context(c, status) /\ c \in STRING /\ status \in Statuses
      BY <1>2, <1>3
    <2> HIDE DEF contexts, c, status
    <2>2. QED
      BY <2>1, ContextTyped
  <1>5. DOMAIN contexts = DOMAIN request
    OBVIOUS
  <1>6. ~IsGranted(s, pid)
    BY GrantsMatch
  <1> HIDE DEF contexts
  <1>7. SlicesStep
    BY <1>1, <1>4 DEF SlicesStep, HasSlice
  <1>8. PrivateStep
    BY <1>1, <1>4 DEF PrivateStep
  <1>9. PreparedStep
    BY <1>1, <1>4, <1>5, <1>6 DEF PreparedStep, IsGranted
  <1>10. QED
    BY <1>7, <1>8, <1>9 DEF StepFits

LEMMA PutCharacteristicsFits ==
    ASSUME RequestInv, NEW s \in Sessions, PutCharacteristics(s)
    PROVE  RequestInv' /\ StepFits
  <1>1. PICK request \in WriteRequests, pid \in {{}} \cup {{p} : p \in Pids} :
           /\ IF Unprepared(s, pid)
              THEN /\ answer' = Message(s, "MultiStatus", request, pid,
                              [i \in DOMAIN request |->
                                  Context(request[i].char, "InvalidValueInWrite")])
                   /\ UNCHANGED <<value, subscribed>>
              ELSE \E e \in HandleWriteRequests(request, s, pid # {}) :
                      /\ value' = e.value
                      /\ subscribed' = [subscribed EXCEPT ![s] = e.subscribed]
                      /\ answer' = Message(s, WriteCode(request, e.contexts), request, pid,
                                           e.contexts)
           /\ prepare' = [prepare EXCEPT ![s] = Consumed(s, pid)]
           /\ granted' = [granted EXCEPT ![s] = IF pid = {} THEN @ ELSE {}]
    BY DEF PutCharacteristics, Send
  <1>2. UNCHANGED <<clock, admin>>
    BY DEF PutCharacteristics
  <1>3. /\ prepare' \in [Sessions -> [expiration : Nat, pid : Nat]]
        /\ granted' \in [Sessions -> SUBSET [pid : Nat, deadline : Nat]]
        /\ \A t \in Sessions : GrantFits(prepare'[t], granted'[t])
    <2>1. Consumed(s, pid) \in [expiration : Nat, pid : Nat]
      BY DEF Consumed, NoPrepare, RequestInv
    <2>2. GrantFits(Consumed(s, pid), IF pid = {} THEN granted[s] ELSE {})
      BY DEF Consumed, NoPrepare, RequestInv, GrantFits
    <2>3. QED
      BY <1>1, <2>1, <2>2 DEF RequestInv
  <1>4. CASE Unprepared(s, pid)
    <2>1. /\ answer' = Message(s, "MultiStatus", request, pid,
                         [i \in DOMAIN request |-> Context(request[i].char, "InvalidValueInWrite")])
          /\ UNCHANGED <<value, subscribed>>
      BY <1>1, <1>4
    <2>2. StepFits
      BY <1>4, <2>1, RefusedAnswers
    <2>3. RequestInv'
      BY <1>2, <1>3, <2>1 DEF RequestInv, ValuesNearConstraints, GrantFits
    <2>4. QED
      BY <2>2, <2>3
  <1>5. CASE ~Unprepared(s, pid)
    <2> DEFINE timed == pid # {}
    <2>1. PICK e \in HandleWriteRequests(request, s, timed) :
              /\ value' = e.value
              /\ subscribed' = [subscribed EXCEPT ![s] = e.subscribed]
              /\ answer' = Message(s, WriteCode(request, e.contexts), request, pid, e.contexts)
      BY <1>1, <1>5
    <2>2. timed <=> pid # {}
      OBVIOUS
    <2> HIDE DEF timed
    <2>3. WrittenSoFar(e, Len(request), request, admin[s], timed)
      BY HandleWriteRequestsFits DEF RequestInv
    <2>4. StepFits
      BY <1>5, <2>1, <2>2, <2>3, WriteAnswers
    <2>5. IsLegal(e)
      BY <2>3 DEF WrittenSoFar
    <2>6. /\ value' \in [Characteristics -> Int]
          /\ \A c \in Characteristics : Near(Attributes[c], value'[c])
          /\ subscribed' \in [Sessions -> SUBSET Characteristics]
      BY <2>1, <2>5 DEF IsLegal, RequestInv
    <2>7. RequestInv'
      BY <1>2, <1>3, <2>6 DEF RequestInv, ValuesNearConstraints, GrantFits
    <2>8. QED
      BY <2>4, <2>7
  <1>6. QED
    BY <1>4, <1>5


LEMMA GetCharacteristicsFits ==
    ASSUME RequestInv, NEW s \in Sessions, GetCharacteristics(s)
    PROVE  RequestInv' /\ StepFits
  <1> DEFINE Code(request, contexts) ==
                 IF request = <<>> THEN "NoContent"
                 ELSE IF \A i \in DOMAIN contexts : contexts[i].status = "Success"
                 THEN "OK" ELSE "MultiStatus"
  <1>1. PICK request \in ReadRequests :
            \E contexts \in HandleReadRequests(request, admin[s], "characteristics") :
                answer' = Message(s, Code(request, contexts), <<>>, {}, contexts)
    BY DEF GetCharacteristics, Send
  <1>2. PICK contexts \in HandleReadRequests(request, admin[s], "characteristics") :
            answer' = Message(s, Code(request, contexts), <<>>, {}, contexts)
    BY <1>1
  <1>3. UNCHANGED <<clock, value, admin, prepare, subscribed, granted>>
    BY DEF GetCharacteristics
  <1>4. IsRequest(request)
    <2>1. request \in Seq(STRING)
      BY IPRequestsAssumption
    <2>2. QED
      BY <2>1 DEF IsRequest
  <1> HIDE DEF Code
  <1>5. QED
    BY <1>2, <1>3, <1>4, ReadsFit

LEMMA GetAccessoriesFits ==
    ASSUME RequestInv, NEW s \in Sessions, GetAccessories(s)
    PROVE  RequestInv' /\ StepFits
  <1>1. PICK c \in Characteristics :
            \E contexts \in HandleReadRequests(<<c>>, admin[s], "accessories") :
                answer' = Message(s, "OK", <<>>, {}, contexts)
    BY DEF GetAccessories, Send
  <1>2. UNCHANGED <<clock, value, admin, prepare, subscribed, granted>>
    BY DEF GetAccessories
  <1> DEFINE request == <<c>>
  <1>3. IsRequest(request)
    BY IPRequestsAssumption DEF IsRequest
  <1>4. PICK contexts \in HandleReadRequests(request, admin[s], "accessories") :
            answer' = Message(s, "OK", <<>>, {}, contexts)
    BY <1>1
  <1> HIDE DEF request
  <1>5. QED
    BY <1>2, <1>3, <1>4, ReadsFit

\* Every set of characteristics can be put in an order.
LEMMA OrderedSets ==
    ASSUME NEW due \in SUBSET Characteristics
    PROVE  IsRequest(SetToSeq(due))
  <1> DEFINE n == Cardinality(due)
             orders == {f \in [1 .. n -> due] : IsInjective(f)}
  <1>1. IsFiniteSet(due) /\ due \subseteq STRING
    BY IPRequestsAssumption, FS_Subset
  <1>2. n \in Nat /\ ExistsBijection(1 .. n, due)
    BY <1>1, FS_CardinalityType
  <1>3. orders # {}
    BY <1>2 DEF ExistsBijection, Bijection, Injection, Surjection
  <1>4. SetToSeq(due) \in orders
    BY <1>3 DEF SetToSeq
  <1> HIDE DEF n
  <1>5. SetToSeq(due) \in [1 .. n -> due]
    BY <1>4
  <1>6. SetToSeq(due) \in Seq(due)
    BY <1>2, <1>5
  <1>7. ASSUME NEW order \in Seq(due)
        PROVE  IsRequest(order)
    <2>1. Len(order) \in Nat /\ \A i \in 1 .. Len(order) : order[i] \in due
      BY <1>7
    <2>2. QED
      BY <1>1, <2>1 DEF IsRequest
  <1>8. QED
    BY <1>6, <1>7

LEMMA SendEventsFits ==
    ASSUME RequestInv, NEW s \in Sessions, SendEvents(s)
    PROVE  RequestInv' /\ StepFits
  <1>1. PICK due \in SUBSET subscribed[s] :
            \E contexts \in HandleReadRequests(SetToSeq(due), admin[s], "event") :
                answer' = Message(s, "Event", <<>>, {}, contexts)
    BY DEF SendEvents, Send
  <1>2. UNCHANGED <<clock, value, admin, prepare, subscribed, granted>>
    BY DEF SendEvents
  <1>3. IsRequest(SetToSeq(due))
    BY OrderedSets DEF RequestInv
  <1>4. QED
    BY <1>1, <1>2, <1>3, ReadsFit

\* What happens between the requests.
LEMMA QuietStepsFit ==
    ASSUME RequestInv, NEW s \in Sessions, BadRequest(s) \/ ChangePermissions(s) \/ Reconnect(s)
    PROVE  RequestInv' /\ StepFits
  <1>1. CASE BadRequest(s)
    <2>1. StepFits
      BY <1>1, EmptyAnswers DEF BadRequest, Send
    <2>2. RequestInv'
      BY <1>1 DEF BadRequest, RequestInv, ValuesNearConstraints
    <2>3. QED
      BY <2>1, <2>2
  <1>2. CASE ChangePermissions(s)
    <2>1. StepFits
      BY <1>2, EmptyAnswers DEF ChangePermissions, Send, Silence
    <2>2. admin' \in [Sessions -> BOOLEAN]
      BY <1>2 DEF ChangePermissions, RequestInv
    <2>3. RequestInv'
      BY <1>2, <2>2 DEF ChangePermissions, RequestInv, ValuesNearConstraints
    <2>4. QED
      BY <2>1, <2>3
  <1>3. CASE Reconnect(s)
    <2>1. StepFits
      BY <1>3, EmptyAnswers DEF Reconnect, Send, Silence
    <2>2. GrantFits(NoPrepare, {}) /\ NoPrepare \in [expiration : Nat, pid : Nat]
      BY DEF GrantFits, NoPrepare
    <2>3. /\ prepare' \in [Sessions -> [expiration : Nat, pid : Nat]]
          /\ granted' \in [Sessions -> SUBSET [pid : Nat, deadline : Nat]]
          /\ subscribed' \in [Sessions -> SUBSET Characteristics]
          /\ \A t \in Sessions : GrantFits(prepare'[t], granted'[t])
      BY <1>3, <2>2 DEF Reconnect, RequestInv
    <2>4. RequestInv'
      BY <1>3, <2>3 DEF Reconnect, RequestInv, ValuesNearConstraints, GrantFits
    <2>5. QED
      BY <2>1, <2>4
  <1>4. QED
    BY <1>1, <1>2, <1>3

LEMMA TickFits ==
    ASSUME RequestInv, Tick
    PROVE  RequestInv' /\ StepFits
  <1>1. StepFits
    BY EmptyAnswers DEF Tick, Send, Silence
  <1>2. clock' \in 1 .. TimeLimit
    <2>1. MaxTime \in Nat /\ TimeLimit \in Nat /\ MaxTime <= TimeLimit
      BY IPRequestsAssumption
    <2>2. clock \in 1 .. TimeLimit /\ clock < MaxTime /\ clock' = clock + 1
      BY DEF Tick, RequestInv
    <2>3. QED
      BY <2>1, <2>2
  <1>3. RequestInv'
    BY <1>2 DEF Tick, RequestInv, ValuesNearConstraints
  <1>4. QED
    BY <1>1, <1>3

LEMMA RequestsBegin ==
    ASSUME Init
    PROVE  RequestInv
  <1>1. GrantFits(NoPrepare, {}) /\ NoPrepare \in [expiration : Nat, pid : Nat]
    BY DEF GrantFits, NoPrepare
  <1>2. ValuesNearConstraints
    BY IPRequestsAssumption DEF Init, ValuesNearConstraints, Near
  <1>3. /\ value \in [Characteristics -> Int]
        /\ admin \in [Sessions -> BOOLEAN]
        /\ prepare \in [Sessions -> [expiration : Nat, pid : Nat]]
        /\ granted \in [Sessions -> SUBSET [pid : Nat, deadline : Nat]]
        /\ subscribed \in [Sessions -> SUBSET Characteristics]
        /\ clock \in 1 .. TimeLimit
    BY <1>1, IPRequestsAssumption DEF Init
  <1>4. \A s \in Sessions : GrantFits(prepare[s], granted[s])
    BY <1>1 DEF Init
  <1>5. QED
    BY <1>2, <1>3, <1>4 DEF RequestInv

LEMMA RequestsFit ==
    ASSUME RequestInv, Next
    PROVE  RequestInv' /\ StepFits
  BY PutPrepareFits, PutCharacteristicsFits, GetCharacteristicsFits, GetAccessoriesFits,
     SendEventsFits, QuietStepsFit, TickFits
  DEF Next

LEMMA RequestInvHolds == Spec => []RequestInv
  <1>1. Init => RequestInv
    BY RequestsBegin
  <1>2. RequestInv /\ [Next]_vars => RequestInv'
    BY RequestsFit DEF vars, RequestInv, ValuesNearConstraints
  <1>3. QED
    BY <1>1, <1>2, PTL DEF Spec

-----------------------------------------------------------------------------
(* Theorems *)

\* Whatever is written, in whatever type and number of contexts, and whatever the
\* constraints, a value that reaches the application is one that they allow, but for a
\* float that was rounded up past its maximum and an integer the check of which
\* overflowed: the checks and the rounding of HAPCharacteristic.c and the conversions of
\* handle_characteristic_write_request.
THEOREM ValuesKeepNearTheirConstraints == Spec => []ValuesNearConstraints
  <1>1. RequestInv => ValuesNearConstraints
    BY DEF RequestInv
  <1>2. QED
    BY <1>1, RequestInvHolds, PTL

\* No float maximum lies just below a step, and no integer range is wider than its type.
ConstraintsAreExact == \A c \in Characteristics : IsExact(Attributes[c])

\* An accessory that declares such constraints, which HAPAccessoryValidation does not
\* demand, is given no value off them, and none of its reads fails the assertions of
\* HAPCharacteristic.c.
THEOREM ExactConstraintsAreKept ==
    ASSUME ConstraintsAreExact
    PROVE  Spec => []ValuesFulfilConstraints
  <1>1. RequestInv => ValuesFulfilConstraints
    BY NearIsExact DEF RequestInv, ValuesNearConstraints, ValuesFulfilConstraints,
                       ConstraintsAreExact
  <1>2. QED
    BY <1>1, RequestInvHolds, PTL

\* The values of an answer share the scratch buffer of the session and lie side by side in
\* it, for requests of any length: handle_characteristic_read_request and write requests
\* with "r".
THEOREM SlicesStayDisjoint == Spec => SlicesAreDisjoint
  <1>1. RequestInv /\ [Next]_vars => [SlicesStep]_vars
    BY RequestsFit DEF StepFits
  <1>2. QED
    BY <1>1, RequestInvHolds, PTL DEF Spec, SlicesAreDisjoint, SlicesStep

\* A value for admins is shown to no other controller, by reads, write responses and
\* events, whenever the permissions change.
THEOREM AdminValuesAreSafe == Spec => AdminValuesStayPrivate
  <1>1. RequestInv /\ [Next]_vars => [PrivateStep]_vars
    BY RequestsFit DEF StepFits
  <1>2. QED
    BY <1>1, RequestInvHolds, PTL DEF Spec, AdminValuesStayPrivate, PrivateStep

\* A characteristic with timed writes is written only with what the session prepared, in
\* time, and once; and what was prepared gets there, if the application turns down as invalid only
\* what its constraints exclude: handle_characteristic_write_requests and PUT /prepare.
THEOREM PreparedWritesSucceed ==
    ASSUME ApplicationTakesFittingValues
    PROVE  Spec => PreparedWritesGetThere
  <1>1. RequestInv /\ [Next]_vars => [PreparedStep]_vars
    BY RequestsFit DEF StepFits
  <1>2. QED
    BY <1>1, RequestInvHolds, PTL DEF Spec, PreparedWritesGetThere, PreparedStep

=============================================================================
