---- MODULE IPRequests ----
(***************************************************************************)
(* What secured IP sessions ask of the characteristics: PUT /prepare,       *)
(* PUT and GET /characteristics, and the event notifications sent to them.  *)
(* A request is handled within one callback of the run loop; between two    *)
(* requests of a session time passes, another session changes its admin     *)
(* permission, and the application changes values.                          *)
(***************************************************************************)
EXTENDS Characteristics, FiniteSets, SequencesExt

CONSTANTS
    Sessions,
    ReadRequests,   \* sequences of characteristics; those that are none do not exist
    WriteRequests,  \* sequences of write contexts
    Pids, TTLs,
    MaxTime,        \* the last time that is looked at
    TimeLimit,      \* UINT64_MAX: expiration times saturate there
    ScratchBytes,   \* the size of the scratch buffer
    Errors,         \* errors of the callbacks of the application
    Initial         \* Initial[c]: the value of c

\* HAPIPWriteContext as parsed: n is the value, or the number of bytes that a
\* string, decoded when it is base64, has.
WriteContext == [
    char : STRING, type : {"none", "uint", "int", "float", "string"}, n : Int, base64 : BOOLEAN,
    ev : {"undefined", "enabled", "disabled"}, response : BOOLEAN,
    auth : {"none", "base64", "invalid"}]

ASSUME IPRequestsAssumption ==
    /\ Characteristics \subseteq STRING /\ IsFiniteSet(Characteristics)
    /\ ReadRequests \subseteq Seq(STRING)
    /\ WriteRequests \subseteq Seq(WriteContext)
    /\ \A request \in WriteRequests : \A i \in 1 .. Len(request) :
           request[i].type \in {"uint", "string"} => request[i].n >= 0
    /\ Initial \in [Characteristics -> Int]
    /\ \A c \in Characteristics : Initial[c] \in Values(Attributes[c])
    /\ {MaxTime, TimeLimit, ScratchBytes} \cup TTLs \cup Pids \subseteq Nat
    \* The clock is an UInt64 that starts at 1.
    /\ MaxTime <= TimeLimit /\ 1 <= TimeLimit

VARIABLES
    clock,          \* HAPPlatformClockGetCurrent
    value,          \* value[c]: what the application holds
    admin,          \* admin[s]: HAPSessionControllerIsAdmin
    prepare,        \* prepare[s]: timedWriteExpirationTime and timedWritePID
    subscribed,     \* subscribed[s]: eventNotifications
    granted,        \* history: granted[s]: the prepare last acknowledged, until it is used
    answer          \* history: the message this step sends to a session, and the request

vars == <<clock, value, admin, prepare, subscribed, granted, answer>>

\* timedWriteExpirationTime is 0.
NoPrepare == [expiration |-> 0, pid |-> 0]

\* One characteristic of a response; a value that has been read is a slice of
\* the scratch buffer when it is a string.
Context(c, status) ==
    [char |-> c, status |-> status, read |-> FALSE, value |-> 0, from |-> 0, to |-> 0,
     handled |-> FALSE]

Message(s, code, request, pid, contexts) ==
    [session |-> s, code |-> code, request |-> request, pid |-> pid, contexts |-> contexts]

Send(message) == answer' = message

Silence == Message("", "", <<>>, {}, <<>>)

-----------------------------------------------------------------------------
(* Reading a characteristic *)

\* ConvertCharacteristicReadErrorToStatusCode
ReadStatus(error) ==
    CASE error = "None" -> "Success"
      [] error \in {"Unknown", "InvalidState"} -> "UnableToPerformOperation"
      [] error = "OutOfResources" -> "OutOfResources"
      [] error = "NotAuthorized" -> "InsufficientAuthorization"
      [] error = "Busy" -> "ResourceIsBusy"

\* ConvertCharacteristicWriteErrorToStatusCode
WriteStatus(error) == IF error = "InvalidData" THEN "InvalidValueInWrite" ELSE ReadStatus(error)

\* The bytes of a string in the response, data being encoded as base64.
EncodedBytes(a, v) == IF a.format = "string" THEN v ELSE 4 * ((v + 2) \div 3)

\* Mutant: the next value is placed over the end of this one.
SliceWithoutEnd(a, position, v) ==
    IF a.format \notin BytesFormats THEN [from |-> position, to |-> position, next |-> position]
    ELSE [from |-> position, to |-> position + EncodedBytes(a, v) + 1,
          next |-> position + EncodedBytes(a, v)]

\* Where the value goes in the scratch buffer, with the 0 that ends it.
Slice(a, position, v) ==
    IF a.format \notin BytesFormats THEN [from |-> position, to |-> position, next |-> position]
    ELSE [from |-> position, to |-> position + EncodedBytes(a, v) + 1,
          next |-> position + EncodedBytes(a, v) + 1]

\* handle_characteristic_read_request at a position of the scratch buffer: the
\* context and the next position.
HandleReadRequest(c, v, position) ==
    LET a == Attributes[c]
        Outcome(r) ==
            LET slice == Slice(a, position, r.value)
            IN  IF r.error # "None"
                THEN [context |-> Context(c, ReadStatus(r.error)), position |-> position]
                ELSE IF slice.to > ScratchBytes
                THEN [context |-> Context(c, "OutOfResources"), position |-> position]
                ELSE [context |-> [Context(c, "Success") EXCEPT
                                       !.read = TRUE, !.value = r.value,
                                       !.from = slice.from, !.to = slice.to],
                      position |-> slice.next]
    IN  {Outcome(r) : r \in HandleRead(a, v, Errors)}

\* Mutant: events are read for every subscriber.
MayReadEvents(c, isAdmin, purpose) ==
    IF purpose # "event" /\ ReadRequiresAdmin(c) /\ ~isAdmin THEN "InsufficientPrivileges"
    ELSE IF ~Attributes[c].readable THEN "ReadFromWriteOnlyCharacteristic"
    ELSE "Success"

MayRead(c, isAdmin, purpose) ==
    IF ReadRequiresAdmin(c) /\ ~isAdmin THEN "InsufficientPrivileges"
    ELSE IF ~Attributes[c].readable THEN "ReadFromWriteOnlyCharacteristic"
    ELSE "Success"

\* One turn of the loop of handle_characteristic_read_requests; purpose is the
\* HAPIPSessionContext.
ReadOne(c, isAdmin, purpose, position) ==
    LET Without(status) == {[context |-> Context(c, status), position |-> position]}
    IN  IF c \notin Characteristics THEN Without("ResourceDoesNotExist")
        ELSE IF MayRead(c, isAdmin, purpose) # "Success"
        THEN Without(MayRead(c, isAdmin, purpose))
        ELSE IF purpose # "event" /\ Attributes[c].switchEvent THEN Without("Success")
        ELSE IF purpose = "accessories" /\ Attributes[c].controlPoint
        THEN Without("UnableToPerformOperation")
        ELSE HandleReadRequest(c, value[c], position)

\* The outcomes after the turn for c, of the outcomes before.
ReadNext(read, c, isAdmin, purpose) ==
    UNION {{[contexts |-> Append(r.contexts, n.context), position |-> n.position] :
               n \in ReadOne(c, isAdmin, purpose, r.position)} : r \in read}

\* handle_characteristic_read_requests: the contexts it may answer with.
HandleReadRequests(request, isAdmin, purpose) ==
    LET read[i \in 0 .. Len(request)] ==
            IF i = 0 THEN {[contexts |-> <<>>, position |-> 0]}
            ELSE ReadNext(read[i - 1], request[i], isAdmin, purpose)
    IN  {r.contexts : r \in read[Len(request)]}

-----------------------------------------------------------------------------
(* Writing a characteristic *)

\* The value of the context is one of the format of the characteristic.
Accepted(a, w) ==
    CASE a.format = "bool" -> w.type = "uint" /\ w.n <= 1
      [] a.format \in UIntFormats -> w.type = "uint" /\ w.n <= UIntLimit(a.format)
      [] a.format = "int" -> w.type = "int" \/ (w.type = "uint" /\ w.n <= IntLimit)
      [] a.format = "float" -> w.type \in {"uint", "int", "float"}
      [] a.format = "string" -> w.type = "string" /\ w.n <= 256
      [] a.format = "data" -> w.type = "string" /\ w.base64
      [] a.format = "tlv8" -> w.type = "string" => w.base64

\* A TLV8 characteristic takes no notice of another value than a string.
Ignored(a, w) == a.format = "tlv8" /\ w.type # "string"

MayWrite(c, w, isAdmin) ==
    \/ isAdmin
    \/ /\ ~WriteRequiresAdmin(c)
       /\ ReadRequiresAdmin(c) => ~(Attributes[c].supportsWriteResponse \/ w.response)

\* Why the value does not reach the callback, or "Success".
WriteRefusal(c, w, isAdmin, position) ==
    LET a == Attributes[c]
    IN  IF ~MayWrite(c, w, isAdmin) THEN "InsufficientPrivileges"
        ELSE IF ~a.writable THEN "WriteToReadOnlyCharacteristic"
        ELSE IF w.auth = "invalid" \/ ~Accepted(a, w) THEN "InvalidValueInWrite"
        ELSE IF a.format = "string" /\ w.n >= ScratchBytes - position THEN "OutOfResources"
        ELSE "Success"

\* The part of handle_characteristic_write_request about "ev".
Subscription(c, w, isAdmin, current) ==
    IF ReadRequiresAdmin(c) /\ ~isAdmin
    THEN [status |-> "InsufficientPrivileges", subscribed |-> current]
    ELSE IF ~Attributes[c].supportsEventNotification
    THEN [status |-> "NotificationNotSupported", subscribed |-> current]
    ELSE [status |-> "Success",
          subscribed |-> IF w.ev = "enabled" THEN current \cup {c} ELSE current \ {c}]

\* What the response shows of a value that has been written, read again when the
\* characteristic supports write responses; without "r" its slice is given back.
WriteResponse(e, c, w) ==
    LET a == Attributes[c]
        Answer(context, position) ==
            [e EXCEPT !.contexts = Append(@, [context EXCEPT !.handled = ~Ignored(a, w)]),
                      !.position = position]
    IN  IF a.supportsWriteResponse
        THEN {IF r.context.status = "Success" /\ ~w.response
              THEN Answer(Context(c, "Success"), e.position)
              ELSE Answer(r.context, r.position) :
                 r \in HandleReadRequest(c, e.value[c], e.position)}
        ELSE {Answer(Context(c, IF w.response THEN "ReadFromWriteOnlyCharacteristic"
                                ELSE "Success"), e.position)}

\* The part of handle_characteristic_write_request about "value".
WriteValue(e, c, w, isAdmin) ==
    LET a == Attributes[c]
        refusal == WriteRefusal(c, w, isAdmin, e.position)
        Refuse(status) == [e EXCEPT !.contexts = Append(@, Context(c, status))]
    IN  IF refusal # "Success" THEN {Refuse(refusal)}
        ELSE IF Ignored(a, w) THEN WriteResponse(e, c, w)
        ELSE UNION {IF r.error # "None" THEN {Refuse(WriteStatus(r.error))}
                    ELSE WriteResponse([e EXCEPT !.value[c] = r.value], c, w) :
                       r \in HandleWrite(a, w.n, Errors)}

NeedsPrepare(c, w, timed) ==
    w.type # "none" /\ Attributes[c].requiresTimedWrite /\ ~timed

\* One turn of the loop of handle_characteristic_write_requests.  The status of
\* a subscription is lost when a value follows.
WriteOne(e, w, isAdmin, timed) ==
    LET c == w.char
        Refuse(status) == {[e EXCEPT !.contexts = Append(@, Context(c, status))]}
        ev == Subscription(c, w, isAdmin, e.subscribed)
        told == IF w.ev = "undefined" THEN e ELSE [e EXCEPT !.subscribed = ev.subscribed]
    IN  IF c \notin Characteristics THEN Refuse("ResourceDoesNotExist")
        ELSE IF NeedsPrepare(c, w, timed) \/ (w.type = "none" /\ w.ev = "undefined")
        THEN Refuse("InvalidValueInWrite")
        ELSE IF w.type # "none" THEN WriteValue(told, c, w, isAdmin)
        ELSE {[told EXCEPT !.contexts = Append(@, Context(c, ev.status))]}

\* The outcomes after the turn for w, of the outcomes before.
WriteNext(written, w, isAdmin, timed) == UNION {WriteOne(e, w, isAdmin, timed) : e \in written}

HandleWriteRequests(request, s, timed) ==
    LET written[i \in 0 .. Len(request)] ==
            IF i = 0
            THEN {[value |-> value, subscribed |-> subscribed[s], position |-> 0, contexts |-> <<>>]}
            ELSE WriteNext(written[i - 1], request[i], admin[s], timed)
    IN  written[Len(request)]

-----------------------------------------------------------------------------
(* Requests *)

\* 204 No Content when all went well and nothing is to be told.
WriteCode(request, contexts) ==
    IF \A i \in DOMAIN contexts : contexts[i].status = "Success" /\ ~request[i].response
    THEN "NoContent" ELSE "MultiStatus"

\* Mutant: the sum wraps.
ExpirationWrapped(ttl) == (clock + ttl) % (TimeLimit + 1)

Expiration(ttl) == IF TimeLimit - clock < ttl THEN TimeLimit ELSE clock + ttl

PutPrepare(s) ==
    /\ \E ttl \in TTLs, pid \in Pids :
           /\ prepare' = [prepare EXCEPT ![s] = [expiration |-> Expiration(ttl), pid |-> pid]]
           /\ granted' = [granted EXCEPT ![s] = {[pid |-> pid, deadline |-> clock + ttl]}]
           /\ Send(Message(s, "OK", <<>>, {}, <<>>))
    /\ UNCHANGED <<clock, value, admin, subscribed>>

\* No Content-Length, or a body that is not understood.
BadRequest(s) ==
    /\ Send(Message(s, "BadRequest", <<>>, {}, <<>>))
    /\ UNCHANGED <<clock, value, admin, prepare, subscribed, granted>>

\* pid is {} in a write that is not timed.
Unprepared(s, pid) ==
    /\ pid # {}
    /\ \/ prepare[s].expiration = 0
       \/ prepare[s].expiration < clock
       \/ pid # {prepare[s].pid}

Consumed(s, pid) ==
    IF prepare[s].expiration # 0 /\ pid # {} THEN NoPrepare ELSE prepare[s]

\* A timed write uses the prepare up, whatever becomes of it.
PutCharacteristics(s) ==
    /\ \E request \in WriteRequests, pid \in {{}} \cup {{p} : p \in Pids} :
           /\ IF Unprepared(s, pid)
              THEN /\ Send(Message(s, "MultiStatus", request, pid,
                              [i \in DOMAIN request |->
                                  Context(request[i].char, "InvalidValueInWrite")]))
                   /\ UNCHANGED <<value, subscribed>>
              ELSE \E e \in HandleWriteRequests(request, s, pid # {}) :
                      /\ value' = e.value
                      /\ subscribed' = [subscribed EXCEPT ![s] = e.subscribed]
                      /\ Send(Message(s, WriteCode(request, e.contexts), request, pid,
                                      e.contexts))
           /\ prepare' = [prepare EXCEPT ![s] = Consumed(s, pid)]
           /\ granted' = [granted EXCEPT ![s] = IF pid = {} THEN @ ELSE {}]
    /\ UNCHANGED <<clock, admin>>

GetCharacteristics(s) ==
    /\ \E request \in ReadRequests :
          \E contexts \in HandleReadRequests(request, admin[s], "characteristics") :
              Send(Message(s, IF request = <<>> THEN "NoContent"
                              ELSE IF \A i \in DOMAIN contexts : contexts[i].status = "Success"
                              THEN "OK" ELSE "MultiStatus",
                           <<>>, {}, contexts))
    /\ UNCHANGED <<clock, value, admin, prepare, subscribed, granted>>

\* HAPIPSessionHandleReadRequest for every characteristic of GET /accessories,
\* which reads one at a time and empties the scratch buffer after each.
GetAccessories(s) ==
    /\ \E c \in Characteristics :
          \E contexts \in HandleReadRequests(<<c>>, admin[s], "accessories") :
              Send(Message(s, "OK", <<>>, {}, contexts))
    /\ UNCHANGED <<clock, value, admin, prepare, subscribed, granted>>

\* write_event_notifications of flagged characteristics.
SendEvents(s) ==
    /\ \E due \in SUBSET subscribed[s] \ {{}} :
          \E contexts \in HandleReadRequests(SetToSeq(due), admin[s], "event") :
              Send(Message(s, "Event", <<>>, {}, contexts))
    /\ UNCHANGED <<clock, value, admin, prepare, subscribed, granted>>

-----------------------------------------------------------------------------
(* What happens between the requests *)

\* Add Pairing, on another session, changes the permissions of the controller.
ChangePermissions(s) ==
    /\ admin' = [admin EXCEPT ![s] = ~@]
    /\ Send(Silence)
    /\ UNCHANGED <<clock, value, prepare, subscribed, granted>>

\* CloseSession and a new connection of the controller, verified again.
Reconnect(s) ==
    /\ prepare' = [prepare EXCEPT ![s] = NoPrepare]
    /\ subscribed' = [subscribed EXCEPT ![s] = {}]
    /\ granted' = [granted EXCEPT ![s] = {}]
    /\ Send(Silence)
    /\ UNCHANGED <<clock, value, admin>>

Tick ==
    /\ clock < MaxTime
    /\ clock' = clock + 1
    /\ Send(Silence)
    /\ UNCHANGED <<value, admin, prepare, subscribed, granted>>

Init ==
    /\ clock = 1
    /\ value = Initial
    /\ admin \in [Sessions -> BOOLEAN]
    /\ prepare = [s \in Sessions |-> NoPrepare]
    /\ subscribed = [s \in Sessions |-> {}]
    /\ granted = [s \in Sessions |-> {}]
    /\ answer = Silence

Next ==
    \/ \E s \in Sessions :
          PutPrepare(s) \/ BadRequest(s) \/ PutCharacteristics(s) \/ GetCharacteristics(s)
          \/ GetAccessories(s) \/ SendEvents(s) \/ ChangePermissions(s) \/ Reconnect(s)
    \/ Tick

Spec == Init /\ [][Next]_vars

\* What the next step depends on.
View == <<clock, value, admin, prepare, subscribed, granted>>

-----------------------------------------------------------------------------
(* Properties *)

\* No value that reaches the application, converted from JSON, checked and
\* rounded, is off the constraints of its characteristic: the next read of it
\* asserts so (HAPCharacteristic.c:1332).  It does not hold.
ValuesFulfilConstraints == \A c \in Characteristics : value[c] \in Values(Attributes[c])

\* A float is rounded to the step next to it after its range has been checked.
PastMaximum(a, v) ==
    /\ a.format = "float" /\ a.step # 0
    /\ v \in a.maximum + 1 .. a.maximum + FloatTolerance
    /\ FromStep(a, v) = 0

\* The distance of an integer to its minimum does not fit the type it is computed
\* in.
PastWidth(a, v) ==
    /\ a.format = "int" /\ a.step # 0
    /\ v \in a.minimum .. a.maximum /\ v - a.minimum > IntLimit

Near(a, v) == v \in Values(a) \/ PastMaximum(a, v) \/ PastWidth(a, v)

\* A value that reaches the application fulfils the constraints of its
\* characteristic, whatever these are, with two exceptions: a float whose maximum
\* lies at most the tolerance below a step may be that step, and an integer more
\* than INT32_MAX above its minimum may be off the step, within its range.
ValuesNearConstraints == \A c \in Characteristics : Near(Attributes[c], value[c])

\* The values of one response are all rendered at its end, from the scratch
\* buffer they share: none was placed over another, and each fits.
SlicesAreDisjoint ==
    [][LET contexts == answer'.contexts
           slices == {i \in DOMAIN contexts : contexts[i].from # contexts[i].to}
       IN  \A i, j \in slices :
               /\ contexts[i].to <= ScratchBytes
               /\ i < j => contexts[i].to <= contexts[j].from]_vars

\* Every value of a characteristic with timed writes that the application takes
\* was announced by a prepare of the same session and the same PID, not expired,
\* acknowledged, and not used by a write before. Conversely, a write that keeps to
\* what was acknowledged is not turned down: a value that is fit for its
\* characteristic gets there.
PreparedWritesGetThere ==
    [][\A i \in DOMAIN answer'.request :
          LET w == answer'.request[i]
              prepared == \E g \in granted[answer'.session] :
                             answer'.pid = {g.pid} /\ clock <= g.deadline
          IN  /\ answer'.contexts[i].handled /\ Attributes[w.char].requiresTimedWrite
                     => prepared
              /\ /\ prepared
                 /\ w.char \in Characteristics
                 /\ w.type # "none" /\ w.auth # "invalid"
                 /\ Accepted(Attributes[w.char], w) /\ ~MayRefuse(Attributes[w.char], w.n)
                 => answer'.contexts[i].status # "InvalidValueInWrite"]_vars

\* A value that only admins may read is shown to no other controller: not by a
\* read, not by the response to a write, and not by an event it subscribed to
\* while it was an admin.
AdminValuesStayPrivate ==
    [][\A i \in DOMAIN answer'.contexts :
          answer'.contexts[i].read /\ ReadRequiresAdmin(answer'.contexts[i].char)
          => admin[answer'.session]]_vars

====
