---- MODULE MCIPRequests ----
EXTENDS IPRequests

Plain == [
    format |-> "uint8", hidden |-> FALSE, supportsAuthorizationData |-> FALSE, unit |-> "none",
    readable |-> TRUE, writable |-> TRUE, supportsEventNotification |-> TRUE,
    requiresTimedWrite |-> FALSE, supportsWriteResponse |-> FALSE, controlPoint |-> FALSE,
    readRequiresAdmin |-> FALSE, writeRequiresAdmin |-> FALSE, switchEvent |-> FALSE,
    minimum |-> 0, maximum |-> 3, step |-> 0, validValues |-> {}]

\* A lock, a log that only admins may read, a name, a command, a button, a level the
\* range of which is that of its type, and a temperature the maximum of which is off
\* its step.
MCAttributes ==
    "lock" :> [Plain EXCEPT !.requiresTimedWrite = TRUE, !.validValues = {0, 1},
                            !.supportsEventNotification = FALSE]
    @@ "log" :> [Plain EXCEPT !.format = "data", !.maximum = 3, !.readRequiresAdmin = TRUE,
                              !.supportsWriteResponse = TRUE]
    @@ "name" :> [Plain EXCEPT !.format = "string", !.maximum = 3, !.writable = FALSE]
    @@ "command" :> [Plain EXCEPT !.format = "tlv8", !.controlPoint = TRUE,
                                  !.supportsWriteResponse = TRUE, !.maximum = 2,
                                  !.supportsEventNotification = FALSE]
    @@ "button" :> [Plain EXCEPT !.writable = FALSE, !.switchEvent = TRUE]
    @@ "level" :> [Plain EXCEPT !.format = "int", !.minimum = -8, !.maximum = 7, !.step = 3]
    @@ "heat" :> [Plain EXCEPT !.format = "float", !.step = 1, !.maximum = 39]

\* The temperature only.
MCHeat == [c \in {"heat"} |-> MCAttributes[c]]
MCHeatInitial == [c \in {"heat"} |-> 20]

MCInitial == "lock" :> 0 @@ "log" :> 3 @@ "name" :> 3 @@ "command" :> 1 @@ "heat" :> 20
             @@ "button" :> 1 @@ "level" :> -2

MCBits == "uint8" :> 2 @@ "uint16" :> 3 @@ "uint32" :> 4 @@ "uint64" :> 5 @@ "int" :> 4

Write(c, type, n) ==
    [char |-> c, type |-> type, n |-> n, base64 |-> TRUE, ev |-> "undefined",
     response |-> FALSE, auth |-> "none"]

Asks(w) == [w EXCEPT !.response = TRUE]
Subscribes(c, ev) == [Write(c, "none", 0) EXCEPT !.ev = ev]

MCWriteRequests == {
    <<>>,
    <<Write("lock", "uint", 1)>>,
    <<Write("lock", "uint", 3), Write("lock", "uint", 4)>>,
    <<Write("absent", "uint", 0), Write("lock", "uint", 0)>>,
    <<Asks(Write("log", "string", 1)), Asks(Write("command", "string", 2))>>,
    <<Write("log", "string", 3), Asks(Write("log", "string", 2))>>,
    <<[Write("log", "string", 1) EXCEPT !.base64 = FALSE], Write("name", "string", 1)>>,
    <<Asks(Write("lock", "uint", 0)), [Write("log", "string", 2) EXCEPT !.auth = "invalid"]>>,
    <<Subscribes("log", "enabled"), Subscribes("button", "enabled")>>,
    <<Subscribes("log", "disabled"), Subscribes("command", "enabled")>>,
    <<Write("heat", "float", 21), Write("heat", "float", 10)>>,
    <<Write("heat", "float", 39), Write("level", "uint", 2)>>,
    <<Write("heat", "uint", 40), Write("level", "uint", 8), Write("level", "int", -2)>>,
    <<Write("level", "int", 5), Write("level", "int", -1)>>}

MCReadRequests == {<<>>, <<"name", "log", "command">>, <<"lock", "absent", "button">>, <<"heat", "log">>}

====
