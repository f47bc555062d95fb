----------------------------- MODULE MCBLELink -----------------------------
(* Instances of BLELink small enough for TLC: one that exercises the procedures of a link,
   one its events, and one the broadcasts and the GSN. *)
EXTENDS BLELink

Char(name) == [name |-> name, procedure |-> "None", notify |-> FALSE, admin |-> FALSE, timed |-> FALSE,
               broadcast |-> FALSE, disconnected |-> FALSE, service |-> FALSE, configures |-> FALSE]
Verify == [Char("verify") EXCEPT !.procedure = "PairVerify"]
Signature == [Char("signature") EXCEPT !.service = TRUE, !.configures = TRUE]
Setup == [Char("setup") EXCEPT !.procedure = "PairSetup"]

First(tid, opcode, body, total, n) ==
    [kind |-> "first", tid |-> tid, iid |-> "own", opcode |-> opcode, body |-> body, total |-> total, n |-> n]
Continuation(tid) == [kind |-> "continuation", tid |-> tid, n |-> 1]

\* A lock that takes timed writes only and another characteristic.
Procedures ==
    [table |-> <<Verify, [Char("lock") EXCEPT !.timed = TRUE], Char("name")>>,
     pdus |-> [verify |-> {First(1, "Write", "message", 1, 1)},
               lock |-> {First(1, "TimedWrite", "x", 1, 0), First(2, "TimedWrite", "y", 1, 1), Continuation(1),
                         First(1, "TimedWrite", "none", 0, 0),
                         First(2, "ExecuteWrite", "none", 0, 0), First(1, "ExecuteWrite", "z", 1, 1)},
               name |-> {First(1, "Write", "x", 1, 0), First(2, "Read", "none", 0, 0), Continuation(1)}],
     faults |-> TRUE, rooms |-> 0 .. 2, queue |-> 0, maxSessions |-> 1, stops |-> FALSE, gsns |-> {1},
     tokens |-> {"none"}]

\* A switch that reports changes of another one, whose value is for admins; room for one
\* indication.  The server stops and starts.
Events ==
    [table |-> <<Verify, [Char("use") EXCEPT !.notify = TRUE, !.admin = TRUE], [Char("on") EXCEPT !.notify = TRUE]>>,
     pdus |-> [verify |-> {First(1, "Write", "message", 1, 1)}, on |-> {First(1, "Write", "x", 1, 1)}, use |-> {}],
     faults |-> TRUE, rooms |-> {0, 2}, queue |-> 1, maxSessions |-> 1, stops |-> TRUE, gsns |-> {1},
     tokens |-> {"none"}]

\* A transient Pair Setup, of an accessory that is not paired: signatures and its info can
\* be read.
Transients ==
    [table |-> <<Setup, [Char("on") EXCEPT !.notify = TRUE], Signature>>,
     pdus |-> [setup |-> {First(1, "Write", "message", 1, 1), First(2, "SignatureRead", "none", 0, 0)},
               on |-> {First(1, "Read", "none", 0, 0), [First(2, "Read", "none", 0, 0) EXCEPT !.iid = "other"],
                       First(1, "unknown", "none", 0, 0)},
               signature |-> {[First(1, "ServiceSignatureRead", "none", 0, 0) EXCEPT !.iid = "other"],
                              First(1, "TokenUpdate", "x", 1, 1),
                              First(1, "Token", "none", 0, 0), First(1, "Info", "none", 0, 0)}],
     faults |-> TRUE, rooms |-> {2}, queue |-> 1, maxSessions |-> 1, stops |-> FALSE, gsns |-> {1},
     tokens |-> {"t"}]

\* A light whose changes are counted, and broadcast once that is enabled; the controller comes
\* back, and the GSN wraps.
Broadcasts ==
    [table |-> <<Verify, [Char("light") EXCEPT !.broadcast = TRUE, !.disconnected = TRUE], Signature>>,
     pdus |-> [verify |-> {First(1, "Write", "message", 1, 1)},
               light |-> {First(1, "Configuration", "enable", 1, 1)},
               signature |-> {First(1, "ProtocolConfiguration", "key", 1, 1)}],
     faults |-> FALSE, rooms |-> {2}, queue |-> 0, maxSessions |-> 2, stops |-> FALSE, gsns |-> {MaxGSN - 1},
     tokens |-> {"none"}]

\* All but what a step told its observers.
View == <<instance, [ble EXCEPT !.seen = Unseen], sealed, base>>

MCInstances == {Procedures, Events, Transients, Broadcasts}

=============================================================================
