---- MODULE IPServer ----
(***************************************************************************)
(* The engine of the accessory server over IP: session descriptors and      *)
(* their TCP streams, the timers that serve them, event notifications, and  *)
(* the start and the shutdown of the server.                                *)
(*                                                                         *)
(* Every callback of the run loop is one action.  A callback runs several   *)
(* functions of HAPIPAccessoryServer.c one after the other; each of them is *)
(* an operator from an engine (the record IP) to the engine, or to the set  *)
(* of engines, that it may leave behind.                                    *)
(*                                                                         *)
(* What a request does to the pairings is in the modules Sessions,          *)
(* PairVerify, Pairings and PairSetup.                                      *)
(***************************************************************************)
EXTENDS Integers, FiniteSets

CONSTANTS
    Sessions,           \* descriptors of server->ip.storage->sessions
    Characteristics,    \* those that support event notifications
    Immediate           \* those of type ProgrammableSwitchEvent

ASSUME IPServerAssumption ==
    /\ IsFiniteSet(Sessions)
    /\ IsFiniteSet(Characteristics)
    /\ Immediate \subseteq Characteristics

VARIABLES
    server,         \* server->state
    engine,         \* server->ip.state; nextState is Idle exactly while stopping
    listener,       \* the listener of the TCP stream manager is open
    numSessions,    \* server->ip.numSessions
    session,        \* session[s]: the descriptor
    timers          \* the timers that are registered

vars == <<server, engine, listener, numSessions, session, timers>>

Timers == {"garbageCollection", "maxIdleTime", "stateTransition", "process",
           "eventNotification", "callback"}

\* "free": the descriptor is zero; "closed": kHAPIPSessionState_Idle, to be
\* collected.
SessionState == [
    state : {"free", "closed", "reading", "writing", "processing"},
    inbound : BOOLEAN,          \* inboundBuffer.position # 0
    secured : BOOLEAN,          \* securitySession.isSecured
    interest : {"none", "bytes", "space"},
    subscribed : SUBSET Characteristics,    \* eventNotifications
    flags : SUBSET Characteristics,         \* those of them that are flagged
    numFlags : 0 .. Cardinality(Characteristics),
    delayed : BOOLEAN,  \* MaxEventNotificationDelay since eventNotificationStamp is not over
    silent : BOOLEAN]   \* MaxIdleTime since stamp is over

Free == [state |-> "free", inbound |-> FALSE, secured |-> FALSE, interest |-> "none",
         subscribed |-> {}, flags |-> {}, numFlags |-> 0, delayed |-> FALSE,
         silent |-> FALSE]

IP == [session |-> session, numSessions |-> numSessions, timers |-> timers,
       listener |-> listener, engine |-> engine]

Become(ip) ==
    /\ session' = ip.session
    /\ numSessions' = ip.numSessions
    /\ timers' = ip.timers
    /\ listener' = ip.listener
    /\ engine' = ip.engine
    /\ UNCHANGED server

\* A session that waits for a request.
Quiet(r) == r.state = "reading" /\ ~r.inbound

\* A timer fires.
Fired(timer) == [IP EXCEPT !.timers = @ \ {timer}]

Armed(ip, timer) == [ip EXCEPT !.timers = @ \cup {timer}]

-----------------------------------------------------------------------------
(* Closing sessions *)

\* The descriptor stays taken until the garbage is collected.
CloseSession(ip, s) ==
    Armed([ip EXCEPT !.session[s] =
               [Free EXCEPT !.state = "closed",
                            !.numFlags = @ + ip.session[s].numFlags
                                           - Cardinality(ip.session[s].flags)]],
          "garbageCollection")

CloseSessions(ip, closed) ==
    IF closed = {} THEN ip
    ELSE Armed([ip EXCEPT !.session = [s \in Sessions |->
                                          IF s \in closed THEN CloseSession(ip, s).session[s]
                                          ELSE @[s]]],
               "garbageCollection")

\* Mutant: the maximum idle time timer stays registered.
CollectGarbageOnly(ip) ==
    LET garbage == {s \in Sessions : ip.session[s].state = "closed"}
        left == ip.numSessions - Cardinality(garbage)
        collected == [ip EXCEPT
            !.session = [s \in Sessions |-> IF s \in garbage THEN Free ELSE @[s]],
            !.numSessions = left,
            !.timers = @ \ {"garbageCollection"}]
    IN  IF ip.listener \/ left # 0
        THEN collected
        ELSE [collected EXCEPT !.engine = "idle", !.timers = @ \cup {"callback"}]

\* collect_garbage; when nothing is left of a server that stops, it is idle.
CollectGarbage(ip) ==
    LET garbage == {s \in Sessions : ip.session[s].state = "closed"}
        left == ip.numSessions - Cardinality(garbage)
        collected == [ip EXCEPT
            !.session = [s \in Sessions |-> IF s \in garbage THEN Free ELSE @[s]],
            !.numSessions = left,
            !.timers = @ \ {"garbageCollection"}]
    IN  IF ip.listener \/ left # 0
        THEN collected
        ELSE [collected EXCEPT
                 !.engine = "idle",
                 !.timers = (@ \ {"stateTransition", "maxIdleTime"}) \cup {"callback"}]

\* Mutant: a session in the middle of a request is never given up.
IdlingQuiet(ip) == {s \in Sessions : ip.engine = "stopping" /\ Quiet(ip.session[s])}

\* Sessions that schedule_max_idle_time_timer closes: none unless the server
\* stops, and none that is processing.
Idling(ip) ==
    {s \in Sessions :
        /\ ip.engine = "stopping"
        /\ \/ Quiet(ip.session[s])
           \/ ip.session[s].state \in {"reading", "writing"} /\ ip.session[s].silent}

ScheduleMaxIdleTime(ip) ==
    LET rest == CloseSessions(ip, Idling(ip))
        waiting == \E s \in Sessions : rest.session[s].state \in {"reading", "writing"}
    IN  [rest EXCEPT
            !.listener = @ /\ ip.engine # "stopping",
            !.timers = (@ \ {"maxIdleTime"}) \cup {"garbageCollection"}
                \cup (IF ip.engine = "stopping" /\ waiting THEN {"maxIdleTime"} ELSE {})]

-----------------------------------------------------------------------------
(* Event notifications *)

\* Events that may be sent now: all of them once per MaxEventNotificationDelay.
Due(r) == IF r.delayed THEN r.flags \cap Immediate ELSE r.flags

\* The due flags are cleared as the events are collected.
Unflagged(r) ==
    [r EXCEPT !.flags = @ \ Due(r), !.numFlags = @ - Cardinality(Due(r)),
              !.delayed = @ \/ Due(r) # {}]

Sent(r) == [Unflagged(r) EXCEPT !.state = "writing", !.interest = "space"]

\* The response does not fit into the outbound buffer: the events are lost, nobody
\* is told of them later.
Skipped(r) == Unflagged(r)

\* write_event_notifications on the descriptor of a quiet session; its list of
\* events is always allocated.
WriteEventNotifications(r) ==
    IF ~r.secured
    THEN {[r EXCEPT !.flags = {}, !.numFlags = @ - Cardinality(r.flags), !.delayed = TRUE]}
    ELSE IF Due(r) = {} THEN {r}
    ELSE {Sent(r), Skipped(r)}

\* Mutant: the timer is not registered again.
ScheduleEventNotificationsOnce(ip) ==
    LET Flagged(r) == Quiet(r) /\ r.numFlags > 0
        written(s) == IF Flagged(ip.session[s]) THEN WriteEventNotifications(ip.session[s])
                      ELSE {ip.session[s]}
        results == {f \in [Sessions -> UNION {written(s) : s \in Sessions}] :
                        \A s \in Sessions : f[s] \in written(s)}
    IN  {[ip EXCEPT !.session = f, !.timers = @ \ {"eventNotification"}] : f \in results}

\* schedule_event_notifications: the timer stays registered for quiet sessions
\* whose delay is not over.
ScheduleEventNotifications(ip) ==
    LET Flagged(r) == Quiet(r) /\ r.numFlags > 0
        written(s) == IF Flagged(ip.session[s]) THEN WriteEventNotifications(ip.session[s])
                      ELSE {ip.session[s]}
        results == {f \in [Sessions -> UNION {written(s) : s \in Sessions}] :
                        \A s \in Sessions : f[s] \in written(s)}
    IN  {[ip EXCEPT !.session = f,
                    !.timers = (@ \ {"eventNotification"})
                        \cup (IF \E s \in Sessions : Flagged(f[s])
                              THEN {"eventNotification"} ELSE {})] : f \in results}

\* engine_raise_event: every subscriber but the session that writes the
\* characteristic (NULL outside of a write) is flagged.
RaisedEvent(ip, c, writer) ==
    LET told == {s \in Sessions \ writer : c \in ip.session[s].subscribed}
        raised == {s \in told : c \notin ip.session[s].flags}
    IN  [ip EXCEPT
            !.session = [s \in Sessions |->
                IF s \in told
                THEN [ip.session[s] EXCEPT !.flags = @ \cup {c},
                                           !.numFlags = @ + (IF s \in raised THEN 1 ELSE 0)]
                ELSE ip.session[s]],
            !.timers = @ \cup (IF raised # {} THEN {"eventNotification"} ELSE {})]

-----------------------------------------------------------------------------
(* Requests *)

Subscribed(ip, s, c) == [ip EXCEPT !.session[s].subscribed = @ \cup {c}]

\* Mutant: a pending event is forgotten without being counted.
UnsubscribedUncounted(ip, s, c) ==
    [ip EXCEPT !.session[s].subscribed = @ \ {c}, !.session[s].flags = @ \ {c}]

Unsubscribed(ip, s, c) ==
    [ip EXCEPT !.session[s].subscribed = @ \ {c}, !.session[s].flags = @ \ {c},
               !.session[s].numFlags = @ - Cardinality(ip.session[s].flags \cap {c})]

\* A complete request of a secured session has been handled, up to the answer:
\* most change nothing here; some subscribe, unsubscribe or write, and the
\* application raises the written characteristic or another one; Remove Pairing
\* closes other sessions that wait for a request.
SecuredRequests(ip, s) ==
    LET waiting == {t \in Sessions \ {s} : ip.session[t].state = "reading"
                                           /\ ip.session[t].secured}
    IN  {ip}
        \cup {Subscribed(ip, s, c) : c \in Characteristics}
        \cup {Unsubscribed(ip, s, c) : c \in ip.session[s].subscribed}
        \cup {RaisedEvent(ip, c, writer) : c \in Characteristics, writer \in {{}, {s}}}
        \cup {CloseSessions(ip, closed) : closed \in SUBSET waiting}

\* A session that is not secured may ask for Pair Setup, which closes a transient
\* session and may take several rounds of processing.
UnsecuredRequests(ip, s) ==
    LET Transient(r) == r.state \in {"reading", "writing"} /\ r.subscribed = {}
    IN  {ip} \cup {CloseSession(ip, t) : t \in {t \in Sessions \ {s} : Transient(ip.session[t])}}

\* The answer is ready; what follows the request stays in the buffer.
Answered(ip, s) ==
    {[ip EXCEPT !.session[s].state = "writing", !.session[s].inbound = b] : b \in BOOLEAN}

Processing(ip, s) == {[ip EXCEPT !.session[s].state = "processing"]}

\* The whole request has arrived.
HandleRequest(ip, s) ==
    IF ip.session[s].secured
    THEN UNION {Answered(i, s) : i \in SecuredRequests(ip, s)}
    ELSE UNION {Answered(i, s) \cup Processing(i, s) : i \in UnsecuredRequests(ip, s)}

\* handle_input with bytes in the buffer.  A session that has just been verified
\* is secured from here on; errors close the session; a part of a request stays
\* in the buffer.
HandleInput(ip, s) ==
    LET input == {[ip EXCEPT !.session[s].inbound = TRUE, !.session[s].secured = b] :
                     b \in {ip.session[s].secured, TRUE}}
    IN  input \cup {CloseSession(ip, s)} \cup UNION {HandleRequest(i, s) : i \in input}

-----------------------------------------------------------------------------
(* Callbacks of TCP streams *)

InterestIn(state) ==
    CASE state = "reading" -> "bytes" [] state = "writing" -> "space" [] OTHER -> "none"

\* Mutant: the process timer is left alone.
NotProcessed(ip, s) == ip

\* The process timer runs while a session is processing.
Processed(ip, s) ==
    IF ip.session[s].state = "processing" THEN Armed(ip, "process") ELSE ip

\* handle_io_progression, after every callback of a stream.
Progressed(ip, s) ==
    LET i == Processed(ip, s)
        next == IF ~Quiet(i.session[s]) THEN {i}
                ELSE IF i.engine = "stopping" THEN {CloseSession(i, s)}
                ELSE IF i.session[s].numFlags > 0 THEN ScheduleEventNotifications(i)
                ELSE {i}
    IN  {[n EXCEPT !.session[s].interest = InterestIn(n.session[s].state)] : n \in next}

\* ReadInboundData: nothing, bytes, or the end of the stream or an error.
ReadInboundData(ip, s) == {ip, CloseSession(ip, s)} \cup HandleInput(ip, s)

\* handle_output_completion: the next request may already be in the buffer.
CompleteOutput(ip, s) ==
    LET reading == [ip EXCEPT !.session[s].state = "reading"]
    IN  IF reading.session[s].inbound THEN HandleInput(reading, s) ELSE {reading}

\* WriteOutboundData: a part of the answer, the rest of it, or an error.  A
\* session whose pairing has been removed is closed after its answer.
WriteOutboundData(ip, s) == {ip, CloseSession(ip, s)} \cup CompleteOutput(ip, s)

\* HandleTCPStreamEvent: the session has been heard of.
Heard(s) == [IP EXCEPT !.session[s].silent = FALSE]

BytesAvailable(s) ==
    /\ session[s].interest = "bytes"
    /\ \E i \in ReadInboundData(Heard(s), s) : \E n \in Progressed(i, s) : Become(n)

SpaceAvailable(s) ==
    /\ session[s].interest = "space"
    /\ \E i \in WriteOutboundData(Heard(s), s) : \E n \in Progressed(i, s) : Become(n)

RegisterSession(ip) ==
    LET counted == [ip EXCEPT !.numSessions = @ + 1]
    IN  IF counted.numSessions = Cardinality(Sessions) THEN ScheduleMaxIdleTime(counted)
        ELSE counted

\* HandlePendingTCPStream with a free descriptor; without one the stream is
\* closed again.
AcceptTCPStream(s) ==
    /\ listener
    /\ session[s].state = "free"
    /\ Become(RegisterSession([IP EXCEPT !.session[s] =
                   [Free EXCEPT !.state = "reading", !.interest = "bytes"]]))

-----------------------------------------------------------------------------
(* Timers *)

GarbageCollectionTimer ==
    /\ "garbageCollection" \in timers
    /\ Become(CollectGarbage(IP))

MaxIdleTimeTimer ==
    /\ "maxIdleTime" \in timers
    /\ Become(ScheduleMaxIdleTime(IP))

StateTransitionTimer ==
    /\ "stateTransition" \in timers
    /\ Become(ScheduleMaxIdleTime(Fired("stateTransition")))

EventNotificationTimer ==
    /\ "eventNotification" \in timers
    /\ \E i \in ScheduleEventNotifications(IP) : Become(i)

\* The request of a processing session is handled again: its answer is ready or
\* not.
Reprocessed(r) ==
    {r} \cup {[r EXCEPT !.state = "writing", !.inbound = b, !.interest = "space"] :
                  b \in BOOLEAN}

\* The sessions of DOMAIN f have been handled again; the timer is registered while
\* one is still processing.
HandledAgain(ip, f) ==
    [ip EXCEPT !.session = [s \in Sessions |-> IF s \in DOMAIN f THEN f[s] ELSE @[s]],
               !.timers = @ \cup (IF \E s \in DOMAIN f : f[s].state = "processing"
                                  THEN {"process"} ELSE {})]

\* handle_server_process_timer.  A request for Pair Setup that is handled again
\* closes a transient session as it did the first time.
ProcessTimer ==
    /\ "process" \in timers
    /\ LET fired == Fired("process")
           processing == {s \in Sessions : session[s].state = "processing"}
       IN  IF engine # "running" THEN Become(fired)
           ELSE \E f \in [processing -> UNION {Reprocessed(session[s]) : s \in processing}] :
                   /\ \A s \in processing : f[s] \in Reprocessed(session[s])
                   /\ LET n == HandledAgain(fired, f)
                      IN  \E i \in {n} \cup UNION {UnsecuredRequests(n, s) : s \in processing} :
                             Become(i)

\* CallbackTimerExpired: the shutdown completes once the engine is idle; the
\* application is called in any case.
CallbackTimer ==
    /\ "callback" \in timers
    /\ timers' = timers \ {"callback"}
    /\ server' = IF engine = "idle" THEN "idle" ELSE server
    /\ UNCHANGED <<engine, listener, numSessions, session>>

\* MaxEventNotificationDelay has passed since the last event of s.
DelayOver(s) ==
    /\ session[s].delayed
    /\ Become([IP EXCEPT !.session[s].delayed = FALSE])

\* MaxIdleTime has passed since the last stream event of s; it matters, and is
\* looked at, only while the server stops.
FallSilent(s) ==
    /\ engine = "stopping"
    /\ session[s].state \in {"reading", "writing"}
    /\ ~session[s].silent
    /\ Become([IP EXCEPT !.session[s].silent = TRUE])

-----------------------------------------------------------------------------
(* The application *)

\* A characteristic changes and the application says so.
RaiseEvent(c) ==
    /\ engine # "idle"
    /\ Become(RaisedEvent(IP, c, {}))

\* HAPAccessoryServerStart: descriptors are zeroed, the engine starts.
Start ==
    /\ server = "idle"
    /\ server' = "running"
    /\ engine' = "running"
    /\ listener' = TRUE
    /\ session' = [s \in Sessions |-> Free]
    /\ timers' = timers \cup {"callback"}
    /\ UNCHANGED numSessions

\* HAPAccessoryServerStop and engine_stop.
Stop ==
    /\ server = "running"
    /\ server' = "stopping"
    /\ engine' = "stopping"
    /\ timers' = timers \cup {"callback", "stateTransition"}
    /\ UNCHANGED <<listener, numSessions, session>>

-----------------------------------------------------------------------------
Init ==
    /\ server = "idle"
    /\ engine = "idle"
    /\ listener = FALSE
    /\ numSessions = 0
    /\ session = [s \in Sessions |-> Free]
    /\ timers = {}

StreamStep(s) == AcceptTCPStream(s) \/ BytesAvailable(s) \/ SpaceAvailable(s)

TimerStep ==
    \/ GarbageCollectionTimer \/ MaxIdleTimeTimer \/ StateTransitionTimer
    \/ EventNotificationTimer \/ ProcessTimer \/ CallbackTimer

TimePasses(s) == DelayOver(s) \/ FallSilent(s)

Next ==
    \/ \E s \in Sessions : StreamStep(s) \/ TimePasses(s)
    \/ TimerStep
    \/ \E c \in Characteristics : RaiseEvent(c)
    \/ Start \/ Stop

Spec == Init /\ [][Next]_vars

\* The clock advances, and the run loop serves a timer whose deadline is over.
Fairness ==
    /\ WF_vars(GarbageCollectionTimer)
    /\ WF_vars(MaxIdleTimeTimer)
    /\ WF_vars(StateTransitionTimer)
    /\ WF_vars(EventNotificationTimer)
    /\ WF_vars(ProcessTimer)
    /\ WF_vars(CallbackTimer)
    /\ \A s \in Sessions : WF_vars(DelayOver(s)) /\ WF_vars(FallSilent(s))

FairSpec == Spec /\ Fairness

-----------------------------------------------------------------------------
(* Invariants *)

\* The values the variables range over.
WellTyped ==
    /\ server \in {"idle", "running", "stopping"}
    /\ engine \in {"idle", "running", "stopping"}
    /\ listener \in BOOLEAN
    /\ numSessions \in 0 .. Cardinality(Sessions)
    /\ session \in [Sessions -> SessionState]
    /\ timers \subseteq Timers

\* The two counters that CloseSession, collect_garbage, write_event_notifications
\* and the unsubscribe request assert on (HAPIPAccessoryServer.c:296, :3366) agree
\* with what they count, whatever subscribers ask for, whoever raises events and
\* whenever answers are sent; and no event is flagged for a session that does not
\* subscribe to it any more.
ChangesAreCounted ==
    /\ WellTyped
    /\ numSessions = Cardinality({s \in Sessions : session[s].state # "free"})
    /\ \A s \in Sessions :
        /\ session[s].flags \subseteq session[s].subscribed
        /\ session[s].numFlags = Cardinality(session[s].flags)

\* The stream manager reports what the state of the session can handle
\* (HAPIPAccessoryServer.c:3723, :3731), and reports it at all: a session whose
\* events are sent from another session's callback or from a timer is not left
\* deaf. And whatever waits for a timer has one: descriptors for the garbage
\* collection, quiet sessions with flagged events for the event notification
\* timer, and sessions with an answer under way for the process timer.
EverySessionIsServed ==
    \A s \in Sessions :
        /\ session[s].interest = InterestIn(session[s].state)
        /\ session[s].state = "closed" => "garbageCollection" \in timers
        /\ Quiet(session[s]) /\ session[s].numFlags > 0 => "eventNotification" \in timers
        /\ session[s].state = "processing" /\ engine = "running" => "process" \in timers

\* A server that has become idle has left nothing behind that serves its
\* sessions, and the timers that close sessions assert that it stops
\* (HAPIPAccessoryServer.c:305, :3901).
IdleIsClean ==
    /\ listener => engine # "idle"
    /\ engine = "running" => listener
    /\ engine = "idle" =>
        /\ \A s \in Sessions : session[s].state = "free"
        /\ timers \subseteq {"callback", "eventNotification", "process"}
        /\ server # "idle" => "callback" \in timers
    /\ "stateTransition" \in timers => engine = "stopping"

-----------------------------------------------------------------------------
(* Liveness *)

\* The flagged event of a quiet subscriber is taken up, however long its delay and
\* whoever else is served: the flag goes, with a message to the controller unless
\* the message does not fit the buffer (Skipped), or the session is not quiet any
\* more.
EventsAreSent ==
    \A s \in Sessions : \A c \in Characteristics :
        Quiet(session[s]) /\ c \in session[s].flags
            ~> ~Quiet(session[s]) \/ c \notin session[s].flags

\* No controller has sent or received anything for MaxIdleTime.
AllSilent ==
    \A s \in Sessions : session[s].state \in {"reading", "writing"} => session[s].silent

\* HAP.h:4173: when the accessory server is fully stopped, the application is
\* called; unless controllers keep it busy, it does stop.
ShutdownCompletes ==
    server = "stopping" /\ AllSilent ~> server = "idle" \/ ~AllSilent

\* It does, when no session has a Pair Setup answer under way.
ShutdownCompletesOtherwise ==
    server = "stopping" /\ AllSilent
        ~> server = "idle" \/ ~AllSilent
           \/ \E s \in Sessions : session[s].state = "processing"

====
