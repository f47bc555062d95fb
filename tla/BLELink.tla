------------------------------ MODULE BLELink ------------------------------
(* The Bluetooth LE transport of an accessory: HAPBLEPeripheralManager.c, the callbacks of
   the platform's peripheral manager and of the timers, over the session, the procedure, the
   events and the advertisements of the modules below it.

   One controller at a time is connected.  It writes requests to characteristics and reads
   the answers, a full procedure serving one characteristic and fallback procedures telling
   the others to wait; the application raises events at any time; the link ends by timers,
   by errors, by the controller, or because the server stops; power may be lost.

   ble is the state of the accessory.  Besides the fields of the other modules it has
   fallback, per characteristic, and of history: sessions counts connections (a session
   number stands for the keys of the session), asked is the request the controller wrote
   last to a characteristic, prepared the value of the last timed write that was answered
   with success there, seen what controller and application got in this step.
   sealed is what has been broadcast under the present key, base what was advertised when
   the controller left. *)
EXTENDS BLEProcedure

\* An instance is an accessory and what it meets: its GATT table, the PDUs written to each
\* characteristic, whether they may go wrong, the rooms of reads, the size of the platform's
\* queue, the number of connections, whether the server is stopped, and the GSNs it may start
\* with, and tokens it may have: [table, pdus, faults, rooms, queue, maxSessions, stops, gsns,
\* tokens].
CONSTANT Instances

\* A characteristic of the GATT table, and the opcodes of requests (unknown for any other).
Characteristic ==
    [name : STRING \ {NoChar}, procedure : {"None", "PairSetup", "PairVerify"}, notify : BOOLEAN,
     admin : BOOLEAN, timed : BOOLEAN, broadcast : BOOLEAN, disconnected : BOOLEAN, service : BOOLEAN,
     configures : BOOLEAN]
Opcodes ==
    {"SignatureRead", "Write", "Read", "TimedWrite", "ExecuteWrite", "ServiceSignatureRead",
     "Configuration", "ProtocolConfiguration", "Token", "TokenUpdate", "Info", "unknown"}

ASSUME InstancesAssumption ==
    \A i \in Instances :
        /\ i.table \in Seq(Characteristic)
        /\ \A k \in 1 .. Len(i.table) : \A pdu \in i.pdus[i.table[k].name] :
               pdu.kind = "first" =>
                   /\ pdu.opcode \in Opcodes /\ pdu.total \in Nat
                   /\ pdu.total = 0 => pdu.body = "none"
        /\ i.queue \in Nat
        /\ i.gsns \subseteq 1 .. MaxGSN

VARIABLES instance, ble, sealed, base
vars == <<instance, ble, sealed, base>>

Elements == {instance.table[i] : i \in 1 .. Len(instance.table)}
Names == {c.name : c \in Elements}

NoFallback == [on |-> FALSE, tid |-> 0, status |-> "none", remaining |-> 0]
Unseen == [char |-> NoChar, answered |-> 0, status |-> "none", applied |-> "none"]
NotAsked == [tid |-> 0, opcode |-> "none", body |-> "none"]

DefaultEnv == [authentic |-> TRUE, late |-> FALSE, expired |-> FALSE, outcome |-> "next",
               returns |-> FALSE, total |-> 1, raises |-> NoChar, admin |-> FALSE]

\* What a write may meet: a timer that is overdue at the start of a procedure, a body that
\* does not decrypt during a secured one.
WriteEnvs ==
    IF instance.faults THEN {[DefaultEnv EXCEPT !.authentic = a, !.late = l] : a \in BOOLEAN, l \in BOOLEAN}
    ELSE {DefaultEnv}

\* What the processing of a request may meet: a message of a pairing procedure, a token or
\* information, a value of some length, an application that takes a value and reports a change.
PairingEnvs ==
    {[DefaultEnv EXCEPT !.outcome = e.outcome, !.returns = e.returns, !.admin = e.admin] :
        e \in [outcome : {"next", "accepted"} \cup (IF instance.faults THEN {"error", "refused"} ELSE {}),
               returns : BOOLEAN, admin : BOOLEAN]}
InformEnvs == {[DefaultEnv EXCEPT !.outcome = o] : o \in {"next", "error"}}
ValueEnvs == {[DefaultEnv EXCEPT !.total = n] : n \in 0 .. Room}
HandlerEnvs ==
    {[DefaultEnv EXCEPT !.expired = e.expired, !.returns = e.returns, !.raises = e.raises] :
        e \in [expired : BOOLEAN, returns : BOOLEAN,
               raises : {d.name : d \in {f \in Elements : f.notify}} \cup {NoChar}]}

ProcessingEnvs(c, opcode) ==
    IF c.procedure # "None" THEN PairingEnvs
    ELSE IF opcode \in {"Token", "TokenUpdate", "Info"} THEN InformEnvs
    ELSE IF opcode = "Read" THEN ValueEnvs
    ELSE IF opcode \in {"Write", "ExecuteWrite"} THEN HandlerEnvs
    ELSE {DefaultEnv}

\* A read of c, if its procedure has a request to process.
ReadEnvs(b, c) ==
    IF b.procedure.attached = c.name /\ IsRequestAvailable(b.procedure.transaction)
    THEN ProcessingEnvs(c, b.procedure.transaction.request.opcode)
    ELSE {DefaultEnv}

------------------------------------------------------------------------------
\* The accessory.

\* Everything in RAM when the server starts for the first time.
Off(store) ==
    [server |-> "Running", connected |-> FALSE, cancelled |-> FALSE, failed |-> FALSE,
     table |-> instance.table, link |-> NoLink, procedure |-> NoProcedure,
     fallback |-> [c \in Names |-> NoFallback],
     subscribed |-> {}, pending |-> {}, informed |-> {}, free |-> 0,
     adv |-> NoAdv, store |-> store, air |-> Silent,
     sessions |-> 0, asked |-> [c \in Names |-> NotAsked],
     prepared |-> [c \in Names |-> "none"], seen |-> Unseen]

\* HAPAccessoryServerStart: timers and a broadcast event of an earlier run are still there.
Started(b) == UpdateAdvertisingData([b EXCEPT !.server = "Running"])

\* HAPAccessoryServerStop of an accessory without IP.
Stopped(b) ==
    IF b.server = "Idle" THEN b
    ELSE LET d == UpdateAdvertisingData([b EXCEPT !.server = "Stopping"])
         IN IF ~b.connected THEN [d EXCEPT !.server = "Idle"]
            ELSE IF b.link.safe THEN CancelConnection(d)
            ELSE d

AbortAllFallbackProcedures(b) == [b EXCEPT !.fallback = [c \in DOMAIN b.fallback |-> NoFallback]]

\* HandleConnectedCentral, with HAPSessionCreate.
Connected(b) ==
    DidConnect([ResetEventState(AbortAllFallbackProcedures(b)) EXCEPT
                   !.connected = TRUE, !.link = CreateSession, !.free = instance.queue, !.sessions = @ + 1])

\* HandleDisconnectedCentral, with HAPSessionRelease.
Disconnected(b) ==
    LET d == DidDisconnect([ResetEventState(HandleSessionInvalidate(AbortAllFallbackProcedures(b))) EXCEPT
                               !.connected = FALSE, !.cancelled = FALSE, !.link = NoLink, !.free = 0,
                               !.procedure = NoProcedure,
                               !.asked = [c \in Names |-> NotAsked], !.prepared = [c \in Names |-> "none"]])
    IN IF d.server = "Running" THEN d ELSE Stopped(d)

------------------------------------------------------------------------------
\* Reading and writing a value.

\* The end of HandleReadRequest and HandleWriteRequest.
Finished(result) ==
    IF result.error THEN SessionInvalidate(result.ble, TRUE) ELSE SendPendingEventNotifications(result.ble)

WithAbort(b, c) == IF DropsSecuritySession(c) THEN AbortAllFallbackProcedures(b) ELSE b

\* The first fragment of a request to a procedure that only tells the controller to wait.
FallbackBegun(b, c, pdu) ==
    IF pdu.kind # "first" \/ pdu.n > pdu.total THEN Failed(b)
    ELSE Ok(DidSendGATTResponse(
                [b EXCEPT !.fallback[c.name].tid = pdu.tid,
                          !.fallback[c.name].status = IF pdu.opcode # "unknown" /\ pdu.iid # "own"
                                                      THEN "InvalidInstanceID" ELSE "MaxProcedures",
                          !.fallback[c.name].remaining = pdu.total - pdu.n]))

FallbackContinued(b, c, pdu) ==
    LET f == b.fallback[c.name]
    IN IF pdu.kind # "continuation" \/ pdu.tid # f.tid \/ pdu.n > f.remaining THEN Failed(b)
       ELSE Ok(DidSendGATTResponse([b EXCEPT !.fallback[c.name].remaining = @ - pdu.n]))

\* Here, unlike in a full procedure, what counts is whether the session is secured now.
WriteToFallback(b, c, pdu, env, isNew) ==
    IF IsSecured(b) /\ ~env.authentic THEN Failed(b)
    ELSE IF isNew THEN FallbackBegun(b, c, pdu)
    ELSE FallbackContinued(b, c, pdu)

BeginFallback(b, c) == DidStartBLEProcedure([b EXCEPT !.fallback[c.name].on = TRUE])

\* AttachProcedure, and the write to the procedure it finds.
WriteToProcedure(b, c, pdu, env) ==
    IF b.fallback[c.name].on THEN WriteToFallback(b, c, pdu, env, FALSE)
    ELSE IF b.procedure.attached = c.name THEN HandleGATTWrite(b, c, pdu, env)
    ELSE IF b.procedure.attached # NoChar /\ IsInProgress(b) /\ ~DropsSecuritySession(c)
    THEN WriteToFallback(BeginFallback(b, c), c, pdu, env, TRUE)
    ELSE HandleGATTWrite([b EXCEPT !.procedure = AttachTo(c.name)], c, pdu, env)

MayAttach(b) ==
    /\ ~b.link.terminal
    /\ b.server = "Running" \/ (b.procedure.attached # NoChar /\ IsInProgress(b))

\* HandleWriteRequest of a value.
ValueWrite(b, c, pdu, env) ==
    Finished(IF ~MayAttach(b) THEN Failed(CancelConnection(b))
             ELSE WriteToProcedure(WithAbort(b, c), c, pdu, env))

ReadFallback(b, c, room) ==
    LET f == b.fallback[c.name]
    IN IF f.remaining > 0 \/ room = 0 THEN Failed(b)
       ELSE Ok(DidSendGATTResponse([b EXCEPT !.fallback[c.name] = NoFallback, !.seen.answered = f.tid]))

\* GetProcedure, and the read from the procedure it finds.
ReadFromProcedure(b, c, room, env) ==
    IF b.fallback[c.name].on THEN ReadFallback(b, c, room)
    ELSE IF b.procedure.attached = c.name THEN HandleGATTRead(b, c, room, env)
    ELSE Failed(b)

\* HandleReadRequest of a value.
ValueRead(b, c, room, env) ==
    Finished(IF b.link.terminal THEN Failed(CancelConnection(b))
             ELSE ReadFromProcedure(WithAbort(b, c), c, room, env))

------------------------------------------------------------------------------
\* The steps.  Each starts with nothing seen yet.

Now == [ble EXCEPT !.seen = Unseen]

\* What is on the air is sealed with the key it was sealed with, one nonce per GSN.
Sealed(b) ==
    (IF b.store.key = ble.store.key THEN sealed ELSE {})
        \cup (IF b.air.kind = "event" THEN {[gsn |-> b.air.gsn, value |-> b.air.value]} ELSE {})

\* The controller leaves with the GSN it can know; what happens then has to change it.
Base(b, changed) ==
    IF ble.connected /\ ~b.connected THEN [gsn |-> b.store.gsn, changed |-> FALSE, excused |-> FALSE]
    ELSE [base EXCEPT !.changed = @ \/ (changed /\ ~ble.connected)]

Becomes(b, changed) ==
    /\ ~ble.failed
    /\ ble' = b
    /\ sealed' = Sealed(b)
    /\ base' = Base(b, changed)
    /\ UNCHANGED instance

\* A controller connects to what it sees.
Connect ==
    /\ ~ble.connected /\ ble.air.kind # "none" /\ ble.sessions < instance.maxSessions
    /\ Becomes(Connected(Now), FALSE)

Disconnect == ble.connected /\ Becomes(Disconnected(Now), FALSE)

\* A request is noted when it was accepted, which shows in the link that goes on.
Noted(b, c, pdu) ==
    IF b.link.terminal \/ pdu.kind # "first" THEN b
    ELSE [b EXCEPT !.asked[c.name] = [tid |-> pdu.tid, opcode |-> pdu.opcode, body |-> pdu.body]]

\* A timed write is prepared by its successful answer.
Prepared(b, c) ==
    IF b.seen.status = "Success" /\ b.asked[c.name].opcode = "TimedWrite"
    THEN [b EXCEPT !.prepared[c.name] = b.asked[c.name].body] ELSE b

WriteRequest ==
    /\ ble.connected
    /\ \E c \in Elements : \E pdu \in instance.pdus[c.name], env \in WriteEnvs :
           Becomes(Noted(ValueWrite(Now, c, pdu, env), c, pdu), FALSE)

ReadRequest ==
    /\ ble.connected
    /\ \E c \in Elements : \E room \in instance.rooms, env \in ReadEnvs(ble, c) :
           Becomes(Prepared(ValueRead([Now EXCEPT !.seen.char = c.name], c, room, env), c), FALSE)

Subscribe ==
    /\ ble.connected
    /\ \E c \in Elements, enable \in BOOLEAN :
           c.notify /\ Becomes(SetNotificationsEnabled(Now, c, enable), FALSE)

ReadyToUpdateSubscribers ==
    /\ ble.connected /\ ble.free < instance.queue
    /\ Becomes(HandleReadyToUpdateSubscribers(Now), FALSE)

\* HAPAccessoryServerRaiseEvent; readable: the application can tell the value to broadcast.
RaiseEvent ==
    \E c \in {d \in Elements : d.notify \/ d.broadcast \/ d.disconnected},
       readable \in BOOLEAN, value \in 0 .. 1 :
        Becomes(DidRaiseEvent(Now, c, NoChar, readable, value), c.disconnected /\ readable)

\* LinkTimerOrPairingProcedureTimerExpired.
LinkTimer ==
    /\ ble.link.linkTimer
    /\ Becomes(SessionInvalidate([Now EXCEPT !.link.linkTimer = FALSE], TRUE), FALSE)

PairingTimer ==
    /\ ble.link.pairingTimer
    /\ Becomes(SessionInvalidate([Now EXCEPT !.link.pairingTimer = FALSE], TRUE), FALSE)

SafeTimer == ~ble.link.safe /\ Becomes(SafeToDisconnectTimerExpired(Now), FALSE)

ProcedureTimer == IsInProgress(ble) /\ Becomes(ProcedureTimerExpired(Now), FALSE)

\* FallbackProcedureTimerExpired.
FallbackTimer ==
    \E c \in Elements :
        /\ ble.fallback[c.name].on
        /\ Becomes(SessionInvalidate([Now EXCEPT !.fallback[c.name] = NoFallback], TRUE), FALSE)

FastTimer ==
    /\ ble.adv.fastTimer
    /\ Becomes(AdvertisingTimerExpired([Now EXCEPT !.adv.fastTimer = FALSE]), FALSE)

EventTimer ==
    /\ ble.adv.timer
    /\ Becomes(AdvertisingTimerExpired([Now EXCEPT !.adv.timer = FALSE]), FALSE)

Stop == instance.stops /\ Becomes(Stopped(Now), FALSE)

Start == ble.server = "Idle" /\ Becomes(Started(Now), FALSE)

\* The pairing of the session is removed by another controller, with the broadcast key if it
\* was the last admin's: HAPAccessoryServerCleanupPairings.
RemovePairing ==
    /\ ble.link.security = "Secured"
    /\ \E last \in BOOLEAN :
           Becomes([(IF last THEN ExpireKey(Now) ELSE Now) EXCEPT !.link.security = "Gone"], FALSE)

\* IncrementGSN expires the key before it stores the GSN.
LosePower ==
    /\ \E store \in {ble.store} \cup
                     (IF ble.store.gsn = ble.store.expiration THEN {ExpireKey(ble).store} ELSE {}) :
           LET b == [Started(Off(store)) EXCEPT !.sessions = ble.sessions]
           IN /\ ~ble.failed
              /\ ble' = b
              /\ sealed' = Sealed(b)
              /\ base' = IF ble.connected
                         THEN [gsn |-> store.gsn, changed |-> FALSE, excused |-> store.didIncrement]
                         ELSE base
    /\ UNCHANGED instance

Init ==
    /\ instance \in Instances
    /\ \E gsn \in instance.gsns, token \in instance.tokens :
           /\ ble = Started(Off([gsn |-> gsn, didIncrement |-> FALSE, key |-> NoKey, expiration |-> 0,
                                 enabled |-> {}, token |-> token]))
           /\ base = [gsn |-> gsn, changed |-> FALSE, excused |-> FALSE]
    /\ sealed = {}

Next ==
    \/ Connect \/ Disconnect
    \/ WriteRequest \/ ReadRequest \/ Subscribe \/ ReadyToUpdateSubscribers
    \/ RaiseEvent
    \/ LinkTimer \/ PairingTimer \/ SafeTimer \/ ProcedureTimer \/ FallbackTimer
    \/ FastTimer \/ EventTimer
    \/ Stop \/ Start \/ RemovePairing \/ LosePower

Spec == Init /\ [][Next]_vars

------------------------------------------------------------------------------
\* Properties.

\* A link that serves no more requests ends: the platform has been asked to end it, or will
\* be when the last answer had time to arrive.  A secured link that is idle has a timer.
LinksEnd ==
    ble.connected =>
        /\ ble.link.terminal \/ ble.server # "Running" => ble.cancelled \/ ~ble.link.safe
        /\ ble.link.security = "Secured" => ble.link.linkTimer

\* Every answer is the one to the last request at its characteristic, whichever procedure
\* gives it, and what reaches the application is the value that the last request wrote or
\* prepared there, whatever came between a timed write and its execution.
Matching ==
    LET seen == ble'.seen
        asked == ble.asked[seen.char]
    IN /\ seen.answered # 0 => seen.answered = asked.tid
       /\ seen.applied # "none" =>
              seen.applied = IF asked.opcode = "Write" THEN asked.body ELSE ble.prepared[seen.char]

AnswersMatchRequests == [][Matching]_vars

\* A change the controller subscribed to and may know waits only for the platform.
PendingEventsAreBlocked ==
    ble.link.security = "Secured" =>
        \A c \in Elements : Sendable(ble, c) /\ MayBeTold(ble, c) => ble.free = 0

\* The application knows what the controller of a secured session is subscribed to, and that
\* nobody is when there is no session: across subscriptions made before the session is
\* secured, sessions that a pairing procedure drops, and the end of the link.  (What changes
\* after the session lost its pairing is not told.)
ApplicationKnowsSubscribers ==
    /\ IsSecured(ble) => ble.informed = ble.subscribed
    /\ ble.link.security = "None" => ble.informed = {}

\* Whoever serves subscriptions, accessory or application, agrees with the controller on them:
\* PendingEventsAreBlocked and ApplicationKnowsSubscribers.
SubscribersAreServed == PendingEventsAreBlocked /\ ApplicationKnowsSubscribers

\* No two broadcasts are sealed with the same key and the same GSN, the nonce, unless they
\* are the same, across sessions, expiration and wrap of the GSN, and loss of power.
NoncesAreFresh == \A x, y \in sealed : x.gsn = y.gsn => x = y

\* A controller that comes back sees by the GSN that something changed after it left.  (Not
\* if power was lost while it was connected and had been sent an event; nor a change of a
\* value that could not be read for the broadcast.)
ChangesAreNoticed ==
    ~ble.connected /\ base.changed /\ ~base.excused => ble.store.gsn # base.gsn

\* The assertions about timers and the broadcast event hold, and an event is never on the
\* air without its key: HAPBLEAccessoryServer+Advertising.c.
AssertionsHold == ~ble.failed

=============================================================================
