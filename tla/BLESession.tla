----------------------------- MODULE BLESession -----------------------------
(* HAPBLESession.c: when a Bluetooth LE link has to end.  b.link is the session of the link:
     security      "None", "Secured", "Transient", or "Gone": active, its pairing removed
     admin         the controller may read what only admins may
     terminal      no request is served any more
     safe          the last answer had time to arrive: the safe-to-disconnect timer is off
     linkTimer, pairingTimer   the timers that make it terminal
     verifying     Pair Verify is under way
   b.cancelled says that the platform was asked to end the connection, b.subscribed is what
   the controller subscribed to, and b.informed what the application was told of that and
   did not change since. *)
EXTENDS BLEAdvertising, Sequences

NoLink == [security |-> "None", admin |-> FALSE, terminal |-> FALSE, safe |-> TRUE,
           linkTimer |-> FALSE, pairingTimer |-> FALSE, verifying |-> FALSE]

\* HAPBLESessionCreate.
CreateSession == [NoLink EXCEPT !.linkTimer = TRUE]

\* HAPSessionIsSecured and HAPSessionIsTransient.
IsSecured(b) == b.link.security \in {"Secured", "Transient"}
IsTransient(b) == b.link.security = "Transient"

CancelConnection(b) == [b EXCEPT !.cancelled = TRUE]

\* HAPAccessoryServerHandleSubscribe and HandleUnsubscribe: the handlers of the application.
HandleSubscribe(b, names) == [b EXCEPT !.informed = @ \cup names]
HandleUnsubscribe(b, names) == [b EXCEPT !.informed = @ \ names]

\* HAPBLEPeripheralManagerHandleSessionInvalidate, of a session that is active.
HandleSessionInvalidate(b) ==
    IF b.link.security = "None" THEN b ELSE HandleUnsubscribe(b, b.subscribed)

\* HAPSessionInvalidate with HAPBLESessionInvalidate.
SessionInvalidate(b, terminate) ==
    [HandleSessionInvalidate(b) EXCEPT
        !.link = [NoLink EXCEPT !.terminal = @ \/ terminate \/ b.link.terminal, !.safe = b.link.safe],
        !.cancelled = @ \/ (terminate /\ b.link.safe /\ b.connected)]

\* HAPBLESessionIsTerminalSoon.  The deadline minus now is computed the wrong way round, so
\* that it is true only of a timer that is overdue (late).
IsTerminalSoon(b, late) == b.link.terminal \/ (b.link.linkTimer /\ late)

\* HAPBLESessionDidSendGATTResponse.
DidSendGATTResponse(b) == [b EXCEPT !.link.safe = FALSE]

\* Mutant: a stopping server is forgotten.
SafeToDisconnectIfTerminal(b) ==
    [b EXCEPT !.link.safe = TRUE, !.cancelled = @ \/ b.link.terminal]

\* SafeToDisconnectTimerExpired.
SafeToDisconnectTimerExpired(b) ==
    [b EXCEPT !.link.safe = TRUE, !.cancelled = @ \/ b.link.terminal \/ b.server # "Running"]

\* HAPBLESessionDidStartBLEProcedure: thirty seconds for the next one, if secured.
DidStartBLEProcedure(b) ==
    IF b.link.terminal THEN b ELSE [b EXCEPT !.link.linkTimer = IsSecured(b)]

\* HAPBLESessionDidStartPairingProcedure: ten seconds in all.
DidStartPairingProcedure(b) ==
    IF b.link.terminal THEN b ELSE [b EXCEPT !.link.pairingTimer = TRUE]

\* HAPBLESessionDidCompletePairingProcedure of Pair Verify.
DidCompletePairVerify(b) ==
    IF b.link.terminal THEN b
    ELSE [b EXCEPT !.link.pairingTimer = FALSE, !.link.linkTimer = @ \/ IsSecured(b)]

-----------------------------------------------------------------------------
(* The events of a Bluetooth LE link: HAPBLEPeripheralManager.c 122-146, 274-382, 430-497,
   1439-1454 and 1637-1711, and HAPBLEAccessoryServerDidRaiseEvent.

   b.table is the GATT table, a sequence of characteristics
     [name, procedure, notify, admin, timed, broadcast, disconnected, service, configures],
   service if it is the signature of its service, and configures if the service supports
   configuration (and is the one with the accessory's token and info);
   b.subscribed and b.pending are the flags of its elements, and b.free is the room in the
   platform's queue of indications. *)

\* ResetEventState.
ResetEventState(b) == [b EXCEPT !.subscribed = {}, !.pending = {}]

\* The indication of c is queued, and the GSN has counted it.
Indicated(b, c) ==
    DidSendEventNotification([b EXCEPT !.pending = @ \ {c.name}, !.free = @ - 1])

Sendable(b, c) == c.notify /\ c.name \in b.subscribed \cap b.pending

\* May the controller of this session read and write c, and be told of its changes?
MayBeTold(b, c) == ~c.admin \/ b.link.admin

\* Mutant: what the controller may not know holds up the rest.
SendPendingUntilRefused(b) ==
    LET sent[i \in 0 .. Len(b.table)] ==
            IF i = 0 THEN b
            ELSE IF Sendable(sent[i - 1], b.table[i]) /\ sent[i - 1].free > 0
            THEN Indicated(sent[i - 1], b.table[i])
            ELSE sent[i - 1]
    IN IF \/ ~IsSecured(b) \/ IsTransient(b)
          \/ \E i \in 1 .. Len(b.table) : Sendable(b, b.table[i]) /\ ~MayBeTold(b, b.table[i])
       THEN b
       ELSE sent[Len(b.table)]

\* One turn of the loop: what needs an admin is passed over, and nothing is sent
\* after the first indication the platform does not take.
Offered(b, c) ==
    IF Sendable(b, c) /\ MayBeTold(b, c) /\ b.free > 0 THEN Indicated(b, c) ELSE b

\* SendPendingEventNotifications goes through the table in order.
SendPendingEventNotifications(b) ==
    LET sent[i \in 0 .. Len(b.table)] == IF i = 0 THEN b ELSE Offered(sent[i - 1], b.table[i])
    IN IF ~IsSecured(b) \/ IsTransient(b) THEN b ELSE sent[Len(b.table)]

\* The application is told of a change in a secured session; in one that lost its pairing the
\* change goes unnoticed, and b.informed forgets about c.
Told(b, c, enable) ==
    IF IsSecured(b) /\ enable THEN HandleSubscribe(b, {c.name}) ELSE HandleUnsubscribe(b, {c.name})

\* SetNotificationsEnabled.
SetNotificationsEnabled(b, c, enable) ==
    IF enable = (c.name \in b.subscribed) THEN b
    ELSE SendPendingEventNotifications(
             Told([b EXCEPT !.subscribed = IF enable THEN @ \cup {c.name} ELSE @ \ {c.name}], c, enable))

\* HAPBLEPeripheralManagerRaiseEvent; the characteristic being written does not notify.
Notified(b, c, writing) ==
    IF ~c.notify \/ ~b.connected \/ c.name = writing THEN b
    ELSE SendPendingEventNotifications([b EXCEPT !.pending = @ \cup {c.name}])

\* HAPBLEAccessoryServerDidRaiseEvent.
DidRaiseEvent(b, c, writing, readable, value) ==
    CountedEvent(Notified(b, c, writing), c, readable, value)

\* HAPBLEPeripheralManagerHandleSessionAccept.
HandleSessionAccept(b) == SendPendingEventNotifications(HandleSubscribe(b, b.subscribed))

\* HandleReadyToUpdateSubscribers: an indication has been confirmed.
HandleReadyToUpdateSubscribers(b) == SendPendingEventNotifications([b EXCEPT !.free = @ + 1])

=============================================================================
