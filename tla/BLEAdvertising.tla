--------------------------- MODULE BLEAdvertising ---------------------------
(* What a Bluetooth LE accessory says while no controller is connected, and the counter by
   which controllers notice that they missed something:
   HAPBLEAccessoryServer+Advertising.c, +Broadcast.c and UpdateAdvertisingData of
   HAPBLEAccessoryServer.c.

   b is the state of the accessory.  This module uses its fields
     server    "Running", "Stopping" or "Idle"
     adv       server->ble.adv: connected, the timers, the broadcast event and its value
     store     what the key-value store keeps: GSN, broadcast key, broadcast configuration
     air       what the radio sends
     failed    an assertion or HAPFatalError was reached: the process ends
   Timers are untimed, and registering one does not fail. *)
EXTENDS Naturals

CONSTANT MaxGSN         \* UINT16_MAX
ASSUME GSNAssumption == MaxGSN \in Nat /\ MaxGSN >= 4

NoChar == "none"
NoKey == 0
Silent == [kind |-> "none", key |-> NoKey, gsn |-> 0, value |-> 0]

NoAdv == [connected |-> FALSE, fastTimer |-> FALSE, timer |-> FALSE, fastStarted |-> FALSE,
          event |-> NoChar, value |-> 0]

Asserted(b, condition) == [b EXCEPT !.failed = @ \/ ~condition]

------------------------------------------------------------------------------

\* HAPBLEAccessoryServerBroadcastGenerateKey.  A session derives the same key each time.
GenerateKey(b, key) ==
    LET expiration == b.store.gsn + (MaxGSN \div 2 - 1)
    IN [b EXCEPT !.store.key = key,
                 !.store.expiration = IF expiration > MaxGSN THEN expiration - MaxGSN ELSE expiration]

\* HAPBLEAccessoryServerBroadcastExpireKey.
ExpireKey(b) == [b EXCEPT !.store.key = NoKey, !.store.expiration = 0]

\* HAPBLEAccessoryServerIncrementGSN.
IncrementGSN(b) ==
    LET gsn == b.store.gsn
        c == IF gsn = b.store.expiration THEN ExpireKey(b) ELSE b
    IN [c EXCEPT !.store.gsn = IF gsn = MaxGSN THEN 1 ELSE gsn + 1, !.store.didIncrement = TRUE]

\* HAPBLEAccessoryServerDidStartAdvertising.
DidStartAdvertising(b) ==
    IF b.adv.fastStarted THEN b
    ELSE [b EXCEPT !.failed = @ \/ b.adv.fastTimer, !.adv.fastStarted = TRUE, !.adv.fastTimer = TRUE]

\* HAPBLEAccessoryServerGetAdvertisingParameters: a broadcast event needs its key.
OnAir(b) ==
    [kind |-> IF b.adv.event = NoChar THEN "regular" ELSE "event",
     key |-> IF b.adv.event = NoChar THEN NoKey ELSE b.store.key,
     gsn |-> b.store.gsn,
     value |-> b.adv.value]

UpdateAdvertisingData(b) ==
    IF b.server # "Running" \/ b.adv.connected THEN [b EXCEPT !.air = Silent]
    ELSE IF b.adv.event # NoChar /\ b.store.expiration = 0 THEN Asserted(b, FALSE)
    ELSE DidStartAdvertising([b EXCEPT !.air = OnAir(b)])

\* AdvertisingTimerExpired, the timer that fired being cleared in b.  An event is followed
\* by the regular advertisement, as fast as it was.
AdvertisingTimerExpired(b) ==
    UpdateAdvertisingData(
        IF b.adv.event # NoChar /\ ~b.adv.timer
        THEN [b EXCEPT !.failed = @ \/ b.adv.connected, !.adv.event = NoChar, !.adv.value = 0,
                       !.adv.timer = TRUE]
        ELSE Asserted(b, ~b.adv.connected))

\* Mutant: the timer of an event survives the connection.
DidConnectWithTimer(b) ==
    UpdateAdvertisingData(
        [b EXCEPT !.adv = [@ EXCEPT !.connected = TRUE, !.fastTimer = FALSE, !.event = NoChar, !.value = 0],
                  !.store.didIncrement = FALSE])

\* HAPBLEAccessoryServerDidConnect.
DidConnect(b) ==
    UpdateAdvertisingData(
        [b EXCEPT !.adv = [@ EXCEPT !.connected = TRUE, !.fastTimer = FALSE, !.timer = FALSE,
                                    !.event = NoChar, !.value = 0],
                  !.store.didIncrement = FALSE,
                  !.failed = @ \/ b.adv.connected])

\* Mutant: the GSN stays counted after the connection.
DidDisconnectCounted(b) ==
    UpdateAdvertisingData([b EXCEPT !.adv.connected = FALSE, !.adv.fastTimer = TRUE])

\* HAPBLEAccessoryServerDidDisconnect; Stop follows if the server is stopping.
DidDisconnect(b) ==
    UpdateAdvertisingData(
        [b EXCEPT !.adv.connected = FALSE,
                  !.adv.fastTimer = TRUE,
                  !.store.didIncrement = FALSE,
                  !.failed = \/ @
                             \/ ~b.adv.connected \/ ~b.adv.fastStarted
                             \/ b.adv.fastTimer \/ b.adv.timer \/ b.adv.event # NoChar])

\* The GSN counts one event per connection: the first one.
CountOnce(b) ==
    IF b.store.didIncrement THEN b
    ELSE IncrementGSN(Asserted(b, b.adv.event = NoChar /\ ~b.adv.timer))

\* HAPBLEAccessoryServerDidSendEventNotification.
DidSendEventNotification(b) == CountOnce(Asserted(b, b.adv.connected))

\* A broadcast needs a key with a GSN left, and a controller that wants it.
MayBroadcast(b, c) ==
    /\ c.broadcast
    /\ ~b.adv.connected
    /\ b.store.expiration \notin {0, b.store.gsn}
    /\ c.name \in b.store.enabled

\* Mutant: a broadcast, like a notification, is counted once.
BroadcastOnce(b, c, readable, value) ==
    LET counted == IF b.store.didIncrement THEN b ELSE IncrementGSN(b)
    IN UpdateAdvertisingData(
           IF readable THEN [counted EXCEPT !.adv.timer = TRUE, !.adv.event = c.name, !.adv.value = value]
           ELSE [counted EXCEPT !.adv.timer = FALSE, !.adv.event = NoChar, !.adv.value = 0])

\* The running event ends before the application is asked for the value; readable: it has one.
Broadcast(b, c, readable, value) ==
    LET stopped == UpdateAdvertisingData([b EXCEPT !.adv.timer = FALSE, !.adv.event = NoChar, !.adv.value = 0])
    IN UpdateAdvertisingData(
           IF readable
           THEN [IncrementGSN(stopped) EXCEPT !.adv.timer = TRUE, !.adv.event = c.name, !.adv.value = value]
           ELSE stopped)

\* The second half of HAPBLEAccessoryServerDidRaiseEvent, which broadcasts the change or
\* counts it.  The first half is BLELink's Notified.
CountedEvent(b, c, readable, value) ==
    IF MayBroadcast(b, c) THEN Broadcast(b, c, readable, value)
    ELSE IF ~c.disconnected \/ b.store.didIncrement THEN b
    ELSE IF b.adv.connected THEN CountOnce(b)
    ELSE UpdateAdvertisingData([CountOnce(b) EXCEPT !.adv.timer = TRUE])

=============================================================================
