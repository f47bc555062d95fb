---- MODULE Sessions ----
(***************************************************************************)
(* Controller sessions over IP and Bluetooth LE, the run loop that drives   *)
(* them, and what a reboot keeps.  PairVerify and Pairings add the message  *)
(* handlers; Accessory composes them.                                       *)
(*                                                                         *)
(* The IP server calls the write half and the read half of a pairing        *)
(* request back to back (handle_pairing_data); over BLE they are two GATT   *)
(* requests and other sessions are served in between.  inHandler names the  *)
(* IP session between the two calls.                                        *)
(***************************************************************************)
EXTENDS PairingStore

CONSTANTS
    IPSessions,     \* IP session descriptors (server->ip.storage->sessions)
    BLESessions,    \* the session of the BLE connection, if BLE is enabled
    NoSession,
    NoController,
    CacheElements,  \* server->ble.storage->sessionCacheElements (0 or more)
    NoEntry,        \* content of a free cache element
    StoreFaults     \* what the key-value store may do to a handler

AllSessions == IPSessions \cup BLESessions

ASSUME SessionsAssumption ==
    /\ IPSessions \cap BLESessions = {}
    /\ NoSession \notin AllSessions
    /\ NoController \notin Controllers
    /\ BLESessions # {} => CacheElements # {}

\* "get", "set", "remove" and "purge": that operation of the store fails with
\* kHAPError_Unknown in a pairing handler; "crash": power fails just before the
\* purge of the Pairings domain.
ASSUME StoreFaultsAssumption ==
    /\ "none" \in StoreFaults
    /\ StoreFaults \subseteq {"none", "get", "set", "remove", "purge", "crash"}

VARIABLES
    pairings,       \* persistent: the Pairings domain
    sessionCache,   \* Pair Resume cache: the entry or NoEntry of each element
    session,        \* session[s]: security session and its procedures
    inHandler,      \* the IP session inside handle_pairing_data, or NoSession
    server,         \* "running", "down", or the assertion that has failed
    callbackTimer,  \* a handleUpdatedState callback is registered
    reported        \* IsPaired as the application saw it in the last callback

vars == <<pairings, sessionCache, session, inHandler, server, callbackTimer, reported>>

\* Assertions whose failure the handlers can reach; the process aborts.
Assertions == {"Input", "VerifyM1", "VerifyWrite", "VerifyRead",
               "PairingsWrite", "PairingsRead", "Start"}

\* The controller that holds the shared secret identifies an entry.
CacheEntry == [pairingID : Slots, controller : Controllers]

ASSUME NoEntryAssumption == NoEntry \notin CacheEntry

Caches == [CacheElements -> CacheEntry \cup {NoEntry}]

EmptyCache == [i \in CacheElements |-> NoEntry]

\* session->hap; controller stands for the keys: it is who can use them.
HAPState == [active : BOOLEAN, pairingID : Slots,
             controller : Controllers \cup {NoController}]

\* session->state.pairVerify between two messages.
VerifyState == [state : 0 .. 3, method : {"PairVerify", "PairResume"},
                pairingID : Slots \cup {-1},
                controller : Controllers \cup {NoController}, error : BOOLEAN]

\* session->state.pairings between two messages.
PairingsState == [state : 0 .. 1, method : {"None", "Add", "Remove", "List"},
                  removedPairingID : Controllers \cup {NoController}, error : BOOLEAN]

\* state is the state of the IP session descriptor ("reading" for BLE);
\* isSecured is its securitySession.isSecured flag.
SessionState == [state : {"closed", "reading", "writing"}, isSecured : BOOLEAN,
                 hap : HAPState, verify : VerifyState, pairings : PairingsState]

NoHAP == [active |-> FALSE, pairingID |-> 0, controller |-> NoController]

NoVerify == [state |-> 0, method |-> "PairVerify", pairingID |-> -1,
             controller |-> NoController, error |-> FALSE]

NoPairings == [state |-> 0, method |-> "None", removedPairingID |-> NoController,
               error |-> FALSE]

Closed == [state |-> "closed", isSecured |-> FALSE, hap |-> NoHAP,
           verify |-> NoVerify, pairings |-> NoPairings]

-----------------------------------------------------------------------------
(* State functions *)

\* HAPSessionIsSecured for a non-transient session, given the store.
SecuredIn(store, s) ==
    session[s].hap.active /\ store[session[s].hap.pairingID] # NoPairing

IsSecured(s) == SecuredIn(pairings, s)

\* The run loop is free to dispatch an event of another session.
Dispatching == server = "running" /\ inHandler = NoSession

\* Mutant: the other sessions are left alone.
NothingSwept(store, s) == {}

\* Sessions that handle_pairing_data closes after answering for session s.
Swept(store, s) ==
    IF s \in IPSessions
    THEN {t \in IPSessions \ {s} : session[t].state = "reading"
                                   /\ session[t].isSecured /\ ~SecuredIn(store, t)}
    ELSE {}

\* Mutant: the procedure's end does not look at the security session.
NeverDropped(store, s) == FALSE

\* A BLE procedure that started secured ends with its pairing gone from store:
\* the session is invalidated and the link terminated.
DroppedByProcedure(store, s) ==
    s \in BLESessions /\ IsSecured(s) /\ ~SecuredIn(store, s)

\* A response has been produced for s, whose record is now r: IP sessions
\* write it and the sweep follows; BLE drops a session whose pairing went.
Answered(store, s, r) ==
    [t \in AllSessions |->
        IF t \in Swept(store, s) THEN Closed
        ELSE IF t # s THEN session[t]
        ELSE IF s \in IPSessions THEN [r EXCEPT !.state = "writing"]
        ELSE IF DroppedByProcedure(store, s) THEN Closed
        ELSE r]

-----------------------------------------------------------------------------
(* Steps shared by the handlers *)

\* RAM is lost; the application is told again after the next start.
LoseRAM ==
    /\ session' = [s \in AllSessions |-> Closed]
    /\ sessionCache' = EmptyCache
    /\ inHandler' = NoSession
    /\ callbackTimer' = FALSE
    /\ UNCHANGED reported

\* HAPAssert / HAPPrecondition fails: the process aborts.
Abort(assertion) ==
    /\ server' = assertion
    /\ LoseRAM

\* Mutant: the callback is left to the cleanup of the pairings.
ScheduleUpdateIfPurged(store, always) == callbackTimer' = (callbackTimer \/ always)

\* HAPAccessoryServerDelegateScheduleHandleUpdatedState after a handler that
\* took the store from pairings to store.
ScheduleUpdate(store, always) ==
    callbackTimer' = (callbackTimer \/ always \/ IsPaired(store) # IsPaired(pairings))

\* The write half has succeeded and left store and the record r of s: an IP
\* session goes on to the read half in the same call.
Continue(store, s, r) ==
    /\ session' = [session EXCEPT ![s] = IF DroppedByProcedure(store, s) THEN Closed ELSE r]
    /\ inHandler' = IF s \in IPSessions THEN s ELSE NoSession

\* The write half has failed: an IP session answers Bad Request.
Reject(s, r) ==
    /\ session' = [session EXCEPT ![s] =
                      IF s \in IPSessions THEN [r EXCEPT !.state = "writing"] ELSE r]
    /\ inHandler' = NoSession

\* Guard of a read half.
Reading(s) ==
    /\ server = "running"
    /\ inHandler = IF s \in IPSessions THEN s ELSE NoSession

-----------------------------------------------------------------------------
(* Connections and the accessory server *)

\* A TCP stream is accepted, or the BLE central connects.
Connect(s) ==
    /\ Dispatching
    /\ session[s].state = "closed"
    /\ session' = [session EXCEPT ![s] = [Closed EXCEPT !.state = "reading"]]
    /\ UNCHANGED <<pairings, sessionCache, inHandler, server, callbackTimer, reported>>

\* CloseSession, or HAPSessionInvalidate and the end of the BLE connection.
CloseSession(s) ==
    /\ Dispatching
    /\ session[s].state # "closed"
    /\ session' = [session EXCEPT ![s] = Closed]
    /\ UNCHANGED <<pairings, sessionCache, inHandler, server, callbackTimer, reported>>

\* WriteOutboundData has sent the last byte of the response.
CompleteOutput(s) ==
    /\ Dispatching
    /\ session[s].state = "writing"
    /\ session' = [session EXCEPT ![s] =
                      IF @.isSecured /\ ~IsSecured(s) THEN Closed
                      ELSE [@ EXCEPT !.state = "reading"]]
    /\ UNCHANGED <<pairings, sessionCache, inHandler, server, callbackTimer, reported>>

\* handle_input on a request that changes no pairing state: it may still be
\* the first encrypted one, and it asserts on a secured session that is not.
Input(s) ==
    /\ Dispatching
    /\ s \in IPSessions
    /\ session[s].state = "reading"
    /\ UNCHANGED pairings
    /\ \/ /\ IsSecured(s)
          /\ session' = [session EXCEPT ![s].isSecured = TRUE, ![s].state = "writing"]
          /\ UNCHANGED <<sessionCache, inHandler, server, callbackTimer, reported>>
       \/ /\ ~IsSecured(s) /\ ~session[s].isSecured
          /\ session' = [session EXCEPT ![s].state = "writing"]
          /\ UNCHANGED <<sessionCache, inHandler, server, callbackTimer, reported>>
       \/ /\ ~IsSecured(s) /\ session[s].isSecured
          /\ Abort("Input")

\* CallbackTimerExpired: handleUpdatedState reads the paired state.
HandleUpdatedState ==
    /\ Dispatching
    /\ callbackTimer
    /\ callbackTimer' = FALSE
    /\ reported' = IsPaired(pairings)
    /\ UNCHANGED <<pairings, sessionCache, session, inHandler, server>>

\* Loss of power between two handlers, or between the halves of one.
Crash ==
    /\ server = "running"
    /\ server' = "down"
    /\ LoseRAM
    /\ UNCHANGED pairings

\* HAPAccessoryServerPrepareStart after a boot: it cleans up the pairings, and
\* any failure of the store there is fatal.
Start ==
    /\ server # "running"
    /\ UNCHANGED <<session, sessionCache, inHandler, reported>>
    /\ \/ /\ server' = "running"
          /\ callbackTimer' = TRUE
          /\ pairings' = CleanedUp(pairings)
       \/ /\ {"get", "purge"} \cap StoreFaults # {}
          /\ server' = "Start"
          /\ UNCHANGED <<pairings, callbackTimer>>

====
