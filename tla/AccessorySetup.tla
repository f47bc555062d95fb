---- MODULE AccessorySetup ----
(***************************************************************************)
(* An accessory that waits for its first controller: Pair Setup over        *)
(* several sessions, the setup code's timers, NFC pairing mode, and the     *)
(* application that starts and stops the accessory server.                  *)
(***************************************************************************)
EXTENDS PairSetup

Init ==
    /\ paired = FALSE
    /\ attempts = 0
    /\ \E interfaces \in Platforms : accessorySetup = NoSetupInfo(interfaces)
    /\ pairSetup = NoPairSetup
    /\ setup = [s \in AllSessions |-> NoSetup]
    /\ connection = [s \in AllSessions |-> "closed"]
    /\ transient = {}
    /\ inHandler = NoSession
    /\ callbackTimer = FALSE
    /\ server = "idle"

-----------------------------------------------------------------------------
(* The accessory server *)

\* HAPAccessoryServerPrepareStart: the callback timer is registered first.
Start ==
    /\ server = "idle"
    /\ server' = "running"
    /\ callbackTimer' = TRUE
    /\ accessorySetup' \in Resumed(accessorySetup, paired)
    /\ UNCHANGED <<paired, attempts, pairSetup, setup, connection, transient, inHandler>>

\* CompleteShutdown, once every connection is closed and the pending callback has
\* been made: codes and timers are gone.
Stop ==
    /\ Dispatching
    /\ ~callbackTimer
    /\ \A s \in AllSessions : connection[s] = "closed"
    /\ server' = "idle"
    /\ accessorySetup' = NoSetupInfo(accessorySetup.interfaces)
    /\ UNCHANGED <<paired, attempts, pairSetup, setup, connection, transient,
                   inHandler, callbackTimer>>

\* Power fails or the process ends: the key-value store is what remains.
Crash ==
    /\ server # "idle"
    /\ server' = "idle"
    /\ accessorySetup' = NoSetupInfo(accessorySetup.interfaces)
    /\ pairSetup' = NoPairSetup
    /\ setup' = [s \in AllSessions |-> NoSetup]
    /\ connection' = [s \in AllSessions |-> "closed"]
    /\ transient' = {}
    /\ inHandler' = NoSession
    /\ callbackTimer' = FALSE
    /\ UNCHANGED <<paired, attempts>>

\* CallbackTimerExpired, up to the application's callback.
StateUpdate ==
    /\ Dispatching
    /\ callbackTimer
    /\ \/ /\ ~paired
          /\ accessorySetup' \in Resumed(accessorySetup, paired)
          /\ callbackTimer' = FALSE
          /\ UNCHANGED server
       \/ /\ paired
          /\ ~accessorySetup.nfcTimer
          /\ callbackTimer' = FALSE
          /\ UNCHANGED <<accessorySetup, server>>
       \/ /\ paired
          /\ accessorySetup.nfcTimer
          /\ accessorySetup' = ExitedNFC(accessorySetup)
          /\ callbackTimer' = FALSE
          /\ server' = IF SynchronizeFails(accessorySetup', paired) THEN "Synchronize"
                       ELSE server
    /\ UNCHANGED <<paired, attempts, pairSetup, setup, connection, transient, inHandler>>

\* The last pairing is removed over some verified session (module Pairings).
Unpair ==
    /\ Dispatching
    /\ paired
    /\ paired' = FALSE
    /\ callbackTimer' = TRUE
    /\ UNCHANGED <<attempts, accessorySetup, pairSetup, setup, connection, transient,
                   inHandler, server>>

-----------------------------------------------------------------------------
(* Sessions *)

Connect(s) ==
    /\ Dispatching
    /\ connection[s] = "closed"
    /\ connection' = [connection EXCEPT ![s] = "reading"]
    /\ UNCHANGED <<paired, attempts, accessorySetup, pairSetup, setup, transient,
                   inHandler, callbackTimer, server>>

\* HAPSessionRelease when the peer goes away.  A processing IP session does not
\* look at its stream.
CloseSession(s) ==
    /\ Dispatching
    /\ connection[s] = "reading"
    /\ connection' = [connection EXCEPT ![s] = "closed"]
    /\ transient' = transient \ {s}
    /\ \E p \in ResetForSession(Procedure, s) : Become(p)
    /\ UNCHANGED <<paired, attempts, inHandler, callbackTimer, server>>

\* HAPSessionInvalidate at the start of a BLE procedure on the Pair Setup
\* characteristic.
InvalidateForPairSetup(s) ==
    /\ Dispatching
    /\ s \in BLESessions \cap transient
    /\ ~paired
    /\ transient' = transient \ {s}
    /\ \E p \in ResetForSession(Procedure, s) : Become(p)
    /\ UNCHANGED <<paired, attempts, connection, inHandler, callbackTimer, server>>

\* HAPSessionIsTransient asserts that the accessory is not paired.  It is called
\* for a request over the session itself, and for every other IP session when
\* /pair-setup is requested.
TransientWhilePaired(s) ==
    /\ Dispatching
    /\ s \in transient
    /\ paired
    /\ Abort("Transient")

\* Another IP session uses the scratch buffer for a long request, such as M1 of
\* Pair Verify.
LongRequest(s) ==
    /\ Dispatching
    /\ s \in IPSessions
    /\ connection[s] = "reading"
    /\ pairSetup.session \in IPSessions \ {s}
    /\ pairSetup.secret
    /\ pairSetup' = [pairSetup EXCEPT !.secret = FALSE]
    /\ UNCHANGED <<paired, attempts, accessorySetup, setup, connection, transient,
                   inHandler, callbackTimer, server>>

\* kHAPPairing_PairSetupProcedureTimeout passes.
Timeout ==
    /\ Dispatching
    /\ pairSetup.session # NoSession
    /\ ~pairSetup.expired
    /\ pairSetup' = [pairSetup EXCEPT !.expired = TRUE]
    /\ UNCHANGED <<paired, attempts, accessorySetup, setup, connection, transient,
                   inHandler, callbackTimer, server>>

-----------------------------------------------------------------------------
(* The setup code *)

\* Timers, and what the application may call, change the setup code only.
SetupInfoStep(results) ==
    /\ accessorySetup' \in results
    /\ UNCHANGED <<paired, attempts, pairSetup, setup, connection, transient,
                   inHandler, callbackTimer>>

\* The refresh timer fires.
ExpireCode ==
    /\ Dispatching
    /\ accessorySetup.refreshTimer
    /\ SetupInfoStep(Expired(accessorySetup))
    /\ UNCHANGED server

RefreshCode ==
    /\ Dispatching
    /\ HasDisplay(accessorySetup)
    /\ SetupInfoStep(Refreshed(accessorySetup))
    /\ UNCHANGED server

EnterNFC ==
    /\ Dispatching
    /\ "nfc" \in accessorySetup.interfaces
    /\ ~paired
    /\ SetupInfoStep(EnteredNFC(accessorySetup))
    /\ UNCHANGED server

\* The NFC pairing mode timer fires or the application leaves the mode.
ExitNFC ==
    /\ Dispatching
    /\ accessorySetup.nfcTimer
    /\ SetupInfoStep({ExitedNFC(accessorySetup)})
    /\ server' = IF SynchronizeFails(accessorySetup', paired) THEN "Synchronize" ELSE server

EnterLegacyMode ==
    /\ Dispatching
    /\ accessorySetup.interfaces # {}
    /\ accessorySetup.interfaces \subseteq {"legacyDisplay", "legacyNFC"}
    /\ pairSetup.session = NoSession
    /\ ~paired
    /\ SetupInfoStep(Prepared(accessorySetup, FALSE))
    /\ UNCHANGED server

-----------------------------------------------------------------------------
Write(s) == WriteM1(s) \/ WriteM3(s) \/ WriteM5(s) \/ WriteRefused(s)

Read(s) ==
    \/ RefuseM2(s) \/ AcceptM2(s)
    \/ BusyM4(s) \/ RejectM4(s) \/ FailM4(s) \/ AcceptM4(s) \/ TransientM4(s)
    \/ ReadM6(s) \/ ReadUnexpected(s)

SessionStep(s) ==
    \/ Write(s) \/ Read(s)
    \/ Connect(s) \/ CloseSession(s) \/ InvalidateForPairSetup(s)
    \/ TransientWhilePaired(s) \/ LongRequest(s)

Next ==
    \/ \E s \in AllSessions : SessionStep(s)
    \/ Start \/ Stop \/ Crash \/ StateUpdate \/ Unpair \/ Timeout
    \/ ExpireCode \/ RefreshCode \/ EnterNFC \/ ExitNFC \/ EnterLegacyMode

Spec == Init /\ [][Next]_vars

\* Handlers return, and the process timer runs the next stage of M4.
FairSpec == Spec /\ \A s \in IPSessions : SF_vars(MayRead(s) /\ Read(s))

-----------------------------------------------------------------------------
(* Invariants *)

\* The values the variables range over.
WellTyped ==
    /\ paired \in BOOLEAN
    /\ attempts \in 0 .. MaxAttempts
    /\ accessorySetup \in AccessorySetup
    /\ pairSetup \in PairSetupState
    /\ setup \in [AllSessions -> SetupState]
    /\ connection \in [AllSessions -> {"closed", "reading", "processing"}]
    /\ transient \subseteq AllSessions
    /\ inHandler \in IPSessions \cup {NoSession}
    /\ callbackTimer \in BOOLEAN
    /\ server \in {"running", "idle"} \cup Assertions

\* A session that has been answered M2 holds the procedure until it ends: the
\* keys that M3 to M6 use are its own (a precondition of all four handlers).
\* Another session that takes over must reset it.
ProcedureIsCurrent ==
    /\ WellTyped
    /\ \A s \in AllSessions : setup[s].state >= 2 => pairSetup.session = s

\* An unpaired accessory with a display has a code to show or is about to get
\* one (HAPAccessorySetupInfo.c:43), however attempts end and modes are left; and
\* the refresh timer runs only while the code may be changed: never on a paired
\* accessory nor under a procedure (preconditions of DynamicSetupInfoExpired).
CodeIsShownInTime ==
    LET available == Available(accessorySetup)
    IN  /\ accessorySetup.refreshTimer => ~paired /\ available /\ ~accessorySetup.lock
        /\ server = "running" /\ HasDisplay(accessorySetup) /\ ~paired
               => available \/ callbackTimer

-----------------------------------------------------------------------------
(* Action properties *)

\* The transient IP sessions of an accessory that is paired.
TransientOverIP == {s \in transient \cap IPSessions : paired}

\* One controller at a time gets in: while it is in a procedure, no other session
\* gets it before the procedure ends or has exceeded its time; and a transient
\* session over IP does not survive a pairing over IP (HAPSession.c:184 asserts
\* it for every transport; a pairing over BLE leaves the IP sessions alone).
PairSetupIsExclusive ==
    [][/\ pairSetup.session # NoSession
          /\ pairSetup'.session \notin {pairSetup.session, NoSession}
          => pairSetup.expired
       /\ \/ TransientOverIP' \subseteq TransientOverIP
          \/ \E b \in BLESessions : SessionStep(b)]_vars

\* The accessory is paired, no procedure is under way, and its code is still there.
CodeIsLeft == paired /\ pairSetup.session = NoSession /\ Available(accessorySetup)

\* A successful pairing attempt stops advertising the setup code
\* (HAPAccessorySetupInfo.h:81): neither M5 and M6 over IP, nor a takeover, nor any
\* timer, start or request of the application leaves it on a paired accessory.
\* Only what a BLE session does can: M1 of the holder between M5 and M6.
CodeIsGoneWhenPaired ==
    [][CodeIsLeft' => CodeIsLeft \/ \E b \in BLESessions : SessionStep(b)]_vars

\* Nothing changes the setup code between M2 and M5, neither its timers nor the
\* application nor the end of NFC pairing mode: the verifier in M4 is the one
\* that B was derived from. And a code that was kept after Transient Pair Setup
\* is not changed until the next pairing attempt has begun
\* (HAPAccessorySetupInfo.c:37).
CodeIsStable ==
    [][/\ \A s \in AllSessions :
            server' = "running" /\ setup'[s].state \in 2 .. 4
                => accessorySetup'.lock /\ accessorySetup'.code = pairSetup'.code
       /\ accessorySetup.keep /\ accessorySetup'.code # accessorySetup.code
            => \/ pairSetup.session # NoSession
               \/ \E s \in AllSessions : WriteM1(s) \/ WriteRefused(s)
               \/ server' # "running"]_vars

\* HAPPairingPairSetup.c:476: nothing else happens during the computation of M4,
\* so a controller that proves the code of M2 is not counted as a failed attempt.
RightCodeIsNotCounted ==
    [][attempts' > attempts => pairSetup.guess # pairSetup.code]_vars

-----------------------------------------------------------------------------
(* Liveness *)

\* An IP session that is processing M4 is answered, unless the process ends in an
\* assertion.
M4IsAnswered ==
    \A s \in IPSessions :
        connection[s] = "processing" ~> connection[s] # "processing" \/ server \in Assertions

-----------------------------------------------------------------------------
(* The abstract specification it implements *)

Gate == INSTANCE SetupGate WITH
    authenticated <- \E s \in AllSessions : setup[s].state = 4

\* Messages, stages, time-outs, several sessions, crashes: whatever happens, a
\* controller gets in only as SetupGate allows.
ImplementsGate == Gate!Spec

====
