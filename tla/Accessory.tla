---- MODULE Accessory ----
(***************************************************************************)
(* The accessory's security core: sessions that are opened by Pair Verify,  *)
(* pairings that admins add and remove through them, and pairings that come *)
(* and go underneath open sessions.                                         *)
(***************************************************************************)
EXTENDS PairVerify, Pairings

\* The last request of Pair Setup (M5): the first controller becomes an admin
\* in slot 0.  Pair Setup has been claimed while the accessory was unpaired.
PairSetupM5(s) ==
    /\ MayVerify(s)
    /\ ~IsPaired(pairings)
    /\ \E c \in Controllers, key \in PublicKeys :
        pairings' = [pairings EXCEPT ![0] =
                        [identifier |-> c, publicKey |-> key, admin |-> TRUE]]
    /\ session' = Answered(pairings', s, session[s])
    /\ ScheduleUpdate(pairings', FALSE)
    /\ UNCHANGED <<sessionCache, inHandler, server, reported>>

Init ==
    /\ pairings = EmptyStore
    /\ sessionCache = EmptyCache
    /\ session = [s \in AllSessions |-> Closed]
    /\ inHandler = NoSession
    /\ server = "down"
    /\ callbackTimer = FALSE
    /\ reported = FALSE

SessionStep(s) ==
    \/ Connect(s) \/ CloseSession(s) \/ CompleteOutput(s) \/ Input(s)
    \/ InvalidateForVerify(s) \/ VerifyWriteM1(s) \/ VerifyWriteM3(s)
    \/ ResetVerify(s) \/ VerifyRead(s)
    \/ PairingsWrite(s) \/ PairingsRead(s) \/ PairSetupM5(s)

Next ==
    \/ \E s \in AllSessions : SessionStep(s)
    \/ HandleUpdatedState
    \/ Crash
    \/ Start

Spec == Init /\ [][Next]_vars

\* A handler returns: the read half of an IP request follows its write half.  The
\* run loop looks at the due timers in every iteration, so events that keep
\* coming do not starve the callback (strong fairness: no timer is served while
\* inHandler is set).
FairSpec ==
    /\ Spec
    /\ SF_vars(HandleUpdatedState)
    /\ \A s \in IPSessions : WF_vars(VerifyRead(s)) /\ WF_vars(PairingsRead(s))

-----------------------------------------------------------------------------
(* Invariants *)

\* Type correctness.  It also says that a running security session names a
\* slot: M3 of Pair Verify starts none for a controller that is not paired
\* (pairingID is -1 in the procedure until then).
TypeOK ==
    /\ pairings \in Stores
    /\ sessionCache \in Caches
    /\ session \in [AllSessions -> SessionState]
    /\ inHandler \in IPSessions \cup {NoSession}
    /\ server \in {"running", "down"} \cup Assertions
    /\ callbackTimer \in BOOLEAN
    /\ reported \in BOOLEAN

\* A controller has one pairing at most, whatever slots have been freed and
\* filled: HAPPairingFind returns the first match only, so Remove Pairing would
\* leave a second one behind.
UniqueIdentifiers == DistinctIdentifiers(pairings)

\* While the server runs, a paired accessory has an admin, so that somebody can
\* still manage it: Remove Pairing, Add Pairing of a known controller, and the
\* next start after power failed half-way all end in CleanupPairings.
PairedHasAdmin == server = "running" /\ IsPaired(pairings) => HasAdmin(pairings)

\* The application never misses a change between paired and unpaired: either
\* its last handleUpdatedState callback saw the present state or another
\* callback is scheduled.
ApplicationInformed ==
    server = "running" => callbackTimer \/ reported = IsPaired(pairings)

\* With Bluetooth LE alone, a Pair Resume cache entry belongs to the controller
\* whose pairing is in its slot: an entry does not survive the pairing it was
\* made for, so a reused slot cannot be resumed by its former controller.
CacheMatchesPairings ==
    \A i \in CacheElements :
        sessionCache[i] # NoEntry =>
            /\ pairings[sessionCache[i].pairingID] # NoPairing
            /\ pairings[sessionCache[i].pairingID].identifier = sessionCache[i].controller

\* A session that passes HAPSessionIsSecured is encrypted with the keys of the
\* controller whose pairing it is checked against.
SecuredSessionsMatchPairings ==
    \A s \in AllSessions :
        IsSecured(s) => pairings[session[s].hap.pairingID].identifier
                            = session[s].hap.controller

\* An IP session that waits for a request over an encrypted connection, without a
\* pairing: the next request fails the assertion of handle_input
\* (HAPIPAccessoryServer.c:3245).
Stranded(s) == session[s].state = "reading" /\ session[s].isSecured /\ ~IsSecured(s)

-----------------------------------------------------------------------------
(* Action properties *)

\* IP requests never leave an IP session stranded: whichever pairings they remove,
\* their own or those of others, all sessions concerned are closed before the next
\* event.  Only a pairing that is removed over Bluetooth LE strands its session.
ReadingSessionsSecured ==
    [][Dispatching' =>
        \A s \in IPSessions :
            Stranded(s)' => \/ Stranded(s)
                            \/ \E b \in BLESessions : PairingsWrite(b) \/ PairingsRead(b)]_vars

\* On a paired accessory the pairings change only in a Pairings request of a
\* session that is secured and whose slot holds an admin's pairing at that very
\* step.  Over BLE other sessions, on either transport, may take the permission or
\* the pairing away between the two halves of the request.
OnlyAdminsChangePairings ==
    [][server = "running" /\ IsPaired(pairings) /\ pairings' # pairings
       => \E s \in AllSessions :
            /\ PairingsWrite(s) \/ PairingsRead(s)
            /\ session[s].hap.active
            /\ IsAdmin(pairings, session[s].hap.pairingID)]_vars

\* No step replaces the public key of a controller that stays paired: Add
\* Pairing refuses another key for a known identifier.
KeysAreKept ==
    [][\A k \in Slots :
        /\ pairings[k] # NoPairing
        /\ pairings'[k] # NoPairing
        /\ pairings'[k].identifier = pairings[k].identifier
        => pairings'[k].publicKey = pairings[k].publicKey]_vars

-----------------------------------------------------------------------------
(* Liveness *)

\* The application learns whether the accessory is paired: it cannot be left
\* for ever with a value that has been out of date since.
ApplicationLearns == []<>(server = "running" => reported = IsPaired(pairings))

-----------------------------------------------------------------------------
(* The abstract specification it implements *)

\* A free slot is not mistaken for a controller's entry.
ASSUME RegistryAssumption == NoPairing \notin [publicKey : PublicKeys, admin : BOOLEAN]

\* The pairing of a controller, wherever it is stored.
Registered(c) ==
    IF SlotsOf(pairings, c) = {} THEN NoPairing
    ELSE LET p == pairings[CHOOSE k \in SlotsOf(pairings, c) : TRUE]
         IN [publicKey |-> p.publicKey, admin |-> p.admin]

Registry == INSTANCE PairingRegistry WITH
    registry <- [c \in Controllers |-> Registered(c)],
    running <- server = "running"

\* The slots, sessions, message halves and crashes of the accessory add up to a
\* registry of controllers that behaves like PairingRegistry.
ImplementsRegistry == Registry!Spec

====
