---- MODULE Pairings ----
(***************************************************************************)
(* HAPPairingPairings.c, called through HAPSessionHandlePairingsWrite and   *)
(* HAPSessionHandlePairingsRead: Add, Remove and List Pairing.  The write   *)
(* half (M1) checks that the controller is an admin and executes Add; the   *)
(* read half (M2) checks again and executes Remove.                         *)
(***************************************************************************)
EXTENDS Sessions

\* HAPAccessoryServerCleanupPairings schedules a callback when it is about to
\* purge the store.
PurgeScheduled(store) == IsPaired(store) /\ ~HasAdmin(store)

\* Mutant: the cleanup is left out.
CleanupOmitted(store, cache, fault) == [store |-> store, cache |-> cache, ok |-> TRUE]

\* HAPAccessoryServerCleanupPairings on store: the new store and cache, and
\* whether it succeeded.  It looks for an admin, and without one purges the
\* store, then the Pair Resume cache, then the broadcast parameters ("remove").
Cleanup(store, cache, fault) ==
    IF fault = "get" \/ (fault = "purge" /\ PurgeScheduled(store))
    THEN [store |-> store, cache |-> cache, ok |-> FALSE]
    ELSE IF HasAdmin(store)
    THEN [store |-> store, cache |-> cache, ok |-> TRUE]
    ELSE [store |-> EmptyStore, cache |-> EmptyCache, ok |-> fault # "remove"]

\* Power fails inside Cleanup, before the purge: store is what is left.
CrashBeforePurge(store) ==
    /\ PurgeScheduled(store)
    /\ pairings' = store
    /\ server' = "down"
    /\ LoseRAM

\* The "Admin access only" check.
ControllerIsAdmin(s) == IsAdmin(pairings, session[s].hap.pairingID)

\* HAPPairingPairingsReset.
PairingsReset(r) == [r EXCEPT !.pairings = NoPairings]

-----------------------------------------------------------------------------
(* Write half *)

\* The pairing p cannot be added: its controller is known under another key,
\* or every slot is taken.
AddRefused(p) ==
    \/ \E k \in SlotsOf(pairings, p.identifier) : pairings[k].publicKey # p.publicKey
    \/ SlotsOf(pairings, p.identifier) = {} /\ FreeSlots(pairings) = {}

\* The known controller p.identifier gets the permissions of p.  It may have
\* been the last admin.
UpdatePermissions(s, r, p, fault) ==
    LET k == CHOOSE j \in SlotsOf(pairings, p.identifier) : TRUE
        written == [pairings EXCEPT ![k] = p]
        clean == Cleanup(written, sessionCache, fault)
    IN
    \/ /\ fault = "set"
       /\ Abort("PairingsWrite")
       /\ UNCHANGED pairings
    \/ /\ fault = "crash"
       /\ CrashBeforePurge(written)
    \/ /\ fault \notin {"set", "crash"}
       /\ pairings' = clean.store
       /\ sessionCache' = clean.cache
       /\ Continue(clean.store, s, [r EXCEPT !.pairings.error = ~clean.ok])
       /\ ScheduleUpdate(clean.store, PurgeScheduled(written))
       /\ UNCHANGED <<server, reported>>

\* p is stored in the first free slot.
InsertPairing(s, r, p, fault) ==
    \/ /\ fault = "set"
       /\ Continue(pairings, s, [r EXCEPT !.pairings.error = TRUE])
       /\ UNCHANGED <<pairings, sessionCache, server, callbackTimer, reported>>
    \/ /\ fault # "set"
       /\ \E k \in Slots : /\ IsFirstFree(pairings, k)
                          /\ pairings' = [pairings EXCEPT ![k] = p]
       /\ Continue(pairings', s, r)
       /\ ScheduleUpdate(pairings', FALSE)
       /\ UNCHANGED <<sessionCache, server, reported>>

\* HAPPairingPairingsAddPairingProcessM1 with the pairing p.  r is the record
\* of the session so far.
AddPairing(s, r, p, fault) ==
    \/ /\ AddRefused(p)
       /\ Continue(pairings, s, [r EXCEPT !.pairings.error = TRUE])
       /\ UNCHANGED <<pairings, sessionCache, server, callbackTimer, reported>>
    \/ /\ ~AddRefused(p)
       /\ SlotsOf(pairings, p.identifier) # {}
       /\ UpdatePermissions(s, r, p, fault)
    \/ /\ ~AddRefused(p)
       /\ SlotsOf(pairings, p.identifier) = {}
       /\ InsertPairing(s, r, p, fault)

\* The pairing of controller c is to be removed, when the response is read.
RemovePairingProcessM1(s, r) ==
    /\ \E c \in Controllers : Continue(pairings, s, [r EXCEPT !.pairings.removedPairingID = c])
    /\ UNCHANGED <<pairings, sessionCache, server, callbackTimer, reported>>

ListPairingsProcessM1(s, r) ==
    /\ Continue(pairings, s, r)
    /\ UNCHANGED <<pairings, sessionCache, server, callbackTimer, reported>>

\* HAPPairingPairingsHandleWrite in a session that its caller found secured; a
\* malformed or unexpected message is rejected.
PairingsWrite(s) ==
    LET r == [session[s] EXCEPT !.isSecured = s \in IPSessions]
        M1(method) == [r EXCEPT !.pairings =
                          [state |-> 1, method |-> method,
                           removedPairingID |-> NoController, error |-> FALSE]]
    IN
    /\ Dispatching
    /\ session[s].state = "reading"
    /\ IsSecured(s)
    /\ \/ /\ Reject(s, PairingsReset(r))
          /\ UNCHANGED <<pairings, sessionCache, server, callbackTimer, reported>>
       \/ /\ "get" \in StoreFaults
          /\ Abort("PairingsWrite")
          /\ UNCHANGED pairings
       \/ /\ r.pairings.state = 0
          /\ ~ControllerIsAdmin(s)
          /\ \E method \in {"Add", "Remove", "List"} :
                Continue(pairings, s, [M1(method) EXCEPT !.pairings.error = TRUE])
          /\ UNCHANGED <<pairings, sessionCache, server, callbackTimer, reported>>
       \/ /\ r.pairings.state = 0
          /\ ControllerIsAdmin(s)
          /\ \/ \E p \in Pairing, fault \in StoreFaults : AddPairing(s, M1("Add"), p, fault)
             \/ RemovePairingProcessM1(s, M1("Remove"))
             \/ ListPairingsProcessM1(s, M1("List"))

-----------------------------------------------------------------------------
(* Read half *)

\* The response is sent and the procedure reset; what is stored becomes store.
PairingsRespond(s, store, cache, always) ==
    /\ pairings' = store
    /\ sessionCache' = cache
    /\ session' = Answered(store, s, PairingsReset(session[s]))
    /\ inHandler' = NoSession
    /\ ScheduleUpdate(store, always)
    /\ UNCHANGED <<server, reported>>

\* Mutant: Pair Resume entries outlive their pairing.
NotInvalidated(cache, k) == cache

\* HAPPairingBLESessionCacheInvalidateEntriesForPairing.
Invalidated(cache, k) ==
    [i \in CacheElements |->
        IF cache[i] # NoEntry /\ cache[i].pairingID = k THEN NoEntry ELSE cache[i]]

\* HAPPairingPairingsRemovePairingGetM2.
RemovePairing(s, fault) ==
    LET known == SlotsOf(pairings, session[s].pairings.removedPairingID)
        k == CHOOSE j \in known : TRUE
        removed == [pairings EXCEPT ![k] = NoPairing]
        clean == Cleanup(removed, Invalidated(sessionCache, k), fault)
    IN
    \/ /\ known = {} \/ fault = "remove"
       /\ PairingsRespond(s, pairings, sessionCache, FALSE)
    \/ /\ known # {} /\ fault = "crash"
       /\ CrashBeforePurge(removed)
    \/ /\ known # {} /\ fault \notin {"remove", "crash"}
       /\ PairingsRespond(s, clean.store, clean.cache, PurgeScheduled(removed))

\* What has been added is there since M1.
AddPairingGetM2(s) == PairingsRespond(s, pairings, sessionCache, FALSE)

\* The pairings one after the other; the store is only read.
ListPairingsGetM2(s) == PairingsRespond(s, pairings, sessionCache, FALSE)

PairingsGetErrorResponse(s) == PairingsRespond(s, pairings, sessionCache, FALSE)

\* Mutant: a request that an admin has begun is completed.
WasAdmin(s) == pairings[session[s].hap.pairingID] # NoPairing

\* "Admin access only", asked again: the permission may have gone since M1.
IsStillAdmin(s) == ControllerIsAdmin(s)

\* HAPPairingPairingsHandleRead.  Over BLE the read is rejected before it gets
\* here unless the session is still secured.
PairingsRead(s) ==
    LET q == session[s].pairings IN
    /\ Reading(s)
    /\ s \in BLESessions => IsSecured(s)
    /\ q.state = 1
    /\ \/ /\ q.error
          /\ PairingsGetErrorResponse(s)
       \/ /\ ~q.error
          /\ pairings[session[s].hap.pairingID] = NoPairing \/ "get" \in StoreFaults
          /\ Abort("PairingsRead")
          /\ UNCHANGED pairings
       \/ /\ ~q.error
          /\ pairings[session[s].hap.pairingID] # NoPairing
          /\ ~IsStillAdmin(s)
          /\ PairingsGetErrorResponse(s)
       \/ /\ ~q.error
          /\ IsStillAdmin(s)
          /\ \/ q.method = "Add" /\ AddPairingGetM2(s)
             \/ q.method = "Remove" /\ \E fault \in StoreFaults : RemovePairing(s, fault)
             \/ q.method = "List" /\ ListPairingsGetM2(s)

====
