---- MODULE AccessoryProofs ----
(***************************************************************************)
(* Theorems about Accessory, for every number of slots, controllers, keys   *)
(* and sessions: its types, and what it does to its pairings.               *)
(***************************************************************************)
EXTENDS Accessory, FiniteSetTheorems, TLAPS

\* A Pair Verify procedure about to start a session names a slot and the
\* controller that has proved its identity.
Startable(v) ==
    /\ ~v.error
    /\ v.state = 3 \/ (v.state = 1 /\ v.method = "PairResume")

\* A /pairings request between its halves belongs to a security session.
SoundSession ==
    {r \in SessionState :
        /\ Startable(r.verify) => r.verify.pairingID \in Slots
                                  /\ r.verify.controller \in Controllers
        /\ r.pairings.state = 1 => r.hap.active}

\* The inductive invariant behind TypeOK.
TypeInv == TypeOK /\ session \in [AllSessions -> SoundSession]

-----------------------------------------------------------------------------
(* Records *)

\* Slots start at 0 and there is one at least.
LEMMA SlotsFacts == 0 \in Slots /\ Slots \subseteq Nat
  BY MaxPairingsAssumption DEF Slots

LEMMA ConstantRecords ==
    /\ NoHAP \in HAPState
    /\ NoVerify \in VerifyState /\ ~Startable(NoVerify)
    /\ NoPairings \in PairingsState /\ NoPairings.state = 0
    /\ Closed \in SoundSession
    /\ [Closed EXCEPT !.state = "reading"] \in SoundSession
  <1>1. NoHAP \in HAPState
    BY SlotsFacts DEF NoHAP, HAPState
  <1>2. NoVerify \in VerifyState
    BY DEF NoVerify, VerifyState
  <1>3. NoPairings \in PairingsState /\ NoPairings.state = 0
    BY DEF NoPairings, PairingsState
  <1>4. Closed \in SessionState /\ Closed.verify = NoVerify /\ Closed.pairings = NoPairings
    BY <1>1, <1>2, <1>3 DEF Closed, SessionState
  <1>5. ~Startable(NoVerify)
    BY DEF Startable, NoVerify
  <1>6. QED
    BY <1>1, <1>2, <1>3, <1>4, <1>5 DEF SoundSession, SessionState

\* What a handler changes of a session, one component at a time.
LEMMA SetState ==
    ASSUME NEW r \in SoundSession, NEW st \in {"closed", "reading", "writing"}
    PROVE  [r EXCEPT !.state = st] \in SoundSession
  BY DEF SoundSession, SessionState

LEMMA SetSecured ==
    ASSUME NEW r \in SoundSession, NEW b \in BOOLEAN
    PROVE  [r EXCEPT !.isSecured = b] \in SoundSession
  BY DEF SoundSession, SessionState

LEMMA SetPairings ==
    ASSUME NEW r \in SoundSession, NEW q \in PairingsState,
           q.state = 0 \/ r.hap.active
    PROVE  [r EXCEPT !.pairings = q] \in SoundSession
  BY DEF SoundSession, SessionState

LEMMA SetVerify ==
    ASSUME NEW r \in SoundSession, NEW v \in VerifyState,
           Startable(v) => v.pairingID \in Slots /\ v.controller \in Controllers
    PROVE  [r EXCEPT !.verify = v] \in SoundSession
  BY DEF SoundSession, SessionState

LEMMA SetHAP ==
    ASSUME NEW r \in SoundSession, NEW h \in HAPState, h.active
    PROVE  [r EXCEPT !.hap = h] \in SoundSession
  BY DEF SoundSession, SessionState

LEMMA SetPairingsError ==
    ASSUME NEW r \in SoundSession, NEW b \in BOOLEAN
    PROVE  [r EXCEPT !.pairings.error = b] \in SoundSession
  BY DEF SoundSession, SessionState, PairingsState

LEMMA SetRemoved ==
    ASSUME NEW r \in SoundSession, NEW c \in Controllers
    PROVE  [r EXCEPT !.pairings.removedPairingID = c] \in SoundSession
  BY DEF SoundSession, SessionState, PairingsState

-----------------------------------------------------------------------------
(* The store *)

LEMMA FindSlot ==
    ASSUME NEW store \in Stores, NEW c, SlotsOf(store, c) # {}
    PROVE  LET k == CHOOSE j \in SlotsOf(store, c) : TRUE
           IN k \in Slots /\ k \in SlotsOf(store, c)
                /\ store[k] \in Pairing /\ store[k].identifier = c
  BY DEF SlotsOf, Stores

LEMMA WriteSlot ==
    ASSUME NEW store \in Stores, NEW k \in Slots, NEW p \in Pairing \cup {NoPairing}
    PROVE  [store EXCEPT ![k] = p] \in Stores
  BY DEF Stores

LEMMA EmptyStoreIsStore == EmptyStore \in Stores
  BY DEF EmptyStore, Stores

LEMMA CleanupType ==
    ASSUME NEW store \in Stores, NEW cache \in Caches, NEW fault
    PROVE  /\ Cleanup(store, cache, fault).store \in Stores
           /\ Cleanup(store, cache, fault).cache \in Caches
           /\ Cleanup(store, cache, fault).ok \in BOOLEAN
  BY EmptyStoreIsStore DEF Cleanup, EmptyCache, Caches

LEMMA InvalidatedType ==
    ASSUME NEW cache \in Caches, NEW k
    PROVE  Invalidated(cache, k) \in Caches
  BY DEF Invalidated, Caches

-----------------------------------------------------------------------------
(* Steps shared by the handlers *)

LEMMA AnsweredType ==
    ASSUME TypeInv, NEW store, NEW s \in AllSessions, NEW r \in SoundSession
    PROVE  Answered(store, s, r) \in [AllSessions -> SoundSession]
  <1>1. [r EXCEPT !.state = "writing"] \in SoundSession
    BY SetState
  <1>2. QED
    BY <1>1, ConstantRecords DEF Answered, TypeInv

LEMMA ContinueType ==
    ASSUME TypeInv, NEW store, NEW s \in AllSessions, NEW r \in SoundSession,
           Continue(store, s, r)
    PROVE  /\ session' \in [AllSessions -> SoundSession]
           /\ inHandler' \in IPSessions \cup {NoSession}
  BY ConstantRecords DEF Continue, TypeInv

LEMMA RejectType ==
    ASSUME TypeInv, NEW s \in AllSessions, NEW r \in SoundSession, Reject(s, r)
    PROVE  /\ session' \in [AllSessions -> SoundSession]
           /\ inHandler' \in IPSessions \cup {NoSession}
  <1>1. [r EXCEPT !.state = "writing"] \in SoundSession
    BY SetState
  <1>2. QED
    BY <1>1 DEF Reject, TypeInv

LEMMA LoseRAMType ==
    ASSUME TypeInv, LoseRAM
    PROVE  /\ session' \in [AllSessions -> SoundSession]
           /\ sessionCache' \in Caches
           /\ inHandler' \in IPSessions \cup {NoSession}
           /\ callbackTimer' \in BOOLEAN
           /\ reported' \in BOOLEAN
  BY ConstantRecords DEF LoseRAM, TypeInv, TypeOK, EmptyCache, Caches

LEMMA ScheduleUpdateType ==
    ASSUME TypeInv, NEW store, NEW always \in BOOLEAN, ScheduleUpdate(store, always)
    PROVE  callbackTimer' \in BOOLEAN
  BY Zenon DEF ScheduleUpdate, TypeInv, TypeOK, IsPaired

\* The two halves of TypeInv agree.
LEMMA SoundIsTyped ==
    ASSUME NEW f \in [AllSessions -> SoundSession]
    PROVE  f \in [AllSessions -> SessionState]
  BY DEF SoundSession

-----------------------------------------------------------------------------
(* Type correctness: one lemma per action *)

LEMMA AbortType ==
    ASSUME TypeInv, NEW a \in Assertions, Abort(a), pairings' = pairings
    PROVE  TypeInv'
  BY LoseRAMType, SoundIsTyped DEF Abort, TypeInv, TypeOK

LEMMA CrashBeforePurgeType ==
    ASSUME TypeInv, NEW store \in Stores, CrashBeforePurge(store)
    PROVE  TypeInv'
  BY LoseRAMType, SoundIsTyped DEF CrashBeforePurge, TypeInv, TypeOK

LEMMA ConnectionType ==
    ASSUME TypeInv, NEW s \in AllSessions,
           Connect(s) \/ CloseSession(s) \/ CompleteOutput(s) \/ InvalidateForVerify(s)
    PROVE  TypeInv'
  <1>1. session[s] \in SoundSession
    BY DEF TypeInv
  <1>2. [session[s] EXCEPT !.state = "reading"] \in SoundSession
    BY <1>1, SetState
  <1>3. session' \in [AllSessions -> SoundSession]
    BY <1>1, <1>2, ConstantRecords
    DEF Connect, CloseSession, CompleteOutput, InvalidateForVerify, TypeInv
  <1>4. QED
    BY <1>3, SoundIsTyped
    DEF Connect, CloseSession, CompleteOutput, InvalidateForVerify, TypeInv, TypeOK

LEMMA InputType ==
    ASSUME TypeInv, NEW s \in AllSessions, Input(s)
    PROVE  TypeInv'
  <1>1. session[s] \in SoundSession
    BY DEF TypeInv
  <1>2. [session[s] EXCEPT !.isSecured = TRUE] \in SoundSession
    BY <1>1, SetSecured
  <1>3. [[session[s] EXCEPT !.isSecured = TRUE] EXCEPT !.state = "writing"] \in SoundSession
    BY <1>2, SetState
  <1>4. [session[s] EXCEPT !.state = "writing"] \in SoundSession
    BY <1>1, SetState
  <1>5. CASE Abort("Input") /\ UNCHANGED pairings
    BY <1>5, AbortType DEF Assertions
  <1>6. CASE ~Abort("Input")
    <2>1. session' = [session EXCEPT ![s] =
                        [[session[s] EXCEPT !.isSecured = TRUE] EXCEPT !.state = "writing"]]
          \/ session' = [session EXCEPT ![s] = [session[s] EXCEPT !.state = "writing"]]
      BY <1>6 DEF Input, TypeInv
    <2>2. session' \in [AllSessions -> SoundSession]
      BY <1>3, <1>4, <2>1 DEF TypeInv
    <2>3. QED
      BY <1>6, <2>2, SoundIsTyped DEF Input, TypeInv, TypeOK
  <1>7. QED
    BY <1>5, <1>6 DEF Input

LEMMA ServerType ==
    ASSUME TypeInv, HandleUpdatedState \/ Crash \/ Start
    PROVE  TypeInv'
  <1>1. CASE HandleUpdatedState
    BY <1>1 DEF HandleUpdatedState, TypeInv, TypeOK, IsPaired
  <1>2. CASE Crash
    BY <1>2, LoseRAMType, SoundIsTyped DEF Crash, TypeInv, TypeOK
  <1>3. CASE Start
    <2>1. CleanedUp(pairings) \in Stores
      BY EmptyStoreIsStore DEF CleanedUp, TypeInv, TypeOK
    <2>2. QED
      BY <1>3, <2>1 DEF Start, TypeInv, TypeOK, Assertions
  <1>4. QED
    BY <1>1, <1>2, <1>3

LEMMA ResetVerifyType ==
    ASSUME TypeInv, NEW s \in AllSessions, ResetVerify(s)
    PROVE  TypeInv'
  <1>1. [session[s] EXCEPT !.verify = NoVerify] \in SoundSession
    BY ConstantRecords, SetVerify DEF TypeInv
  <1>2. session' \in [AllSessions -> SoundSession]
        /\ inHandler' \in IPSessions \cup {NoSession}
    BY <1>1, RejectType DEF ResetVerify
  <1>3. QED
    BY <1>2, SoundIsTyped DEF ResetVerify, TypeInv, TypeOK

LEMMA VerifyWriteM1Type ==
    ASSUME TypeInv, NEW s \in AllSessions, VerifyWriteM1(s)
    PROVE  TypeInv'
  <1>0. session[s] \in SoundSession
    BY DEF TypeInv
  <1>1. CASE Abort("VerifyM1") /\ UNCHANGED pairings
    BY <1>1, AbortType DEF Assertions
  <1>2. CASE /\ Continue(pairings, s, [session[s] EXCEPT
                                    !.verify = [NoVerify EXCEPT !.state = 1]])
             /\ UNCHANGED <<pairings, sessionCache, server, callbackTimer, reported>>
    <2> DEFINE v == [NoVerify EXCEPT !.state = 1]
    <2>a. v.state = 1 /\ v.method = "PairVerify"
      BY DEF NoVerify
    <2>b. v \in VerifyState
      BY ConstantRecords DEF VerifyState
    <2>1. v \in VerifyState /\ ~Startable(v)
      BY <2>a, <2>b DEF Startable
    <2>2. [session[s] EXCEPT !.verify = [NoVerify EXCEPT !.state = 1]] \in SoundSession
      BY <1>0, <2>1, SetVerify
    <2>3. session' \in [AllSessions -> SoundSession]
          /\ inHandler' \in IPSessions \cup {NoSession}
      BY <1>2, <2>2, ContinueType
    <2>4. QED
      BY <1>2, <2>3, SoundIsTyped DEF TypeInv, TypeOK
  <1>3. ASSUME NEW i \in CacheElements, NEW authentic \in BOOLEAN,
               sessionCache[i] # NoEntry,
               sessionCache' = [sessionCache EXCEPT ![i] = NoEntry],
               Continue(pairings, s, [session[s] EXCEPT !.verify =
                   [state |-> 1, method |-> "PairResume",
                    pairingID |-> sessionCache[i].pairingID,
                    controller |-> sessionCache[i].controller,
                    error |-> ~authentic]]),
               UNCHANGED <<pairings, server, callbackTimer, reported>>
        PROVE  TypeInv'
    <2> DEFINE v == [state |-> 1, method |-> "PairResume",
                     pairingID |-> sessionCache[i].pairingID,
                     controller |-> sessionCache[i].controller,
                     error |-> ~authentic]
    <2>1. sessionCache[i] \in CacheEntry
      BY <1>3 DEF TypeInv, TypeOK, Caches
    <2>2. v \in VerifyState /\ v.pairingID \in Slots /\ v.controller \in Controllers
      BY <2>1 DEF CacheEntry, VerifyState
    <2>3. [session[s] EXCEPT !.verify = v] \in SoundSession
      BY <1>0, <2>2, SetVerify
    <2>4. session' \in [AllSessions -> SoundSession]
          /\ inHandler' \in IPSessions \cup {NoSession}
      BY <1>3, <2>3, ContinueType
    <2>5. sessionCache' \in Caches
      BY <1>3 DEF TypeInv, TypeOK, Caches
    <2>6. QED
      BY <1>3, <2>4, <2>5, SoundIsTyped DEF TypeInv, TypeOK
  <1>4. QED
    BY <1>1, <1>2, <1>3 DEF VerifyWriteM1, ResumeProcessM1, Fetch

LEMMA VerifyWriteM3Type ==
    ASSUME TypeInv, NEW s \in AllSessions, VerifyWriteM3(s)
    PROVE  TypeInv'
  <1>0. session[s] \in SoundSession
    BY DEF TypeInv
  <1>1. CASE Abort("VerifyWrite") /\ UNCHANGED pairings
    BY <1>1, AbortType DEF Assertions
  <1>2. ASSUME NEW c \in Controllers, NEW genuine \in BOOLEAN,
               Continue(pairings, s, [session[s] EXCEPT !.verify = M3Result(s, c, genuine)]),
               UNCHANGED <<pairings, sessionCache, server, callbackTimer, reported>>
        PROVE  TypeInv'
    <2> DEFINE v == M3Result(s, c, genuine)
    <2>1. session[s].verify \in VerifyState
      BY <1>0 DEF SoundSession, SessionState
    <2>2. pairings \in Stores
      BY DEF TypeInv, TypeOK
    <2>3. SlotsOf(pairings, c) # {} => (CHOOSE k \in SlotsOf(pairings, c) : TRUE) \in Slots
      BY <2>2, FindSlot
    <2> DEFINE k == IF SlotsOf(pairings, c) # {}
                    THEN CHOOSE j \in SlotsOf(pairings, c) : TRUE
                    ELSE session[s].verify.pairingID
               d == IF Verified(c, genuine) THEN c ELSE NoController
               e == ~Verified(c, genuine)
    <2>a. k \in Slots \cup {-1} /\ d \in Controllers \cup {NoController}
      BY <2>1, <2>3 DEF VerifyState
    <2>b. e \in BOOLEAN
      OBVIOUS
    <2>c. v = [state |-> 3, method |-> session[s].verify.method, pairingID |-> k,
               controller |-> d, error |-> e]
      BY DEF M3Result
    <2> HIDE DEF k, d, e
    <2>4. v \in VerifyState
      BY <2>1, <2>a, <2>b, <2>c DEF VerifyState
    <2>5. ASSUME Startable(v)
          PROVE  v.pairingID \in Slots /\ v.controller \in Controllers
      <3>1. v.error = ~Verified(c, genuine)
        BY <2>1 DEF M3Result, VerifyState
      <3>2. Verified(c, genuine)
        BY <2>5, <3>1 DEF Startable
      <3>3. v.controller = c
        BY <2>1, <3>2 DEF M3Result, VerifyState
      <3>4. v.pairingID \in Slots
        BY <2>1, <2>3, <3>2 DEF M3Result, VerifyState, Verified
      <3>5. QED
        BY <3>3, <3>4
    <2>6. [session[s] EXCEPT !.verify = v] \in SoundSession
      BY <1>0, <2>4, <2>5, SetVerify
    <2>7. session' \in [AllSessions -> SoundSession]
          /\ inHandler' \in IPSessions \cup {NoSession}
      BY <1>2, <2>6, ContinueType
    <2>8. QED
      BY <1>2, <2>7, SoundIsTyped DEF TypeInv, TypeOK
  <1>3. QED
    BY <1>1, <1>2 DEF VerifyWriteM3

LEMMA StartedType ==
    ASSUME TypeInv, NEW s \in AllSessions, Startable(session[s].verify)
    PROVE  Started(s) \in SoundSession
  <1>1. session[s] \in SoundSession
    BY DEF TypeInv
  <1> DEFINE h == [active |-> TRUE, pairingID |-> session[s].verify.pairingID,
                   controller |-> session[s].verify.controller]
  <1>2. h \in HAPState /\ h.active
    BY <1>1 DEF SoundSession, HAPState
  <1>3. [session[s] EXCEPT !.hap = h] \in SoundSession
    BY <1>1, <1>2, SetHAP
  <1>4. [[session[s] EXCEPT !.hap = h] EXCEPT !.verify = NoVerify] \in SoundSession
    BY <1>3, ConstantRecords, SetVerify
  <1>5. Started(s) = [[session[s] EXCEPT !.hap = h] EXCEPT !.verify = NoVerify]
    BY <1>1 DEF Started, SoundSession, SessionState
  <1>6. QED
    BY <1>4, <1>5

LEMMA VerifyReadType ==
    ASSUME TypeInv, NEW s \in AllSessions, VerifyRead(s)
    PROVE  TypeInv'
  <1> DEFINE v == session[s].verify
  <1>0. session[s] \in SoundSession /\ v \in VerifyState
    BY DEF TypeInv, SoundSession, SessionState
  <1>1. CASE Abort("VerifyRead")
    BY <1>1, AbortType DEF VerifyRead, Assertions
  <1>2. ASSUME NEW r \in SoundSession, session' = Answered(pairings, s, r),
               inHandler' = NoSession, sessionCache' \in Caches,
               UNCHANGED <<pairings, server, callbackTimer, reported>>
        PROVE  TypeInv'
    <2>1. session' \in [AllSessions -> SoundSession]
      BY <1>2, AnsweredType
    <2>2. QED
      BY <1>2, <2>1, SoundIsTyped DEF TypeInv, TypeOK
  <1>3. sessionCache \in Caches
    BY DEF TypeInv, TypeOK
  <1>4. CASE /\ v.error
             /\ session' = Answered(pairings, s, [session[s] EXCEPT !.verify = NoVerify])
             /\ inHandler' = NoSession
             /\ UNCHANGED <<sessionCache, pairings, server, callbackTimer, reported>>
    <2>1. [session[s] EXCEPT !.verify = NoVerify] \in SoundSession
      BY <1>0, ConstantRecords, SetVerify
    <2>2. QED
      BY <1>2, <1>3, <1>4, <2>1
  <1>5. CASE /\ session' = Answered(pairings, s, [session[s] EXCEPT !.verify.state = 2])
             /\ inHandler' = NoSession
             /\ UNCHANGED <<sessionCache, pairings, server, callbackTimer, reported>>
    <2> DEFINE w == [v EXCEPT !.state = 2]
    <2>1. w \in VerifyState /\ w.state = 2
      BY <1>0 DEF VerifyState
    <2>2. ~Startable(w)
      BY <2>1 DEF Startable
    <2>3. [session[s] EXCEPT !.verify = w] \in SoundSession
      BY <1>0, <2>1, <2>2, SetVerify
    <2>4. [session[s] EXCEPT !.verify.state = 2] \in SoundSession
      BY <2>3
    <2>5. QED
      BY <1>2, <1>3, <1>5, <2>4
  <1>6. CASE /\ ~v.error /\ (v.state = 3 \/ v.method = "PairResume")
             /\ v.state \in {1, 3}
             /\ session' = Answered(pairings, s, Started(s))
             /\ IF s \in BLESessions
                THEN SaveSession([pairingID |-> v.pairingID, controller |-> v.controller])
                ELSE UNCHANGED sessionCache
             /\ inHandler' = NoSession
             /\ UNCHANGED <<pairings, server, callbackTimer, reported>>
    <2>1. Startable(v)
      BY <1>6 DEF Startable
    <2>2. [pairingID |-> v.pairingID, controller |-> v.controller] \in CacheEntry
      BY <1>0, <2>1 DEF SoundSession, CacheEntry
    <2>3. sessionCache' \in Caches
      BY <1>3, <1>6, <2>2 DEF SaveSession, Caches
    <2>4. QED
      BY <1>2, <1>6, <2>1, <2>3, StartedType
  <1>7. QED
    BY <1>1, <1>4, <1>5, <1>6 DEF VerifyRead, VerifyGetErrorResponse, VerifyGetM2,
       GetM2ForBLEPairResume, VerifyGetM4, StartSession, VerifyRespond

LEMMA PairSetupType ==
    ASSUME TypeInv, NEW s \in AllSessions, PairSetupM5(s)
    PROVE  TypeInv'
  <1>1. PICK c \in Controllers, key \in PublicKeys :
            pairings' = [pairings EXCEPT ![0] =
                            [identifier |-> c, publicKey |-> key, admin |-> TRUE]]
    BY DEF PairSetupM5
  <1>2. [identifier |-> c, publicKey |-> key, admin |-> TRUE] \in Pairing
    BY DEF Pairing
  <1>3. pairings' \in Stores
    BY <1>1, <1>2, SlotsFacts, WriteSlot DEF TypeInv, TypeOK
  <1>4. session' \in [AllSessions -> SoundSession]
    BY AnsweredType DEF PairSetupM5, TypeInv
  <1>5. callbackTimer' \in BOOLEAN
    BY ScheduleUpdateType DEF PairSetupM5
  <1>6. QED
    BY <1>3, <1>4, <1>5, SoundIsTyped DEF PairSetupM5, TypeInv, TypeOK

LEMMA UpdatePermissionsType ==
    ASSUME TypeInv, NEW s \in AllSessions, NEW r \in SoundSession, NEW p \in Pairing,
           NEW fault, SlotsOf(pairings, p.identifier) # {},
           UpdatePermissions(s, r, p, fault)
    PROVE  TypeInv'
  <1> DEFINE k == CHOOSE j \in SlotsOf(pairings, p.identifier) : TRUE
             written == [pairings EXCEPT ![k] = p]
             clean == Cleanup(written, sessionCache, fault)
  <1>1. written \in Stores
    BY FindSlot, WriteSlot DEF TypeInv, TypeOK
  <1>2. clean.store \in Stores /\ clean.cache \in Caches /\ clean.ok \in BOOLEAN
    BY <1>1, CleanupType DEF TypeInv, TypeOK
  <1>3. CASE Abort("PairingsWrite") /\ UNCHANGED pairings
    BY <1>3, AbortType DEF Assertions
  <1>4. CASE CrashBeforePurge(written)
    BY <1>1, <1>4, CrashBeforePurgeType
  <1>5. CASE /\ pairings' = clean.store
             /\ sessionCache' = clean.cache
             /\ Continue(clean.store, s, [r EXCEPT !.pairings.error = ~clean.ok])
             /\ ScheduleUpdate(clean.store, PurgeScheduled(written))
             /\ UNCHANGED <<server, reported>>
    <2> HIDE DEF clean, written
    <2>a. (~clean.ok) \in BOOLEAN
      OBVIOUS
    <2>1. PurgeScheduled(written) \in BOOLEAN
      BY Zenon DEF PurgeScheduled, IsPaired
    <2>2. [r EXCEPT !.pairings.error = ~clean.ok] \in SoundSession
      BY <2>a, SetPairingsError
    <2>3. session' \in [AllSessions -> SoundSession]
          /\ inHandler' \in IPSessions \cup {NoSession}
      BY <1>5, <2>2, ContinueType
    <2>4. callbackTimer' \in BOOLEAN
      BY <1>5, <2>1, ScheduleUpdateType
    <2>5. QED
      BY <1>2, <1>5, <2>3, <2>4, SoundIsTyped DEF TypeInv, TypeOK
  <1>6. QED
    BY <1>3, <1>4, <1>5 DEF UpdatePermissions

LEMMA InsertPairingType ==
    ASSUME TypeInv, NEW s \in AllSessions, NEW r \in SoundSession, NEW p \in Pairing,
           NEW fault, InsertPairing(s, r, p, fault)
    PROVE  TypeInv'
  <1>1. [r EXCEPT !.pairings.error = TRUE] \in SoundSession
    BY SetPairingsError
  <1>2. session' \in [AllSessions -> SoundSession]
        /\ inHandler' \in IPSessions \cup {NoSession}
    <2>1. CASE Continue(pairings, s, [r EXCEPT !.pairings.error = TRUE])
      BY <1>1, <2>1, ContinueType
    <2>2. CASE Continue(pairings', s, r)
      BY <2>2, ContinueType
    <2>3. QED
      BY <2>1, <2>2 DEF InsertPairing
  <1>3. pairings' \in Stores
    <2>1. pairings \in Stores
      BY DEF TypeInv, TypeOK
    <2>2. CASE pairings' = pairings
      BY <2>1, <2>2
    <2>3. ASSUME NEW k \in Slots, pairings' = [pairings EXCEPT ![k] = p]
          PROVE  pairings' \in Stores
      BY <2>1, <2>3, WriteSlot
    <2>4. QED
      BY <2>2, <2>3 DEF InsertPairing
  <1>4. callbackTimer' \in BOOLEAN
    BY ScheduleUpdateType DEF InsertPairing, TypeInv, TypeOK
  <1>5. QED
    BY <1>2, <1>3, <1>4, SoundIsTyped DEF InsertPairing, TypeInv, TypeOK

LEMMA AddPairingType ==
    ASSUME TypeInv, NEW s \in AllSessions, NEW r \in SoundSession, NEW p \in Pairing,
           NEW fault, AddPairing(s, r, p, fault)
    PROVE  TypeInv'
  <1>1. CASE /\ Continue(pairings, s, [r EXCEPT !.pairings.error = TRUE])
             /\ UNCHANGED <<pairings, sessionCache, server, callbackTimer, reported>>
    <2>1. [r EXCEPT !.pairings.error = TRUE] \in SoundSession
      BY SetPairingsError
    <2>2. session' \in [AllSessions -> SoundSession]
          /\ inHandler' \in IPSessions \cup {NoSession}
      BY <1>1, <2>1, ContinueType
    <2>3. QED
      BY <1>1, <2>2, SoundIsTyped DEF TypeInv, TypeOK
  <1>2. QED
    BY <1>1, UpdatePermissionsType, InsertPairingType DEF AddPairing

LEMMA PairingsWriteType ==
    ASSUME TypeInv, NEW s \in AllSessions, PairingsWrite(s)
    PROVE  TypeInv'
  <1> DEFINE r == [session[s] EXCEPT !.isSecured = s \in IPSessions]
             q(method) == [state |-> 1, method |-> method,
                          removedPairingID |-> NoController, error |-> FALSE]
             M1(method) == [r EXCEPT !.pairings = q(method)]
  <1>1. r \in SoundSession /\ r.hap.active
    <2>1. (s \in IPSessions) \in BOOLEAN
      OBVIOUS
    <2>2. session[s] \in SoundSession
      BY DEF TypeInv
    <2>3. r \in SoundSession
      BY <2>1, <2>2, SetSecured
    <2>4. r.hap.active
      BY <2>2 DEF PairingsWrite, IsSecured, SecuredIn, SoundSession, SessionState
    <2>5. QED
      BY <2>3, <2>4
  <1>2. ASSUME NEW method \in {"Add", "Remove", "List"}
        PROVE  M1(method) \in SoundSession
    <2>1. q(method) \in PairingsState
      BY <1>2 DEF PairingsState
    <2>2. QED
      BY <1>1, <2>1, SetPairings
  <1> HIDE DEF r, M1
  <1>3. ASSUME NEW x \in SoundSession, Continue(pairings, s, x) \/ Reject(s, x),
               UNCHANGED <<pairings, sessionCache, server, callbackTimer, reported>>
        PROVE  TypeInv'
    <2>1. session' \in [AllSessions -> SoundSession]
          /\ inHandler' \in IPSessions \cup {NoSession}
      BY <1>3, ContinueType, RejectType
    <2>2. QED
      BY <1>3, <2>1, SoundIsTyped DEF TypeInv, TypeOK
  <1>4. CASE /\ Reject(s, PairingsReset(r))
             /\ UNCHANGED <<pairings, sessionCache, server, callbackTimer, reported>>
    <2>1. PairingsReset(r) \in SoundSession
      BY <1>1, ConstantRecords, SetPairings DEF PairingsReset
    <2>2. QED
      BY <1>3, <1>4, <2>1
  <1>5. CASE Abort("PairingsWrite") /\ UNCHANGED pairings
    BY <1>5, AbortType DEF Assertions
  <1>6. CASE /\ \E method \in {"Add", "Remove", "List"} :
                    Continue(pairings, s, [M1(method) EXCEPT !.pairings.error = TRUE])
             /\ UNCHANGED <<pairings, sessionCache, server, callbackTimer, reported>>
    <2>1. PICK method \in {"Add", "Remove", "List"} :
              Continue(pairings, s, [M1(method) EXCEPT !.pairings.error = TRUE])
      BY <1>6
    <2>2. [M1(method) EXCEPT !.pairings.error = TRUE] \in SoundSession
      BY <1>2, SetPairingsError
    <2>3. QED
      BY <1>3, <1>6, <2>1, <2>2
  <1>7. CASE \E p \in Pairing, fault \in StoreFaults : AddPairing(s, M1("Add"), p, fault)
    BY <1>2, <1>7, AddPairingType
  <1>8. CASE /\ \E c \in Controllers :
                    Continue(pairings, s, [M1("Remove") EXCEPT !.pairings.removedPairingID = c])
             /\ UNCHANGED <<pairings, sessionCache, server, callbackTimer, reported>>
    <2>1. PICK c \in Controllers :
              Continue(pairings, s, [M1("Remove") EXCEPT !.pairings.removedPairingID = c])
      BY <1>8
    <2>2. [M1("Remove") EXCEPT !.pairings.removedPairingID = c] \in SoundSession
      BY <1>2, SetRemoved
    <2>3. QED
      BY <1>3, <1>8, <2>1, <2>2
  <1>9. CASE /\ Continue(pairings, s, M1("List"))
             /\ UNCHANGED <<pairings, sessionCache, server, callbackTimer, reported>>
    BY <1>2, <1>3, <1>9
  <1>10. QED
    BY <1>4, <1>5, <1>6, <1>7, <1>8, <1>9
    DEF PairingsWrite, RemovePairingProcessM1, ListPairingsProcessM1, r, M1

LEMMA PairingsRespondType ==
    ASSUME TypeInv, NEW s \in AllSessions, NEW store \in Stores, NEW cache \in Caches,
           NEW always \in BOOLEAN, PairingsRespond(s, store, cache, always)
    PROVE  TypeInv'
  <1>1. PairingsReset(session[s]) \in SoundSession
    BY ConstantRecords, SetPairings DEF PairingsReset, TypeInv
  <1>2. session' \in [AllSessions -> SoundSession]
    BY <1>1, AnsweredType DEF PairingsRespond
  <1>3. callbackTimer' \in BOOLEAN
    BY ScheduleUpdateType DEF PairingsRespond
  <1>4. QED
    BY <1>2, <1>3, SoundIsTyped DEF PairingsRespond, TypeInv, TypeOK

LEMMA RemovePairingType ==
    ASSUME TypeInv, NEW s \in AllSessions, NEW fault, RemovePairing(s, fault)
    PROVE  TypeInv'
  <1> DEFINE known == SlotsOf(pairings, session[s].pairings.removedPairingID)
             k == CHOOSE j \in known : TRUE
             removed == [pairings EXCEPT ![k] = NoPairing]
             clean == Cleanup(removed, Invalidated(sessionCache, k), fault)
  <1>0. pairings \in Stores /\ sessionCache \in Caches
    BY DEF TypeInv, TypeOK
  <1>1. CASE PairingsRespond(s, pairings, sessionCache, FALSE)
    BY <1>0, <1>1, PairingsRespondType
  <1>2. ASSUME known # {}
        PROVE  removed \in Stores
    BY <1>0, <1>2, FindSlot, WriteSlot
  <1>3. CASE known # {} /\ CrashBeforePurge(removed)
    BY <1>2, <1>3, CrashBeforePurgeType
  <1>4. CASE /\ known # {}
             /\ PairingsRespond(s, clean.store, clean.cache, PurgeScheduled(removed))
    <2>1. clean.store \in Stores /\ clean.cache \in Caches
      BY <1>0, <1>2, <1>4, CleanupType, InvalidatedType
    <2> HIDE DEF clean, removed
    <2>2. PurgeScheduled(removed) \in BOOLEAN
      BY Zenon DEF PurgeScheduled, IsPaired
    <2>3. QED
      BY <1>4, <2>1, <2>2, PairingsRespondType
  <1>5. QED
    BY <1>1, <1>3, <1>4 DEF RemovePairing

LEMMA PairingsReadType ==
    ASSUME TypeInv, NEW s \in AllSessions, PairingsRead(s)
    PROVE  TypeInv'
  <1>0. pairings \in Stores /\ sessionCache \in Caches
    BY DEF TypeInv, TypeOK
  <1>1. CASE PairingsRespond(s, pairings, sessionCache, FALSE)
    BY <1>0, <1>1, PairingsRespondType
  <1>2. CASE Abort("PairingsRead") /\ UNCHANGED pairings
    BY <1>2, AbortType DEF Assertions
  <1>3. CASE \E fault \in StoreFaults : RemovePairing(s, fault)
    BY <1>3, RemovePairingType
  <1>4. QED
    BY <1>1, <1>2, <1>3
    DEF PairingsRead, AddPairingGetM2, ListPairingsGetM2, PairingsGetErrorResponse

-----------------------------------------------------------------------------
(* Theorems *)

LEMMA InitType == Init => TypeInv
  BY ConstantRecords, EmptyStoreIsStore, SoundIsTyped
  DEF Init, TypeInv, TypeOK, EmptyCache, Caches

LEMMA NextType == TypeInv /\ [Next]_vars => TypeInv'
  <1> SUFFICES ASSUME TypeInv, [Next]_vars
               PROVE  TypeInv'
    OBVIOUS
  <1>1. ASSUME NEW s \in AllSessions, SessionStep(s)
        PROVE  TypeInv'
    BY <1>1, ConnectionType, InputType, VerifyWriteM1Type, VerifyWriteM3Type,
       ResetVerifyType, VerifyReadType, PairingsWriteType, PairingsReadType,
       PairSetupType DEF SessionStep
  <1>2. CASE HandleUpdatedState \/ Crash \/ Start
    BY <1>2, ServerType
  <1>3. CASE UNCHANGED vars
    BY <1>3 DEF vars, TypeInv, TypeOK
  <1>4. QED
    BY <1>1, <1>2, <1>3 DEF Next

LEMMA SpecType == Spec => []TypeInv
  BY InitType, NextType, PTL DEF Spec

\* TypeOK holds of every accessory.  In particular a session started by Pair
\* Verify or Pair Resume always names a slot of the store.
THEOREM TypeCorrect == Spec => []TypeOK
  BY SpecType, PTL DEF TypeInv

-----------------------------------------------------------------------------
(* Pairings: StoreStep is the five ways in which a step can treat their domain. *)

\* Nothing, a purge, a removal, a new permission, or a new controller.
StoreStep ==
    \/ pairings' = pairings
    \/ pairings' = EmptyStore
    \/ \E k \in Slots : pairings' = [pairings EXCEPT ![k] = NoPairing]
    \/ \E k \in Slots, p \in Pairing :
        /\ pairings' = [pairings EXCEPT ![k] = p]
        /\ \/ SlotsOf(pairings, p.identifier) = {}
           \/ /\ k \in SlotsOf(pairings, p.identifier)
              /\ pairings[k].publicKey = p.publicKey

LEMMA CleanupStore ==
    ASSUME NEW store, NEW cache, NEW fault
    PROVE  Cleanup(store, cache, fault).store \in {store, EmptyStore}
  BY DEF Cleanup

LEMMA UpdatePermissionsStore ==
    ASSUME TypeInv, NEW s, NEW r, NEW p \in Pairing, NEW fault,
           SlotsOf(pairings, p.identifier) # {}, ~AddRefused(p),
           UpdatePermissions(s, r, p, fault)
    PROVE  StoreStep
  <1> DEFINE k == CHOOSE j \in SlotsOf(pairings, p.identifier) : TRUE
             written == [pairings EXCEPT ![k] = p]
             clean == Cleanup(written, sessionCache, fault)
  <1>1. k \in Slots /\ k \in SlotsOf(pairings, p.identifier)
    BY FindSlot DEF TypeInv, TypeOK
  <1>2. pairings[k].publicKey = p.publicKey
    BY <1>1 DEF AddRefused
  <1>3. pairings' \in {pairings, written, EmptyStore}
    <2>1. clean.store \in {written, EmptyStore}
      BY CleanupStore
    <2> HIDE DEF clean
    <2>2. pairings' = pairings \/ pairings' = written \/ pairings' = clean.store
      BY DEF UpdatePermissions, CrashBeforePurge, clean
    <2>3. QED
      BY <2>1, <2>2
  <1> HIDE DEF k
  <1>4. QED
    BY <1>1, <1>2, <1>3 DEF StoreStep

LEMMA PairingsWriteStore ==
    ASSUME TypeInv, NEW s \in AllSessions, PairingsWrite(s)
    PROVE  StoreStep
  <1>1. CASE pairings' = pairings
    BY <1>1 DEF StoreStep
  <1>2. ASSUME NEW r, NEW p \in Pairing, NEW fault, AddPairing(s, r, p, fault)
        PROVE  StoreStep
    <2>1. CASE pairings' = pairings
      BY <2>1 DEF StoreStep
    <2>2. CASE SlotsOf(pairings, p.identifier) # {}
      BY <1>2, <2>1, <2>2, UpdatePermissionsStore DEF AddPairing
    <2>3. CASE SlotsOf(pairings, p.identifier) = {}
      BY <1>2, <2>3 DEF AddPairing, InsertPairing, StoreStep
    <2>4. QED
      BY <2>2, <2>3
  <1>3. QED
    BY <1>1, <1>2 DEF PairingsWrite, RemovePairingProcessM1, ListPairingsProcessM1

LEMMA PairingsReadStore ==
    ASSUME TypeInv, NEW s \in AllSessions, PairingsRead(s)
    PROVE  StoreStep
  <1>1. CASE pairings' = pairings
    BY <1>1 DEF StoreStep
  <1>2. ASSUME NEW fault, RemovePairing(s, fault)
        PROVE  StoreStep
    <2> DEFINE known == SlotsOf(pairings, session[s].pairings.removedPairingID)
               k == CHOOSE j \in known : TRUE
               removed == [pairings EXCEPT ![k] = NoPairing]
               clean == Cleanup(removed, Invalidated(sessionCache, k), fault)
    <2>1. CASE known = {}
      BY <1>1, <1>2, <2>1 DEF RemovePairing, PairingsRespond
    <2>2. CASE known # {}
      <3>1. k \in Slots
        BY <2>2, FindSlot DEF TypeInv, TypeOK
      <3>2. clean.store \in {removed, EmptyStore}
        BY CleanupStore
      <3> HIDE DEF clean
      <3>3. pairings' = pairings \/ pairings' = removed \/ pairings' = clean.store
        BY <1>2 DEF RemovePairing, PairingsRespond, CrashBeforePurge, clean
      <3> HIDE DEF k
      <3>4. QED
        BY <3>1, <3>2, <3>3 DEF StoreStep
    <2>3. QED
      BY <2>1, <2>2
  <1>3. QED
    BY <1>1, <1>2 DEF PairingsRead, AddPairingGetM2, ListPairingsGetM2, PairingsGetErrorResponse,
       PairingsRespond

LEMMA PairSetupStore ==
    ASSUME TypeInv, NEW s \in AllSessions, PairSetupM5(s)
    PROVE  StoreStep
  <1>1. PICK c \in Controllers, key \in PublicKeys :
            pairings' = [pairings EXCEPT ![0] =
                            [identifier |-> c, publicKey |-> key, admin |-> TRUE]]
    BY DEF PairSetupM5
  <1> DEFINE p == [identifier |-> c, publicKey |-> key, admin |-> TRUE]
  <1>2. p \in Pairing
    BY DEF Pairing
  <1>3. SlotsOf(pairings, p.identifier) = {}
    BY DEF PairSetupM5, IsPaired, SlotsOf
  <1>4. QED
    BY <1>1, <1>2, <1>3, SlotsFacts DEF StoreStep

\* Whatever the accessory does, its store changes in one of five ways.
LEMMA StepStore == TypeInv /\ [Next]_vars => StoreStep
  <1> SUFFICES ASSUME TypeInv, [Next]_vars
               PROVE  StoreStep
    OBVIOUS
  <1>1. ASSUME NEW s \in AllSessions, SessionStep(s)
        PROVE  StoreStep
    <2>1. CASE PairingsWrite(s) \/ PairingsRead(s) \/ PairSetupM5(s)
      BY <2>1, PairingsWriteStore, PairingsReadStore, PairSetupStore
    <2>2. CASE UNCHANGED pairings
      BY <2>2 DEF StoreStep
    <2>3. QED
      BY <1>1, <2>1, <2>2 DEF SessionStep, Connect, CloseSession, CompleteOutput, Input,
         InvalidateForVerify, VerifyWriteM1, VerifyWriteM3, ResetVerify, VerifyRead
  <1>2. CASE Start
    BY <1>2 DEF Start, CleanedUp, StoreStep
  <1>3. CASE HandleUpdatedState \/ Crash \/ UNCHANGED vars
    BY <1>3 DEF HandleUpdatedState, Crash, vars, StoreStep
  <1>4. QED
    BY <1>1, <1>2, <1>3 DEF Next

-----------------------------------------------------------------------------

\* Add Pairing, Remove Pairing, Pair Setup and the cleanup never leave two
\* pairings with one identifier, however many slots there are and whatever fails.
LEMMA UniqueStep == TypeInv /\ UniqueIdentifiers /\ [Next]_vars => UniqueIdentifiers'
  <1> SUFFICES ASSUME TypeInv, UniqueIdentifiers, StoreStep
               PROVE  UniqueIdentifiers'
    BY StepStore
  <1>0. pairings \in Stores
    BY DEF TypeInv, TypeOK
  <1>1. CASE pairings' = pairings
    BY <1>1 DEF UniqueIdentifiers
  <1>2. CASE pairings' = EmptyStore
    BY <1>2 DEF UniqueIdentifiers, DistinctIdentifiers, EmptyStore
  <1>3. ASSUME NEW k \in Slots, pairings' = [pairings EXCEPT ![k] = NoPairing]
        PROVE  UniqueIdentifiers'
    BY <1>0, <1>3 DEF UniqueIdentifiers, DistinctIdentifiers, Stores
  <1>4. ASSUME NEW k \in Slots, NEW p \in Pairing,
               pairings' = [pairings EXCEPT ![k] = p],
               SlotsOf(pairings, p.identifier) = {} \/ k \in SlotsOf(pairings, p.identifier)
        PROVE  UniqueIdentifiers'
    BY <1>0, <1>4 DEF UniqueIdentifiers, DistinctIdentifiers, Stores, SlotsOf
  <1>5. QED
    BY <1>1, <1>2, <1>3, <1>4 DEF StoreStep

\* A controller has one pairing at most: Add Pairing looks the identifier up in
\* every slot before it takes a free one, and Pair Setup runs unpaired.
THEOREM IdentifiersAreUnique == Spec => []UniqueIdentifiers
  <1>1. Init => UniqueIdentifiers
    BY DEF Init, UniqueIdentifiers, DistinctIdentifiers, EmptyStore
  <1>2. QED
    BY <1>1, UniqueStep, SpecType, PTL DEF Spec

\* The public key of a controller that stays paired is never replaced: Add
\* Pairing compares it with the stored one.
THEOREM KeysStay == Spec => KeysAreKept
  <1>1. TypeInv /\ [Next]_vars =>
            [\A k \in Slots :
                /\ pairings[k] # NoPairing
                /\ pairings'[k] # NoPairing
                /\ pairings'[k].identifier = pairings[k].identifier
                => pairings'[k].publicKey = pairings[k].publicKey]_vars
    <2> SUFFICES ASSUME TypeInv, StoreStep, NEW k \in Slots,
                        pairings[k] # NoPairing, pairings'[k] # NoPairing,
                        pairings'[k].identifier = pairings[k].identifier
                 PROVE  pairings'[k].publicKey = pairings[k].publicKey
      BY StepStore
    <2>0. pairings \in Stores
      BY DEF TypeInv, TypeOK
    <2>1. CASE pairings' = pairings \/ pairings' = EmptyStore
      BY <2>1 DEF EmptyStore
    <2>2. ASSUME NEW j \in Slots, pairings' = [pairings EXCEPT ![j] = NoPairing]
          PROVE  pairings'[k].publicKey = pairings[k].publicKey
      BY <2>0, <2>2 DEF Stores
    <2>3. ASSUME NEW j \in Slots, NEW p \in Pairing,
                 pairings' = [pairings EXCEPT ![j] = p],
                 SlotsOf(pairings, p.identifier) = {}
                     \/ pairings[j].publicKey = p.publicKey
          PROVE  pairings'[k].publicKey = pairings[k].publicKey
      BY <2>0, <2>3 DEF Stores, SlotsOf
    <2>4. QED
      BY <2>1, <2>2, <2>3 DEF StoreStep
  <1>2. QED
    BY <1>1, SpecType, PTL DEF Spec, KeysAreKept

\* On a paired accessory the pairings change only in a Pairings request of an
\* open session that is an admin's at that step.  The argument needs that a
\* request between its halves belongs to a security session (SoundSession): over
\* IP the read half does not check it again.
THEOREM OnlyAdminsChange == Spec => OnlyAdminsChangePairings
  <1> DEFINE Acts(s) == /\ PairingsWrite(s) \/ PairingsRead(s)
                        /\ session[s].hap.active
                        /\ IsAdmin(pairings, session[s].hap.pairingID)
             A == server = "running" /\ IsPaired(pairings) /\ pairings' # pairings
                  => \E s \in AllSessions : Acts(s)
  <1>1. TypeInv /\ [Next]_vars => [A]_vars
    <2> SUFFICES ASSUME TypeInv, Next, server = "running", IsPaired(pairings),
                        pairings' # pairings
                 PROVE  \E s \in AllSessions : Acts(s)
      BY DEF vars
    <2>1. ASSUME NEW s \in AllSessions, PairingsWrite(s)
          PROVE  session[s].hap.active /\ ControllerIsAdmin(s)
      BY <2>1 DEF PairingsWrite, IsSecured, SecuredIn
    <2>2. ASSUME NEW s \in AllSessions, PairingsRead(s)
          PROVE  session[s].hap.active /\ ControllerIsAdmin(s)
      <3>1. session[s] \in SoundSession /\ session[s].pairings.state = 1
        BY <2>2 DEF TypeInv, PairingsRead
      <3>2. ControllerIsAdmin(s)
        BY <2>2 DEF PairingsRead, AddPairingGetM2, ListPairingsGetM2, PairingsGetErrorResponse,
           PairingsRespond, IsStillAdmin
      <3>3. QED
        BY <3>1, <3>2 DEF SoundSession
    <2>3. PICK s \in AllSessions : PairingsWrite(s) \/ PairingsRead(s)
      BY DEF Next, SessionStep, Connect, CloseSession, CompleteOutput, Input,
         InvalidateForVerify, VerifyWriteM1, VerifyWriteM3, ResetVerify, VerifyRead,
         PairSetupM5, HandleUpdatedState, Crash, Start
    <2>4. Acts(s)
      BY <2>1, <2>2, <2>3 DEF ControllerIsAdmin
    <2>5. QED
      BY <2>4
  <1>2. QED
    BY <1>1, SpecType, PTL DEF Spec, OnlyAdminsChangePairings

-----------------------------------------------------------------------------

\* Every step keeps the application informed, whatever the store does: the
\* handlers compare the paired state before and after, and the cleanup asks for
\* a callback before it purges.
LEMMA InformedStep == ApplicationInformed /\ [Next]_vars => ApplicationInformed'
  <1> SUFFICES ASSUME ApplicationInformed, [Next]_vars, server' = "running"
               PROVE  (callbackTimer \/ reported = IsPaired(pairings))'
    BY DEF ApplicationInformed
  <1> DEFINE Same == UNCHANGED <<pairings, callbackTimer, reported, server>>
             Scheduled == \E store, always :
                /\ pairings' = store
                /\ ScheduleUpdate(store, always)
                /\ UNCHANGED <<server, reported>>
  <1>1. CASE Same
    BY <1>1 DEF ApplicationInformed, IsPaired
  <1>2. CASE Scheduled
    <2>1. PICK store, always : /\ pairings' = store
                               /\ ScheduleUpdate(store, always)
                               /\ UNCHANGED <<server, reported>>
      BY <1>2
    <2>2. IsPaired(pairings)' = IsPaired(store)
      BY <2>1 DEF IsPaired
    <2>3. callbackTimer' = (callbackTimer \/ always \/ IsPaired(store) # IsPaired(pairings))
      BY <2>1 DEF ScheduleUpdate
    <2>4. callbackTimer \/ reported = IsPaired(pairings)
      BY <2>1 DEF ApplicationInformed
    <2>5. QED
      BY <2>1, <2>2, <2>3, <2>4
  <1>3. ASSUME NEW a \in Assertions, Abort(a)
        PROVE  FALSE
    BY <1>3 DEF Abort, Assertions
  <1>4. ASSUME NEW store, CrashBeforePurge(store)
        PROVE  FALSE
    BY <1>4 DEF CrashBeforePurge
  <1>5. ASSUME NEW s, NEW r, NEW p, NEW fault, AddPairing(s, r, p, fault)
        PROVE  Same \/ Scheduled
    <2>1. CASE InsertPairing(s, r, p, fault)
      BY <2>1 DEF InsertPairing
    <2>2. CASE UpdatePermissions(s, r, p, fault)
      BY <2>2, <1>3, <1>4 DEF UpdatePermissions, Assertions
    <2>3. QED
      BY <1>5, <2>1, <2>2 DEF AddPairing
  <1>6. ASSUME NEW s, NEW fault, RemovePairing(s, fault)
        PROVE  Scheduled
    BY <1>4, <1>6 DEF RemovePairing, PairingsRespond
  <1>7. ASSUME NEW s \in AllSessions, SessionStep(s)
        PROVE  Same \/ Scheduled
    <2>1. CASE PairingsWrite(s)
      BY <2>1, <1>3, <1>5
      DEF PairingsWrite, RemovePairingProcessM1, ListPairingsProcessM1, Assertions
    <2>2. CASE PairingsRead(s)
      BY <2>2, <1>3, <1>6
      DEF PairingsRead, AddPairingGetM2, ListPairingsGetM2, PairingsGetErrorResponse,
          PairingsRespond, Assertions
    <2>3. CASE PairSetupM5(s)
      BY <2>3 DEF PairSetupM5
    <2>4. CASE Connect(s) \/ CloseSession(s) \/ CompleteOutput(s) \/ InvalidateForVerify(s)
               \/ ResetVerify(s)
      BY <2>4 DEF Connect, CloseSession, CompleteOutput, InvalidateForVerify, ResetVerify
    <2>5. CASE Input(s) \/ VerifyWriteM1(s) \/ VerifyWriteM3(s) \/ VerifyRead(s)
      BY <2>5, <1>3 DEF Input, VerifyWriteM1, VerifyWriteM3, VerifyRead, Assertions
    <2>6. QED
      BY <1>7, <2>1, <2>2, <2>3, <2>4, <2>5 DEF SessionStep
  <1>8. CASE HandleUpdatedState
    BY <1>8 DEF HandleUpdatedState, IsPaired
  <1>9. CASE Start
    BY <1>9 DEF Start
  <1>10. CASE Crash
    BY <1>10 DEF Crash
  <1>11. CASE UNCHANGED vars
    BY <1>1, <1>11 DEF vars
  <1>12. QED
    BY <1>1, <1>2, <1>7, <1>8, <1>9, <1>10, <1>11 DEF Next

\* The application never misses a change between paired and unpaired.
THEOREM ApplicationStaysInformed == Spec => []ApplicationInformed
  <1>1. Init => ApplicationInformed
    BY DEF Init, ApplicationInformed
  <1>2. QED
    BY <1>1, InformedStep, PTL DEF Spec

-----------------------------------------------------------------------------

\* The store answers the cleanup: it finds the admins and purges when asked to.
ReliableCleanup == {"get", "purge"} \cap StoreFaults = {}

\* What the cleanup leaves has an admin, or nothing.
LEMMA CleanupSettles ==
    ASSUME ReliableCleanup, NEW store, NEW cache, NEW fault \in StoreFaults
    PROVE  /\ IsPaired(Cleanup(store, cache, fault).store)
                => HasAdmin(Cleanup(store, cache, fault).store)
           /\ IsPaired(CleanedUp(store)) => HasAdmin(CleanedUp(store))
  BY DEF ReliableCleanup, Cleanup, CleanedUp, IsPaired, EmptyStore

LEMMA AdminStep ==
    ASSUME ReliableCleanup, TypeInv, PairedHasAdmin, [Next]_vars
    PROVE  PairedHasAdmin'
  <1> SUFFICES ASSUME server' = "running"
               PROVE  (IsPaired(pairings) => HasAdmin(pairings))'
    BY DEF PairedHasAdmin
  <1> DEFINE Settled == \E store : /\ IsPaired(store) => HasAdmin(store)
                                   /\ pairings' = store
  <1>0. pairings \in Stores
    BY DEF TypeInv, TypeOK
  <1>1. CASE Settled
    BY <1>1 DEF IsPaired, HasAdmin, IsAdmin
  <1>2. CASE UNCHANGED <<pairings, server>>
    BY <1>1, <1>2 DEF PairedHasAdmin
  <1>3. ASSUME NEW a \in Assertions, Abort(a)
        PROVE  FALSE
    BY <1>3 DEF Abort, Assertions
  <1>4. ASSUME NEW store, CrashBeforePurge(store)
        PROVE  FALSE
    BY <1>4 DEF CrashBeforePurge
  <1>5. ASSUME NEW s, NEW r, NEW p \in Pairing, NEW fault \in StoreFaults,
               HasAdmin(pairings), AddPairing(s, r, p, fault)
        PROVE  Settled \/ UNCHANGED <<pairings, server>>
    <2>1. CASE InsertPairing(s, r, p, fault)
      <3>1. CASE UNCHANGED <<pairings, server>>
        BY <3>1
      <3>2. ASSUME NEW k \in Slots, IsFirstFree(pairings, k),
                   pairings' = [pairings EXCEPT ![k] = p]
            PROVE  Settled
        <4>1. PICK j \in Slots : IsAdmin(pairings, j)
          BY <1>5 DEF HasAdmin
        <4>2. j # k
          BY <3>2, <4>1 DEF IsFirstFree, FreeSlots, IsAdmin
        <4>3. IsAdmin([pairings EXCEPT ![k] = p], j)
          BY <1>0, <4>1, <4>2 DEF IsAdmin, Stores
        <4>4. QED
          BY <3>2, <4>3 DEF HasAdmin
      <3>3. QED
        BY <2>1, <3>1, <3>2 DEF InsertPairing
    <2>2. CASE UpdatePermissions(s, r, p, fault)
      BY <2>2, <1>3, <1>4, CleanupSettles DEF UpdatePermissions, Assertions
    <2>3. QED
      BY <1>5, <2>1, <2>2 DEF AddPairing
  <1>6. ASSUME NEW s, NEW fault \in StoreFaults, RemovePairing(s, fault)
        PROVE  Settled \/ UNCHANGED <<pairings, server>>
    BY <1>4, <1>6, CleanupSettles DEF RemovePairing, PairingsRespond
  <1>7. ASSUME NEW s \in AllSessions, SessionStep(s)
        PROVE  Settled \/ UNCHANGED <<pairings, server>>
    <2>1. CASE PairingsWrite(s)
      <3>1. ControllerIsAdmin(s) => HasAdmin(pairings)
        <4>1. session[s].hap.pairingID \in Slots
          BY DEF TypeInv, TypeOK, SessionState, HAPState
        <4>2. QED
          BY <4>1 DEF ControllerIsAdmin, HasAdmin
      <3>2. QED
        BY <2>1, <3>1, <1>3, <1>5
        DEF PairingsWrite, RemovePairingProcessM1, ListPairingsProcessM1, Assertions
    <2>2. CASE PairingsRead(s)
      BY <2>2, <1>3, <1>6
      DEF PairingsRead, AddPairingGetM2, ListPairingsGetM2, PairingsGetErrorResponse,
          PairingsRespond, Assertions
    <2>3. CASE PairSetupM5(s)
      <3>1. PICK c, key : pairings' = [pairings EXCEPT ![0] =
                              [identifier |-> c, publicKey |-> key, admin |-> TRUE]]
                          /\ c \in Controllers /\ key \in PublicKeys
        BY <2>3 DEF PairSetupM5
      <3>2. [identifier |-> c, publicKey |-> key, admin |-> TRUE] \in Pairing
        BY <3>1 DEF Pairing
      <3>3. IsAdmin(pairings', 0)
        BY <1>0, <3>1, <3>2, SlotsFacts, NoPairingAssumption DEF IsAdmin, Stores
      <3>4. QED
        BY <3>3, SlotsFacts DEF HasAdmin
    <2>4. CASE Connect(s) \/ CloseSession(s) \/ CompleteOutput(s) \/ InvalidateForVerify(s)
               \/ ResetVerify(s)
      BY <2>4 DEF Connect, CloseSession, CompleteOutput, InvalidateForVerify, ResetVerify
    <2>5. CASE Input(s) \/ VerifyWriteM1(s) \/ VerifyWriteM3(s) \/ VerifyRead(s)
      BY <2>5, <1>3 DEF Input, VerifyWriteM1, VerifyWriteM3, VerifyRead, Assertions
    <2>6. QED
      BY <1>7, <2>1, <2>2, <2>3, <2>4, <2>5 DEF SessionStep
  <1>8. CASE HandleUpdatedState \/ UNCHANGED vars
    BY <1>2, <1>8 DEF HandleUpdatedState, vars
  <1>9. CASE Start
    <2>1. IsPaired(CleanedUp(pairings)) => HasAdmin(CleanedUp(pairings))
      BY CleanupSettles, StoreFaultsAssumption
    <2>2. pairings' = CleanedUp(pairings)
      BY <1>9 DEF Start
    <2>3. QED
      BY <1>1, <2>1, <2>2
  <1>10. CASE Crash
    BY <1>10 DEF Crash
  <1>11. QED
    BY <1>1, <1>2, <1>7, <1>8, <1>9, <1>10 DEF Next

\* As long as the store answers the cleanup, an accessory that runs and is
\* paired has an admin.  A write that fails, or power lost before the purge, does
\* not break it: the server is not running until the next start has cleaned up.
THEOREM PairedAccessoryHasAdmin ==
    ASSUME ReliableCleanup
    PROVE  Spec => []PairedHasAdmin
  <1>1. Init => PairedHasAdmin
    BY DEF Init, PairedHasAdmin
  <1>2. TypeInv /\ PairedHasAdmin /\ [Next]_vars => PairedHasAdmin'
    BY AdminStep
  <1>3. QED
    BY <1>1, <1>2, SpecType, PTL DEF Spec

-----------------------------------------------------------------------------
(***************************************************************************)
(* The accessory implements PairingRegistry: slots, sessions, the halves of *)
(* messages and power failures add up to a registry of controllers.         *)
(***************************************************************************)

EntryOf(p) == [publicKey |-> p.publicKey, admin |-> p.admin]

Chosen(S) == CHOOSE k \in S : TRUE

\* The registry a store stands for.
RegistryOf(store) ==
    [c \in Controllers |->
        IF SlotsOf(store, c) = {} THEN NoPairing
        ELSE EntryOf(store[Chosen(SlotsOf(store, c))])]

\* The stores that occur: well typed, and with one pairing per controller.
GoodStore(store) == store \in Stores /\ DistinctIdentifiers(store)

LEMMA MappedRegistry ==
    /\ [c \in Controllers |-> Registered(c)] = RegistryOf(pairings)
    /\ [c \in Controllers |-> Registered(c)]' = RegistryOf(pairings')
  BY DEF Registered, RegistryOf, EntryOf, SlotsOf, Chosen

LEMMA EntryIsNotFree ==
    ASSUME NEW p \in Pairing
    PROVE  EntryOf(p) # NoPairing /\ EntryOf(p) \in [publicKey : PublicKeys, admin : BOOLEAN]
  BY RegistryAssumption DEF EntryOf, Pairing

-----------------------------------------------------------------------------
(* The registry of a store *)

LEMMA RegisteredEntry ==
    ASSUME NEW store, GoodStore(store), NEW k \in Slots, store[k] # NoPairing
    PROVE  /\ store[k] \in Pairing
           /\ store[k].identifier \in Controllers
           /\ SlotsOf(store, store[k].identifier) = {k}
           /\ RegistryOf(store)[store[k].identifier] = EntryOf(store[k])
           /\ EntryOf(store[k]) # NoPairing
  <1>1. store[k] \in Pairing /\ store[k].identifier \in Controllers
    BY DEF GoodStore, Stores, Pairing
  <1>2. SlotsOf(store, store[k].identifier) = {k}
    BY DEF GoodStore, DistinctIdentifiers, SlotsOf
  <1>3. Chosen(SlotsOf(store, store[k].identifier)) = k
    BY <1>2 DEF Chosen
  <1>4. QED
    BY <1>1, <1>2, <1>3, EntryIsNotFree DEF RegistryOf

LEMMA NotRegistered ==
    ASSUME NEW store, GoodStore(store), NEW c \in Controllers
    PROVE  RegistryOf(store)[c] = NoPairing <=> SlotsOf(store, c) = {}
  <1>1. CASE SlotsOf(store, c) = {}
    BY <1>1 DEF RegistryOf
  <1>2. CASE SlotsOf(store, c) # {}
    <2>1. PICK k \in Slots : store[k] # NoPairing /\ store[k].identifier = c
      BY <1>2 DEF SlotsOf
    <2>2. QED
      BY <1>2, <2>1, RegisteredEntry
  <1>3. QED
    BY <1>1, <1>2

LEMMA EmptyRegistry ==
    /\ GoodStore(EmptyStore)
    /\ RegistryOf(EmptyStore) = Registry!Nobody
  BY EmptyStoreIsStore
  DEF GoodStore, DistinctIdentifiers, EmptyStore, RegistryOf, SlotsOf, Registry!Nobody

LEMMA UnpairedRegistry ==
    ASSUME NEW store, ~IsPaired(store)
    PROVE  RegistryOf(store) = Registry!Nobody
  BY DEF IsPaired, RegistryOf, SlotsOf, Registry!Nobody

LEMMA RegistryAdmins ==
    ASSUME NEW store, GoodStore(store)
    PROVE  Registry!Admins(RegistryOf(store)) # {} <=> HasAdmin(store)
  <1>1. ASSUME NEW k \in Slots, IsAdmin(store, k)
        PROVE  store[k].identifier \in Registry!Admins(RegistryOf(store))
    <2> DEFINE c == store[k].identifier
    <2>1. c \in Controllers /\ RegistryOf(store)[c] = EntryOf(store[k]) /\ EntryOf(store[k]) # NoPairing
      BY <1>1, RegisteredEntry DEF IsAdmin
    <2>2. EntryOf(store[k]).admin
      BY <1>1 DEF IsAdmin, EntryOf
    <2> HIDE DEF c
    <2>3. c \in Registry!Admins(RegistryOf(store))
      BY <2>1, <2>2, Zenon DEF Registry!Admins, Registry!Members
    <2>4. QED
      BY <2>3 DEF c
  <1>2. ASSUME NEW c \in Registry!Admins(RegistryOf(store))
        PROVE  HasAdmin(store)
    <2>1. c \in Controllers /\ RegistryOf(store)[c] # NoPairing /\ RegistryOf(store)[c].admin
      BY <1>2 DEF Registry!Admins, Registry!Members
    <2>2. PICK k \in Slots : store[k] # NoPairing /\ store[k].identifier = c
      BY <2>1, NotRegistered DEF SlotsOf
    <2>3. RegistryOf(store)[c] = EntryOf(store[k])
      BY <2>2, RegisteredEntry
    <2>4. EntryOf(store[k]).admin
      BY <2>1, <2>3
    <2>5. store[k].admin
      BY <2>4 DEF EntryOf
    <2>6. QED
      BY <2>2, <2>5 DEF HasAdmin, IsAdmin
  <1>3. QED
    <2>1. CASE HasAdmin(store)
      BY <1>1, <2>1 DEF HasAdmin
    <2>2. CASE ~HasAdmin(store)
      BY <1>2, <2>2
    <2>3. QED
      BY <2>1, <2>2

\* The cleanup settles the registry.
LEMMA CleanedUpRegistry ==
    ASSUME NEW store, GoodStore(store)
    PROVE  RegistryOf(CleanedUp(store)) = Registry!Settled(RegistryOf(store))
  BY RegistryAdmins, EmptyRegistry DEF CleanedUp, Registry!Settled

LEMMA WriteRegistry ==
    ASSUME NEW store, GoodStore(store), NEW k \in Slots, NEW p \in Pairing,
           \/ store[k] = NoPairing /\ SlotsOf(store, p.identifier) = {}
           \/ k \in SlotsOf(store, p.identifier)
    PROVE  /\ GoodStore([store EXCEPT ![k] = p])
           /\ RegistryOf([store EXCEPT ![k] = p])
                = [RegistryOf(store) EXCEPT ![p.identifier] = EntryOf(p)]
  <1> DEFINE new == [store EXCEPT ![k] = p]
  <1>0. store \in Stores /\ new \in Stores /\ p # NoPairing
    BY NoPairingAssumption DEF GoodStore, Stores
  <1>1. GoodStore(new)
    BY <1>0 DEF GoodStore, DistinctIdentifiers, SlotsOf, Stores
  <1>2. \A c \in Controllers \ {p.identifier} :
            /\ SlotsOf(new, c) = SlotsOf(store, c)
            /\ \A j \in SlotsOf(store, c) : new[j] = store[j]
    BY <1>0 DEF SlotsOf, Stores
  <1>3. \A c \in Controllers \ {p.identifier} : RegistryOf(new)[c] = RegistryOf(store)[c]
    <2> SUFFICES ASSUME NEW c \in Controllers \ {p.identifier}
                 PROVE  RegistryOf(new)[c] = RegistryOf(store)[c]
      OBVIOUS
    <2>1. CASE SlotsOf(store, c) = {}
      BY <1>2, <2>1 DEF RegistryOf
    <2>2. CASE SlotsOf(store, c) # {}
      <3>1. Chosen(SlotsOf(store, c)) \in SlotsOf(store, c)
        BY <2>2 DEF Chosen
      <3>2. SlotsOf(new, c) = SlotsOf(store, c)
            /\ new[Chosen(SlotsOf(store, c))] = store[Chosen(SlotsOf(store, c))]
        BY <1>2, <3>1
      <3> HIDE DEF new
      <3>3. QED
        BY <2>2, <3>2, Zenon DEF RegistryOf
    <2>3. QED
      BY <2>1, <2>2
  <1>4. RegistryOf(new)[p.identifier] = EntryOf(p) /\ p.identifier \in Controllers
    <2>1. new[k] = p
      BY <1>0 DEF Stores
    <2>2. QED
      BY <1>0, <1>1, <2>1, RegisteredEntry
  <1>5. QED
    <2>1. DOMAIN RegistryOf(new) = Controllers /\ DOMAIN RegistryOf(store) = Controllers
      BY DEF RegistryOf
    <2>2. RegistryOf(new) = [c \in Controllers |-> RegistryOf(new)[c]]
      BY DEF RegistryOf
    <2>3. [RegistryOf(store) EXCEPT ![p.identifier] = EntryOf(p)]
            = [c \in Controllers |-> IF c = p.identifier THEN EntryOf(p) ELSE RegistryOf(store)[c]]
      BY DEF RegistryOf
    <2>4. QED
      BY <1>1, <1>3, <1>4, <2>2, <2>3

LEMMA RemoveRegistry ==
    ASSUME NEW store, GoodStore(store), NEW k \in Slots, store[k] # NoPairing
    PROVE  /\ GoodStore([store EXCEPT ![k] = NoPairing])
           /\ RegistryOf([store EXCEPT ![k] = NoPairing])
                = [RegistryOf(store) EXCEPT ![store[k].identifier] = NoPairing]
  <1> DEFINE new == [store EXCEPT ![k] = NoPairing]
             id == store[k].identifier
  <1>0. store \in Stores /\ new \in Stores
    BY DEF GoodStore, Stores
  <1>1. GoodStore(new)
    BY <1>0 DEF GoodStore, DistinctIdentifiers, Stores
  <1>2. \A c \in Controllers \ {id} :
            /\ SlotsOf(new, c) = SlotsOf(store, c)
            /\ \A j \in SlotsOf(store, c) : new[j] = store[j]
    BY <1>0 DEF SlotsOf, Stores
  <1>3. SlotsOf(new, id) = {}
    BY <1>0, RegisteredEntry DEF SlotsOf, Stores
  <1>4. \A c \in Controllers \ {id} : RegistryOf(new)[c] = RegistryOf(store)[c]
    <2> SUFFICES ASSUME NEW c \in Controllers \ {id}
                 PROVE  RegistryOf(new)[c] = RegistryOf(store)[c]
      OBVIOUS
    <2>1. CASE SlotsOf(store, c) = {}
      BY <1>2, <2>1 DEF RegistryOf
    <2>2. CASE SlotsOf(store, c) # {}
      <3>1. Chosen(SlotsOf(store, c)) \in SlotsOf(store, c)
        BY <2>2 DEF Chosen
      <3>2. SlotsOf(new, c) = SlotsOf(store, c)
            /\ new[Chosen(SlotsOf(store, c))] = store[Chosen(SlotsOf(store, c))]
        BY <1>2, <3>1
      <3> HIDE DEF new
      <3>3. QED
        BY <2>2, <3>2, Zenon DEF RegistryOf
    <2>3. QED
      BY <2>1, <2>2
  <1>5. RegistryOf(new)[id] = NoPairing
    BY <1>3, RegisteredEntry DEF RegistryOf
  <1>6. QED
    <2>1. DOMAIN RegistryOf(new) = Controllers /\ DOMAIN RegistryOf(store) = Controllers
      BY DEF RegistryOf
    <2>2. RegistryOf(new) = [c \in Controllers |-> RegistryOf(new)[c]]
      BY DEF RegistryOf
    <2>3. [RegistryOf(store) EXCEPT ![id] = NoPairing]
            = [c \in Controllers |-> IF c = id THEN NoPairing ELSE RegistryOf(store)[c]]
      BY DEF RegistryOf
    <2>4. QED
      BY <1>1, <1>4, <1>5, <2>2, <2>3

\* While a slot is free there are fewer controllers than slots.
LEMMA RoomInRegistry ==
    ASSUME NEW store, GoodStore(store), NEW k \in Slots, store[k] = NoPairing
    PROVE  Cardinality(Registry!Members(RegistryOf(store))) < MaxPairings
  <1> DEFINE taken == {j \in Slots : store[j] # NoPairing}
             members == Registry!Members(RegistryOf(store))
             f == [j \in taken |-> store[j].identifier]
  <1>1. IsFiniteSet(Slots) /\ Cardinality(Slots) = MaxPairings
    BY FS_Interval, MaxPairingsAssumption DEF Slots
  <1>2. IsFiniteSet(Slots \ {k}) /\ Cardinality(Slots \ {k}) = MaxPairings - 1
    BY <1>1, FS_RemoveElement
  <1>3. IsFiniteSet(taken) /\ Cardinality(taken) <= MaxPairings - 1
    BY <1>2, FS_Subset
  <1>4. f \in Surjection(taken, members)
    <2>1. \A j \in taken : f[j] \in members
      BY RegisteredEntry DEF Registry!Members
    <2>2. \A c \in members : \E j \in taken : f[j] = c
      BY NotRegistered DEF Registry!Members, SlotsOf
    <2>3. QED
      BY <2>1, <2>2 DEF Surjection
  <1>5. Cardinality(members) <= Cardinality(taken) /\ IsFiniteSet(members)
    BY <1>3, <1>4, FS_Surjection
  <1>6. Cardinality(taken) \in Nat /\ Cardinality(members) \in Nat
    BY <1>3, <1>5, FS_CardinalityType
  <1>7. QED
    BY <1>3, <1>5, <1>6, MaxPairingsAssumption

-----------------------------------------------------------------------------
(* Steps *)

registry == [c \in Controllers |-> Registered(c)]

\* A step of the registry, or none.
RegistryStep == Registry!Next \/ UNCHANGED <<registry, server = "running">>

LEMMA SameCardinality ==
    ASSUME NEW S
    PROVE  Registry!Cardinality(S) = Cardinality(S)
  BY Zenon DEF Registry!Cardinality, Cardinality

LEMMA StutterStep ==
    ASSUME UNCHANGED <<pairings, server>>
    PROVE  RegistryStep
  BY MappedRegistry DEF RegistryStep, registry

LEMMA StopStep ==
    ASSUME UNCHANGED pairings, server' # "running"
    PROVE  RegistryStep
  BY MappedRegistry DEF RegistryStep, Registry!Next, Registry!Stop

LEMMA RunStep ==
    ASSUME GoodStore(pairings), pairings' = CleanedUp(pairings),
           server # "running", server' = "running"
    PROVE  RegistryStep
  BY MappedRegistry, CleanedUpRegistry DEF RegistryStep, Registry!Next, Registry!Run

LEMMA SetUpStep ==
    ASSUME GoodStore(pairings), NEW s \in AllSessions, PairSetupM5(s)
    PROVE  RegistryStep
  <1>1. PICK c \in Controllers, key \in PublicKeys :
            pairings' = [pairings EXCEPT ![0] =
                            [identifier |-> c, publicKey |-> key, admin |-> TRUE]]
    BY DEF PairSetupM5
  <1> DEFINE p == [identifier |-> c, publicKey |-> key, admin |-> TRUE]
  <1>2. p \in Pairing /\ p.identifier = c /\ EntryOf(p) = [publicKey |-> key, admin |-> TRUE]
    BY DEF Pairing, EntryOf
  <1>3. pairings[0] = NoPairing /\ SlotsOf(pairings, c) = {}
    BY SlotsFacts DEF PairSetupM5, IsPaired, SlotsOf
  <1>4. RegistryOf(pairings') = [RegistryOf(pairings) EXCEPT ![c] = [publicKey |-> key, admin |-> TRUE]]
    <2>1. pairings' = [pairings EXCEPT ![0] = p]
      BY <1>1
    <2> HIDE DEF p
    <2>2. RegistryOf([pairings EXCEPT ![0] = p])
            = [RegistryOf(pairings) EXCEPT ![p.identifier] = EntryOf(p)]
      BY <1>2, <1>3, SlotsFacts, WriteRegistry
    <2>3. QED
      BY <1>2, <2>1, <2>2
  <1>5. RegistryOf(pairings) = Registry!Nobody
    BY UnpairedRegistry DEF PairSetupM5
  <1>6. server = "running" /\ server' = server
    BY DEF PairSetupM5, MayVerify, Dispatching
  <1>7. registry = Registry!Nobody
        /\ registry' = [registry EXCEPT ![c] = [publicKey |-> key, admin |-> TRUE]]
    BY <1>4, <1>5, MappedRegistry DEF registry
  <1>8. Registry!SetUp
    <2> SUFFICES \E d \in Controllers, l \in PublicKeys :
                    registry' = [registry EXCEPT ![d] = [publicKey |-> l, admin |-> TRUE]]
      BY <1>6, <1>7, Zenon DEF registry, Registry!SetUp
    <2> QED
      BY <1>7, Zenon
  <1>9. QED
    BY <1>8 DEF RegistryStep, Registry!Next

\* The registry of an admin's session has an admin.
LEMMA SessionOfAdmin ==
    ASSUME TypeInv, GoodStore(pairings), NEW s \in AllSessions, ControllerIsAdmin(s)
    PROVE  Registry!Admins(RegistryOf(pairings)) # {}
  <1>1. session[s].hap.pairingID \in Slots
    BY DEF TypeInv, TypeOK, SessionState, HAPState
  <1>2. HasAdmin(pairings)
    BY <1>1 DEF ControllerIsAdmin, HasAdmin
  <1>3. QED
    BY <1>2, RegistryAdmins

LEMMA AddStep ==
    ASSUME TypeInv, GoodStore(pairings), NEW s \in AllSessions, ControllerIsAdmin(s),
           NEW p \in Pairing, SlotsOf(pairings, p.identifier) = {},
           NEW k \in Slots, IsFirstFree(pairings, k),
           pairings' = [pairings EXCEPT ![k] = p], server = "running", server' = server
    PROVE  RegistryStep
  <1>1. pairings[k] = NoPairing
    BY DEF IsFirstFree, FreeSlots
  <1>2. RegistryOf(pairings') = [RegistryOf(pairings) EXCEPT ![p.identifier] = EntryOf(p)]
    BY <1>1, WriteRegistry
  <1>3. p.identifier \in Controllers \ Registry!Members(RegistryOf(pairings))
    BY NotRegistered DEF Pairing, Registry!Members
  <1>4. EntryOf(p) \in Registry!Entry
    BY EntryIsNotFree DEF Registry!Entry
  <1>5. Cardinality(Registry!Members(RegistryOf(pairings))) < MaxPairings
    BY <1>1, RoomInRegistry
  <1>6. registry = RegistryOf(pairings)
        /\ registry' = [registry EXCEPT ![p.identifier] = EntryOf(p)]
    BY <1>2, MappedRegistry DEF registry
  <1>7. Registry!Add
    <2>1. \E c \in Controllers \ Registry!Members(registry), entry \in Registry!Entry :
            /\ Registry!Cardinality(Registry!Members(registry)) < MaxPairings
            /\ registry' = [registry EXCEPT ![c] = entry]
      BY <1>3, <1>4, <1>5, <1>6, SameCardinality, Zenon
    <2>2. Registry!Admins(registry) # {}
      BY <1>6, SessionOfAdmin
    <2>3. QED
      BY <2>1, <2>2, Zenon DEF registry, Registry!Add
  <1>8. QED
    BY <1>7 DEF RegistryStep, Registry!Next

\* What a handler leaves after the cleanup of written settles the registry of
\* written, whether it ends or power fails before the purge.
LEMMA SettleStep ==
    ASSUME NEW written, GoodStore(written),
           \/ pairings' = CleanedUp(written) /\ server' = server
           \/ CrashBeforePurge(written)
    PROVE  Registry!Settle(RegistryOf(written))
  <1>1. CASE pairings' = CleanedUp(written) /\ server' = server
    <2>1. registry' = Registry!Settled(RegistryOf(written))
      BY <1>1, CleanedUpRegistry, MappedRegistry DEF registry
    <2>2. QED
      BY <1>1, <2>1, Zenon DEF Registry!Settle, registry
  <1>2. CASE CrashBeforePurge(written)
    <2>1. registry' = RegistryOf(written) /\ server' # "running"
          /\ Registry!Admins(RegistryOf(written)) = {}
      BY <1>2, RegistryAdmins, MappedRegistry DEF registry, CrashBeforePurge, PurgeScheduled
    <2>2. (server = "running")' = FALSE
      BY <2>1
    <2>3. QED
      BY <2>1, <2>2, Zenon DEF Registry!Settle, registry
  <1>3. QED
    BY <1>1, <1>2

\* A store that answers the cleanup leaves what CleanedUp says.
LEMMA ReliableCleanupSettles ==
    ASSUME ReliableCleanup, NEW store, NEW cache, NEW fault \in StoreFaults
    PROVE  Cleanup(store, cache, fault).store = CleanedUp(store)
  BY DEF ReliableCleanup, Cleanup, CleanedUp

LEMMA SetPermissionStep ==
    ASSUME ReliableCleanup, TypeInv, GoodStore(pairings), server = "running",
           NEW s \in AllSessions, ControllerIsAdmin(s), NEW r, NEW p \in Pairing,
           NEW fault \in StoreFaults, SlotsOf(pairings, p.identifier) # {}, ~AddRefused(p),
           UpdatePermissions(s, r, p, fault)
    PROVE  RegistryStep
  <1> DEFINE k == CHOOSE j \in SlotsOf(pairings, p.identifier) : TRUE
             written == [pairings EXCEPT ![k] = p]
             c == p.identifier
  <1>1. k \in Slots /\ k \in SlotsOf(pairings, c)
    BY FindSlot DEF GoodStore
  <1>2. pairings[k] # NoPairing /\ pairings[k].identifier = c /\ pairings[k].publicKey = p.publicKey
    BY <1>1 DEF AddRefused, SlotsOf
  <1>3. GoodStore(written)
        /\ RegistryOf(written) = [RegistryOf(pairings) EXCEPT ![c] = EntryOf(p)]
    BY <1>1, WriteRegistry
  <1>4. CASE Abort("PairingsWrite") /\ UNCHANGED pairings
    BY <1>4, StopStep DEF Abort
  <1>5. ASSUME \/ pairings' = CleanedUp(written) /\ server' = server
               \/ CrashBeforePurge(written)
        PROVE  RegistryStep
    <2> HIDE DEF k, written
    <2>1. Registry!Settle(RegistryOf(written))
      BY <1>3, <1>5, SettleStep
    <2>2. registry = RegistryOf(pairings)
      BY MappedRegistry DEF registry
    <2>3. registry[c] = EntryOf(pairings[k]) /\ registry[c] # NoPairing /\ c \in Controllers
      BY <1>1, <1>2, <2>2, RegisteredEntry
    <2>4. EntryOf(p) = [registry[c] EXCEPT !.admin = p.admin]
      BY <1>2, <2>3 DEF EntryOf
    <2>5. RegistryOf(written) = [registry EXCEPT ![c].admin = p.admin]
      BY <1>3, <2>2, <2>4
    <2>6. c \in Registry!Members(registry) /\ p.admin \in BOOLEAN
      BY <2>3 DEF Registry!Members, Pairing
    <2>7. Registry!Admins(registry) # {}
      BY <2>2, SessionOfAdmin
    <2>8. \E d \in Registry!Members(registry), admin \in BOOLEAN :
              Registry!Settle([registry EXCEPT ![d].admin = admin])
      BY <2>1, <2>5, <2>6
    <2>9. Registry!SetPermission
      BY <2>7, <2>8, Zenon DEF registry, Registry!SetPermission
    <2>10. QED
      BY <2>9 DEF RegistryStep, Registry!Next
  <1>6. CASE /\ pairings' = Cleanup(written, sessionCache, fault).store
             /\ UNCHANGED server
    BY <1>5, <1>6, ReliableCleanupSettles
  <1>7. QED
    BY <1>4, <1>5, <1>6 DEF UpdatePermissions

LEMMA RemoveStep ==
    ASSUME ReliableCleanup, TypeInv, GoodStore(pairings), server = "running",
           NEW s \in AllSessions, ControllerIsAdmin(s), NEW fault \in StoreFaults,
           RemovePairing(s, fault)
    PROVE  RegistryStep
  <1> DEFINE known == SlotsOf(pairings, session[s].pairings.removedPairingID)
             k == CHOOSE j \in known : TRUE
             removed == [pairings EXCEPT ![k] = NoPairing]
             cache == Invalidated(sessionCache, k)
             c == pairings[k].identifier
  <1>1. CASE PairingsRespond(s, pairings, sessionCache, FALSE)
    BY <1>1, StutterStep DEF PairingsRespond
  <1>2. ASSUME known # {},
               \/ pairings' = CleanedUp(removed) /\ server' = server
               \/ CrashBeforePurge(removed)
        PROVE  RegistryStep
    <2>1. k \in Slots /\ pairings[k] # NoPairing
      BY <1>2, FindSlot DEF GoodStore, SlotsOf
    <2>2. GoodStore(removed)
          /\ RegistryOf(removed) = [RegistryOf(pairings) EXCEPT ![c] = NoPairing]
      BY <2>1, RemoveRegistry
    <2> HIDE DEF k, removed
    <2>3. Registry!Settle(RegistryOf(removed))
      BY <1>2, <2>2, SettleStep
    <2>4. registry = RegistryOf(pairings)
      BY MappedRegistry DEF registry
    <2>5. c \in Registry!Members(registry)
      BY <2>1, <2>4, RegisteredEntry DEF Registry!Members
    <2>6. Registry!Admins(registry) # {}
      BY <2>4, SessionOfAdmin
    <2>7. \E d \in Registry!Members(registry) :
              Registry!Settle([registry EXCEPT ![d] = NoPairing])
      BY <2>2, <2>3, <2>4, <2>5
    <2>8. Registry!Remove
      BY <2>6, <2>7, Zenon DEF registry, Registry!Remove
    <2>9. QED
      BY <2>8 DEF RegistryStep, Registry!Next
  <1>3. CASE /\ known # {}
             /\ PairingsRespond(s, Cleanup(removed, cache, fault).store,
                                Cleanup(removed, cache, fault).cache, PurgeScheduled(removed))
    <2>1. Cleanup(removed, cache, fault).store = CleanedUp(removed)
      BY ReliableCleanupSettles
    <2>2. QED
      BY <1>2, <1>3, <2>1 DEF PairingsRespond
  <1>4. QED
    BY <1>1, <1>2, <1>3 DEF RemovePairing

LEMMA NextRegistry ==
    ASSUME ReliableCleanup, TypeInv, UniqueIdentifiers, [Next]_vars
    PROVE  RegistryStep
  <1>0. GoodStore(pairings)
    BY DEF GoodStore, UniqueIdentifiers, TypeInv, TypeOK
  <1>1. ASSUME NEW s \in AllSessions, PairingsWrite(s)
        PROVE  RegistryStep
    <2>1. server = "running"
      BY <1>1 DEF PairingsWrite, Dispatching
    <2>2. ASSUME NEW r, NEW p \in Pairing, NEW fault \in StoreFaults, ControllerIsAdmin(s),
                 AddPairing(s, r, p, fault)
          PROVE  RegistryStep
      <3>1. CASE UNCHANGED <<pairings, server>>
        BY <3>1, StutterStep
      <3>2. CASE ~AddRefused(p) /\ SlotsOf(pairings, p.identifier) # {}
        BY <1>0, <2>1, <2>2, <3>2, SetPermissionStep DEF AddPairing
      <3>3. CASE SlotsOf(pairings, p.identifier) = {} /\ InsertPairing(s, r, p, fault)
        BY <1>0, <2>1, <2>2, <3>1, <3>3, AddStep DEF InsertPairing
      <3>4. QED
        BY <2>2, <3>1, <3>2, <3>3 DEF AddPairing
    <2>3. CASE UNCHANGED <<pairings, server>>
      BY <2>3, StutterStep
    <2>4. CASE Abort("PairingsWrite") /\ UNCHANGED pairings
      BY <2>4, StopStep DEF Abort
    <2>5. QED
      BY <1>1, <2>2, <2>3, <2>4
      DEF PairingsWrite, RemovePairingProcessM1, ListPairingsProcessM1
  <1>2. ASSUME NEW s \in AllSessions, PairingsRead(s)
        PROVE  RegistryStep
    <2>1. server = "running"
      BY <1>2 DEF PairingsRead, Reading
    <2>2. CASE UNCHANGED <<pairings, server>>
      BY <2>2, StutterStep
    <2>3. CASE Abort("PairingsRead") /\ UNCHANGED pairings
      BY <2>3, StopStep DEF Abort
    <2>4. ASSUME NEW fault \in StoreFaults, ControllerIsAdmin(s), RemovePairing(s, fault)
          PROVE  RegistryStep
      BY <1>0, <2>1, <2>4, RemoveStep
    <2>5. QED
      BY <1>2, <2>2, <2>3, <2>4
      DEF PairingsRead, IsStillAdmin, AddPairingGetM2, ListPairingsGetM2, PairingsGetErrorResponse,
          PairingsRespond
  <1>3. ASSUME NEW s \in AllSessions, SessionStep(s)
        PROVE  RegistryStep
    <2>1. CASE PairSetupM5(s)
      BY <1>0, <2>1, SetUpStep
    <2>2. CASE UNCHANGED <<pairings, server>>
      BY <2>2, StutterStep
    <2>3. CASE UNCHANGED pairings /\ \E a \in Assertions : server' = a
      BY <2>3, StopStep DEF Assertions
    <2>4. CASE Input(s) \/ VerifyWriteM1(s) \/ VerifyWriteM3(s) \/ VerifyRead(s)
      BY <2>2, <2>3, <2>4
      DEF Input, VerifyWriteM1, VerifyWriteM3, VerifyRead, Abort, Assertions
    <2>5. QED
      BY <1>1, <1>2, <1>3, <2>1, <2>2, <2>4
      DEF SessionStep, Connect, CloseSession, CompleteOutput, InvalidateForVerify, ResetVerify
  <1>4. CASE HandleUpdatedState \/ UNCHANGED vars
    BY <1>4, StutterStep DEF HandleUpdatedState, vars
  <1>5. CASE Crash
    BY <1>5, StopStep DEF Crash
  <1>6. CASE Start
    BY <1>0, <1>6, RunStep, StopStep DEF Start
  <1>7. QED
    BY <1>3, <1>4, <1>5, <1>6 DEF Next

\* As long as the store answers the cleanup, everything an observer of the
\* controllers can see is a behaviour of PairingRegistry: no controller is added,
\* changed or removed without an admin, none is lost or doubled by the reuse of
\* slots, and without an admin the registry is empty unless power has failed.
THEOREM AccessoryIsRegistry ==
    ASSUME ReliableCleanup
    PROVE  Spec => ImplementsRegistry
  <1>1. Init => Registry!Init
    <2>1. Init => registry = Registry!Nobody
      BY MappedRegistry, EmptyRegistry DEF Init, registry
    <2>2. Init => ~(server = "running")
      BY DEF Init
    <2>3. QED
      BY <2>1, <2>2, Zenon DEF registry, Registry!Init
  <1>2. TypeInv /\ UniqueIdentifiers /\ [Next]_vars
            => [Registry!Next]_<<[c \in Controllers |-> Registered(c)], server = "running">>
    BY NextRegistry, Zenon DEF RegistryStep, registry
  <1>3. QED
    BY <1>1, <1>2, SpecType, IdentifiersAreUnique, PTL
    DEF Spec, ImplementsRegistry, Registry!Spec

====
