---- MODULE SessionsProofs ----
(***************************************************************************)
(* Theorems about the pairings behind open sessions and cached ones.  A     *)
(* session refers to its pairing by slot, and slots are used again; what    *)
(* keeps the two together depends on the transports of the accessory.       *)
(***************************************************************************)
EXTENDS AccessoryProofs

\* Sessions and the cache are RAM: they are gone while the server does not run.
NothingOpenWhileDown ==
    server # "running" => /\ session = [s \in AllSessions |-> Closed]
                          /\ sessionCache = EmptyCache

LEMMA LoseRAMCloses ==
    ASSUME LoseRAM
    PROVE  NothingOpenWhileDown'
  BY DEF LoseRAM, NothingOpenWhileDown

LEMMA NothingOpenStep == NothingOpenWhileDown /\ [Next]_vars => NothingOpenWhileDown'
  <1> SUFFICES ASSUME NothingOpenWhileDown, [Next]_vars
               PROVE  NothingOpenWhileDown'
    OBVIOUS
  <1>1. CASE LoseRAM
    BY <1>1, LoseRAMCloses
  <1>2. CASE server' = "running" \/ UNCHANGED <<server, session, sessionCache>>
    BY <1>2 DEF NothingOpenWhileDown
  <1>3. ASSUME NEW s \in AllSessions, SessionStep(s)
        PROVE  NothingOpenWhileDown'
    <2>1. server = "running"
      BY <1>3 DEF SessionStep, Connect, CloseSession, CompleteOutput, Input, InvalidateForVerify,
         VerifyWriteM1, VerifyWriteM3, ResetVerify, VerifyRead, PairingsWrite, PairingsRead,
         PairSetupM5, MayVerify, Dispatching, Reading
    <2>2. server' = server \/ LoseRAM
      <3>1. \A a : Abort(a) => LoseRAM
        BY DEF Abort
      <3>2. \A store : CrashBeforePurge(store) => LoseRAM
        BY DEF CrashBeforePurge
      <3>3. CASE PairingsWrite(s)
        BY <3>1, <3>2, <3>3 DEF PairingsWrite, AddPairing, InsertPairing, UpdatePermissions,
           RemovePairingProcessM1, ListPairingsProcessM1
      <3>4. CASE PairingsRead(s)
        BY <3>1, <3>2, <3>4 DEF PairingsRead, PairingsRespond, RemovePairing, AddPairingGetM2,
           ListPairingsGetM2, PairingsGetErrorResponse
      <3>5. QED
        BY <1>3, <3>1, <3>3, <3>4 DEF SessionStep, Connect, CloseSession, CompleteOutput, Input,
           InvalidateForVerify, VerifyWriteM1, VerifyWriteM3, ResetVerify, VerifyRead, PairSetupM5
    <2>3. QED
      BY <1>1, <1>2, <2>1, <2>2
  <1>4. CASE HandleUpdatedState \/ Start \/ UNCHANGED vars
    <2>1. server' = "running" \/ (NothingOpenWhileDown /\ server # "running"
              /\ UNCHANGED <<session, sessionCache>>) \/ UNCHANGED <<server, session, sessionCache>>
      BY <1>4 DEF HandleUpdatedState, Start, vars
    <2>2. QED
      BY <1>2, <2>1 DEF NothingOpenWhileDown
  <1>5. CASE Crash
    BY <1>1, <1>5 DEF Crash
  <1>6. QED
    BY <1>3, <1>4, <1>5 DEF Next

LEMMA SpecNothingOpen == Spec => []NothingOpenWhileDown
  <1>1. Init => NothingOpenWhileDown
    BY DEF Init, NothingOpenWhileDown
  <1>2. QED
    BY <1>1, NothingOpenStep, PTL DEF Spec

-----------------------------------------------------------------------------
(* IP sessions that wait for a request *)

\* The sweep after the read half of an IP request looks at every other session,
\* whatever has happened to its pairing, and whoever has done it; the session of
\* the request itself has an answer to write.
LEMMA NobodyStrandedByAnswer ==
    ASSUME TypeInv, NEW t \in IPSessions, NEW s \in IPSessions,
           NEW r, "state" \in DOMAIN r, session' = Answered(pairings', s, r)
    PROVE  ~Stranded(t)'
  <1>0. session \in [AllSessions -> SessionState] /\ t \in AllSessions
    BY DEF TypeInv, TypeOK, AllSessions
  <1>1. CASE t = s
    BY <1>0, <1>1 DEF Answered, Swept, Closed, Stranded
  <1>2. CASE t # s /\ t \in Swept(pairings', s)
    BY <1>0, <1>2 DEF Answered, Closed, Stranded
  <1>3. CASE t # s /\ t \notin Swept(pairings', s)
    BY <1>0, <1>3 DEF Answered, Swept, SecuredIn, IsSecured, Stranded
  <1>4. QED
    BY <1>1, <1>2, <1>3

\* What remains are steps that leave a session and the pairings alone, and those
\* of the Pairings procedure over Bluetooth LE.
LEMMA StrandedStep ==
    ASSUME TypeInv, NothingOpenWhileDown, [Next]_vars, Dispatching',
           NEW t \in IPSessions, Stranded(t)'
    PROVE  Stranded(t) \/ \E b \in BLESessions : PairingsWrite(b) \/ PairingsRead(b)
  <1> DEFINE Goal == Stranded(t) \/ \E b \in BLESessions : PairingsWrite(b) \/ PairingsRead(b)
  <1> SUFFICES Goal
    OBVIOUS
  <1>0. /\ session \in [AllSessions -> SoundSession] /\ session \in [AllSessions -> SessionState]
        /\ t \in AllSessions /\ AllSessions = IPSessions \cup BLESessions
        /\ IPSessions \cap BLESessions = {}
    BY SessionsAssumption DEF TypeInv, TypeOK, AllSessions
  <1>1. CASE /\ UNCHANGED pairings
             /\ session'[t] = session[t]
    BY <1>1 DEF Stranded, IsSecured, SecuredIn
  <1>2. CASE LoseRAM
    BY <1>0, <1>2 DEF LoseRAM, Closed, Stranded
  <1>3. ASSUME NEW s \in AllSessions, NEW r, "state" \in DOMAIN r,
               session' = Answered(pairings', s, r), s \in IPSessions \/ UNCHANGED pairings
        PROVE  Goal
    <2>1. CASE s \in IPSessions
      BY <1>3, <2>1, NobodyStrandedByAnswer
    <2>2. CASE s \notin IPSessions
      BY <1>0, <1>1, <1>3, <2>2 DEF Answered, Swept
    <2>3. QED
      BY <2>1, <2>2
  <1>4. ASSUME NEW s \in AllSessions, NEW store, NEW r, Continue(store, s, r),
               s \in IPSessions \/ UNCHANGED pairings
        PROVE  Goal
    <2>1. CASE s \in IPSessions
      BY <1>0, <1>4, <2>1, SessionsAssumption DEF Continue, Dispatching
    <2>2. CASE s \notin IPSessions
      BY <1>0, <1>1, <1>4, <2>2 DEF Continue
    <2>3. QED
      BY <2>1, <2>2
  <1>5. ASSUME NEW s \in AllSessions, NEW r, "state" \in DOMAIN r, Reject(s, r), UNCHANGED pairings
        PROVE  Goal
    BY <1>0, <1>1, <1>5 DEF Reject, Stranded
  <1>6. ASSUME NEW s \in AllSessions, SessionStep(s)
        PROVE  Goal
    <2>0. "state" \in DOMAIN session[s]
      BY <1>0 DEF SessionState
    <2>1. CASE Connect(s) \/ CloseSession(s) \/ CompleteOutput(s)
      BY <1>0, <1>1, <2>1 DEF Connect, CloseSession, CompleteOutput, Closed, IsSecured,
         SecuredIn, SessionState, Stranded
    <2>2. CASE Input(s)
      BY <1>0, <1>1, <1>2, <2>2 DEF Input, Abort, SessionState, Stranded
    <2>3. CASE InvalidateForVerify(s)
      BY <1>0, <1>1, <2>3 DEF InvalidateForVerify
    <2>4. CASE VerifyWriteM1(s) \/ VerifyWriteM3(s)
      BY <1>2, <1>4, <2>4 DEF VerifyWriteM1, VerifyWriteM3, ResumeProcessM1, Abort
    <2>5. CASE ResetVerify(s)
      BY <1>5, <2>0, <2>5 DEF ResetVerify, MayVerify
    <2>6. CASE VerifyRead(s)
      <3>1. CASE Abort("VerifyRead")
        BY <1>2, <3>1 DEF Abort
      <3>2. ASSUME NEW r, "state" \in DOMAIN r, VerifyRespond(s, r)
            PROVE  Goal
        BY <1>3, <2>6, <3>2 DEF VerifyRead, VerifyRespond
      <3>3. /\ "state" \in DOMAIN [session[s] EXCEPT !.verify = NoVerify]
            /\ "state" \in DOMAIN [session[s] EXCEPT !.verify.state = 2]
            /\ "state" \in DOMAIN Started(s)
        BY <2>0 DEF Started
      <3>4. QED
        BY <2>6, <3>1, <3>2, <3>3 DEF VerifyRead, VerifyGetErrorResponse, VerifyGetM2,
           GetM2ForBLEPairResume, VerifyGetM4, StartSession
    <2>7. CASE PairingsWrite(s)
      <3>1. CASE s \in IPSessions
        BY <1>2, <1>4, <1>5, <2>0, <2>7, <3>1 DEF PairingsWrite, AddPairing, InsertPairing,
           UpdatePermissions, RemovePairingProcessM1, ListPairingsProcessM1, PairingsReset,
           CrashBeforePurge, Abort
      <3>2. QED
        BY <1>0, <2>7, <3>1
    <2>8. CASE PairingsRead(s)
      <3>1. CASE s \in IPSessions /\ \E store, cache, always : PairingsRespond(s, store, cache, always)
        <4>1. "state" \in DOMAIN PairingsReset(session[s])
          BY <2>0 DEF PairingsReset
        <4>2. session' = Answered(pairings', s, PairingsReset(session[s]))
          BY <3>1 DEF PairingsRespond
        <4>3. QED
          BY <1>3, <3>1, <4>1, <4>2
      <3>2. CASE LoseRAM
        BY <1>2, <3>2
      <3>3. QED
        BY <1>0, <2>8, <3>1, <3>2 DEF PairingsRead, RemovePairing, AddPairingGetM2,
           ListPairingsGetM2, PairingsGetErrorResponse, CrashBeforePurge, Abort
    <2>9. CASE PairSetupM5(s)
      <3>1. CASE s \in IPSessions
        BY <1>3, <2>0, <2>9, <3>1 DEF PairSetupM5
      <3>2. CASE s \notin IPSessions
        <4>1. session'[t] = session[t]
          BY <1>0, <2>9, <3>2 DEF PairSetupM5, Answered, Swept
        <4>2. ~IsSecured(t)
          BY <1>0, <2>9 DEF PairSetupM5, MayVerify, IsPaired, IsSecured, SecuredIn, SessionState, HAPState
        <4>3. QED
          BY <4>1, <4>2 DEF Stranded
      <3>3. QED
        BY <3>1, <3>2
    <2>10. QED
      BY <1>6, <2>1, <2>2, <2>3, <2>4, <2>5, <2>6, <2>7, <2>8, <2>9 DEF SessionStep
  <1>7. CASE Start
    BY <1>0, <1>7 DEF Start, NothingOpenWhileDown, Closed, Stranded, Dispatching
  <1>8. CASE HandleUpdatedState \/ Crash \/ UNCHANGED vars
    BY <1>1, <1>2, <1>8 DEF HandleUpdatedState, Crash, vars
  <1>9. QED
    BY <1>6, <1>7, <1>8 DEF Next

\* An IP session that waits for a request over an encrypted connection loses its
\* pairing to nobody but a session over Bluetooth LE: a pairing removed by another
\* IP session, or purged with the last admin, takes the session with it in the
\* sweep of the request that did it.
THEOREM ReadingSessionsAreSecured == Spec => ReadingSessionsSecured
  <1>1. TypeInv /\ NothingOpenWhileDown /\ [Next]_vars =>
            (Dispatching' =>
                \A s \in IPSessions :
                    Stranded(s)' => \/ Stranded(s)
                                    \/ \E b \in BLESessions : PairingsWrite(b) \/ PairingsRead(b))
    BY StrandedStep
  <1>2. QED
    BY <1>1, SpecType, SpecNothingOpen, PTL DEF Spec, ReadingSessionsSecured

-----------------------------------------------------------------------------
(* Slots over Bluetooth LE *)

\* Bluetooth LE is the only transport; it serves one connection at a time.
OneBLESession == IPSessions = {} /\ \A s, t \in BLESessions : s = t

\* Slot k of store holds the pairing of controller c.
Belongs(store, k, c) == store[k] # NoPairing /\ store[k].identifier = c

CacheFits(store, cache) ==
    \A i \in CacheElements :
        cache[i] # NoEntry => Belongs(store, cache[i].pairingID, cache[i].controller)

\* An open session has its controller's pairing and no procedure about to start
\* another one; a session about to start has the pairing it starts with.
SessionFits(store, r) ==
    /\ r.hap.active => Belongs(store, r.hap.pairingID, r.hap.controller)
                       /\ ~Startable(r.verify)
    /\ Startable(r.verify) => Belongs(store, r.verify.pairingID, r.verify.controller)

\* The inductive invariant behind CacheMatchesPairings and
\* SecuredSessionsMatchPairings.
MatchInv ==
    /\ CacheFits(pairings, sessionCache)
    /\ \A s \in AllSessions : SessionFits(pairings, session[s])

\* No slot passes from one controller to another in a single step.
KeepsControllers(store) ==
    \A k \in Slots :
        pairings[k] = NoPairing \/ store[k] = NoPairing
            \/ store[k].identifier = pairings[k].identifier

LEMMA ClosedFits ==
    \A store : /\ SessionFits(store, Closed)
               /\ SessionFits(store, [Closed EXCEPT !.state = "reading"])
  BY DEF SessionFits, Closed, NoHAP, NoVerify, Startable

LEMMA LoseRAMMatches ==
    ASSUME LoseRAM
    PROVE  MatchInv'
  BY ClosedFits DEF LoseRAM, MatchInv, CacheFits, EmptyCache

\* A message that leaves the store alone ends with the record r of the session.
LEMMA SameStoreMatches ==
    ASSUME OneBLESession, TypeInv, MatchInv, NEW s \in AllSessions, NEW r,
           Continue(pairings, s, r) \/ Reject(s, r) \/ session' = Answered(pairings, s, r),
           SessionFits(pairings, r), UNCHANGED pairings, CacheFits(pairings, sessionCache')
    PROVE  MatchInv'
  <1>1. s \in BLESessions /\ s \notin IPSessions /\ AllSessions = {s}
    BY DEF OneBLESession, AllSessions
  <1>2. session'[s] = r
    BY <1>1 DEF Continue, Reject, Answered, Swept, DroppedByProcedure, IsSecured, TypeInv
  <1>3. QED
    BY <1>1, <1>2 DEF MatchInv

\* A message changes the store; its session is dropped if its pairing goes.
LEMMA StoreChangeMatches ==
    ASSUME OneBLESession, TypeInv, MatchInv, NEW s \in AllSessions, NEW r,
           Continue(pairings', s, r) \/ session' = Answered(pairings', s, r),
           r.hap = session[s].hap, r.verify = session[s].verify,
           ~Startable(session[s].verify),
           KeepsControllers(pairings'), CacheFits(pairings', sessionCache')
    PROVE  MatchInv'
  <1>1. s \in BLESessions /\ s \notin IPSessions /\ AllSessions = {s}
    BY DEF OneBLESession, AllSessions
  <1>2. session'[s] = IF DroppedByProcedure(pairings', s) THEN Closed ELSE r
    BY <1>1 DEF Continue, Answered, Swept, TypeInv
  <1>3. CASE DroppedByProcedure(pairings', s)
    BY <1>1, <1>2, <1>3, ClosedFits DEF MatchInv
  <1>4. CASE ~DroppedByProcedure(pairings', s)
    <2>1. session[s].hap.pairingID \in Slots
      BY DEF TypeInv, TypeOK, SessionState, HAPState
    <2>2. SessionFits(pairings', r)
      BY <1>1, <1>4, <2>1 DEF MatchInv, SessionFits, Belongs, DroppedByProcedure, IsSecured,
         SecuredIn, KeepsControllers
    <2>3. QED
      BY <1>1, <1>2, <1>4, <2>2 DEF MatchInv
  <1>5. QED
    BY <1>3, <1>4

LEMMA ConnectionMatches ==
    ASSUME OneBLESession, TypeInv, MatchInv, NEW s \in AllSessions,
           \/ Connect(s) \/ CloseSession(s) \/ CompleteOutput(s) \/ Input(s)
           \/ InvalidateForVerify(s)
    PROVE  MatchInv'
  <1>1. AllSessions = {s} /\ s \notin IPSessions
    BY DEF OneBLESession, AllSessions
  <1>2. SessionFits(pairings, session[s]) /\ session[s] \in SessionState
    BY DEF MatchInv, TypeInv, TypeOK
  <1>3. SessionFits(pairings, [session[s] EXCEPT !.state = "reading"])
    BY <1>2 DEF SessionFits, SessionState
  <1>4. SessionFits(pairings, session'[s])
    BY <1>1, <1>3, ClosedFits
    DEF Connect, CloseSession, CompleteOutput, Input, InvalidateForVerify, TypeInv
  <1>5. UNCHANGED <<pairings, sessionCache>>
    BY <1>1 DEF Connect, CloseSession, CompleteOutput, Input, InvalidateForVerify
  <1>6. QED
    BY <1>1, <1>4, <1>5 DEF MatchInv

\* The guard of Pair Verify: no session is open.
LEMMA NotOpen ==
    ASSUME TypeInv, MatchInv, NEW s \in AllSessions, ~IsSecured(s)
    PROVE  ~session[s].hap.active
  BY DEF MatchInv, SessionFits, Belongs, IsSecured, SecuredIn

LEMMA VerifyWriteMatches ==
    ASSUME OneBLESession, TypeInv, MatchInv, NEW s \in AllSessions,
           VerifyWriteM1(s) \/ VerifyWriteM3(s) \/ ResetVerify(s)
    PROVE  MatchInv'
  <1>1. ~session[s].hap.active /\ session[s] \in SessionState
    BY NotOpen DEF VerifyWriteM1, VerifyWriteM3, ResetVerify, MayVerify, TypeInv, TypeOK
  <1>2. ASSUME NEW v, Startable(v) => Belongs(pairings, v.pairingID, v.controller)
        PROVE  SessionFits(pairings, [session[s] EXCEPT !.verify = v])
    BY <1>1, <1>2 DEF SessionFits, SessionState
  <1>3. CASE LoseRAM
    BY <1>3, LoseRAMMatches
  <1>4. ASSUME NEW v, Startable(v) => Belongs(pairings, v.pairingID, v.controller),
               Continue(pairings, s, [session[s] EXCEPT !.verify = v])
                   \/ Reject(s, [session[s] EXCEPT !.verify = v]),
               UNCHANGED pairings, CacheFits(pairings, sessionCache')
        PROVE  MatchInv'
    BY <1>2, <1>4, SameStoreMatches
  <1>5. CacheFits(pairings, sessionCache)
    BY DEF MatchInv
  <1>6. CASE ResetVerify(s)
    BY <1>4, <1>5, <1>6, ConstantRecords DEF ResetVerify
  <1>7. CASE VerifyWriteM1(s)
    <2>1. ~Startable([NoVerify EXCEPT !.state = 1])
      BY DEF Startable, NoVerify
    <2>2. ASSUME NEW i \in CacheElements, NEW authentic \in BOOLEAN, Fetch(i)
          PROVE  /\ Belongs(pairings, sessionCache[i].pairingID, sessionCache[i].controller)
                 /\ CacheFits(pairings, sessionCache')
      BY <1>5, <2>2 DEF Fetch, CacheFits, TypeInv, TypeOK, Caches
    <2>3. CASE ResumeProcessM1(s) /\ UNCHANGED pairings
      <3>1. PICK i \in CacheElements, authentic \in BOOLEAN :
                /\ Fetch(i)
                /\ Continue(pairings, s, [session[s] EXCEPT !.verify =
                       [state |-> 1, method |-> "PairResume",
                        pairingID |-> sessionCache[i].pairingID,
                        controller |-> sessionCache[i].controller,
                        error |-> ~authentic]])
        BY <2>3 DEF ResumeProcessM1
      <3>2. QED
        BY <1>4, <2>2, <2>3, <3>1
    <2>4. QED
      BY <1>3, <1>4, <1>5, <1>7, <2>1, <2>3 DEF VerifyWriteM1, Abort
  <1>8. CASE VerifyWriteM3(s)
    <2>1. ASSUME NEW c \in Controllers, NEW genuine \in BOOLEAN, Startable(M3Result(s, c, genuine))
          PROVE  Belongs(pairings, M3Result(s, c, genuine).pairingID,
                         M3Result(s, c, genuine).controller)
      <3>1. Verified(c, genuine)
        BY <2>1 DEF M3Result, Startable
      <3>2. LET k == CHOOSE j \in SlotsOf(pairings, c) : TRUE
            IN k \in SlotsOf(pairings, c)
        BY <3>1, FindSlot DEF Verified, TypeInv, TypeOK
      <3>3. QED
        BY <3>1, <3>2 DEF M3Result, Verified, SlotsOf, Belongs
    <2>2. QED
      BY <1>3, <1>4, <1>5, <1>8, <2>1 DEF VerifyWriteM3, Abort
  <1>9. QED
    BY <1>6, <1>7, <1>8

LEMMA VerifyReadMatches ==
    ASSUME OneBLESession, TypeInv, MatchInv, NEW s \in AllSessions, VerifyRead(s)
    PROVE  MatchInv'
  <1> DEFINE v == session[s].verify
  <1>1. ~session[s].hap.active /\ session[s] \in SessionState /\ session[s] \in SoundSession
    BY NotOpen DEF VerifyRead, TypeInv, TypeOK
  <1>2. CacheFits(pairings, sessionCache) /\ SessionFits(pairings, session[s])
    BY DEF MatchInv
  <1>3. CASE Abort("VerifyRead")
    BY <1>3, LoseRAMMatches DEF Abort
  <1>4. ASSUME NEW r, VerifyRespond(s, r), SessionFits(pairings, r),
               CacheFits(pairings, sessionCache')
        PROVE  MatchInv'
    BY <1>4, SameStoreMatches DEF VerifyRead, VerifyRespond
  <1>5. CASE VerifyGetErrorResponse(s)
    <2>1. SessionFits(pairings, [session[s] EXCEPT !.verify = NoVerify])
      BY <1>1, ConstantRecords DEF SessionFits, SessionState
    <2>2. QED
      BY <1>2, <1>4, <1>5, <2>1 DEF VerifyGetErrorResponse
  <1>6. CASE VerifyGetM2(s)
    <2>1. SessionFits(pairings, [session[s] EXCEPT !.verify.state = 2])
      BY <1>1 DEF SessionFits, SessionState, VerifyState, Startable
    <2>2. QED
      BY <1>2, <1>4, <1>6, <2>1 DEF VerifyGetM2
  <1>7. CASE StartSession(s) /\ Startable(v)
    <2>1. Belongs(pairings, v.pairingID, v.controller)
      BY <1>2, <1>7 DEF SessionFits
    <2>2. SessionFits(pairings, Started(s))
      BY <1>1, <2>1, ConstantRecords DEF SessionFits, Started, SessionState
    <2>3. CacheFits(pairings, sessionCache')
      <3>1. CASE UNCHANGED sessionCache
        BY <1>2, <3>1
      <3>2. CASE SaveSession([pairingID |-> v.pairingID, controller |-> v.controller])
        BY <1>2, <2>1, <3>2 DEF SaveSession, CacheFits, TypeInv, TypeOK, Caches
      <3>3. QED
        BY <1>7, <3>1, <3>2 DEF StartSession
    <2>4. QED
      BY <1>4, <1>7, <2>2, <2>3 DEF StartSession
  <1>8. QED
    BY <1>3, <1>5, <1>6, <1>7
    DEF VerifyRead, GetM2ForBLEPairResume, VerifyGetM4, Startable

-----------------------------------------------------------------------------
(* Pairings that come and go *)

LEMMA CleanupFits ==
    ASSUME NEW store, NEW cache, NEW fault, KeepsControllers(store), CacheFits(store, cache)
    PROVE  /\ KeepsControllers(Cleanup(store, cache, fault).store)
           /\ CacheFits(Cleanup(store, cache, fault).store, Cleanup(store, cache, fault).cache)
  <1>1. KeepsControllers(EmptyStore) /\ CacheFits(EmptyStore, EmptyCache)
    BY DEF KeepsControllers, EmptyStore, CacheFits, EmptyCache
  <1>2. QED
    BY <1>1 DEF Cleanup

LEMMA WriteFits ==
    ASSUME TypeInv, CacheFits(pairings, sessionCache), NEW k \in Slots, NEW p \in Pairing,
           pairings[k] = NoPairing \/ k \in SlotsOf(pairings, p.identifier)
    PROVE  /\ KeepsControllers([pairings EXCEPT ![k] = p])
           /\ CacheFits([pairings EXCEPT ![k] = p], sessionCache)
  <1>1. pairings \in Stores /\ p # NoPairing
    BY NoPairingAssumption DEF TypeInv, TypeOK
  <1>2. \A i \in CacheElements : sessionCache[i] # NoEntry => sessionCache[i].pairingID \in Slots
    BY DEF TypeInv, TypeOK, Caches, CacheEntry
  <1>3. QED
    BY <1>1, <1>2 DEF KeepsControllers, CacheFits, Belongs, SlotsOf, Stores

LEMMA RemoveFits ==
    ASSUME TypeInv, CacheFits(pairings, sessionCache), NEW k \in Slots
    PROVE  /\ KeepsControllers([pairings EXCEPT ![k] = NoPairing])
           /\ CacheFits([pairings EXCEPT ![k] = NoPairing], Invalidated(sessionCache, k))
  <1>1. pairings \in Stores
    BY DEF TypeInv, TypeOK
  <1>2. \A i \in CacheElements : sessionCache[i] # NoEntry => sessionCache[i].pairingID \in Slots
    BY DEF TypeInv, TypeOK, Caches, CacheEntry
  <1>3. QED
    BY <1>1, <1>2 DEF KeepsControllers, CacheFits, Belongs, Invalidated, Stores

LEMMA UpdatePermissionsMatches ==
    ASSUME OneBLESession, TypeInv, MatchInv, NEW s \in AllSessions, NEW r, NEW p \in Pairing,
           NEW fault, SlotsOf(pairings, p.identifier) # {},
           r.hap = session[s].hap, r.verify = session[s].verify,
           \A b : [r EXCEPT !.pairings.error = b].hap = r.hap
                  /\ [r EXCEPT !.pairings.error = b].verify = r.verify,
           ~Startable(session[s].verify), UpdatePermissions(s, r, p, fault)
    PROVE  MatchInv'
  <1> DEFINE k == CHOOSE j \in SlotsOf(pairings, p.identifier) : TRUE
             written == [pairings EXCEPT ![k] = p]
             clean == Cleanup(written, sessionCache, fault)
  <1>1. k \in Slots /\ k \in SlotsOf(pairings, p.identifier)
    BY FindSlot DEF TypeInv, TypeOK
  <1>2. KeepsControllers(clean.store) /\ CacheFits(clean.store, clean.cache)
    BY <1>1, WriteFits, CleanupFits DEF MatchInv
  <1>3. CASE LoseRAM
    BY <1>3, LoseRAMMatches
  <1>4. CASE /\ pairings' = clean.store
             /\ sessionCache' = clean.cache
             /\ Continue(clean.store, s, [r EXCEPT !.pairings.error = ~clean.ok])
    BY <1>2, <1>4, StoreChangeMatches
  <1>5. QED
    BY <1>3, <1>4 DEF UpdatePermissions, Abort, CrashBeforePurge

LEMMA InsertPairingMatches ==
    ASSUME OneBLESession, TypeInv, MatchInv, NEW s \in AllSessions, NEW r, NEW p \in Pairing,
           NEW fault, r.hap = session[s].hap, r.verify = session[s].verify,
           \A b : [r EXCEPT !.pairings.error = b].hap = r.hap
                  /\ [r EXCEPT !.pairings.error = b].verify = r.verify,
           ~Startable(session[s].verify), InsertPairing(s, r, p, fault)
    PROVE  MatchInv'
  <1>1. CacheFits(pairings, sessionCache) /\ KeepsControllers(pairings)
    BY DEF MatchInv, KeepsControllers
  <1>2. CASE /\ Continue(pairings, s, [r EXCEPT !.pairings.error = TRUE])
             /\ UNCHANGED <<pairings, sessionCache>>
    BY <1>1, <1>2, StoreChangeMatches
  <1>3. ASSUME NEW k \in Slots, IsFirstFree(pairings, k), pairings' = [pairings EXCEPT ![k] = p],
               Continue(pairings', s, r), UNCHANGED sessionCache
        PROVE  MatchInv'
    <2>1. KeepsControllers(pairings') /\ CacheFits(pairings', sessionCache')
      BY <1>1, <1>3, WriteFits DEF IsFirstFree, FreeSlots
    <2>2. QED
      BY <1>3, <2>1, StoreChangeMatches
  <1>4. QED
    BY <1>2, <1>3 DEF InsertPairing

LEMMA PairingsWriteMatches ==
    ASSUME OneBLESession, TypeInv, MatchInv, NEW s \in AllSessions, PairingsWrite(s)
    PROVE  MatchInv'
  <1> DEFINE Same(r) == /\ r.hap = session[s].hap /\ r.verify = session[s].verify
                        /\ \A b : [r EXCEPT !.pairings.error = b].hap = r.hap
                                  /\ [r EXCEPT !.pairings.error = b].verify = r.verify
             record(q) == [[session[s] EXCEPT !.isSecured = s \in IPSessions] EXCEPT !.pairings = q]
  <1>1. session[s] \in SessionState /\ session[s].hap.active /\ ~Startable(session[s].verify)
    BY DEF TypeInv, TypeOK, PairingsWrite, IsSecured, SecuredIn, MatchInv, SessionFits
  <1>2. \A q : Same(record(q))
    BY <1>1 DEF SessionState
  <1> HIDE DEF Same
  <1>3. CacheFits(pairings, sessionCache) /\ KeepsControllers(pairings)
    BY DEF MatchInv, KeepsControllers
  <1>4. CASE LoseRAM
    BY <1>4, LoseRAMMatches
  <1>5. ASSUME NEW r, r.hap = session[s].hap, r.verify = session[s].verify,
               Continue(pairings, s, r) \/ Reject(s, r),
               UNCHANGED <<pairings, sessionCache>>
        PROVE  MatchInv'
    <2>1. SessionFits(pairings, r)
      BY <1>5 DEF MatchInv, SessionFits
    <2>2. QED
      BY <1>3, <1>5, <2>1, SameStoreMatches
  <1>6. ASSUME NEW q, NEW b,
               Continue(pairings, s, [record(q) EXCEPT !.pairings.error = b]),
               UNCHANGED <<pairings, sessionCache>>
        PROVE  MatchInv'
    BY <1>2, <1>5, <1>6, ZenonT(60) DEF Same
  <1>7. ASSUME NEW q, NEW p \in Pairing, NEW fault, AddPairing(s, record(q), p, fault)
        PROVE  MatchInv'
    <2>1. CASE UpdatePermissions(s, record(q), p, fault) /\ SlotsOf(pairings, p.identifier) # {}
      BY <1>1, <1>2, <2>1, UpdatePermissionsMatches DEF Same
    <2>2. CASE InsertPairing(s, record(q), p, fault)
      BY <1>1, <1>2, <2>2, InsertPairingMatches DEF Same
    <2>3. QED
      BY <1>6, <1>7, <2>1, <2>2 DEF AddPairing
  <1>8. ASSUME NEW q, NEW c, Continue(pairings, s, [record(q) EXCEPT !.pairings.removedPairingID = c]),
               UNCHANGED <<pairings, sessionCache>>
        PROVE  MatchInv'
    <2> DEFINE r == [record(q) EXCEPT !.pairings.removedPairingID = c]
    <2>1. r.hap = session[s].hap /\ r.verify = session[s].verify
      BY <1>1 DEF SessionState
    <2>2. QED
      BY <1>5, <1>8, <2>1
  <1>9. ASSUME NEW q, Continue(pairings, s, record(q)) \/ Reject(s, record(q)),
               UNCHANGED <<pairings, sessionCache>>
        PROVE  MatchInv'
    BY <1>2, <1>5, <1>9 DEF Same
  <1>10. QED
    BY <1>4, <1>6, <1>7, <1>8, <1>9 DEF PairingsWrite, PairingsReset, Abort,
       RemovePairingProcessM1, ListPairingsProcessM1

LEMMA PairingsReadMatches ==
    ASSUME OneBLESession, TypeInv, MatchInv, NEW s \in AllSessions, PairingsRead(s)
    PROVE  MatchInv'
  <1>1. /\ session[s] \in SessionState /\ session[s].hap.active
        /\ ~Startable(session[s].verify)
    <2>1. s \in BLESessions
      BY DEF OneBLESession, AllSessions
    <2>2. QED
      BY <2>1 DEF TypeInv, TypeOK, PairingsRead, IsSecured, SecuredIn, MatchInv, SessionFits
  <1>2. CacheFits(pairings, sessionCache) /\ KeepsControllers(pairings)
    BY DEF MatchInv, KeepsControllers
  <1>3. CASE LoseRAM
    BY <1>3, LoseRAMMatches
  <1>4. ASSUME NEW store, NEW cache, NEW always, PairingsRespond(s, store, cache, always),
               KeepsControllers(store), CacheFits(store, cache)
        PROVE  MatchInv'
    <2> DEFINE r == PairingsReset(session[s])
    <2>1. r.hap = session[s].hap /\ r.verify = session[s].verify
      BY <1>1 DEF PairingsReset, SessionState
    <2>2. QED
      BY <1>1, <1>4, <2>1, StoreChangeMatches DEF PairingsRespond
  <1>5. ASSUME NEW fault, RemovePairing(s, fault)
        PROVE  MatchInv'
    <2> DEFINE known == SlotsOf(pairings, session[s].pairings.removedPairingID)
               k == CHOOSE j \in known : TRUE
               removed == [pairings EXCEPT ![k] = NoPairing]
               clean == Cleanup(removed, Invalidated(sessionCache, k), fault)
    <2>1. CASE PairingsRespond(s, pairings, sessionCache, FALSE)
      BY <1>2, <1>4, <2>1
    <2>2. CASE known # {} /\ PairingsRespond(s, clean.store, clean.cache, PurgeScheduled(removed))
      <3>1. k \in Slots
        BY <2>2, FindSlot DEF TypeInv, TypeOK
      <3>2. KeepsControllers(clean.store) /\ CacheFits(clean.store, clean.cache)
        BY <1>2, <3>1, RemoveFits, CleanupFits
      <3>3. QED
        BY <1>4, <2>2, <3>2
    <2>3. QED
      BY <1>3, <1>5, <2>1, <2>2 DEF RemovePairing, CrashBeforePurge
  <1>6. QED
    BY <1>2, <1>3, <1>4, <1>5 DEF PairingsRead, Abort, AddPairingGetM2, ListPairingsGetM2,
       PairingsGetErrorResponse

LEMMA PairSetupMatches ==
    ASSUME OneBLESession, TypeInv, MatchInv, NEW s \in AllSessions, PairSetupM5(s)
    PROVE  MatchInv'
  <1>1. /\ \A k \in Slots : pairings[k] = NoPairing
        /\ session[s].verify.pairingID \in Slots \cup {-1}
        /\ Startable(session[s].verify) => session[s].verify.pairingID \in Slots
    BY DEF PairSetupM5, IsPaired, TypeInv, TypeOK, SessionState, VerifyState, SoundSession
  <1>2. KeepsControllers(pairings') /\ ~Startable(session[s].verify)
    BY <1>1 DEF KeepsControllers, MatchInv, SessionFits, Belongs
  <1>3. CacheFits(pairings', sessionCache')
    BY <1>1 DEF MatchInv, CacheFits, Belongs, PairSetupM5, TypeInv, TypeOK, Caches, CacheEntry
  <1>4. QED
    BY <1>2, <1>3, StoreChangeMatches DEF PairSetupM5

LEMMA MatchStep ==
    ASSUME OneBLESession, TypeInv, NothingOpenWhileDown, MatchInv, [Next]_vars
    PROVE  MatchInv'
  <1>1. ASSUME NEW s \in AllSessions, SessionStep(s)
        PROVE  MatchInv'
    BY <1>1, ConnectionMatches, VerifyWriteMatches, VerifyReadMatches, PairingsWriteMatches,
       PairingsReadMatches, PairSetupMatches DEF SessionStep
  <1>2. CASE Start
    <2>1. sessionCache' = EmptyCache /\ session' = [s \in AllSessions |-> Closed]
      BY <1>2 DEF Start, NothingOpenWhileDown
    <2>2. QED
      BY <2>1, ClosedFits DEF MatchInv, CacheFits, EmptyCache
  <1>3. CASE HandleUpdatedState \/ UNCHANGED vars
    BY <1>3 DEF HandleUpdatedState, vars, MatchInv, CacheFits
  <1>4. CASE Crash
    BY <1>4, LoseRAMMatches DEF Crash
  <1>5. QED
    BY <1>1, <1>2, <1>3, <1>4 DEF Next

LEMMA SpecMatch ==
    ASSUME OneBLESession
    PROVE  Spec => []MatchInv
  <1>1. Init => MatchInv
    BY ClosedFits DEF Init, MatchInv, CacheFits, EmptyCache
  <1>2. TypeInv /\ NothingOpenWhileDown /\ MatchInv /\ [Next]_vars => MatchInv'
    BY MatchStep
  <1>3. QED
    BY <1>1, <1>2, SpecType, SpecNothingOpen, PTL DEF Spec

-----------------------------------------------------------------------------
(* Theorems *)

\* Over Bluetooth LE a Pair Resume cache entry never outlives its pairing: Remove
\* Pairing drops the entries of the slot and the purge drops them all, so the
\* next owner of a slot is not resumed as the former one.
THEOREM CacheIsSound ==
    ASSUME OneBLESession
    PROVE  Spec => []CacheMatchesPairings
  <1>1. MatchInv => CacheMatchesPairings
    BY DEF MatchInv, CacheFits, Belongs, CacheMatchesPairings
  <1>2. QED
    BY <1>1, SpecMatch, PTL

\* Over Bluetooth LE a secured session is checked against the pairing of the
\* controller whose keys encrypt it, however the slots have been reused since
\* Pair Verify started or resumed it.
THEOREM SecuredSessionsAreSound ==
    ASSUME OneBLESession
    PROVE  Spec => []SecuredSessionsMatchPairings
  <1>1. MatchInv => SecuredSessionsMatchPairings
    BY DEF MatchInv, SessionFits, Belongs, IsSecured, SecuredIn, SecuredSessionsMatchPairings
  <1>2. QED
    BY <1>1, SpecMatch, PTL

====
