---- MODULE PairVerify ----
(***************************************************************************)
(* HAPPairingPairVerify.c: the Pair Verify procedure (M1 .. M4) by which a  *)
(* paired controller opens a security session, and its short cut over BLE,  *)
(* Pair Resume, fed by HAPPairingBLESessionCache.c.                         *)
(*                                                                         *)
(* Messages that do not parse only reset the procedure (ResetVerify); the   *)
(* cryptographic checks are the choices "genuine" and "authentic".          *)
(***************************************************************************)
EXTENDS Sessions

\* The callers' guard.  IP rejects /pair-verify on a secured connection; a BLE
\* procedure on the Pair Verify characteristic is never secured either, as its
\* start has invalidated a secured session (InvalidateForVerify).
MayVerify(s) ==
    /\ Dispatching
    /\ session[s].state = "reading"
    /\ ~session[s].isSecured
    /\ ~IsSecured(s)

\* HAPBLEProcedureAttach: the characteristic drops the security session.
InvalidateForVerify(s) ==
    /\ Dispatching
    /\ s \in BLESessions
    /\ IsSecured(s)
    /\ session' = [session EXCEPT ![s] = [Closed EXCEPT !.state = "reading"]]
    /\ UNCHANGED <<pairings, sessionCache, inHandler, server, callbackTimer, reported>>

\* HAPPairingBLESessionCacheFetch: an element is consumed by whoever presents its
\* session ID, even if the controller then fails to authenticate.
Fetch(i) ==
    /\ sessionCache[i] # NoEntry
    /\ sessionCache' = [sessionCache EXCEPT ![i] = NoEntry]

\* M1 of a controller that presents the session ID of element i to resume.
ResumeProcessM1(s) ==
    \E i \in CacheElements, authentic \in BOOLEAN :
        /\ s \in BLESessions
        /\ Fetch(i)
        /\ Continue(pairings, s, [session[s] EXCEPT !.verify =
              [state |-> 1, method |-> "PairResume",
               pairingID |-> sessionCache[i].pairingID,
               controller |-> sessionCache[i].controller,
               error |-> ~authentic]])

\* M1: start over, or resume.
VerifyWriteM1(s) ==
    /\ MayVerify(s)
    /\ UNCHANGED pairings
    /\ \/ /\ session[s].hap.active
          /\ Abort("VerifyM1")
       \/ /\ ~session[s].hap.active
          /\ UNCHANGED <<server, callbackTimer, reported>>
          /\ \/ /\ Continue(pairings, s, [session[s] EXCEPT
                                              !.verify = [NoVerify EXCEPT !.state = 1]])
                /\ UNCHANGED sessionCache
             \/ ResumeProcessM1(s)

\* Mutant: a controller without a pairing is not refused.
VerifiedAnyway(c, genuine) == genuine

\* The controller is paired and its signature is good.
Verified(c, genuine) == SlotsOf(pairings, c) # {} /\ genuine

\* The procedure after HAPPairingPairVerifyProcessM3: the slot is remembered as
\* soon as the controller is found, the error for M4 is set if it is not verified.
M3Result(s, c, genuine) ==
    [state |-> 3,
     method |-> session[s].verify.method,
     pairingID |-> IF SlotsOf(pairings, c) # {}
                   THEN CHOOSE k \in SlotsOf(pairings, c) : TRUE
                   ELSE session[s].verify.pairingID,
     controller |-> IF Verified(c, genuine) THEN c ELSE NoController,
     error |-> ~Verified(c, genuine)]

\* M3: the controller names itself and signs.
VerifyWriteM3(s) ==
    /\ MayVerify(s)
    /\ session[s].verify.state = 2
    /\ UNCHANGED pairings
    /\ \E c \in Controllers, genuine \in BOOLEAN, fault \in StoreFaults :
        \/ /\ fault = "get"
           /\ Abort("VerifyWrite")
        \/ /\ fault # "get"
           /\ Continue(pairings, s, [session[s] EXCEPT !.verify = M3Result(s, c, genuine)])
           /\ UNCHANGED <<sessionCache, server, callbackTimer, reported>>

\* A message out of order or malformed: HAPPairingPairVerifyReset.
ResetVerify(s) ==
    /\ MayVerify(s)
    /\ Reject(s, [session[s] EXCEPT !.verify = NoVerify])
    /\ UNCHANGED <<pairings, sessionCache, server, callbackTimer, reported>>

\* HAPPairingBLESessionCacheSave: into a free element, or over some entry of a
\* full cache (the least recently used one; ages are not modelled here).
SaveSession(entry) ==
    \E i \in CacheElements :
        /\ sessionCache[i] = NoEntry \/ \A j \in CacheElements : sessionCache[j] # NoEntry
        /\ sessionCache' = [sessionCache EXCEPT ![i] = entry]

\* HAPPairingPairVerifyStartSession.
Started(s) ==
    [session[s] EXCEPT
        !.hap = [active |-> TRUE, pairingID |-> session[s].verify.pairingID,
                 controller |-> session[s].verify.controller],
        !.verify = NoVerify]

VerifyRespond(s, r) == session' = Answered(pairings, s, r)

\* The last message of the procedure starts the session; over BLE it can be resumed.
StartSession(s) ==
    /\ VerifyRespond(s, Started(s))
    /\ IF s \in BLESessions
       THEN SaveSession([pairingID |-> session[s].verify.pairingID,
                         controller |-> session[s].verify.controller])
       ELSE UNCHANGED sessionCache

VerifyGetErrorResponse(s) ==
    /\ session[s].verify.error
    /\ VerifyRespond(s, [session[s] EXCEPT !.verify = NoVerify])
    /\ UNCHANGED sessionCache

\* The accessory's key and signature.
VerifyGetM2(s) ==
    /\ ~session[s].verify.error
    /\ session[s].verify.state = 1 /\ session[s].verify.method = "PairVerify"
    /\ VerifyRespond(s, [session[s] EXCEPT !.verify.state = 2])
    /\ UNCHANGED sessionCache

\* A new session ID and the keys that follow from the old session's.
GetM2ForBLEPairResume(s) ==
    /\ ~session[s].verify.error
    /\ session[s].verify.state = 1 /\ session[s].verify.method = "PairResume"
    /\ StartSession(s)

VerifyGetM4(s) ==
    /\ ~session[s].verify.error
    /\ session[s].verify.state = 3
    /\ StartSession(s)

\* The read half: M2 after M1, M4 after M3, or the pending error.  IP enters it
\* from the write half; a BLE controller reads when it wants.
VerifyRead(s) ==
    LET v == session[s].verify IN
    /\ Reading(s)
    /\ v.state \in {1, 3}
    /\ ~IsSecured(s)
    /\ UNCHANGED pairings
    /\ \/ /\ v.state = 1 /\ v.method = "PairVerify" /\ ~v.error
          /\ "get" \in StoreFaults
          /\ Abort("VerifyRead")
       \/ /\ UNCHANGED <<server, callbackTimer, reported>>
          /\ inHandler' = NoSession
          /\ \/ VerifyGetErrorResponse(s)
             \/ VerifyGetM2(s)
             \/ GetM2ForBLEPairResume(s)
             \/ VerifyGetM4(s)

====
