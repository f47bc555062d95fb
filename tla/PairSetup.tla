---- MODULE PairSetup ----
(***************************************************************************)
(* HAPPairingPairSetup.c: the procedure (M1 .. M6) by which a controller    *)
(* proves that it knows the setup code and becomes the first admin.  One    *)
(* session at a time holds it; its keys live in server->pairSetup.          *)
(*                                                                         *)
(* Over IP, the write half and the read half of a request run back to back  *)
(* (inHandler); the slow computation of M4 is cut into stages between which *)
(* a timer lets the run loop serve others ("processing").  Over BLE, every  *)
(* half is an event.  Message contents are abstracted to what is decided on *)
(* them; the controllers' arithmetic is reduced to the code they enter.     *)
(***************************************************************************)
EXTENDS SetupInfo

CONSTANTS
    IPSessions,
    BLESessions,
    NoSession,
    MaxAttempts,    \* failed attempts after which Pair Setup is refused (100)
    StoreFaults     \* key-value store operations that may fail

AllSessions == IPSessions \cup BLESessions

ASSUME PairSetupAssumption ==
    /\ IPSessions \cap BLESessions = {}
    /\ NoSession \notin AllSessions
    /\ MaxAttempts \in 1 .. 254
    /\ StoreFaults \subseteq {"attempts", "pairing", "deviceID"}

VARIABLES
    paired,         \* persistent: the Pairings domain is not empty
    attempts,       \* persistent: number of unsuccessful attempts
    accessorySetup, \* server->accessorySetup
    pairSetup,      \* server->pairSetup
    setup,          \* setup[s]: session->state.pairSetup
    connection,     \* connection[s]: state of the IP session or BLE link
    transient,      \* sessions with an active transient security session
    inHandler,      \* the IP session between its write half and its read half
    callbackTimer,  \* a state update callback is registered
    server          \* "running", "idle", or the assertion that has failed

vars == <<paired, attempts, accessorySetup, pairSetup, setup, connection,
          transient, inHandler, callbackTimer, server>>

\* What a controller can put into M3: a proof for a code, or an illegal key A.
Guesses == Codes \cup {"illegal"}

ASSUME NoIllegalCode == "illegal" \notin Codes \cup {NoCode}

\* sessionThatIsCurrentlyPairing; expired: the deadline for other sessions has
\* passed; code: what B was derived from in M2; guess: A and proof of M3; stage:
\* srpPMSStage; secret: the intermediate S in the scratch buffer is intact.
PairSetupState == [session : AllSessions \cup {NoSession}, expired : BOOLEAN,
                   flags : SUBSET {"transient", "split"}, keepSetupInfo : BOOLEAN,
                   code : Codes \cup {NoCode}, guess : Guesses,
                   stage : 0 .. 5, secret : BOOLEAN]

NoPairSetup == [session |-> NoSession, expired |-> FALSE, flags |-> {},
                keepSetupInfo |-> FALSE, code |-> NoCode, guess |-> "illegal",
                stage |-> 0, secret |-> FALSE]

SetupState == [state : 0 .. 5, method : {"PairSetup", "PairSetupWithAuth"},
               error : BOOLEAN]

NoSetup == [state |-> 0, method |-> "PairSetup", error |-> FALSE]

Assertions == {"Synchronize", "Transient", "PairSetupM5", "PairSetupM6"}

\* HAPAssert and HAPPrecondition end the process.
Abort(assertion) ==
    /\ server' = assertion
    /\ UNCHANGED <<paired, attempts, accessorySetup, pairSetup, setup, connection,
                   transient, inHandler, callbackTimer>>

Dispatching == server = "running" /\ inHandler = NoSession

-----------------------------------------------------------------------------
(* Parts of handlers *)

\* What a handler may replace.
Procedure == [ps |-> pairSetup, as |-> accessorySetup, setup |-> setup]

\* handle_http_request, before /pair-setup: other transient IP sessions are closed.
ClosedBy(s) == IF s \in IPSessions THEN (transient \cap IPSessions) \ {s} ELSE {}

\* setup with the procedures of the closed sessions reset.
Remaining(s) == [t \in AllSessions |-> IF t \in ClosedBy(s) THEN NoSetup ELSE setup[t]]

\* HAPPairingPairSetupResetForSession.
ResetForSession(p, s) ==
    {[ps |-> IF p.ps.session = s THEN NoPairSetup ELSE p.ps,
      as |-> a,
      setup |-> [p.setup EXCEPT ![s] = NoSetup]]
        : a \in IF p.ps.session = s THEN Stopped(p.as, p.ps.keepSetupInfo, paired)
                                    ELSE {p.as}}

\* Mutant: the session that loses the procedure is not reset.
AbortedUnnoticed(p) ==
    {[q EXCEPT !.as.keep = FALSE, !.setup = p.setup]
        : q \in ResetForSession([p EXCEPT !.ps.keepSetupInfo = TRUE], p.ps.session)}

\* The procedure of the session that holds it is abandoned for another one,
\* which uses the same code.
Aborted(p) ==
    {[q EXCEPT !.as.keep = FALSE]
        : q \in ResetForSession([p EXCEPT !.ps.keepSetupInfo = TRUE], p.ps.session)}

\* M1 from the session that holds the procedure starts it again.
Restarted(p, s, isM1) == IF p.ps.session = s /\ isM1 THEN Aborted(p) ELSE {p}

\* Mutant: another session takes over at once.
TakenOverAtOnce(p, s) == IF p.ps.session \notin {s, NoSession} THEN Aborted(p) ELSE {p}

\* Another session takes over a procedure that has exceeded its time.
TakenOver(p, s) ==
    IF p.ps.session \notin {s, NoSession} /\ p.ps.expired THEN Aborted(p) ELSE {p}

\* HAPAccessorySetupInfoHandlePairingStart for the session that gets it.
Claimed(p, s) ==
    IF p.ps.session # NoSession THEN {p}
    ELSE {[p EXCEPT !.ps.session = s, !.as = a] : a \in Prepared(p.as, TRUE)}

\* The beginning of HAPPairingPairSetupHandleWrite.
WriteStarted(s, isM1) ==
    UNION {IF p.setup[s].state = 0 /\ ~paired
           THEN UNION {Claimed(q, s) : q \in TakenOver(p, s)}
           ELSE {p}
              : p \in Restarted([Procedure EXCEPT !.setup = Remaining(s)], s, isM1)}

Become(p) == pairSetup' = p.ps /\ accessorySetup' = p.as /\ setup' = p.setup

\* CloseSession for the other transient IP sessions (ClosedBy).
CloseTransient(s) ==
    /\ connection' = [t \in AllSessions |-> IF t \in ClosedBy(s) THEN "closed"
                                            ELSE connection[t]]
    /\ transient' = transient \ ClosedBy(s)

\* IP rejects /pair-setup on a secured connection; a BLE procedure has dropped
\* its security session before (InvalidateForPairSetup).
MayWrite(s) ==
    /\ Dispatching
    /\ connection[s] = "reading"
    /\ s \notin transient
    /\ s \in IPSessions /\ paired => transient \cap IPSessions = {}

\* The write half ends: the read half follows at once over IP, unless the
\* request has been refused.
Written(s) == inHandler' = IF s \in IPSessions THEN s ELSE NoSession

Refused == inHandler' = NoSession

-----------------------------------------------------------------------------
(* HAPPairingPairSetupHandleWrite *)

\* M1.  Flags are remembered for the session that holds the procedure.
WriteM1(s) ==
    /\ MayWrite(s)
    /\ \E p \in WriteStarted(s, TRUE), method \in {"PairSetup", "PairSetupWithAuth"},
          flags \in SUBSET {"transient", "split"} :
        /\ p.setup[s].state = 0
        /\ Become([p EXCEPT !.setup[s].state = 1, !.setup[s].method = method,
                            !.ps.flags = IF p.ps.session = s THEN flags ELSE @])
    /\ Written(s)
    /\ CloseTransient(s)
    /\ UNCHANGED <<paired, attempts, callbackTimer, server>>

\* M3: A and the proof are copied.
WriteM3(s) ==
    /\ MayWrite(s)
    /\ setup[s].state = 2
    /\ setup' = [Remaining(s) EXCEPT ![s].state = 3]
    /\ \E guess \in Guesses : pairSetup' = [pairSetup EXCEPT !.guess = guess]
    /\ Written(s)
    /\ CloseTransient(s)
    /\ UNCHANGED <<paired, attempts, accessorySetup, callbackTimer, server>>

\* M5: the first pairing is stored if the controller is authentic.
WriteM5(s) ==
    /\ MayWrite(s)
    /\ setup[s].state = 4
    /\ \/ /\ "pairing" \in StoreFaults
          /\ Abort("PairSetupM5")
       \/ \E authentic \in BOOLEAN :
            /\ setup' = [Remaining(s) EXCEPT ![s].state = 5, ![s].error = ~authentic]
            /\ paired' = (paired \/ authentic)
            /\ callbackTimer' = (callbackTimer \/ paired' # paired)
            /\ Written(s)
            /\ CloseTransient(s)
            /\ UNCHANGED <<attempts, accessorySetup, pairSetup, server>>

\* A message that does not fit the state or is malformed; TLVs that cannot be
\* read (parsed = FALSE) reset the session before anything is claimed.
WriteRefused(s) ==
    /\ MayWrite(s)
    /\ \E parsed, isM1 \in BOOLEAN :
        \E p \in IF parsed THEN WriteStarted(s, isM1) ELSE {[Procedure EXCEPT !.setup = Remaining(s)]} :
            \E q \in ResetForSession(p, s) : Become(q)
    /\ Refused
    /\ CloseTransient(s)
    /\ UNCHANGED <<paired, attempts, callbackTimer, server>>

-----------------------------------------------------------------------------
(* HAPPairingPairSetupHandleRead *)

\* The read half follows the write half, or the process timer repeats it; a BLE
\* controller reads when it wants.
MayRead(s) ==
    /\ server = "running"
    /\ \/ s \in IPSessions /\ inHandler = s
       \/ s \in IPSessions /\ inHandler = NoSession /\ connection[s] = "processing"
       \/ s \in BLESessions /\ inHandler = NoSession /\ connection[s] = "reading"
    /\ s \notin transient

Answered(s) ==
    /\ inHandler' = NoSession
    /\ connection' = [connection EXCEPT ![s] = "reading"]

\* An error response or a failed handler: both reset the procedure.
ReadReset(s) ==
    /\ \E p \in ResetForSession(Procedure, s) : Become(p)
    /\ Answered(s)
    /\ UNCHANGED <<paired, transient, callbackTimer, server>>

\* Mutant: one attempt too many.
AttemptsLeftOneMore == attempts <= MaxAttempts

AttemptsLeft == attempts < MaxAttempts

\* M2 to another session than the one that holds the procedure, to a controller
\* of a paired accessory, or after too many attempts; also when the counter
\* cannot be read.
RefuseM2(s) ==
    /\ MayRead(s)
    /\ setup[s].state = 1
    /\ \/ pairSetup.session # s
       \/ paired
       \/ ~AttemptsLeft
       \/ "attempts" \in StoreFaults
    /\ ReadReset(s)
    /\ UNCHANGED attempts

Split(s) == setup[s].method = "PairSetup" /\ "split" \in pairSetup.flags

Transient(s) == setup[s].method = "PairSetup" /\ "transient" \in pairSetup.flags

\* M2: B is derived from the setup code.
AcceptM2(s) ==
    /\ MayRead(s)
    /\ setup[s].state = 1
    /\ pairSetup.session = s
    /\ ~paired
    /\ AttemptsLeft
    /\ \E a \in GetSetupInfo(accessorySetup, Split(s) /\ ~Transient(s)) :
        /\ accessorySetup' = a
        /\ pairSetup' = [pairSetup EXCEPT !.code = a.code]
    /\ setup' = [setup EXCEPT ![s].state = 2]
    /\ Answered(s)
    /\ UNCHANGED <<paired, attempts, transient, callbackTimer, server>>

\* Mutant: the stage is not advanced.
SameStage == pairSetup

\* HAP_srp_premaster_secret_stage: S is written to the scratch buffer in stage 2.
NextStage ==
    [pairSetup EXCEPT !.stage = @ + 1, !.secret = @ \/ pairSetup.stage = 2]

\* M4 is not ready: over IP the session goes on processing, over BLE the
\* controller is told to read again.
BusyM4(s) ==
    /\ MayRead(s)
    /\ setup[s].state = 3
    /\ pairSetup.stage < 5
    /\ ~(pairSetup.stage = 1 /\ pairSetup.guess = "illegal")
    /\ accessorySetup' \in GetSetupInfo(accessorySetup, pairSetup.flags = {"split"})
    /\ pairSetup' = NextStage
    /\ inHandler' = NoSession
    /\ connection' = [connection EXCEPT ![s] = IF s \in IPSessions THEN "processing"
                                               ELSE "reading"]
    /\ UNCHANGED <<paired, attempts, setup, transient, callbackTimer, server>>

\* The proof is compared with one computed from S and the setup code.
ProofMatches ==
    /\ pairSetup.guess = pairSetup.code
    /\ accessorySetup.code = pairSetup.code
    /\ pairSetup.secret

\* M4 for an illegal key (not counted) or a wrong code (counted).
RejectM4(s) ==
    /\ MayRead(s)
    /\ setup[s].state = 3
    /\ \/ /\ pairSetup.stage = 1 /\ pairSetup.guess = "illegal"
          /\ UNCHANGED attempts
       \/ /\ pairSetup.stage = 5 /\ ~ProofMatches
          /\ \/ attempts' = attempts + 1
             \/ "attempts" \in StoreFaults /\ UNCHANGED attempts
    /\ ReadReset(s)

\* M4 for the right code fails in the store (the counter stays) or in the
\* authentication coprocessor (the counter has been reset).
FailM4(s) ==
    /\ MayRead(s)
    /\ setup[s].state = 3
    /\ pairSetup.stage = 5 /\ ProofMatches
    /\ \/ "attempts" \in StoreFaults /\ UNCHANGED attempts
       \/ setup[s].method = "PairSetupWithAuth" /\ attempts' = 0
    /\ ReadReset(s)

\* M4 for the right code: the controller goes on with M5.
AcceptM4(s) ==
    /\ MayRead(s)
    /\ setup[s].state = 3
    /\ pairSetup.stage = 5 /\ ProofMatches
    /\ ~Transient(s)
    /\ attempts' = 0
    /\ setup' = [setup EXCEPT ![s].state = 4]
    /\ Answered(s)
    /\ UNCHANGED <<paired, accessorySetup, pairSetup, transient, callbackTimer, server>>

\* M4 of Transient Pair Setup: a security session without a pairing is active.
\* The state is advanced after the reset.
TransientM4(s) ==
    /\ MayRead(s)
    /\ setup[s].state = 3
    /\ pairSetup.stage = 5 /\ ProofMatches
    /\ Transient(s)
    /\ attempts' = 0
    /\ \E p \in ResetForSession(
                    [Procedure EXCEPT !.ps.keepSetupInfo = @ \/ "split" \in pairSetup.flags],
                    s) :
        Become([p EXCEPT !.setup[s].state = 1])
    /\ transient' = transient \cup {s}
    /\ Answered(s)
    /\ UNCHANGED <<paired, callbackTimer, server>>

\* M6, or the error of M5.
ReadM6(s) ==
    /\ MayRead(s)
    /\ setup[s].state = 5
    /\ \/ /\ ~setup[s].error
          /\ "deviceID" \in StoreFaults
          /\ Abort("PairSetupM6")
       \/ ReadReset(s) /\ UNCHANGED attempts

\* A read without a write, or after the procedure has been taken over.
ReadUnexpected(s) ==
    /\ MayRead(s)
    /\ setup[s].state \in {0, 2, 4}
    /\ ReadReset(s)
    /\ UNCHANGED attempts
====
