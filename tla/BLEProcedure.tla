---------------------------- MODULE BLEProcedure ----------------------------
(* HAPBLEProcedure.c: the one full procedure of a link, attached to a characteristic, which
   takes requests and answers them.  b.procedure is
     [attached, startedSecured, timer, multi, transaction, scratch]:
   in progress while its timer runs; multi is "TimedWrite" between a timed write and its
   execution; scratch is what the procedure buffer holds, where a timed write leaves its body.

   env is what a request meets: [authentic] if it decrypts, [late] if the link timer is
   overdue, [expired] if the time to live of a timed write is over, [outcome] of a message of
   Pair Setup or Pair Verify, [returns] if a write asks for a response, [total] units of
   response, [raises], a characteristic the application's handler reports a change of, [admin].

   b.seen, a history variable, is what this step told the controller and the application. *)
EXTENDS BLESession

(* HAPBLETransaction.c: one HAP request and its response, each in fragments.  A fragment is
   counted in units of body; what a body says is one value.

   What the controller writes is a PDU: [kind |-> "first", tid, iid, opcode, body, total, n],
   [kind |-> "continuation", tid, n], or one that does not deserialize ("malformed").  The
   union of request and response is kept: what is overwritten is gone. *)

NoRequest == [tid |-> 0, iid |-> "own", opcode |-> "none", body |-> "none", total |-> 0, offset |-> 0]
NoResponse == [tid |-> 0, status |-> "none", total |-> 0, offset |-> 0]

\* HAPBLETransactionCreate: room is the size of the buffer for the body.
CreateTransaction(room) ==
    [state |-> "WaitingForInitialWrite", request |-> NoRequest, response |-> NoResponse, room |-> room]

\* The first fragment of a request.
InitialWrite(t, pdu) ==
    [t EXCEPT !.state = "ReadingRequest",
              !.request = [tid |-> pdu.tid, iid |-> pdu.iid, opcode |-> pdu.opcode, body |-> pdu.body,
                           total |-> pdu.total, offset |-> pdu.n]]

\* HAPBLETransactionHandleWrite: the transaction, and whether it is an error.  A body that
\* exceeds the room is counted, and not stored.
HandleWrite(t, pdu) ==
    LET invalid(u) == [transaction |-> u, error |-> "InvalidData"]
        valid(u) == [transaction |-> u, error |-> "None"]
    IN CASE t.state = "WaitingForInitialWrite" ->
                IF pdu.kind # "first" \/ pdu.n > pdu.total THEN invalid([t EXCEPT !.state = "ReadingRequest"])
                ELSE valid(InitialWrite(t, pdu))
         [] t.state = "ReadingRequest" ->
                IF \/ pdu.kind # "continuation"
                   \/ pdu.n > t.request.total - t.request.offset
                   \/ pdu.tid # t.request.tid
                THEN invalid(t)
                ELSE valid([t EXCEPT !.request.offset = @ + pdu.n])
         [] t.state \in {"HandlingRequest", "WaitingForInitialRead"} ->
                IF pdu.kind # "continuation" \/ pdu.n > 0 \/ pdu.tid # t.response.tid THEN invalid(t)
                ELSE valid(t)
         [] t.state = "WritingResponse" -> [transaction |-> t, error |-> "InvalidState"]

IsRequestAvailable(t) == t.state = "ReadingRequest" /\ t.request.offset = t.request.total

\* HAPBLETransactionGetRequest reports the body that did not fit.
FitsRequest(t) == t.request.total <= t.room

\* HAPBLETransactionSetResponse, which writes over the request.
SetResponse(t, status, total) ==
    [t EXCEPT !.state = "WaitingForInitialRead",
              !.request = NoRequest,
              !.response = [tid |-> t.request.tid, status |-> status, total |-> total, offset |-> 0]]

\* HAPBLETransactionHandleRead with room for n units of the body, if it has room for the
\* header: the transaction, and whether this fragment is the last one.
HandleRead(t, hasHeader, n) ==
    LET left == t.response.total - t.response.offset
        sent == [t EXCEPT !.state = "WritingResponse", !.response.offset = @ + IF n < left THEN n ELSE left]
    IN IF t.state \notin {"WaitingForInitialRead", "WritingResponse"}
       THEN [transaction |-> t, error |-> "InvalidState", isFinal |-> FALSE]
       ELSE IF ~hasHeader
       THEN [transaction |-> [t EXCEPT !.state = "WritingResponse"], error |-> "OutOfResources", isFinal |-> FALSE]
       ELSE [transaction |-> sent, error |-> "None", isFinal |-> left <= n]

-----------------------------------------------------------------------------
(* The procedure *)

CONSTANT Room           \* units of body the procedure buffer holds

NoProcedure == [attached |-> NoChar, startedSecured |-> FALSE, timer |-> FALSE, multi |-> "None",
                transaction |-> CreateTransaction(0), scratch |-> "none"]

\* HAPBLEProcedureAttach, and Reset, which keeps the characteristic.
AttachTo(name) == [NoProcedure EXCEPT !.attached = name, !.transaction = CreateTransaction(Room)]
ResetProcedure(b) == [b EXCEPT !.procedure = AttachTo(@.attached)]

IsInProgress(b) == b.procedure.timer

\* HAPBLECharacteristicDropsSecuritySession.
DropsSecuritySession(c) == c.procedure \in {"PairSetup", "PairVerify"}

Ok(b) == [ble |-> b, error |-> FALSE]
Failed(b) == [ble |-> b, error |-> TRUE]

Respond(b, status, total) ==
    Ok([b EXCEPT !.procedure.transaction = SetResponse(@, status, total)])

------------------------------------------------------------------------------
\* What a message of Pair Setup or Pair Verify does to the link.

\* HAPSessionHandlePairVerifyWrite; Pair Setup has no timer.  A message in error ends the
\* procedure and leaves its timer running.
PairingWritten(b, c, env) ==
    LET d == IF c.procedure = "PairVerify" /\ b.link.verifying THEN DidStartPairingProcedure(b) ELSE b
    IN IF env.outcome = "error" THEN Failed([d EXCEPT !.link.verifying = FALSE])
       ELSE Ok([d EXCEPT !.link.verifying = c.procedure = "PairVerify"])

\* The session a completed procedure starts: HAPPairingPairVerifyStartSession, and M4 of a
\* transient Pair Setup.
Accepted(b, security, admin) ==
    HandleSessionAccept([b EXCEPT !.link.security = security, !.link.admin = admin, !.link.verifying = FALSE])

\* HAPSessionHandlePairVerifyRead.
VerifyRead(b, env) ==
    IF ~b.link.verifying THEN Failed(b)
    ELSE CASE env.outcome = "error" ->
                  Failed([DidStartPairingProcedure(b) EXCEPT !.link.verifying = FALSE])
           [] env.outcome = "next" -> Ok(DidStartPairingProcedure(b))
           [] env.outcome = "refused" ->
                  Ok(DidCompletePairVerify([DidStartPairingProcedure(b) EXCEPT !.link.verifying = FALSE]))
           [] env.outcome = "accepted" ->
                  Ok(DidCompletePairVerify(Accepted(DidStartPairingProcedure(b), "Secured", env.admin)))

\* HAPSessionHandlePairSetupRead.
SetupRead(b, env) ==
    CASE env.outcome = "error" -> Failed(b)
      [] env.outcome = "accepted" -> Ok(Accepted(b, "Transient", FALSE))
      [] OTHER -> Ok(b)

PairingRead(b, c, env) == IF c.procedure = "PairVerify" THEN VerifyRead(b, env) ELSE SetupRead(b, env)

------------------------------------------------------------------------------
\* The operations, in a session that is not transient.

\* Reading and writing pairing characteristics needs a session that is not secured, and the
\* other ones a secured one.
SecurityFits(b, c) == IsSecured(b) = (c.procedure = "None")

\* The value has been read, or not.
AfterReading(result, total) ==
    IF result.error THEN Respond(result.ble, "InvalidRequest", 0)
    ELSE Respond(result.ble, "Success", total)

\* CharacteristicRead: the body of the request makes room for the one of the response.
ReadValue(b, c, env, total) ==
    IF ~SecurityFits(b, c) THEN Respond(b, "Insufficient", 0)
    ELSE IF ~MayBeTold(b, c) THEN Respond(b, "InsufficientAuthentication", 0)
    ELSE LET d == [b EXCEPT !.procedure.scratch = "response"]
         IN AfterReading(IF c.procedure = "None" THEN Ok(d) ELSE PairingRead(d, c, env), total)

\* The application's handler, which may report a change.
Handled(b, c, value, env) ==
    LET d == [b EXCEPT !.seen.applied = value]
        raised == {e \in {b.table[i] : i \in 1 .. Len(b.table)} : e.name = env.raises}
    IN IF raised = {} THEN d
       ELSE DidRaiseEvent(d, CHOOSE e \in raised : TRUE, c.name, TRUE, 0)

\* HAPBLECharacteristicParseAndWriteValue has been called.
ValueWritten(result, c, env, isTimed) ==
    IF result.error THEN Respond(result.ble, "InvalidRequest", 0)
    ELSE IF isTimed /\ env.expired THEN Respond(result.ble, "UnsupportedPDU", 0)
    ELSE IF ~env.returns THEN Respond(result.ble, "Success", 0)
    ELSE ReadValue(result.ble, c, env, env.total)

\* CharacteristicWrite, and CharacteristicExecuteWrite with the body of the timed write.  A body
\* that has no value is refused before anybody is asked.
WriteValue(b, c, value, env, isTimed) ==
    IF ~SecurityFits(b, c) THEN Respond(b, "Insufficient", 0)
    ELSE IF ~MayBeTold(b, c) THEN Respond(b, "InsufficientAuthentication", 0)
    ELSE IF c.timed /\ ~isTimed THEN Respond(b, "InvalidRequest", 0)
    ELSE ValueWritten(IF value = "none" THEN Failed(b)
                      ELSE IF c.procedure # "None" THEN PairingWritten(b, c, env)
                      ELSE IF isTimed /\ env.expired THEN Ok(b)
                      ELSE Ok(Handled(b, c, value, env)),
                      c, env, isTimed)

\* The buffer is given to the writer of the response.
RespondWithBody(b, total) == Respond([b EXCEPT !.procedure.scratch = "response"], "Success", total)

\* ServiceSignatureRead, of any service of the accessory.
ReadServiceSignature(b, c, env) ==
    IF ~c.service THEN Respond(b, "UnsupportedPDU", 0) ELSE RespondWithBody(b, env.total)

\* CharacteristicSignatureRead.
ReadSignature(b, c, env) ==
    IF IsSecured(b) /\ DropsSecuritySession(c) THEN Respond(b, "UnsupportedPDU", 0)
    ELSE RespondWithBody(b, env.total)

\* HAPBLECharacteristicEnableBroadcastNotifications or Disable.
Configure(b, c, body) ==
    IF body = "disable" THEN Ok([b EXCEPT !.store.enabled = @ \ {c.name}])
    ELSE IF ~c.broadcast THEN Failed(b)
    ELSE Ok([b EXCEPT !.store.enabled = @ \cup {c.name}])

\* CharacteristicConfiguration.
ConfigureCharacteristic(b, c, body) ==
    IF ~IsSecured(b) THEN Respond(b, "UnsupportedPDU", 0)
    ELSE LET result == Configure(b, c, body)
         IN IF result.error THEN Respond(b, "InvalidRequest", 0) ELSE RespondWithBody(result.ble, 1)

\* HAPBLEProtocolHandleConfigurationRequest with a request for a key.
ConfigureProtocol(b) == GenerateKey(b, b.sessions)

\* ProtocolConfiguration.
ConfigureService(b, c) ==
    IF ~c.service \/ ~c.configures \/ ~IsSecured(b) THEN Respond(b, "UnsupportedPDU", 0)
    ELSE Respond(ConfigureProtocol(b), "Success", 0)

\* HAPPlatformMFiTokenAuthIsProvisioned.
IsProvisioned(b) == b.store.token # "none"

\* HAPPlatformMFiTokenAuthUpdate: only a token that is there is replaced.
UpdateToken(b, token) == IF IsProvisioned(b) THEN Ok([b EXCEPT !.store.token = token]) ELSE Failed(b)

\* HAPMFiTokenAuthGetTokenResponse.
GetTokenResponse(b, env) == IF env.outcome = "error" \/ ~IsProvisioned(b) THEN Failed(b) ELSE Ok(b)

\* HAPMFiTokenAuthHandleTokenUpdateRequest.
HandleTokenUpdateRequest(b, token, env) ==
    IF env.outcome = "error" THEN Failed(b) ELSE UpdateToken(b, token)

\* HAPAccessoryGetInfoResponse.
GetInfoResponse(b, env) == IF env.outcome = "error" THEN Failed(b) ELSE Ok(b)

\* Token, TokenUpdate and Info, of the service that configures; a transient session will do.
Inform(b, c, r, env) ==
    LET d == [b EXCEPT !.procedure.scratch = "response"]
    IN CASE ~c.service \/ ~c.configures \/ ~IsSecured(b) -> Respond(b, "UnsupportedPDU", 0)
         [] OTHER ->
              CASE r.opcode = "Token" -> AfterReading(GetTokenResponse(d, env), env.total)
                [] r.opcode = "TokenUpdate" -> AfterReading(HandleTokenUpdateRequest(b, r.body, env), 0)
                [] r.opcode = "Info" -> AfterReading(GetInfoResponse(d, env), env.total)

\* CharacteristicTimedWrite: the body stays where it is, if there is one.
PrepareWrite(b, r) ==
    Respond([b EXCEPT !.procedure.multi = "TimedWrite",
                      !.procedure.scratch = IF r.total = 0 THEN "none" ELSE @], "Success", 0)

\* The operations that a transient session may not ask for.
Operation(b, c, r, env) ==
    CASE r.opcode = "Read" -> ReadValue(b, c, env, env.total)
      [] r.opcode = "Write" -> WriteValue(b, c, r.body, env, FALSE)
      [] r.opcode = "TimedWrite" -> PrepareWrite(b, r)
      [] r.opcode = "Configuration" -> ConfigureCharacteristic(b, c, r.body)
      [] r.opcode = "ProtocolConfiguration" -> ConfigureService(b, c)

ExecuteWrite(b, c, env) ==
    IF b.procedure.multi # "TimedWrite" THEN Failed(b)
    ELSE WriteValue([b EXCEPT !.procedure.multi = "None"], c, b.procedure.scratch, env, TRUE)

\* HAPBLEProcedureProcessTransaction.
ProcessTransaction(b, c, env) ==
    LET t == b.procedure.transaction
    IN CASE ~FitsRequest(t) -> Respond(b, "InvalidRequest", 0)
         [] FitsRequest(t) /\ t.request.opcode = "unknown" -> Respond(b, "UnsupportedPDU", 0)
         [] FitsRequest(t) /\ t.request.opcode \notin {"unknown", "ServiceSignatureRead"} /\ t.request.iid # "own" ->
                Respond(b, "InvalidInstanceID", 0)
         [] OTHER ->
                IF t.request.opcode = "ExecuteWrite" THEN ExecuteWrite(b, c, env)
                ELSE IF b.procedure.multi # "None" THEN Failed(b)
                ELSE IF t.request.opcode = "ServiceSignatureRead" THEN ReadServiceSignature(b, c, env)
                ELSE IF t.request.opcode = "SignatureRead" THEN ReadSignature(b, c, env)
                ELSE IF t.request.opcode \in {"Token", "TokenUpdate", "Info"} THEN Inform(b, c, t.request, env)
                ELSE IF IsTransient(b) THEN Respond(b, "UnsupportedPDU", 0)
                ELSE Operation(b, c, t.request, env)

------------------------------------------------------------------------------

\* What is stored of a fragment: the last body that fits is the one in the buffer.
Stored(b, pdu) ==
    IF pdu.kind = "first" /\ b.procedure.transaction.state = "WaitingForInitialWrite"
          /\ pdu.total > 0 /\ pdu.total <= b.procedure.transaction.room
    THEN pdu.body ELSE b.procedure.scratch

\* The first write of a procedure: a pairing procedure drops the session it finds.
Begun(b, c) ==
    LET d == IF IsSecured(b) /\ DropsSecuritySession(c)
             THEN ResetProcedure(SessionInvalidate(b, FALSE)) ELSE b
    IN DidStartBLEProcedure([d EXCEPT !.procedure.startedSecured = IsSecured(d), !.procedure.timer = TRUE])

Taken(b, result, pdu) ==
    LET d == [b EXCEPT !.procedure.scratch = Stored(b, pdu), !.procedure.transaction = result.transaction]
    IN IF result.error # "None" THEN Failed(d) ELSE Ok(DidSendGATTResponse(d))

\* HAPSessionDecryptControlMessage needs the session the procedure started in.
Decrypted(b, env) == b.procedure.startedSecured => b.link.security # "None" /\ env.authentic

WrittenTo(b, pdu, env) ==
    IF ~Decrypted(b, env) THEN Failed(b) ELSE Taken(b, HandleWrite(b.procedure.transaction, pdu), pdu)

\* HAPBLEProcedureHandleGATTWrite.
HandleGATTWrite(b, c, pdu, env) ==
    IF b.link.terminal THEN Failed(b)
    ELSE IF IsInProgress(b) THEN WrittenTo(b, pdu, env)
    ELSE IF IsTerminalSoon(b, env.late) THEN Failed(b)
    ELSE WrittenTo(Begun(b, c), pdu, env)

\* Mutant: the buffer of a timed write is given away.
CompleteWithBuffer(b) ==
    [b EXCEPT !.procedure.timer = @ /\ b.procedure.multi = "TimedWrite",
              !.procedure.transaction = CreateTransaction(Room)]

\* CompleteTransaction.  A body that came with the execution of a timed write has no room.
CompleteTransaction(b) ==
    IF b.procedure.multi = "TimedWrite" THEN [b EXCEPT !.procedure.transaction = CreateTransaction(0)]
    ELSE [b EXCEPT !.procedure.timer = FALSE, !.procedure.transaction = CreateTransaction(Room)]

\* After the answer of the last transaction of a procedure, a session that lost its pairing
\* during it ends.
Dropped(b) ==
    IF ~IsInProgress(b) /\ b.procedure.startedSecured /\ ~IsSecured(b) THEN SessionInvalidate(b, TRUE) ELSE b

\* A fragment of the response is sent, encrypted if the procedure started secured.
Sent(b, result) ==
    IF result.error # "None" \/ (b.procedure.startedSecured /\ b.link.security = "None")
    THEN Failed([b EXCEPT !.procedure.transaction = result.transaction])
    ELSE LET d == [b EXCEPT !.procedure.transaction = result.transaction,
                            !.seen.answered = result.transaction.response.tid,
                            !.seen.status = result.transaction.response.status]
         IN Ok(Dropped(DidSendGATTResponse(IF result.isFinal THEN CompleteTransaction(d) ELSE d)))

ReadFromIt(result, room) ==
    IF result.error THEN result
    ELSE Sent(result.ble, HandleRead(result.ble.procedure.transaction, room > 0, room - 1))

\* HAPBLEProcedureHandleGATTRead, with room for the header of a response and room - 1 units.
HandleGATTRead(b, c, room, env) ==
    IF b.link.terminal \/ (b.procedure.startedSecured /\ room = 0) THEN Failed(b)
    ELSE ReadFromIt(IF IsRequestAvailable(b.procedure.transaction) THEN ProcessTransaction(b, c, env)
                    ELSE Ok(b),
                    room)

\* ProcedureTimerExpired.
ProcedureTimerExpired(b) == SessionInvalidate(ResetProcedure(b), TRUE)

=============================================================================
