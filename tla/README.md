# A verification project for the HomeKit ADK

TLA+ models of the HomeKit Accessory Development Kit in this repository (the
`HomeKitADK` library and its POSIX platform layer), checked with TLC and, where it
matters most, proved with TLAPS.

## 1. Inventory

The library runs in one thread. A run loop dispatches TCP stream, BLE and timer
callbacks; every callback runs to its end. Concurrency is the interleaving of
callbacks of several sessions and timers over shared state: the key-value store,
the accessory server, and the per-session records.

| Component | State | Operations | What makes it correct |
|---|---|---|---|
| Pairings (`HAPPairing.c`, `HAPPairingPairings.c`) | the *Pairings* domain of the key-value store (slot -> identifier, key, permissions); per session the pending /pairings request | Add, Remove, List Pairing, each in a write half (M1) and a read half (M2); `HAPAccessoryServerCleanupPairings` | one pairing per controller; only admins change pairings; no pairing without an admin; keys never replaced |
| Sessions (`HAPSession.c`) | `active`, keys, `pairingID` (a slot number), nonces, transient flag | `HAPSessionIsSecured`, encrypt, decrypt, the wrappers that inform the application | a secured session belongs to the pairing it is checked against; both sides count messages alike |
| Pair Verify (`HAPPairingPairVerify.c`, `HAPPairingBLESessionCache.c`) | procedure state 0..3, method, error, slot found; Pair Resume cache | M1..M4, Pair Resume | only a paired controller gets a session; cache entries do not outlive pairings |
| Pair Setup (`HAPPairingPairSetup.c`) | one session at a time, flags, SRP keys, attempts counter in the store | M1..M6, transient and split mode, claim, timeout | at most 100 failed attempts; runs only unpaired; one controller at a time |
| Setup info (`HAPAccessorySetupInfo.c`) | setup code for display and NFC, its lock and timers | start, stop, refresh, NFC pairing mode | a code in use by a procedure is not changed |
| Accessory server (`HAPAccessoryServer.c`) | `state`, callback timer, transports | create, start, stop, release, raise event, subscriptions, identity | callbacks are delivered, shutdown completes, the application knows the subscribers |
| IP server (`HAPIPAccessoryServer.c`) | per session: state, buffers, security type, event list, timed write, serialization; engine state, timers | accept, input, output, close, collect, start, stop, requests, events | sessions are served and collected; every change reaches its subscribers once; a prepared write is executed in time or not at all |
| HTTP and IP security (`util_http_reader.c`, `HAPIPSecurityProtocol.c`, `HAPIP+ByteBuffer.c`) | the reader, the buffer, the counters | bytes to requests, frames | requests arrive as they were sent, however the bytes are cut |
| Characteristics and accessory protocol (`HAPCharacteristic.c`, `HAPIPAccessory.c`, `HAPIPAccessoryProtocol.c`) | the attribute database; the serialization state | reads and writes with constraints and permissions; JSON and queries; responses | values keep their constraints; the announced length is the length; the database is whole |
| BLE (`HAPBLE*.c`) | session, procedure, transaction, GATT table; GSN; broadcast key and configuration | GATT reads and writes, timers, events, advertising | answers match requests; links end; nonces are fresh; changes are noticed |
| TLV, JSON, numbers, text (`HAPTLV*.c`, `HAPJSONUtils.c`, `HAPBase+Float.c`, ...) | a buffer | readers and writers, in place | what is written is read back |
| Platform (`PAL/POSIX`) | file handles, timers, the self pipe; streams; files | select and callbacks; listen, accept; atomic replacement of files | callbacks are due and current; values survive crashes whole |
| Identity (`HAPDeviceID.c`, `HAPLegacyImport.c`, `HAPAccessoryServer+Reset.c`) | the *Configuration* domain | first start, import, reset | what is found at a start fits together |
| Mongoose OS glue (`src/src`) | configuration | setup, RPC service, C++ wrappers | - |

How they interact. `HAPIPAccessoryServer.c` calls `HAPSessionHandlePair*Write` and
`HAPSessionHandlePair*Read` back to back (`handle_pairing_data`); `HAPBLEProcedure.c`
calls them from two GATT requests, between which anything may happen. A session names
its pairing by slot and asks the store on every use (`HAPSessionIsSecured`). When the
accessory becomes paired or unpaired, a zero-delay timer tells the application
(`handleUpdatedState`). Pairing state, procedures and the Pair Resume cache are in RAM
except the key-value store.

Pair Setup runs before there is a pairing, over sessions that are not secured, and
its keys belong to the server (`server->pairSetup`), not to the session; a second
session waits 30 seconds before it may take over. Its slowest step, M4, is cut into
stages by the MbedTLS port: `kHAPError_Busy` puts an IP session into *Processing*, and a
150 ms timer handles the same request again. The setup code is shared between the
procedure, a display, an NFC tag and three timers.

An IP session is a stream of bytes: the TCP stream manager reports it readable to the
session's callback, which reads into its one buffer, decrypts frames there, lets the HTTP
reader find tokens there, and answers from there; a long answer, the attribute database,
is continued whenever there is room. Values that are read stay in a scratch buffer that
all sessions share.

A BLE link has one full procedure, attached to one characteristic, and fallback
procedures that answer "too many procedures" at the others. While no controller is
connected, changes are told by advertisements: a counter (GSN), and broadcasts encrypted
under a key with the GSN as the nonce.

The hard behaviours, each listed with its line under `hazards` in `PROJECT.json`:

- *two halves*: what M1 has checked is used in M2, another request later (BLE), or
  after the handler has changed it itself (IP); a timed write is prepared and executed;
- *names that outlive things*: sessions and Pair Resume entries name pairings by slot,
  callbacks are for file handles and streams that may have been closed meanwhile;
- *crashes* between the writes that remove an admin and those that follow from it, between
  the calls that replace one file, between those of a reset; *failures* of single calls;
- *time*: takeover, code expiry, NFC mode, event coalescing, idle time, expiration of
  timed writes, the timers of a link and of advertising, in any order with the messages;
- *shared state of all sessions*: one scratch buffer, one event timer, one process
  timer, one garbage collection, one procedure buffer;
- *bytes in any portions*, read and rewritten where they lie;
- *numbers that are counted apart from what they count*: flags, lengths, counters, wraps;
- *shutdown*, which is finished by whichever callback releases the last session.

## 2. Modules

| Module | Models | State |
|---|---|---|
| `PairingStore` | the Pairings domain: slots, search, admin, cleanup | (operators only) |
| `Sessions` | sessions, run loop, callback timer, crash and start | `pairings`, `sessionCache`, `session`, `inHandler`, `server`, `callbackTimer`, `reported` |
| `PairVerify` | `HAPPairingPairVerify.c`, Pair Resume | as `Sessions` |
| `Pairings` | `HAPPairingPairings.c`, `HAPAccessoryServerCleanupPairings` | as `Sessions` |
| `Accessory` | their composition; properties | as `Sessions` |
| `PairingRegistry` | abstract: what the accessory promises of its pairings | `registry`, `running` |
| `SetupInfo` | `HAPAccessorySetupInfo.c`: the setup code and its timers | (operators on the record `accessorySetup`) |
| `PairSetup` | `HAPPairingPairSetup.c`, M1 to M6 | `paired`, `attempts`, `accessorySetup`, `pairSetup`, `setup`, `connection`, `transient`, `inHandler`, `callbackTimer`, `server` |
| `AccessorySetup` | an accessory that waits for its first controller: sessions, start and stop, application, timers; properties | as `PairSetup` |
| `SetupGate` | abstract: who gets in, and after how many wrong codes nobody does | `paired`, `attempts`, `authenticated` |
| `IPServer` | `HAPIPAccessoryServer.c`: descriptors, streams, timers, events, start and shutdown; properties | `server`, `engine`, `listener`, `numSessions`, `session`, `timers` |
| `Characteristics` | `HAPCharacteristic.c`: permissions, constraints, the handlers before the application's | (operators only) |
| `IPRequests` | /prepare, reads and writes of /characteristics, events, in `HAPIPAccessoryServer.c`; properties | `session`, `values`, `clock`, and what was seen |
| `HTTPReader`, `IPSecurity` | `util_http_reader.c`; frames and message counters | (operators only) |
| `IPStream` | bytes to requests: buffer, tokens, Content-Length, answers | `session`, `wire`, `sent`, `overlapping`, `handled` |
| `JSONUtils`, `JSONReader`, `Encodings` | escapes, `util_json_reader.c`, skipped values; UTF-8 and base64 | (operators only) |
| `IPProtocol` | the text of responses and events, and its length counted beforehand | (operators only) |
| `IPRequestReader` | `HAPIPAccessoryProtocol.c`: write and prepare requests from JSON, reads from a query | (operators on a reader) |
| `Floats` | `HAPBase+Float.c` | (operators only) |
| `TLV` | TLVs written, and read in place; structures described by formats | (operators on a buffer) |
| `AccessoryDatabase` | `HAPIPAccessory.c`: the attribute database as JSON by a resumable machine | (operators on a context) |
| `AccessoryResponse` | GET /accessories over the outbound buffer: chunks, frames, the tail that is moved | `response` |
| `RunLoop` | `HAPPlatformRunLoop.c`, `HAPPlatformTCPStreamManager.c`, and owners that do anything | `loop`, `manager` |
| `Storage` | `HAPPlatformFileManager.c` on a disk that loses power, `HAPPlatformKeyValueStore.c`, and its users: first start, import, reset, pairings, broadcasts; properties | `storage` |
| `Codecs` | the stand-alone parts side by side; properties | `task` and the variables above |
| `BLEAdvertising` | GSN, broadcast key, advertising and its timers | (operators on the record `ble`) |
| `BLESession` | when a link has to end: `HAPBLESession.c`; subscriptions and pending events of `HAPBLEPeripheralManager.c` | as `BLEAdvertising` |
| `BLEProcedure` | fragments; the requests of the full procedure | as `BLEAdvertising` |
| `BLELink` | the callbacks of platform and timers over the three above; loss of power; properties | `instance`, `ble`, `sealed`, `base` |
| `MC...` | TLC instances | |
| `AccessoryProofs`, `SessionsProofs` | theorems about `Accessory` | |
| `SetupProofs`, `ServerProofs` | theorems about `AccessorySetup` and `IPServer` | |
| `BLELinkProofs` | theorems about `BLELink` | |
| `IPRequestsProofs` | theorems about `IPRequests` | |
| `StorageProofs`, `RunLoopProofs` | theorems about `Storage` and `RunLoop` | |

`EXTENDS` chains: `PairingStore` -> `Sessions` -> `PairVerify`, `Pairings` -> `Accessory`
-> `AccessoryProofs` -> `SessionsProofs`; `SetupInfo` -> `PairSetup` -> `AccessorySetup`;
`Characteristics` -> `IPRequests`; `Characteristics`, `JSONUtils` -> `IPProtocol` ->
`AccessoryDatabase`; `HTTPReader`, `IPSecurity` -> `IPStream`, and `Storage` and `RunLoop`, -> `Codecs`, which has the
other stand-alone parts as instances; `BLEAdvertising` -> `BLESession` -> `BLEProcedure` -> `BLELink`. `IPServer` stands alone.

The state machines overlap where it helps one of them: `Accessory` has Pair Setup as the
single step that stores the first pairing (`PairSetupM5`), `AccessorySetup` has the removal
of the last pairing as the single step `Unpair`, `IPServer` has both as requests that may
keep a session processing or close others, `BLELink` has the outcome of a pairing message
as a choice. No property is claimed of several of them together.

Every top-level definition that models code is listed in `PROJECT.json` under `map` with
the lines it stands for. Definitions whose comment begins with *Mutant:* are not part of
the model: each is a plausible wrong version of the definition that follows it, used to
show that a property can fail.

### How state and actions correspond to the code

**`Accessory`.** `pairings` is a function from slots to pairings, as in the key-value
store: slots are reused, so gaps and reuse are real. `session[s]` holds the state of
the descriptor (`state`, `isSecured`), `session->hap` (`active`, `pairingID`, and
`controller` standing for the keys), and what `session->state.pairVerify` and
`session->state.pairings` keep between two messages. Each handler half is an action:
`VerifyWriteM1`, `VerifyWriteM3`, `VerifyRead`, `PairingsWrite`, `PairingsRead`. For an IP
session the write half sets `inHandler`, and only its own read half, or a crash, may
follow; the two halves are two steps so that power may fail between them. A BLE session
leaves `inHandler` alone. The sweep over other sessions (`Swept`), the end of a BLE
procedure (`DroppedByProcedure`) and the scheduling of the callback (`ScheduleUpdate`) are
part of these actions. `StoreFaults` says which operations of the store may fail, one per
handler; `crash` loses power before a purge. A failed assertion ends the process: `server`
then names the assertion and only `Start` is possible.

**`AccessorySetup`.** `pairSetup` is `server->pairSetup`, `setup[s]` is
`session->state.pairSetup`. A setup code is a member of `Codes`; the proof in M3 is the code
the controller entered (`guess`) and matches exactly when it equals the code B was derived
from and S has been computed undisturbed (`secret`, which `LongRequest` of another IP
session clears). `stage` is `srpPMSStage`. `accessorySetup` has the code, whether it is
locked or kept, and its timers; `Platforms` is the set of accessory kinds (static code,
display, NFC tag, and the two legacy ones) of which `Init` picks one. A session over Bluetooth LE may send M1 between M5 and M6, when it is paired and still
holds the procedure (section 6, *Sessions and pairings*).

**`IPServer`.** `session[s]` is a descriptor, `timers` the set of registered timers,
`engine` is `server->ip.state`. A run-loop callback is one action; inside it the C functions
are operators from an engine to the set of engines they may leave (`HandleInput`,
`Progressed`, `ScheduleEventNotifications`, ...), in the order of the calls. `flags` and
`numFlags` are kept apart as in the code. An event whose message does not fit the outbound buffer is
dropped, and its controller never told (`Skipped`, `HAPIPAccessoryServer.c:3426`-3445): flags say what is
still to be looked at, not what a controller knows. A Pair Setup request that is handled again may complete the
pairing, which also closes the transient sessions of others (`HandledAgain`). Requests are abstracted to what they do to this state:
subscribe, unsubscribe, write, remove other sessions' pairings, start Pair Setup, nothing.

**`IPRequests`.** What a secured session asks of characteristics. `clock` is the time in
milliseconds, `value[c]` what the application holds; of session `s`, `admin[s]` is its
controller's permission, `prepare[s]` the timed write (expiration time and pid; the time 0
means none, as in the code) and `subscribed[s]` its event notifications. One request is one
step, as in the code; `answer` is the message it sends: for each characteristic a status, and
a value with the slice of the scratch buffer it lies in. `granted[s]` is a history variable,
the prepare that was acknowledged last and has not been used. Requests are sequences of
contexts of `WriteRequests` and `ReadRequests`; the handlers of the application accept or
return any error of `Errors`. `TimeLimit` is UINT64_MAX: expiration times saturate there.
`Characteristics` has the range of every format, with words of `Bits` bits.

**`IPStream`.** `wire` is what the controller has sent and the session has not read,
`session` has the inbound buffer with position, limit and mark (`HAPIP+ByteBuffer.c`), and
tokens of the HTTP reader as the code keeps them: as slices of that buffer, which is shifted
under them. Bytes arrive in any portions. Frames are decrypted in place, under the counters of
both directions. `sent`, `overlapping` (a controller that does not wait for its answers) and
`handled` say what the controller did and what `handle_http_request` was called with.

**`Codecs`.** One behaviour exercises one part, chosen by `Init` as `task`: *stream* and
*loop*, *store* and *database* are state machines (`IPStream`, `RunLoop`, `Storage`,
`AccessoryResponse`). The others are algorithms, applied to inputs that grow a step at a
time, so that the inputs need not be listed: a JSON text that `SkipValue` reads, up to the
character that is turned down; a string of bytes; the parts of a request a controller composes, which is
then read token by token and may be cut off anywhere; a structure written as
TLVs, which are received in any order with an unknown one among them; a value of a
characteristic in a response, whose length has been computed before; a number in
binary and in decimal.

**`RunLoop`.** `loop` has the lists of file handles and of timers, the
cursor of the loop in them, and the self pipe in units; `manager` the listener and the
streams. One callback is one step; it does at most one thing (register, deregister,
close, connect, schedule), which may concern the handle or timer being
called, one already called and one yet to be called. Time passes only while the loop is in
`select`. The size of a context is read back through a plain `char` (`AsChar`), whose sign is the
constant `CharIsSigned`: a size it cannot say makes the loop call with a context that is not the callback's (phase
*undefined*), or find no whole message any more until the pipe is full (phase *aborted*).

**`Storage`.** A job of the process (a start, a pairing, an import, a reset, a broadcast
that is enabled) is a list of operations; `Compute` replaces the first one by those it
consists of, down to calls to the system, which `CallSystem` carries out one at a time.
`CallFails` lets one fail; `Killed` ends the process between two; `PowerLost` ends it
and leaves the directory as it was after some operation since its last sync, and of each file some
beginning of what had not been synced. A start loads or makes the key, cleans the pairings up, and, of a bridge
whose configuration has changed, counts the configuration number (`IncrementCN`), which wraps at `MaxCN` (65535 in the code);
device ID and number are first read by service discovery.

**`BLELink`.** `ble` is the state of the transport: link and procedure with
their timers, the transaction (`BLESession`, `BLEProcedure`), the GATT
table with its subscriptions (`BLESession`), GSN, key and advertisements
(`BLEAdvertising`), and what the store keeps of them (`ble.store`). A callback of the platform,
a timer, an event raised by the application and the loss of power are one action each. PDUs
are records: opcode, transaction, instance ID, body, and how much of the body a fragment
has. History variables: `sealed`, `base`, and the fields `asked`, `prepared`, `seen`,
`informed` of `ble`. The view of the run leaves out `seen`, which no guard reads and whose property
relates one step to its outcome.

## 3. Runs

| Run | Instance | States | Shows |
|---|---|---|---|
| `both` | 2 IP and 1 BLE session, 2 controllers, 2 slots, crashes | 978,794 | `ReadingSessionsSecured`, `OnlyAdminsChangePairings`, `PairedHasAdmin`, refinement of `PairingRegistry` |
| `ble` | 1 BLE session, 3 controllers, 3 slots, 2 keys, 2 cache elements, crashes and every store fault, fairness | 525,473 | `TypeOK`, `UniqueIdentifiers`, `ApplicationInformed`, `CacheMatchesPairings`, `SecuredSessionsMatchPairings`, `ApplicationLearns` |
| `setup` | 2 IP and 1 BLE session, 2 kinds of accessory, 2 codes, 2 attempts, every store fault, fairness | 440,942 | `ProcedureIsCurrent`, `CodeIsShownInTime`, `CodeIsStable`, `PairSetupIsExclusive`, `CodeIsGoneWhenPaired`, refinement of `SetupGate`, `M4IsAnswered` |
| `server_events` | 2 sessions, 2 characteristics, one sent immediately | 163,876 | `ChangesAreCounted`, `EverySessionIsServed`, `IdleIsClean` |
| `server_live` | 1 session, 2 characteristics, fairness | 2,708 | `EventsAreSent`, `ShutdownCompletesOtherwise` |
| `requests` | 1 session, 7 characteristics of different formats, time up to 4 | 16,416 | `ValuesNearConstraints`, `SlicesAreDisjoint`, `PreparedWritesGetThere`, `AdminValuesStayPrivate` |
| `codecs` | the parts that stand alone, one at a time | 464,170 | `RequestsInOrder`, `RequestsAreUnderstood`, `ContentLengthExact`, `ValuesSurvive`, `TLVsStayReadable`, `DatabaseIsWhole`, `CallbacksAreInOrder`, `StoreOutlivesCrashes` |
| `ble_link` | 4 accessories: procedures, events, transient session, broadcasts | 373,146 | `AnswersMatchRequests`, `LinksEnd`, `SubscribersAreServed`, `NoncesAreFresh`, `ChangesAreNoticed`, `AssertionsHold` |
| `slots`, `setup_scratch`, `server_stop`, `requests_float` | smallest that does | - | a sentence of the code or its documentation that does not hold (section 6) |

What the properties of the newer runs say, in short (each is stated in full above its definition):

- `OnlyAdminsChangePairings` names the session that acts: when pairings change on a paired accessory, then in the
  read half of a /pairings request of a session that is active and whose slot holds an admin's pairing at that
  step. In `both` the other sessions may have taken the permission, the pairing or the slot away since the write half.
- `ReadingSessionsSecured`: no step leaves an idle IP session whose pairing has gone, so that the assertion on its next
  input would fail, except a /pairings request over Bluetooth LE (section 6).
- `CodeIsShownInTime`: a display that needs a code has one or gets one, and the refresh timer runs for no
  code in use. `CodeIsGoneWhenPaired`: no step but one of a BLE session leaves a code on an accessory that is paired and whose
  procedure is over (section 6). `PairSetupIsExclusive`: nobody takes the procedure before its time is over, and a pairing over
  IP ends the transient sessions over IP.
- `ValuesNearConstraints`: no value ever reaches the application that its characteristic
  does not allow, whatever is written, and in whatever type, but for a float rounded up past its maximum by at most the
  tolerance and an integer of a range wider than its type (section 6, `requests_float`); `SlicesAreDisjoint`: values of one answer do not
  share scratch space; `PreparedWritesGetThere`: a characteristic that requires a timed
  write is written only with the pid that was prepared, before its time is over, and then is;
  `AdminValuesStayPrivate`: neither an answer nor an event tells a non-admin a value that only
  admins may read.
- `RequestsInOrder`: however the bytes are cut into portions and frames, requests are
  handled as sent, in order, up to the first malformed one; a controller that waits for each
  answer is never cut off, and one that does not is never misunderstood.
- `RequestsAreUnderstood`: a body means to the accessory what it means to a reference
  reader, a body that is cut off is refused, and a skipped value is exactly one value.
- `ContentLengthExact`, `DatabaseIsWhole`: the announced length is the length that is
  written; the chunks of the attribute database are the whole of it, over any sizes of buffer
  and any portions the stream takes.
- `ValuesSurvive`, `TLVsStayReadable`: what is encoded (strings, base64, floats, TLVs, in
  place and in any order) is decoded to what it was.
- `CallbacksAreInOrder`: a callback is for something that is still registered, due and
  ready; timers fire in the order of their deadlines; scheduled callbacks in theirs, each with its context, as long as no
  context is longer than a plain `char` can say (section 6, *Platform and store*).
- `StoreOutlivesCrashes`: after any sequence of deaths, power losses and failed calls, a
  value that is found is one that was set, and nothing that a call promised is gone; pairings belong to
  the identity they were made under; the accessory starts again.
- `AnswersMatchRequests`: what a controller reads answers the last request it wrote there;
  a timed write reaches the application only as prepared. `LinksEnd`: a link that has to end
  has a timer, or a pending response, that ends it. `SubscribersAreServed`: an event is
  pending or sent to each subscriber, and the application knows who subscribes. `NoncesAreFresh`: no
  two different broadcasts are sealed with the same key and GSN. `ChangesAreNoticed`: a
  controller that comes back finds another GSN if something has changed.
  `AssertionsHold`: those of the code that a peer could make fail.

*Bounds and why they are enough.* Two controllers and two slots are the least with a free
slot that is reused, an admin and a non-admin, and a full store. The run `ble` has a third
of each, so that a removed controller's slot can be taken by one that never had a cache
entry, and two cache elements, so that one is kept when one is replaced. `both` has two IP sessions, which remove each other's pairings,
and one of Bluetooth LE, the transport in which others act between the two halves of a request (IP requests run to
their end); a controller that was removed can be added again, into either slot and with another permission. A third
session over IP meets the others in the same ways, as handlers treat all
"other" sessions alike. Two public keys let Add Pairing present a wrong one. For Pair Setup,
two codes are the right and a wrong one, or the old and the new one; two attempts are
one below the limit and the limit (`MaxAttempts`, 100 in the code). The two kinds of accessory, a display with NFC and legacy
NFC, are those between which every action of the setup code occurs: codes that are generated and the static one, the refresh timer
and NFC mode, the legacy mode; the theorems are about any kinds. Two
characteristics are one that bypasses the coalescing delay and one that does not.

`requests` has words of a few bits, one characteristic for each kind of constraint and
requests in which a context that fails stands before, after and between ones that do not;
`MaxTime` 4 with time-outs of 0 and 2 lets a prepared write expire before, at and
after its time, and `TimeLimit` 5 makes an expiration time saturate. In `codecs` a frame
has 6 bytes and a buffer 9, so that requests, frames and tokens straddle each other in every
way; TLVs are fragmented after 6 bytes (255 in the code), words have 7 bits, floats 4 bits of
precision, which are enumerated completely; JSON texts have at most 9 characters of the
grammar's alphabet, strings 3 bytes of every class UTF-8 and the escapes tell apart; the
self pipe holds 6 units, so that it is full and that a message arrives in two parts; a context has up to 3 units
(UINT8_MAX in the code), of which a signed `char` can say 0 and 1; the configuration number wraps at 2; a value
is written in two parts, so that it can be torn. In `ble_link` the GSN wraps at 7 (65535 in the
code) and starts just below; one accessory has two connections, so that one finds what
happened between them. Counters that would grow without end are bounded where they are
counted: `MaxTime`, `MaxMade`, `MaxResponses`, `maxSessions`, `manager.most`, and the
failures, deaths and losses of power in `Storage`.

*Symmetry* is used only in runs without temporal properties other than action properties,
over sets whose members no definition tells apart (slots are ordered and are not
permuted).

*Deadlock* is checked everywhere but in `server_stop`, where the system stopping for good is
the point, and `codecs`, where a text that has been read is the end.

*Fairness.* `Accessory`: strong fairness of `HandleUpdatedState` (a registered timer with
deadline 0 is served, even if handlers of other sessions keep the run loop busy in
between) and weak fairness of the read halves of IP requests (the same C function calls
them). `AccessorySetup`: strong fairness of the read half, standing for the process timer,
which is registered again until the answer is ready; the run loop serves expired timers on
each turn. A process that ends in an assertion answers nobody, which `M4IsAnswered` says. `IPServer`: weak fairness of each timer callback and of the passage of time
(`DelayOver`, `FallSilent`). Nothing is assumed of controllers, streams, or the
application. Therefore `ShutdownCompletes` and `ShutdownCompletesOtherwise` are stated for
controllers that are silent: one that keeps sending resets the idle time of its session,
and the code lets it. `BLELink` states no liveness: that a link ends depends only on
timers, and `LinksEnd` says that there is one.

## 4. Theorems

Proved with TLAPS for every value of the constants: any number of slots, sessions,
controllers, codes, characteristics, cache elements, and every set of store faults. Besides the named
assumptions of the modules on their constants, a theorem assumes what the column says and nothing else.

| Theorem | States | Assumes | Inductive invariant |
|---|---|---|---|
| `TypeCorrect` | `Spec => []TypeOK` | - | `TypeInv` |
| `IdentifiersAreUnique` | `Spec => []UniqueIdentifiers` | - | `TypeInv`, by `StoreStep` |
| `KeysStay` | `Spec => KeysAreKept` | - | `TypeInv`, by `StoreStep` |
| `OnlyAdminsChange` | `Spec => OnlyAdminsChangePairings` | - | `TypeInv` |
| `ApplicationStaysInformed` | `Spec => []ApplicationInformed` | - | itself with `TypeInv` |
| `PairedAccessoryHasAdmin` | `Spec => []PairedHasAdmin` | `ReliableCleanup` | itself with `TypeInv` |
| `AccessoryIsRegistry` | `Spec => ImplementsRegistry` | `ReliableCleanup` | `TypeInv`, `UniqueIdentifiers` |
| `ReadingSessionsAreSecured` | `Spec => ReadingSessionsSecured` | - | `NothingOpenWhileDown` |
| `CacheIsSound` | `Spec => []CacheMatchesPairings` | `OneBLESession` | `MatchInv` |
| `SecuredSessionsAreSound` | `Spec => []SecuredSessionsMatchPairings` | `OneBLESession` | `MatchInv` |
| `HolderStaysCurrent` | `Spec => []ProcedureIsCurrent` | - | `SetupInv` |
| `CodeStaysStable` | `Spec => CodeIsStable` | - | `SetupInv` |
| `SetupIsGate` | `Spec => ImplementsGate` | - | `SetupInv` |
| `CodeIsShownThroughout` | `Spec => []CodeIsShownInTime` | - | `SetupInv` |
| `CodeGoesWithPairing` | `Spec => CodeIsGoneWhenPaired` | - | `SetupInv`, `IPInv` |
| `OneControllerAtATime` | `Spec => PairSetupIsExclusive` | - | `SetupInv`, `IPInv` |
| `CountersAgree` | `Spec => []ChangesAreCounted` | - | `ServerInv` |
| `NoSessionIsLost` | `Spec => []EverySessionIsServed` | - | `ServerInv` |
| `IdleServerIsClean` | `Spec => []IdleIsClean` | - | `ServerInv` |
| `BroadcastsHaveTheirNonce` | `Spec => []NoncesAreFresh` | - | `LinkInv` |
| `ControllersNoticeChanges` | `Spec => []ChangesAreNoticed` | - | `LinkInv` |
| `AdvertisingIsConsistent` | `Spec => []AssertionsHold` | - | `LinkInv` |
| `LinksDoEnd` | `Spec => []LinksEnd` | - | `LinkInv` |
| `SubscribersGetEvents` | `Spec => []SubscribersAreServed` | - | `LinkInv` |
| `RequestsGetTheirAnswers` | `Spec => AnswersMatchRequests` | - | `LinkInv`, `TalkInv` |
| `ValuesKeepNearTheirConstraints` | `Spec => []ValuesNearConstraints` | - | `RequestInv` |
| `ExactConstraintsAreKept` | `Spec => []ValuesFulfilConstraints` | `ConstraintsAreExact` | `RequestInv` |
| `SlicesStayDisjoint` | `Spec => SlicesAreDisjoint` | - | `RequestInv` |
| `AdminValuesAreSafe` | `Spec => AdminValuesStayPrivate` | - | `RequestInv` |
| `PreparedWritesSucceed` | `Spec => PreparedWritesGetThere` | `ApplicationTakesFittingValues` | `RequestInv` |
| `StoreIsKept` | `StorageSpec(behaviours) /\ []InodesSuffice => []StoreOutlivesCrashes` | `AreBehaviours(behaviours)` | `StoreInv` |
| `StoreIsKeptAlways` | `StorageSpec(behaviours) => []StoreOutlivesCrashes` | the same, `Inodes` is infinite | `StoreInv`, finitely many directories may come back |
| `LoopKeepsOrder` | `LoopSpec(bounds) => []CallbacksAreInOrder` | - | `LoopInv` |

What is assumed, and why the code asks for it. `ReliableCleanup`: no `get` and no `purge` among
the `StoreFaults`; with a failing purge the code leaves pairings without an admin until the
next start. Crashes, and failures to write or remove a pairing, are allowed.
`ConstraintsAreExact`: no characteristic declares a float maximum less than a tolerance below a step, or an integer with a step and a
range wider than INT32_MAX; `HAPAccessoryValidation.c:687`-710 accepts both. `OneBLESession`: Bluetooth LE
alone, with its one link; with two IP sessions a slot can be reused under a handler (run `slots`).
`ApplicationTakesFittingValues`: `InvalidData` is not among the `Errors` of the application's handlers. An
application that answers a value within the constraints with `kHAPError_InvalidData` has it reported with the status the
accessory itself uses for a write that was not prepared, so the two cannot be told apart in a response.
`AreBehaviours` says what an application may ask of the store: any jobs in any order, except that
what is imported belongs to one accessory, and comes before anything else, as `HAPLegacyImport.h` demands (:34, :49).
`InodesSuffice` says that the file system has a free inode; `StoreIsKeptAlways` does without it for a file
system that always has. `StorageSpec` is the `store` part of `CodecSpec` by itself.
`KeysStay` and `ExactConstraintsAreKept` have no passing run: the first follows from the refinement of `PairingRegistry`, which has the keys, wherever cleanup is
reliable; the property of the second is violated where its assumption does not hold (`requests_float`).
Each of the other theorems, but `StoreIsKeptAlways`, has a run that is an instance of it; the behaviours of `codecs` satisfy `AreBehaviours`, and 10 inodes suffice them
(TLC would stop at the smallest number of an empty set).

**Types and pairings of the accessory** (`AccessoryProofs`). `TypeOK` alone is not inductive:
a session that is about to become secured copies the slot
found in its procedure, which may be -1, and the controller, which may be none. `TypeInv`
therefore restricts session records to `SoundSession`: a Pair Verify procedure that can
start a session (`Startable`) names a slot and a controller, and a /pairings request
between its halves belongs to an active session. One lemma per handler shows that it keeps
`TypeInv`; small lemmas say what a change of one field does to a sound record.
The invariants of the store follow from `StoreStep`: whatever a step of the accessory is,
it leaves the store alone, empties it, empties one slot, or writes a pairing into one slot,
either for an identifier that is nowhere or into that identifier's own slot with the same
key. `StepStore` proves that `TypeInv` and `[Next]_vars` imply it; uniqueness and stability
of keys are then short.

**Sessions and slots** (`SessionsProofs`). `CacheMatchesPairings` and `SecuredSessionsMatchPairings` are
not inductive: between two messages a procedure of Pair Verify holds a slot it has looked up and will
start a session with. `MatchInv` says it of all three places that hold a slot,
open sessions (`SessionFits`), procedures that are `Startable`, and cache elements (`CacheFits`), and that a
session in use has no such procedure. `KeepsControllers` is what is needed of the store: no
slot passes from one controller to another in one step; a slot that becomes free is swept from
sessions and cache by the same step. `ReadingSessionsSecured` needs `NothingOpenWhileDown`: RAM
is empty while the accessory does not run.

**The registry** (`AccessoryProofs`). `RegistryOf(store)` is the refinement mapping. It chooses the slot
of a controller, so that it is a function of the store only while identifiers are distinct (`GoodStore`, from
`UniqueIdentifiers`). Lemmas say what the mapping makes of writing, replacing and emptying a slot and of
`CleanedUp`; then each handler half that writes the store is a step of `PairingRegistry`, and all
others stutter.

**Pair Setup** (`SetupProofs`). `ProcedureFits` relates the three variables that every handler
changes together: the session that has been answered M2 holds the procedure, its code is locked and is the one its keys
are made from, attempts are left and nobody is paired. `CodeFits` is the same for the setup code with its timers.
They are predicates on records of values, as the model's operators are functions on such records, so that a
lemma for each operator (take-over, reset, kept or refreshed code) serves every action that calls it. `SetupInv` adds
that the holder's connection is open and what the display shows. `StepFits` proves of each step at once
that it keeps `SetupInv`, is a step of `SetupGate`, and keeps a kept code. `IPInv` says that an IP
session holds the procedure of a paired accessory only in the handler that has paired it, so that no other step finds it there:
`PairedSession`, `PairedOtherwise` and `PairedByM5` then show of every step but those of BLE sessions that it leaves neither a code
nor a transient IP session behind.

**The IP server** (`ServerProofs`). A callback is a chain of functions on the engine, and none of the properties
holds between two of them: a session that has been read from is not yet served, one that has been closed is
not yet collected. `EngineFits(ip, handled, sv)` therefore says, of an engine in the middle of a callback, that
it is consistent except that the sessions in `handled` need not be served yet; `ServerInv` is
`EngineFits` of the variables with nobody `handled`. Each function has a lemma from `EngineFits` to
`EngineFits`; `Progressed`, `collect_garbage` and `schedule_event_notifications` are those that
empty `handled`. The counters need that a set of flags has its cardinality changed by one when a flag is set or
cleared, by `FiniteSetTheorems`.

**The BLE link** (`BLELinkProofs`). As in the server, a callback is a chain of functions, here on the record `ble`.
`IsSound(b)` is what holds between two functions: timers of advertising and of the link fit what is
connected (`TimersFit`, `LinkFits`), subscriptions fit what the application has been told
(`SubscriptionsFit`), and the broadcast key, what is on the air and what has been sealed fit the GSN (`RadioFits`). `IsAtRest` is what
holds between two callbacks. Two quantities carry the argument. `Dist(gsn, expiration)` is how
often the GSN may still count before the key expires: it is at most `MaxGSN div 2 - 1`
and each count lowers it by one, so the GSN does not wrap to a value used under the same key
(`NoncesFit` says that everything sealed under the present key has at least the present distance, and is the
broadcast on the air if it has the present GSN), nor back to the GSN a controller has left with (`LeftWith`). And events: `SendPendingEventNotifications`
walks the GATT table until the platform refuses, and leaves a queue in which an event waits only if nothing can be sent
(`IsBlocked`). That loop is a recursive function on the index; `SetInduction`, induction over the natural
numbers for a *set*, is itself proved from the pigeonhole principle of `FiniteSetTheorems`,
and `LoopExists` uses it to show that the function is the one its equation describes.

`AnswersMatchRequests` relates a step to what was asked and prepared before it (`asked`, `prepared`), and needs a second invariant,
`TalkInv`, on top of `LinkInv`. As long as the link is to go on, `TalkFits` relates every procedure to what the controller last
asked at its characteristic: a request that is being read is the one that was asked (`ReadsAsked`), a response has its
transaction ID and a timed write that was answered is what is prepared (`AnswersAsked`), and a body that waits for its execution is the prepared one
(`HoldsPrepared`). The fallback procedures, which refuse requests at characteristics that have lost the full procedure, know their transaction ID.
Most functions of the accessory have nothing to say in a conversation (`SameTalk`: the first third of the lemmas); the others each have a lemma
on what they add to it: a request that arrives (`Writing`), its processing
(`Answering`), its response (`Reading`), and what becomes of procedures and fallbacks around them (`OnWrite`, `OnRead`). A link that has to
end (`terminal`) is exempt, since its procedure refuses every further request, until the next connection starts afresh (`Unasked`).
`TalkSteps` collects the handlers. The attempt found the model wrong in one place, where it let an empty body carry a value:
a timed write of nothing now leaves nothing, and its execution is refused as `HAPBLECharacteristicParseAndWriteValue` refuses it.

**Requests for characteristics** (`IPRequestsProofs`). The invariant is short: `RequestInv` has the types, `ValuesNearConstraints`,
and `GrantFits`, by which the `prepare` of a session is what was granted to it (`granted`), with the deadline cut off at
`TimeLimit`. The work is in the requests, which are loops over contexts of any number. `ReadSoFar` and `WrittenSoFar` are what
holds before each turn of a loop: the slices of the contexts so far are packed below the position of the scratch buffer
(`Packed`), none of them shows an admin's value to another controller, each context that was written
had its prepare, and the values fit. `ReadNextFits` and `WriteNextFits`
show that a turn keeps this; `CountingReachesAll`, induction over the natural numbers for a set of them, takes it to the end of the
loop and also shows that the recursive function is the one its equation describes (`ReadLoopExists`, `WriteLoopExists`).
`HandledFits` is the arithmetic of the constraints, with `FloatHandledFits` for the rounding to a step, which passes the
maximum by at most `FloatTolerance`. `NearIsExact` then has the exact statement under `ConstraintsAreExact`. `StepFits` says of each
step what the three action properties say of it.

**The store** (`StorageProofs`). What is promised is promised of every directory that a loss of power may bring back, and only of the
contents it gives to the keys: its *view*. Names, inodes, temporary files and syncs appear in the first third of the
module only, where `DiskFits` says that no inode is both the value of a key and a temporary file, in the present directory or
an earlier one, and that the value of a key is synced and whole unless its sync failed. One lemma per call says what the call makes of the
views: `Opened`, `Written`, `SyncedTemporary` leave them alone, `Renamed` and `Unlinked` add one that differs in one key,
`SyncedDirectory` leaves the present one only, `Survived` picks one. From there `StoreInv` speaks of views.
`ContentsFit` has of each view what the properties say of the present one: pairings fit its secret key, broadcasts are in order,
and each value is among the promised. What makes it inductive is what is left of the job (`TodoFits`): operations follow each other as the
functions call each other (`Follows`), each of them may be there (`OpFits`), and the one whose turn it is has what it needs (`HeadFits`):
a value on its way to a key is one that every view can take (`ValueFits`). In a first start, `ServerFits` has the pairings without
a key all listed for removal before a key is made, and gone from every view before one is stored. `MovesContinue` is the frame
rule: replacing the first operation by others needs to be justified of these others only. Then each operation and each call has a
lemma, and `StoreStep` collects them.

The proof found a gap between what a removal returns and what it has done, which TLC then confirmed: the one described
under *Platform and store* in section 6. `Promises` follows the code, and `WritesAreAtomic` claims no more.

**The run loop** (`RunLoopProofs`). `LoopSpec(bounds)` are the behaviours of the loop, which `Codecs` takes for its
task *loop*: a callback is any operation on file handles, streams, timers and scheduled callbacks, and the
theorem holds for any sizes and numbers of these. `LoopInv` relates four lists to what they stand for. File handles (`AreHandles`):
the self pipe, the listener and each open stream have exactly one; a stream's owner has the number of its own connection, so that a handle that
gets the descriptor and the slot of one that was closed is a new owner, not awaiting events; what `select` has reported of a handle that awaits
it was reported to its owner; and the listener wants streams as long as a slot is free (`Wanted`). It is stated of any set of
owners, since `AcceptTCPStream` and `CloseStream` change the streams, the handles and the interests of the listener one after the other.
Timers (`TimersFit`): the list is sorted by `Before`, in which those of deadline 0 come last first. Messages (`AreMessages`): what
has been read and what is left in the pipe are, joined, whole messages in the order of their numbers, wherever the
pipe was cut; `MessageAppended` and `MessageTaken` are its two ends, and `WithoutMessageFits` is where the room for
the rest of a message comes from. That room is there as long as sizes fit a `char` (`FitChar`): a message of a longer
context is never taken, and the claim about calls is made without them (`SizesFitChar`). That some descriptor is free is the pigeonhole principle (`DescriptorIsFree`).

## 5. What is only model-checked

- liveness under fairness, which the prover does not do: `ApplicationLearns`, `M4IsAnswered`,
  `EventsAreSent`, `ShutdownCompletesOtherwise`;
- what recursive definitions compute for every input (readers, writers, floats): modules with
  recursive operators (`JSONReader`, and those that use it) cannot hold theorems; these are
  all properties of `Codecs` itself; `StoreOutlivesCrashes` and `CallbacksAreInOrder` of the same run are
  properties of `Storage` and `RunLoop`, which have none.

### Abstractions

- Cryptography is a choice: a message is genuine for a controller or it is not; a frame is
  decrypted when its nonce is the expected one.
- `Sessions`: a failing read of the store inside `HAPSessionIsSecured` is not modelled; any
  cache element may be replaced (the code takes the least recently used);
  `invalidateDependentIPState` changes nothing modelled.
- `AccessorySetup`: the store may fail for the attempts counter, the pairing and the device
  ID only; `Stop` happens with all connections closed and no pending callback (shutdown
  itself is in `IPServer`); MFi authentication is left out; the request of another session
  that uses the scratch buffer is any long request.
- `IPServer`: timers may fire at any time after they are registered, unless their effect
  depends on a clock (`delayed`, `silent`); the idle time is looked at only while the server
  stops, as in the code of this port; a stream that finds no free descriptor is closed at
  once and changes nothing; allocation of the list of events does not fail; Create and
  Release are not modelled.
- `IPRequests`: text is a number of bytes; floats are numbers of a fixed point, a step is rounded to as the code does;
  an integer's distance to its minimum that overflows passes the test of its step or does not, both of which a
  build may produce.
- `IPProtocol`, `AccessoryDatabase`: a value, a name and a description are short texts, with
  every class of character the escapes tell apart; the path for sessions without
  security (`SessionSecurityDisabled`, a build for tests) is left out.
- `Floats`: the capacity of the big integers (168 bits), NaN and the digits dropped beyond
  18 are left out.
- `RunLoop`: reading and writing a stream are left out beyond readiness; the listener's socket is
  taken to have a connection to accept whenever it is ready.
- `Storage`: reads that fail are left out; at a loss of power the file system has
  kept the order of its directory operations.
- `BLELink`: one controller at a time (as the protocol has it); timers have no time, they may
  fire at any moment after they are registered; registrations of timers and the store do not
  fail; whether a session is an admin's is fixed when it begins; the PairingFeatures
  characteristic stands for the other ones that end a link; the requests of the Pairings
  characteristic are in `Accessory`, here a pairing is removed at any time (`RemovePairing`);
  a key expires after `MaxGSN div 2 - 1` increments (32,767 in the code).

### Not modelled

- Service discovery (TXT records) and the server engine's table of functions: no state
  that a property could relate, they follow calls of the modelled functions.
- Hardware authentication (`HAPMFiHWAuth.c`): the protocol of a chip over I2C.
- The bytes of BLE PDUs and of advertisements: the formats are straight-line; what they carry is
  modelled.
- The Mongoose OS glue in `src/src`, applications, tests, tools, mocks, and the
  cryptographic libraries.

## 6. Where the code and its documentation disagree

Each has a run that exhibits it, and an entry under `findings`:

1. `slots`: the check meant "to detect concurrent Remove Pairing operations"
   (`HAPSession.c:144`) does not notice that the slot has been reused for another controller.
2. `setup_scratch`: the comment at `HAPPairingPairSetup.c:476` says that the scratch buffer
   is not touched during pairing; another IP session can touch it, and a right setup code
   then counts as a wrong one.
3. `requests_float`: reads assert that values fulfil the constraints (`HAPCharacteristic.c:1332`), but a
   float is rounded to its step (:1364) after its range has been checked, and a maximum just below a step is passed.
4. `server_stop`: a session whose Pair Setup answer is under way when the server stops is
   never served again, so `handleUpdatedState` (`HAP.h:4173`) is not called.

Seen while modelling, without a run of their own.

Sessions and pairings:

- A pairing removed over Bluetooth LE leaves the idle IP session of its controller open; the
  next input fails the assertion at `HAPIPAccessoryServer.c:3245`, although the comment at
  :2199 says that such sessions are closed as soon as possible.
- The last admin that demotes itself over IP makes `HAPSession.c:514` assert.
- A successful pairing attempt "stops advertising a setup code" (`HAPAccessorySetupInfo.h:81`). Over Bluetooth LE the
  holder may send M1 after M5 has stored its pairing, instead of reading M6: the procedure is begun again with its code
  kept (`HAPPairingPairSetup.c:1261`) and refused, as the accessory is paired, and the code stays on the display. Without the exception for
  BLE sessions, TLC finds this against `CodeIsGoneWhenPaired`.
- A transient session that is open over one transport while the accessory is paired over
  the other fails the assertion at `HAPSession.c:184`; the step `TransientWhilePaired` of
  `AccessorySetup` shows it. Only `/pair-setup` over IP closes transient sessions.
- `HAPPairingPairVerify.c:147` requires an inactive session; an IP session whose pairing has
  gone is active and not secured, so it may ask for Pair Verify again.
- Store failures: `HAPPairingPairings.c:39` documents `kHAPError_Unknown` for Add Pairing,
  which its caller asserts away (:871). The same holds for M5 (`HAPPairingPairSetup.c:1036`
  and `HAPSession.c:257`).
- `HAPAccessoryServerGetState` (`HAPAccessoryServer.c:313`) reports the engine's state, which
  is Idle before `CompleteShutdown` has run.
- The event and process timers of the engine may be registered in Idle (`IdleIsClean` says
  exactly which), and `HAPAccessoryServerRelease` does not deregister them before it zeroes
  the server. It also tests `server->transports.ip` after zeroing it, so the server engine is
  not uninstalled.

Requests, values and responses over IP:

- Pipelined requests: a partial second request behind a whole one closes the session, and of
  a partial encrypted frame the bytes are lost (`HAPIP+ByteBuffer.c:38` keeps only what is
  before the position).
- A `Content-Type` given twice, in two portions, is taken from the second; a folded header line runs
  into the assertion at `HAPIPAccessoryServer.c:3150`.
- The last of duplicate members wins, except `pid` and `ttl`, whose duplicates are refused; an
  empty list of characteristics is refused; numbers with an exponent but no point are
  refused; a number with a point may be read as infinity. `id=` at the end of a query asks
  for nothing and is accepted, `id=&...` is refused.
- A value whose text does not fit the rest of the buffer is sent as `null` in the database; an
  escaped string that does not fit ends the process (`HAPIPAccessoryServer.c:1970`), which
  small buffers make possible: 64 control characters escape to 384 bytes.
- `(value - minimum) % step` of an Int32 may overflow for a range wider than INT32_MAX (excluded in
  `ValuesNearConstraints`).
- "ev" alone, with "r":true, is answered with a value that was not read; a status of "ev" is
  overwritten by that of a value behind it; a TLV8 that is written something that is not a string is
  answered with success, though no handler was called.
- A structure of TLVs with a flat member that is not its last one loses the later members
  (`HAPTLVReader.c:1150`, :1182).
- A text that ends inside "[" makes the JSON reader's skip return `OutOfResources`.

Bluetooth LE:

- `HAPBLESessionIsTerminalSoon` (`HAPBLESession.c:162`) subtracts unsigned times in an order
  that makes it true after the deadline and false shortly before it.
- Token and info requests, and signature reads, are not refused in a transient session; the
  other opcodes are.
- A subscription that ends because its session lost its pairing is not told to the
  application (excluded in `SubscribersAreServed`).
- A change whose value cannot be read for its broadcast is not counted
  (`HAPBLEAccessoryServer+Advertising.c:958`); a power loss while a controller is connected
  forgets that the GSN has been incremented. Both are excluded in `ChangesAreNoticed`.
- When the last admin is removed over IP while a broadcast is on the air, the key is gone,
  and the next update of the advertisement ends the process
  (`HAPBLEAccessoryServer.c:173`).
- Fallback procedures look at the session at each access, full ones when they begin. After an unsecured
  procedure no timer runs; errors of Pair Verify leave the pairing timer, and a procedure
  begun again inherits its deadline; a link whose safe timer could not be registered
  stays open until the next request.
- The timers of advertising outlive a server that has been stopped.

Platform and store:

- `HAPPlatformTimer.h:38` promises that timers of one deadline fire in the order of their
  registration; in `HAPPlatformRunLoop.c:310` the deadline 0 is stored as 1 but compared as 0,
  so timers of deadline 0 fire in reverse (excluded in `CallbacksAreInOrder`). Callers use
  deadline 0 for "as soon as possible".
- Contexts of scheduled callbacks may have up to UINT8_MAX bytes (`HAPPlatformRunLoop.c:154`, :674), but their size is read
  back through a plain `char` (:442). Where it is signed, a callback with a context of more than 127 bytes is called with a context that
  is not its own, or not at all, and keeps those behind it waiting; `RunLoop` has both (excluded in `CallbacksAreInOrder`).
- The listener's socket blocks, should a connection be gone between `select` and `accept`;
  connections are asked for even when all streams are in use.
- `HAPPlatformFileManager.c:187` removes the temporary file relative to the working directory, so
  a failed write leaves it; as it has mode 0400, a process that is not the superuser's can
  never write that key again. During a first start this makes every later start fail
  (excused in `StartsAgain` for such processes).
- A file whose `fsync` failed is used (`:207`), so that a later loss of power may leave
  a torn value; a new directory is never synced into its parent.
- `HAPPlatformFileManagerRemoveFile` returns without a sync if there is no file (:342). A removal
  that is cut off between `unlink` and the sync of the directory (:407) and then asked for again has been
  successful, and the key may still come back after a loss of power. `WritesAreAtomic` has a
  removal promise something only if it finds its file.
- `HAPAccessoryServerIncrementCN`, which a bridge that is started with a changed configuration calls
  (`HAPAccessoryServer.c:718`), does not look at the length of the number it has read; `HAPAccessoryServerGetCN` refuses one of
  another length. The firmware check that also calls it is disabled (`if (0)`, :512).
- A reset that is interrupted may have removed the device ID and left the keys and pairings,
  which always match each other. An import that is repeated after an interruption
  fails its precondition.
- The buffer of broadcast configurations is declared for 42 pairs, of which 41 fit
  (`HAPBLECharacteristic+Broadcast.c:294`).

## 7. Plan

Done: the pairing core (`PairingStore` to `PairingRegistry`) with proofs; Pair Setup and the
setup code (`SetupInfo` to `SetupGate`); the IP server's engine (`IPServer`), its requests
(`IPRequests`) with proofs, its stream of bytes and its protocol (`IPStream`, `IPProtocol`,
`IPRequestReader`, `AccessoryResponse`); the readers and writers below them; the BLE
transport (`BLELink`) with proofs; the run loop and the TCP streams of the POSIX port, and its store, with proofs.

Every property that the prover can be asked for has its theorem (section 5 says which it cannot be). The number of slots, sessions and codes is a parameter everywhere.

Modelling that could follow: the least recently used element of the Pair Resume cache, with
its time stamps, shown to implement the cache of `Sessions`; two transports in one server for
more than the pairings (run `both`) and Pair Setup (run `setup`): the broadcast key, which goes with the pairings, and the
events.
