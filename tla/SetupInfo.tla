---- MODULE SetupInfo ----
(***************************************************************************)
(* HAPAccessorySetupInfo.c: the setup code that is shown on a display or    *)
(* offered over NFC, its lock during a pairing attempt, and its timers.     *)
(*                                                                         *)
(* Handlers are operators on the accessorySetup record.  Where a random     *)
(* code may be generated, an operator returns the set of possible results.  *)
(* The SRP salt and verifier follow from the code and are left out.         *)
(***************************************************************************)
EXTENDS Integers

CONSTANTS
    Codes,          \* setup codes
    StaticCode,     \* the provisioned one, used when there is no display
    NoCode,
    Platforms,      \* the kinds of accessory: what each offers to show the code
    HasSetupID      \* a setup ID is provisioned

ASSUME SetupInfoAssumption ==
    /\ StaticCode \in Codes
    /\ NoCode \notin Codes
    /\ Platforms \subseteq SUBSET {"display", "nfc", "legacyDisplay", "legacyNFC"}
    /\ HasSetupID \in BOOLEAN

\* interfaces is what the accessory's platform offers; lock and keep are
\* lockSetupInfo and keepSetupInfo; refreshTimer and nfcTimer tell whether
\* dynamicRefreshTimer and nfcPairingModeTimer are registered.
AccessorySetup == [interfaces : Platforms, code : Codes \cup {NoCode},
                   lock : BOOLEAN, keep : BOOLEAN,
                   refreshTimer : BOOLEAN, nfcTimer : BOOLEAN]

NoSetupInfo(interfaces) ==
    [interfaces |-> interfaces, code |-> NoCode, lock |-> FALSE, keep |-> FALSE,
     refreshTimer |-> FALSE, nfcTimer |-> FALSE]

HasDisplay(a) == "display" \in a.interfaces

\* A random code is generated rather than the static one loaded.
Dynamic(a) == a.interfaces \cap {"display", "legacyDisplay"} # {}

\* setupInfoIsAvailable || setupCodeIsAvailable
Available(a) == a.code # NoCode

\* SynchronizeDisplayAndNFC asserts that no pairable payload is derived on a
\* paired accessory.
SynchronizeFails(a, paired) ==
    /\ paired
    /\ HasSetupID
    /\ Available(a)
    /\ \/ a.interfaces \cap {"display", "legacyDisplay", "legacyNFC"} # {}
       \/ "nfc" \in a.interfaces /\ a.nfcTimer

\* ClearSetupInfo.
Cleared(a) == IF Available(a) THEN [NoSetupInfo(a.interfaces) EXCEPT !.nfcTimer = a.nfcTimer]
              ELSE a

\* Mutant: the refresh timer keeps running when the code is locked.
LockedWithTimer(a) == [a EXCEPT !.lock = TRUE]

\* A code that is shown already is locked for a pairing attempt.
Locked(a) == [a EXCEPT !.lock = TRUE, !.refreshTimer = FALSE]

\* PrepareSetupInfo.
Prepared(a, lock) ==
    IF Available(a)
    THEN {IF lock THEN Locked(a) ELSE a}
    ELSE {[a EXCEPT !.code = c, !.lock = lock, !.keep = FALSE,
                    !.refreshTimer = Dynamic(a) /\ ~lock]
             : c \in IF Dynamic(a) THEN Codes ELSE {StaticCode}}

\* Codes for a display are generated whenever the accessory is not paired.
Resumed(a, paired) ==
    IF HasDisplay(a) /\ ~paired THEN Prepared(a, FALSE) ELSE {a}

\* Mutant: the next code is generated on a paired accessory too.
StoppedAnyway(a, keep, paired) ==
    Resumed(IF keep THEN [a EXCEPT !.keep = TRUE] ELSE Cleared(a), FALSE)

\* HAPAccessorySetupInfoHandlePairingStop.
Stopped(a, keep, paired) ==
    Resumed(IF keep THEN [a EXCEPT !.keep = TRUE] ELSE Cleared(a), paired)

\* HAPAccessorySetupInfoGetSetupInfo: a code that was kept is only used for
\* Split Pair Setup.
GetSetupInfo(a, restorePrevious) ==
    IF ~restorePrevious /\ a.keep THEN Prepared(Cleared(a), TRUE) ELSE {a}

\* DynamicSetupInfoExpired.
Expired(a) ==
    LET b == Cleared([a EXCEPT !.refreshTimer = FALSE])
    IN IF HasDisplay(a) THEN Prepared(b, FALSE) ELSE {b}

\* HAPAccessorySetupInfoRefreshSetupPayload.
Refreshed(a) == IF a.refreshTimer THEN Prepared(Cleared(a), FALSE) ELSE {a}

\* HAPAccessorySetupInfoEnterNFCPairingMode on an unpaired accessory.
EnteredNFC(a) == Prepared([a EXCEPT !.nfcTimer = TRUE], FALSE)

\* Mutant: the code is cleared although a pairing attempt uses it.
ExitedNFCUnlocked(a) ==
    LET b == [a EXCEPT !.nfcTimer = FALSE]
    IN IF ~b.refreshTimer THEN Cleared(b) ELSE b

\* NFCPairingModeExpired, HAPAccessorySetupInfoExitNFCPairingMode: the code is
\* cleared unless something else than NFC needs it.
ExitedNFC(a) ==
    LET b == [a EXCEPT !.nfcTimer = FALSE]
    IN IF ~b.lock /\ ~b.refreshTimer THEN Cleared(b) ELSE b

====
