SPECIFICATION FairSpec
CONSTANTS
  Codes = {k0, k1}
  StaticCode = k0
  NoCode = NoCode
  Platforms = {{"display", "nfc"}, {"legacyNFC"}}
  HasSetupID = TRUE
  IPSessions = {i1, i2}
  BLESessions = {b1}
  NoSession = NoSession
  MaxAttempts = 2
  StoreFaults = {"attempts", "pairing", "deviceID"}
INVARIANTS ProcedureIsCurrent CodeIsShownInTime
PROPERTIES CodeIsStable PairSetupIsExclusive ImplementsGate CodeIsGoneWhenPaired M4IsAnswered
