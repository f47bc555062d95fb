SPECIFICATION Spec
CONSTANTS
  Codes = {k0, k1}
  StaticCode = k0
  NoCode = NoCode
  Platforms = {{"display"}}
  HasSetupID = TRUE
  IPSessions = {i1, i2}
  BLESessions = {}
  NoSession = NoSession
  MaxAttempts = 1
  StoreFaults = {}
SYMMETRY Symmetry
PROPERTY RightCodeIsNotCounted
