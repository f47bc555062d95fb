SPECIFICATION Spec
CONSTANTS
  MaxPairings = 2
  Controllers = {c1, c2}
  PublicKeys = {k1}
  NoPairing = NoPairing
  IPSessions = {i1, i2}
  BLESessions = {}
  NoSession = NoSession
  NoController = NoController
  CacheElements = {e1}
  NoEntry = NoEntry
  StoreFaults = {"none"}
SYMMETRY Symmetry
INVARIANTS SecuredSessionsMatchPairings
