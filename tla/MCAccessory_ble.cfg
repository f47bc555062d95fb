SPECIFICATION FairSpec
CONSTANTS
  MaxPairings = 3
  Controllers = {c1, c2, c3}
  PublicKeys = {k1, k2}
  NoPairing = NoPairing
  IPSessions = {}
  BLESessions = {b1}
  NoSession = NoSession
  NoController = NoController
  CacheElements = {e1, e2}
  NoEntry = NoEntry
  StoreFaults = {"none", "get", "set", "remove", "purge", "crash"}
INVARIANTS TypeOK UniqueIdentifiers ApplicationInformed CacheMatchesPairings SecuredSessionsMatchPairings
PROPERTY ApplicationLearns
