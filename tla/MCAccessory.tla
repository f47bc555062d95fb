---- MODULE MCAccessory ----
EXTENDS Accessory, TLC

\* Identifiers, keys and sessions are interchangeable.
Symmetry ==
    Permutations(Controllers) \cup Permutations(PublicKeys)
        \cup Permutations(IPSessions) \cup Permutations(CacheElements)

====
