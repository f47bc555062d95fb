---- MODULE MCAccessorySetup ----
EXTENDS AccessorySetup, TLC

\* IP sessions are interchangeable; so are random codes other than the static one.
Symmetry == Permutations(IPSessions) \cup Permutations(Codes \ {StaticCode})

====
