---- MODULE MCIPServer ----
EXTENDS IPServer, TLC

\* Descriptors are interchangeable.
Symmetry == Permutations(Sessions)

====
