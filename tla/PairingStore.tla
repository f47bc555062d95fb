---- MODULE PairingStore ----
(***************************************************************************)
(* The Pairings domain of the persistent key-value store, and the           *)
(* operations HAPPairingPairings.c, HAPPairing.c and HAPAccessoryServer.c   *)
(* perform on it.  A key of the domain is a slot; a session remembers the   *)
(* pairing of its controller by slot, not by identifier.                    *)
(***************************************************************************)
EXTENDS Integers, FiniteSets

CONSTANTS
    MaxPairings,   \* server->maxPairings: number of slots
    Controllers,   \* pairing identifiers
    PublicKeys,    \* long-term public keys of controllers
    NoPairing      \* content of a free slot

ASSUME MaxPairingsAssumption == MaxPairings \in Nat \ {0}

Slots == 0 .. MaxPairings - 1

Pairing == [identifier : Controllers, publicKey : PublicKeys, admin : BOOLEAN]

ASSUME NoPairingAssumption == NoPairing \notin Pairing

\* All possible contents of the Pairings domain.
Stores == [Slots -> Pairing \cup {NoPairing}]

EmptyStore == [k \in Slots |-> NoPairing]

\* HAPAccessoryServerIsPaired: some pairing is stored.
IsPaired(store) == \E k \in Slots : store[k] # NoPairing

\* Mutant: the search stops at the first free slot.
SlotsBeforeGap(store, c) ==
    {k \in Slots : store[k] # NoPairing /\ store[k].identifier = c
                   /\ \A j \in 0 .. k : store[j] # NoPairing}

\* HAPPairingFind: the slots that hold a pairing with this identifier.
SlotsOf(store, c) == {k \in Slots : store[k] # NoPairing /\ store[k].identifier = c}

FreeSlots(store) == {k \in Slots : store[k] = NoPairing}

\* k is the first free slot, in key order.
IsFirstFree(store, k) == k \in FreeSlots(store) /\ \A j \in FreeSlots(store) : k <= j

\* The pairing in slot k exists and has the admin permission.
IsAdmin(store, k) == store[k] # NoPairing /\ store[k].admin

HasAdmin(store) == \E k \in Slots : IsAdmin(store, k)

\* HAPAccessoryServerCleanupPairings: without an admin no pairing survives.
CleanedUp(store) == IF HasAdmin(store) THEN store ELSE EmptyStore

-----------------------------------------------------------------------------

\* No two slots hold pairings with the same identifier.
DistinctIdentifiers(store) ==
    \A j, k \in Slots :
        /\ store[j] # NoPairing
        /\ store[k] # NoPairing
        /\ store[j].identifier = store[k].identifier
        => j = k

====
