---- MODULE PairingRegistry ----
(***************************************************************************)
(* What the accessory promises about its pairings, without slots, sessions  *)
(* or messages: a registry of at most MaxPairings controllers, each with a  *)
(* public key and perhaps the admin permission, that empties itself when    *)
(* the last admin goes.  Only a loss of power can leave controllers without *)
(* an admin, and only until the accessory runs again.                       *)
(***************************************************************************)
EXTENDS Integers, FiniteSets

CONSTANTS MaxPairings, Controllers, PublicKeys, NoPairing

VARIABLES
    registry,   \* the entry of each controller, or NoPairing
    running     \* the accessory is up

Entry == [publicKey : PublicKeys, admin : BOOLEAN]

Nobody == [c \in Controllers |-> NoPairing]

Members(reg) == {c \in Controllers : reg[c] # NoPairing}

Admins(reg) == {c \in Members(reg) : reg[c].admin}

\* Without an admin nobody stays.
Settled(reg) == IF Admins(reg) = {} THEN Nobody ELSE reg

\* reg is stored; if power fails first, what it should settle to comes later.
Settle(reg) ==
    \/ registry' = Settled(reg) /\ running' = running
    \/ registry' = reg /\ Admins(reg) = {} /\ running' = FALSE

\* The first controller comes in as an admin.
SetUp ==
    /\ running /\ registry = Nobody
    /\ \E c \in Controllers, key \in PublicKeys :
        registry' = [registry EXCEPT ![c] = [publicKey |-> key, admin |-> TRUE]]
    /\ UNCHANGED running

\* An admin adds a controller while there is room.
Add ==
    /\ running /\ Admins(registry) # {}
    /\ \E c \in Controllers \ Members(registry), entry \in Entry :
        /\ Cardinality(Members(registry)) < MaxPairings
        /\ registry' = [registry EXCEPT ![c] = entry]
    /\ UNCHANGED running

\* An admin gives a controller permissions, or takes them.
SetPermission ==
    /\ running /\ Admins(registry) # {}
    /\ \E c \in Members(registry), admin \in BOOLEAN :
        Settle([registry EXCEPT ![c].admin = admin])

\* An admin removes a controller.
Remove ==
    /\ running /\ Admins(registry) # {}
    /\ \E c \in Members(registry) : Settle([registry EXCEPT ![c] = NoPairing])

Stop ==
    /\ running' = FALSE
    /\ UNCHANGED registry

Run ==
    /\ ~running /\ running' = TRUE
    /\ registry' = Settled(registry)

Init == registry = Nobody /\ running = FALSE

Next == SetUp \/ Add \/ SetPermission \/ Remove \/ Stop \/ Run

Spec == Init /\ [][Next]_<<registry, running>>

====
