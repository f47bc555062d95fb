---- MODULE SetupGate ----
(***************************************************************************)
(* What Pair Setup promises: a controller is paired only after it has       *)
(* proved the setup code to an unpaired accessory, and after MaxAttempts    *)
(* wrong codes in a row that were counted no code is looked at any more.    *)
(* A wrong code whose count the store does not take changes nothing here.   *)
(***************************************************************************)
EXTENDS Integers

CONSTANT MaxAttempts

VARIABLES
    paired,
    attempts,       \* wrong codes counted since the last right one
    authenticated   \* a controller has proved the code and is not yet paired

Init == ~paired /\ attempts = 0 /\ ~authenticated

WrongCode ==
    /\ attempts < MaxAttempts
    /\ attempts' = attempts + 1
    /\ UNCHANGED <<paired, authenticated>>

\* The controller may still fail to authenticate, or may not go on.
RightCode ==
    /\ attempts < MaxAttempts
    /\ ~authenticated
    /\ ~paired
    /\ attempts' = 0
    /\ authenticated' \in BOOLEAN
    /\ UNCHANGED paired

Pair ==
    /\ authenticated
    /\ ~paired
    /\ paired' = TRUE
    /\ authenticated' = FALSE
    /\ UNCHANGED attempts

Abandon ==
    /\ authenticated
    /\ authenticated' = FALSE
    /\ UNCHANGED <<paired, attempts>>

Unpair ==
    /\ paired
    /\ paired' = FALSE
    /\ UNCHANGED <<attempts, authenticated>>

Next == WrongCode \/ RightCode \/ Pair \/ Abandon \/ Unpair

Spec == Init /\ [][Next]_<<paired, attempts, authenticated>>
====
