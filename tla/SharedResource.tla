--------------------------- MODULE SharedResource ---------------------------
(***************************************************************************)
(* What a shared, reference counted service promises: it starts with its   *)
(* first user and stops only when no reference is left.  `lost' counts the *)
(* references whose owner went away without releasing them.                *)
(***************************************************************************)
EXTENDS Naturals, FiniteSets

CONSTANT Users

VARIABLES users, lost, state

vars == <<users, lost, state>>

Init == users = {} /\ lost = 0 /\ state = "down"

\* The first user starts the service, which may fail to start.
Acquire(u) ==
    /\ u \notin users
    /\ users' = users \union {u}
    /\ state' = IF state = "down" THEN "up" ELSE state
    /\ UNCHANGED lost

FailToStart == state = "down" /\ state' = "broken" /\ UNCHANGED <<users, lost>>

Release(u) ==
    /\ u \in users
    /\ users' = users \ {u}
    /\ state' = IF users' = {} /\ lost = 0 THEN "down" ELSE state
    /\ UNCHANGED lost

GoAway(u) ==
    /\ u \in users
    /\ users' = users \ {u} /\ lost' = lost + 1
    /\ UNCHANGED state

Next == FailToStart \/ \E u \in Users : Acquire(u) \/ Release(u) \/ GoAway(u)

Spec == Init /\ [][Next]_vars
=============================================================================
