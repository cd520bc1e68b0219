--------------------------------- MODULE Mutex ---------------------------------
(***************************************************************************)
(* What rootlock.h promises the privileged programs: at most one of them   *)
(* is inside its operation at a time.                                      *)
(***************************************************************************)
CONSTANT Programs

VARIABLE inside   \* the programs between acquire() and the lock's destruction

Init == inside = {}

Enter(p) == inside = {} /\ inside' = {p}
Leave(p) == inside = {p} /\ inside' = {}

Next == \E p \in Programs : Enter(p) \/ Leave(p)

Spec == Init /\ [][Next]_inside
===============================================================================
