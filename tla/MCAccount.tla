------------------------------- MODULE MCAccount -------------------------------
(***************************************************************************)
(* Instances of Account for TLC: which faults may happen, and what may be  *)
(* swapped.                                                                *)
(***************************************************************************)
EXTENDS Account, TLC

CONSTANTS u1, p1, p2, b1, b2, r1, r2, r3, r4

\* Passwords, browsers and requests are all alike.
Swaps == Permutations(Passwords) \cup Permutations(Browsers)
         \cup Permutations(Requests)

\* Every fault named may happen once.
Budget(kinds) == [k \in FaultKinds |-> IF k \in kinds THEN 1 ELSE 0]
AllFaults     == Budget(FaultKinds)

===============================================================================
