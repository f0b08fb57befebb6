----------------------------- MODULE MCUserFiles -----------------------------
(***************************************************************************)
(* Instances of UserFiles for TLC: whose requests they are and which       *)
(* faults may happen.                                                      *)
(***************************************************************************)
EXTENDS UserFiles, TLC

CONSTANTS f1, f2, v1, v2, a, b, r1, r2, r3, r4

\* r1 is another user's, if there are two.
TwoUsers == [r \in Requests |-> IF r = r1 THEN v1 ELSE v2]

\* Files and names may be swapped, and so may the requests of one user.
Swaps == Permutations(Files) \cup Permutations(Names)
         \cup Permutations(Requests \ {r1})

\* Every fault named may happen once.
Budget(kinds) == [k \in FaultKinds |-> IF k \in kinds THEN 1 ELSE 0]
AllFaults     == Budget(FaultKinds)

=============================================================================
