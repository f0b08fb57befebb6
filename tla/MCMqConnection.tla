---------------------------- MODULE MCMqConnection ----------------------------
(***************************************************************************)
(* Instances of MqConnection for TLC: how many uploads, and which faults   *)
(* may happen.                                                             *)
(***************************************************************************)
EXTENDS MqConnection

CONSTANTS r1, r2

\* Every fault named may happen once.
Budget(kinds) == [k \in FaultKinds |-> IF k \in kinds THEN 1 ELSE 0]
AllFaults     == Budget(FaultKinds)
OneCut        == Budget({"cut"})

===============================================================================
