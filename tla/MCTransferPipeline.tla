-------------------------- MODULE MCTransferPipeline --------------------------
(***************************************************************************)
(* Instances of TransferPipeline for TLC: which uploads come, of which     *)
(* files under which names, and which faults may happen.                   *)
(***************************************************************************)
EXTENDS TransferPipeline

CONSTANTS h1, h2, n1, n2, u1, u2, u3, v1, v2, d1

\* One upload of each kind, of one file, the second under another name; or
\* the last of another file with the name of the first.
EachKind  == [u \in Uploads |-> CASE u = u1 -> "plain" [] u = u2 -> "multi"
                                  [] OTHER -> "fast"]
OneFile   == [u \in Uploads |-> h1]
OtherName == [u \in Uploads |-> IF u = u2 THEN n2 ELSE n1]
TwoUsers  == [u \in Uploads |-> IF u = u2 THEN v2 ELSE v1]

PlainPlainMulti == [u \in Uploads |-> IF u = u3 THEN "multi" ELSE "plain"]
OtherFile       == [u \in Uploads |-> IF u = u3 THEN h2 ELSE h1]
OneName         == [u \in Uploads |-> n1]

WantFirst == [d \in Downloads |-> h1]

\* Every fault named may happen once.
Budget(kinds) == [k \in FaultKinds |-> IF k \in kinds THEN 1 ELSE 0]
NoFault       == Budget({})
AllFaults     == Budget(FaultKinds)

=============================================================================
