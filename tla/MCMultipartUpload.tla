-------------------------- MODULE MCMultipartUpload --------------------------
(***************************************************************************)
(* Instances of MultipartUpload for TLC: who uploads what, how many chunks *)
(* a file has, and which faults may happen.                                *)
(***************************************************************************)
EXTENDS MultipartUpload

CONSTANTS f1, f2, u1, u2, c1, c2, c3

\* Two or three runs of the page by one user for one file, or by two users.
SameFile    == [c \in Clients |-> f1]
SameUser    == [c \in Clients |-> u1]
TwoUsers    == [c \in Clients |-> IF c = c1 THEN u1 ELSE u2]
TwoFiles    == [c \in Clients |-> IF c = c3 THEN f2 ELSE f1]

\* Sizes for ChunkSize = 2: two chunks; and a file of no byte beside them,
\* which has no chunk.
TwoChunks    == [f \in Files |-> 3]
TwoAndNone   == [f \in Files |-> IF f = f1 THEN 3 ELSE 0]

\* Every fault named may happen once.
Budget(kinds) == [k \in FaultKinds |-> IF k \in kinds THEN 1 ELSE 0]
CutAndExpiry  == Budget({"cut", "expire"})
AllFaults     == Budget(FaultKinds)

=============================================================================
