---------------------------- MODULE UploadPromise ----------------------------
(***************************************************************************)
(* What an upload promises to the rest of the system, whatever protocol    *)
(* brings the bytes in: the rows and the transfer job of a file appear in  *)
(* an order that lets each reader rely on what the one before it wrote.    *)
(* A user who sees a file can find its row, and whoever reads a row or a   *)
(* job finds the whole file on disk.                                       *)
(***************************************************************************)
CONSTANTS Files, Users

VARIABLES
    whole,    \* the files whole on disk
    files,    \* the files with a row
    owners,   \* who owns what
    jobs,     \* the files given to the transfer service
    void      \* a store has failed, and nothing is promised any more

vars == <<whole, files, owners, jobs, void>>

Init == whole = {} /\ files = {} /\ owners = {} /\ jobs = {} /\ void \in BOOLEAN

\* A merge makes the file whole; a later merge of the same file starts over.
Assemble(f)   == whole' = whole \cup {f} /\ UNCHANGED <<files, owners, jobs>>
Reassemble(f) == whole' = whole \ {f} /\ UNCHANGED <<files, owners, jobs>>

AddFile(f) ==
    /\ f \in whole
    /\ files' = files \cup {f}
    /\ UNCHANGED <<whole, owners, jobs>>

AddOwner(n, f) ==
    /\ f \in whole \cap files
    /\ owners' = owners \cup {<<n, f>>}
    /\ UNCHANGED <<whole, files, jobs>>

AddJob(f) ==
    /\ f \in whole \cap files
    /\ \E n \in Users : <<n, f>> \in owners
    /\ jobs' = jobs \cup {f}
    /\ UNCHANGED <<whole, files, owners>>

Next ==
    \E f \in Files :
      \/ Assemble(f) \/ Reassemble(f) \/ AddFile(f) \/ AddJob(f)
      \/ \E n \in Users : AddOwner(n, f)

\* Until a store fails; it may then do anything.
Spec == Init /\ [][void' \/ (void' = void /\ Next)]_vars

=============================================================================
