--------------------------- MODULE UserFiles_proof ---------------------------
(***************************************************************************)
(* Proofs about UserFiles: its types, that the names in a user's list are  *)
(* the user's own, that the recycle bin is left by recovery only, and that *)
(* a user who does one thing at a time is told the truth.                  *)
(***************************************************************************)
EXTENDS UserFiles, TLAPS

(***************************************************************************)
(* A request is fixed once it has started: what is left of it is where it  *)
(* is and what was told.                                                   *)
(***************************************************************************)
Same(r) == /\ req'[r].op = req[r].op /\ req'[r].file = req[r].file
           /\ req'[r].name = req[r].name /\ req'[r].listed = req[r].listed

\* The request that starts says something about itself alone.
Starts(r) == StartPlain(r) \/ StartMulti(r) \/ StartFast(r) \/ ListFiles(r)
             \/ ListDeleted(r)

\* The steps that write into tbl_user_file.
Writes(r) == RegisterUserFile(r) \/ Edit(r) \/ EditAgain(r)

USE DEF Request, NotYet, Uploads, Edits

LEMMA FaultType ==
  ASSUME NEW k \in FaultKinds, TypeOK, Fault(k)
  PROVE  faults' \in [FaultKinds -> Nat]
BY DEF Fault, TypeOK

LEMMA KindsOfFault ==
  "rpc" \in FaultKinds /\ "sql" \in FaultKinds /\ "retry" \in FaultKinds
    /\ "timeout" \in FaultKinds
BY DEF FaultKinds

LEMMA DbFaultType ==
  ASSUME NEW o \in DbOutcomes, TypeOK, DbFault(o)
  PROVE  faults' \in [FaultKinds -> Nat]
BY FaultType, KindsOfFault DEF DbFault, DbOutcomes, TypeOK

LEMMA ListedNames ==
  ASSUME TypeOK, NEW r \in Requests, NEW status, NEW f \in Listed(UserOf[r], status)
  PROVE  f \in Files /\ userTbl[UserOf[r]][f].name \in Names
BY UserFilesAssumption DEF Listed, TypeOK

\* A request that starts names a file and a name, and the tables stay.
LEMMA StartTypes ==
  ASSUME TypeOK, NEW r \in Requests, Starts(r)
  PROVE  TypeOK'
<1> USE UserFilesAssumption
<1>1. UNCHANGED <<fileTbl, userTbl>>
  BY DEF Starts, StartPlain, StartMulti, StartFast, ListFiles, ListDeleted
<1>2. faults' \in [FaultKinds -> Nat]
  BY FaultType, KindsOfFault
     DEF Starts, StartPlain, StartMulti, StartFast, ListFiles, ListDeleted,
         IsUserFileUploaded, TypeOK
<1>3. \E f \in Files, n \in Names, old \in Names \cup {NoRow},
         op \in Uploads \cup Edits,
         at \in {"regfile", "reguser", "call", "over"},
         told \in {"nothing", "error", "exists"} :
           Start(r, op, f, n, old, at, told)
  <2>1. CASE StartPlain(r)  BY <2>1 DEF StartPlain
  <2>2. CASE StartMulti(r)  BY <2>2 DEF StartMulti
  <2>3. CASE StartFast(r)   BY <2>3 DEF StartFast
  <2>4. CASE ListFiles(r)   BY <2>4, ListedNames DEF ListFiles
  <2>5. CASE ListDeleted(r) BY <2>5, ListedNames DEF ListDeleted
  <2> QED BY <2>1, <2>2, <2>3, <2>4, <2>5 DEF Starts
<1>4. req' \in [Requests -> Request]
  BY <1>3 DEF Start, TypeOK
<1>5. \A s \in Requests : req'[s].at # "idle" =>
        req'[s].file \in Files /\ req'[s].name \in Names
  BY <1>3 DEF Start, TypeOK
<1>6. overlapped' \subseteq Users
  BY <1>3 DEF Start, TypeOK
<1> QED BY <1>1, <1>2, <1>4, <1>5, <1>6 DEF TypeOK

\* A handler that goes on leaves what its request asks for.
Kept == /\ \A s \in Requests : Same(s)
        /\ \A s \in Requests : req'[s].at # "idle" => req[s].at # "idle"
        /\ req' \in [Requests -> Request]

LEMMA GotoKeeps ==
  ASSUME TypeOK, NEW r \in Requests, req[r].at # "idle",
         NEW at \in {"reguser", "lastuser"}, Goto(r, at)
  PROVE  Kept
<1>1. req'[r] = [req[r] EXCEPT !.at = at]
  BY DEF Goto, TypeOK
<1>2. \A s \in Requests \ {r} : req'[s] = req[s]
  BY DEF Goto, TypeOK
<1>3. req'[r] \in Request
  <2>1. req[r] \in Request
    BY DEF TypeOK
  <2>2. CASE at = "reguser"
    BY <1>1, <2>1, <2>2
  <2>3. CASE at = "lastuser"
    BY <1>1, <2>1, <2>3
  <2> QED BY <2>2, <2>3
<1>4. req' \in [Requests -> Request]
  BY <1>2, <1>3 DEF Goto, TypeOK
<1>5. Same(r)
  BY <1>1 DEF Same, TypeOK
<1> QED BY <1>2, <1>4, <1>5 DEF Kept, Same

LEMMA AnswerKeeps ==
  ASSUME TypeOK, NEW r \in Requests, req[r].at # "idle",
         NEW told \in {"ok", "error"}, Answer(r, told)
  PROVE  Kept
<1>1. req'[r] = [req[r] EXCEPT !.at = "over", !.told = IF @ = "nothing" THEN told ELSE @]
  BY DEF Answer, TypeOK
<1>2. \A s \in Requests \ {r} : req'[s] = req[s]
  BY DEF Answer, TypeOK
<1>3. req'[r] \in Request
  <2>1. req[r] \in Request
    BY DEF TypeOK
  <2> QED BY <1>1, <2>1 DEF Request
<1>4. req' \in [Requests -> Request]
  BY <1>2, <1>3 DEF Answer, TypeOK
<1>5. Same(r)
  BY <1>1 DEF Same, TypeOK
<1> QED BY <1>2, <1>4, <1>5 DEF Kept, Same

LEMMA HandlerKeepsRequest ==
  ASSUME TypeOK, NEW r \in Requests,
         RegisterFile(r) \/ Writes(r) \/ TimeOut(r)
  PROVE  Kept /\ req[r].at # "idle"
<1>1. CASE RegisterFile(r)
  BY <1>1, GotoKeeps, AnswerKeeps DEF RegisterFile
<1>2. CASE RegisterUserFile(r)
  BY <1>2, AnswerKeeps DEF RegisterUserFile
<1>3. CASE Edit(r)
  BY <1>3, AnswerKeeps DEF Edit
<1>4. CASE EditAgain(r)
  BY <1>4 DEF EditAgain, Kept, Same, TypeOK
<1>5. CASE TimeOut(r)
  <2>1. req[r] \in Request /\ req[r].at = "call"
    BY <1>5 DEF TimeOut, TypeOK
  <2>2. /\ req'[r] = [req[r] EXCEPT !.at = "adrift", !.told = "error"]
        /\ \A s \in Requests \ {r} : req'[s] = req[s]
    BY <1>5 DEF TimeOut, TypeOK
  <2>3. req'[r] \in Request /\ Same(r)
    BY <2>1, <2>2 DEF Request, Same
  <2>4. req' \in [Requests -> Request]
    BY <1>5, <2>2, <2>3 DEF TimeOut, TypeOK
  <2> HIDE DEF Request
  <2> QED BY <2>1, <2>2, <2>3, <2>4 DEF Kept, Same
<1> QED BY <1>1, <1>2, <1>3, <1>4, <1>5 DEF Writes

\* What a write leaves of the user's row: it is there, with a name the
\* request has or the row had.
LEMMA EditedRows ==
  ASSUME TypeOK, NEW r \in Requests, req[r].at # "idle"
  PROVE  Edited(r) \in [Users -> [Files -> [name : Names, status : 0..1]
                                             \cup {NoRow}]]
<1> USE UserFilesAssumption DEF TypeOK, Row
<1>1. /\ UserOf[r] \in Users /\ req[r].file \in Files /\ req[r].name \in Names
      /\ Row(r) # NoRow => Row(r) \in [name : Names, status : 0..1]
  OBVIOUS
<1>2. ASSUME NEW x \in [name : Names, status : 0..1]
      PROVE  [userTbl EXCEPT ![UserOf[r]][req[r].file] = x]
               \in [Users -> [Files -> [name : Names, status : 0..1] \cup {NoRow}]]
  BY <1>1
<1>3. ASSUME NEW status \in 0..1
      PROVE  Marked(r, status)
               \in [Users -> [Files -> [name : Names, status : 0..1] \cup {NoRow}]]
  BY <1>1, <1>2 DEF Marked
<1>4. Renamed(r) \in [Users -> [Files -> [name : Names, status : 0..1] \cup {NoRow}]]
  BY <1>1, <1>2 DEF Renamed
<1> QED BY <1>3, <1>4 DEF Edited

LEMMA WriteTypes ==
  ASSUME TypeOK, NEW r \in Requests, Writes(r)
  PROVE  userTbl' \in [Users -> [Files -> [name : Names, status : 0..1]
                                            \cup {NoRow}]]
<1> USE UserFilesAssumption
<1>1. CASE RegisterUserFile(r)
  BY <1>1 DEF RegisterUserFile, TypeOK
<1>2. CASE Edit(r)
  BY <1>2, EditedRows DEF Edit, TypeOK
<1>3. CASE EditAgain(r)
  BY <1>3, EditedRows DEF EditAgain
<1> QED BY <1>1, <1>2, <1>3 DEF Writes

\* Every step keeps the types.
LEMMA TypesStay == ASSUME TypeOK, [Next]_vars PROVE TypeOK'
<1> USE UserFilesAssumption
<1>1. ASSUME NEW r \in Requests, Starts(r) PROVE TypeOK'
  BY <1>1, StartTypes
<1>2. ASSUME NEW r \in Requests, RegisterFile(r) PROVE TypeOK'
  <2>1. faults' \in [FaultKinds -> Nat]
    BY <1>2, DbFaultType DEF RegisterFile
  <2>2. /\ fileTbl' \in [Files -> Names \cup {NoRow}]
        /\ UNCHANGED <<userTbl, overlapped>>
    BY <1>2 DEF RegisterFile, TypeOK
  <2> QED BY <1>2, <2>1, <2>2, HandlerKeepsRequest DEF Kept, Same, TypeOK
<1>3. ASSUME NEW r \in Requests, Writes(r) PROVE TypeOK'
  <2>1. faults' \in [FaultKinds -> Nat]
    BY <1>3, DbFaultType, FaultType, KindsOfFault
       DEF Writes, RegisterUserFile, Edit, EditAgain
  <2>2. UNCHANGED <<fileTbl, overlapped>>
    BY <1>3 DEF Writes, RegisterUserFile, Edit, EditAgain
  <2> QED BY <1>3, <2>1, <2>2, WriteTypes, HandlerKeepsRequest DEF Kept, Same, TypeOK
<1>4. ASSUME NEW r \in Requests, TimeOut(r) PROVE TypeOK'
  <2>1. faults' \in [FaultKinds -> Nat] /\ UNCHANGED <<fileTbl, userTbl, overlapped>>
    BY <1>4, FaultType, KindsOfFault DEF TimeOut
  <2> QED BY <1>4, <2>1, HandlerKeepsRequest DEF Kept, Same, TypeOK
<1>5. CASE UNCHANGED vars
  BY <1>5 DEF vars, TypeOK
<1> QED BY <1>1, <1>2, <1>3, <1>4, <1>5 DEF Next, Starts, Writes

\* Type correctness of the tables and the requests.
THEOREM UserFilesTypes == Spec => []TypeOK
<1>1. Init => TypeOK
  BY DEF Init, TypeOK
<1> QED BY <1>1, TypesStay, PTL DEF Spec

(***************************************************************************)
(* Names.                                                                  *)
(***************************************************************************)
Gave(u, f, n) == \E r \in Requests :
                   /\ UserOf[r] = u /\ req[r].file = f
                   /\ req[r].op \in Uploads \cup {"rename"}
                   /\ req[r].name = n

\* An upload request inserts rows, an edit request changes them.
StepsFit == \A r \in Requests :
    /\ req[r].at \in {"regfile", "reguser", "lastuser"} => req[r].op \in Uploads
    /\ req[r].at \in {"call", "adrift"} => req[r].op \in Edits
    /\ req[r].at = "idle" => req[r].op = "none"

NamesInv == StepsFit /\ NamesAreOwn

\* A name once given stays given: a started request is not changed.
LEMMA GivenStays ==
  ASSUME TypeOK, StepsFit, [Next]_vars,
         NEW u \in Users, NEW f \in Files, NEW n \in Names, Gave(u, f, n)
  PROVE  Gave(u, f, n)'
<1>1. PICK s \in Requests : /\ UserOf[s] = u /\ req[s].file = f
                            /\ req[s].op \in Uploads \cup {"rename"}
                            /\ req[s].name = n
  BY DEF Gave
<1>2. req[s].at # "idle"
  BY <1>1 DEF StepsFit
<1>3. Same(s)
  <2>1. ASSUME NEW r \in Requests, Starts(r) PROVE Same(s)
    <3>1. r # s
      BY <1>2, <2>1 DEF Starts, StartPlain, StartMulti, StartFast, ListFiles,
         ListDeleted, MayStart
    <3>2. req'[s] = req[s]
      BY <2>1, <3>1 DEF Starts, StartPlain, StartMulti, StartFast, ListFiles,
         ListDeleted, Start, TypeOK
    <3> QED BY <3>2 DEF Same
  <2>2. ASSUME NEW r \in Requests, RegisterFile(r) \/ Writes(r) \/ TimeOut(r)
        PROVE  Same(s)
    BY <2>2, HandlerKeepsRequest DEF Kept
  <2>3. CASE UNCHANGED vars
    BY <2>3 DEF vars, Same
  <2> QED BY <2>1, <2>2, <2>3 DEF Next, Starts, Writes
<1> QED BY <1>1, <1>3 DEF Gave, Same

\* The steps of a request keep to its kind.
LEMMA StepsKeepFit ==
  ASSUME TypeOK, StepsFit, [Next]_vars
  PROVE  StepsFit'
<1>1. ASSUME NEW r \in Requests, Starts(r) PROVE StepsFit'
  <2>1. \A s \in Requests \ {r} : req'[s] = req[s]
    BY <1>1 DEF Starts, StartPlain, StartMulti, StartFast, ListFiles, ListDeleted,
       Start, TypeOK
  <2>2. /\ req'[r].at \in {"regfile", "reguser", "lastuser"} => req'[r].op \in Uploads
        /\ req'[r].at \in {"call", "adrift"} => req'[r].op \in Edits
        /\ req'[r].at # "idle"
    <3> USE DEF Start, TypeOK, Uploads, Edits
    <3>1. CASE StartPlain(r)   BY <3>1 DEF StartPlain
    <3>2. CASE StartMulti(r)   BY <3>2 DEF StartMulti
    <3>3. CASE StartFast(r)    BY <3>3 DEF StartFast
    <3>4. CASE ListFiles(r)    BY <3>4 DEF ListFiles
    <3>5. CASE ListDeleted(r)  BY <3>5 DEF ListDeleted
    <3> QED BY <1>1, <3>1, <3>2, <3>3, <3>4, <3>5 DEF Starts
  <2> QED BY <2>1, <2>2 DEF StepsFit
<1>2. ASSUME NEW r \in Requests, RegisterFile(r) \/ Writes(r) \/ TimeOut(r)
      PROVE  StepsFit'
  <2>1. Kept /\ req[r].at # "idle"
    BY <1>2, HandlerKeepsRequest
  <2>2. \A s \in Requests \ {r} : req'[s] = req[s]
    BY <1>2 DEF RegisterFile, Writes, RegisterUserFile, Edit, EditAgain, TimeOut,
       Goto, Answer, TypeOK
  <2>3. /\ req'[r].at \in {"regfile", "reguser", "lastuser"} => req[r].op \in Uploads
        /\ req'[r].at \in {"call", "adrift"} => req[r].op \in Edits
    <3>1. CASE RegisterFile(r)
      BY <3>1 DEF RegisterFile, StepsFit, Goto, Answer, TypeOK
    <3>2. CASE RegisterUserFile(r)
      BY <3>2 DEF RegisterUserFile, StepsFit, Answer, TypeOK
    <3>3. CASE Edit(r)
      BY <3>3 DEF Edit, Answer, TypeOK
    <3>4. CASE EditAgain(r)
      BY <3>4 DEF EditAgain, StepsFit
    <3>5. CASE TimeOut(r)
      BY <3>5 DEF TimeOut, StepsFit, TypeOK
    <3> QED BY <1>2, <3>1, <3>2, <3>3, <3>4, <3>5 DEF Writes
  <2>4. req'[r].at # "idle"
    BY <1>2 DEF RegisterFile, Writes, RegisterUserFile, Edit, EditAgain, TimeOut,
       Goto, Answer, TypeOK
  <2> QED BY <2>1, <2>2, <2>3, <2>4 DEF StepsFit, Kept, Same
<1>3. CASE UNCHANGED vars
  BY <1>3 DEF vars, StepsFit
<1> QED BY <1>1, <1>2, <1>3 DEF Next, Starts, Writes

\* A write puts a name into a row that the request gives, or leaves the name.
LEMMA WrittenName ==
  ASSUME TypeOK, StepsFit, NEW r \in Requests, Writes(r),
         NEW u \in Users, NEW f \in Files, userTbl'[u][f] # NoRow
  PROVE  \/ userTbl[u][f] # NoRow /\ userTbl'[u][f].name = userTbl[u][f].name
         \/ Gave(u, f, userTbl'[u][f].name)
<1> USE UserFilesAssumption
<1>1. ASSUME userTbl' = Edited(r), req[r].at \in {"call", "adrift"}
      PROVE  \/ userTbl[u][f] # NoRow /\ userTbl'[u][f].name = userTbl[u][f].name
             \/ Gave(u, f, userTbl'[u][f].name)
  <2> DEFINE old == userTbl[u][f]
  <2>1. CASE userTbl'[u][f] = old
    BY <2>1
  <2>2. CASE userTbl'[u][f] # old
    <3>1. UserOf[r] = u /\ req[r].file = f
      BY <1>1, <2>2 DEF Edited, Renamed, Marked, Row, TypeOK
    <3>2. old # NoRow
      BY <1>1, <2>2, <3>1 DEF Edited, Renamed, Marked, Row, TypeOK
    <3>3. CASE req[r].op = "rename"
      <4>1. userTbl' = [userTbl EXCEPT ![u][f].name = req[r].name]
        BY <1>1, <2>2, <3>1, <3>3 DEF Edited, Renamed
      <4>2. userTbl'[u][f] = [old EXCEPT !.name = req[r].name]
        BY <4>1 DEF TypeOK
      <4>3. userTbl'[u][f].name = req[r].name
        BY <3>2, <4>2 DEF TypeOK
      <4> QED BY <3>1, <3>3, <4>3 DEF Gave
    <3>4. CASE req[r].op # "rename"
      <4>1. \E status \in 0..1 : userTbl' = [userTbl EXCEPT ![u][f].status = status]
        BY <1>1, <2>2, <3>1, <3>4 DEF Edited, Marked
      <4>2. PICK status \in 0..1 : userTbl' = [userTbl EXCEPT ![u][f].status = status]
        BY <4>1
      <4>3. userTbl \in [Users -> [Files -> [name : Names, status : 0..1] \cup {NoRow}]]
        BY DEF TypeOK
      <4>4. userTbl'[u][f] = [old EXCEPT !.status = status]
        BY <4>2, <4>3
      <4>5. old \in [name : Names, status : 0..1]
        BY <3>2, <4>3
      <4> QED BY <3>2, <4>4, <4>5
    <3> QED BY <3>3, <3>4
  <2> QED BY <2>1, <2>2
<1>2. CASE RegisterUserFile(r)
  BY <1>2 DEF RegisterUserFile, Row, Gave, StepsFit, TypeOK
<1>3. CASE Edit(r)
  BY <1>1, <1>3 DEF Edit
<1>4. CASE EditAgain(r)
  BY <1>1, <1>4 DEF EditAgain
<1> QED BY <1>2, <1>3, <1>4 DEF Writes

\* The name of a file in a user's list is one this user gave it.
THEOREM NamesSafe == Spec => []NamesAreOwn
<1>1. Init => NamesInv
  BY DEF Init, NamesInv, StepsFit, NamesAreOwn
<1>2. TypeOK /\ NamesInv /\ [Next]_vars => NamesInv'
  <2> SUFFICES ASSUME TypeOK, NamesInv, [Next]_vars PROVE NamesInv'
    OBVIOUS
  <2>1. StepsFit'
    BY StepsKeepFit DEF NamesInv
  <2>2. TypeOK'
    BY TypesStay
  <2>3. ASSUME NEW u \in Users, NEW f \in Files, userTbl'[u][f] # NoRow
        PROVE  Gave(u, f, userTbl'[u][f].name)
    <3>1. userTbl[u][f] # NoRow => Gave(u, f, userTbl[u][f].name)
      BY DEF NamesInv, NamesAreOwn, Gave
    <3>2. ASSUME NEW r \in Requests, Writes(r)
          PROVE  Gave(u, f, userTbl'[u][f].name)
      <4>1. \/ userTbl[u][f] # NoRow /\ userTbl'[u][f].name = userTbl[u][f].name
            \/ Gave(u, f, userTbl'[u][f].name)
        BY <2>3, <3>2, WrittenName DEF NamesInv
      <4>2. CASE userTbl[u][f] # NoRow /\ userTbl'[u][f].name = userTbl[u][f].name
        BY <3>1, <4>2
      <4> QED BY <4>1, <4>2
    <3>3. CASE userTbl' = userTbl
      BY <2>3, <3>1, <3>3
    <3>4. userTbl' = userTbl \/ \E r \in Requests : Writes(r)
      BY DEF Next, Writes, StartPlain, StartMulti, StartFast,
         RegisterFile, ListFiles, ListDeleted, TimeOut, vars
    <3> QED BY <3>2, <3>3, <3>4
  <2>4. NamesAreOwn'
    <3> SUFFICES ASSUME NEW u \in Users, NEW f \in Files, userTbl'[u][f] # NoRow
                 PROVE  \E r \in Requests :
                          /\ UserOf[r] = u /\ req'[r].file = f
                          /\ req'[r].op \in Uploads \cup {"rename"}
                          /\ req'[r].name = userTbl'[u][f].name
      BY DEF NamesAreOwn
    <3>1. userTbl'[u][f].name \in Names
      BY <2>2, UserFilesAssumption DEF TypeOK
    <3>2. PICK n \in Names : n = userTbl'[u][f].name
      BY <3>1
    <3>3. Gave(u, f, n)
      BY <2>3, <3>2
    <3>4. Gave(u, f, n)'
      BY <3>3, GivenStays DEF NamesInv
    <3> QED BY <3>2, <3>4 DEF Gave
  <2> QED BY <2>1, <2>4 DEF NamesInv
<1>3. NamesInv => NamesAreOwn
  BY DEF NamesInv
<1> QED BY <1>1, <1>2, <1>3, UserFilesTypes, PTL DEF Spec

(***************************************************************************)
(* The recycle bin.                                                        *)
(***************************************************************************)
Restored(u, f) ==
    /\ userTbl'[u][f] = [name |-> userTbl[u][f].name, status |-> 0]
    /\ \E r \in Requests :
         /\ UserOf[r] = u /\ req[r].file = f
         /\ req[r].op = "recover" /\ req[r].listed = userTbl[u][f].name

\* Of the edits, only a recovery changes a row that is in the bin.
LEMMA EditedBin ==
  ASSUME TypeOK, StepsFit, NEW r \in Requests, userTbl' = Edited(r),
         req[r].at \in {"call", "adrift"},
         NEW u \in Users, NEW f \in Files, userTbl[u][f] # NoRow,
         userTbl[u][f].status = 1, userTbl'[u][f] # userTbl[u][f]
  PROVE  Restored(u, f)
<1> USE UserFilesAssumption
<1>1. req[r].op \in Edits
  BY DEF StepsFit
<1>2. UserOf[r] = u /\ req[r].file = f
  BY DEF Edited, Renamed, Marked, Row, TypeOK
<1>3. req[r].op # "rename"
  BY <1>2 DEF Edited, Renamed, Row
<1>4. userTbl[u][f] \in [name : Names, status : 0..1]
  BY DEF TypeOK
<1>5. req[r].op # "delete"
  <2> SUFFICES ASSUME req[r].op = "delete" PROVE FALSE
    OBVIOUS
  <2>1. userTbl' = [userTbl EXCEPT ![u][f].status = 1]
    BY <1>2 DEF Edited, Marked
  <2>2. userTbl'[u][f] = [userTbl[u][f] EXCEPT !.status = 1]
    BY <2>1 DEF TypeOK
  <2> QED BY <1>4, <2>2
<1>6. req[r].op = "recover" /\ userTbl[u][f].name = req[r].listed
      /\ userTbl' = [userTbl EXCEPT ![u][f].status = 0]
  BY <1>1, <1>2, <1>3, <1>5 DEF Edited, Marked, Row
<1>7. userTbl'[u][f] = [userTbl[u][f] EXCEPT !.status = 0]
  BY <1>6 DEF TypeOK
<1>8. userTbl'[u][f] = [name |-> userTbl[u][f].name, status |-> 0]
  BY <1>4, <1>7
<1> QED BY <1>2, <1>6, <1>8 DEF Restored

\* What is in the recycle bin stays until it is recovered.
THEOREM BinSafe == Spec => BinLeftByRecover
<1>1. Init => StepsFit
  BY DEF Init, StepsFit
<1>2. TypeOK /\ StepsFit /\ [Next]_vars => StepsFit'
  BY StepsKeepFit
<1>3. TypeOK /\ StepsFit /\ [Next]_vars =>
        \A u \in Users, f \in Files :
          LET old == userTbl[u][f]
              new == userTbl'[u][f]
          IN old # NoRow /\ old.status = 1 /\ new # old =>
               /\ new = [name |-> old.name, status |-> 0]
               /\ \E r \in Requests :
                    /\ UserOf[r] = u /\ req[r].file = f
                    /\ req[r].op = "recover" /\ req[r].listed = old.name
  <2> SUFFICES ASSUME TypeOK, StepsFit, [Next]_vars, NEW u \in Users, NEW f \in Files,
                      userTbl[u][f] # NoRow, userTbl[u][f].status = 1,
                      userTbl'[u][f] # userTbl[u][f]
               PROVE  Restored(u, f)
    BY DEF Restored
  <2>1. PICK r \in Requests : Writes(r)
    BY DEF Next, Writes, StartPlain, StartMulti, StartFast,
       RegisterFile, ListFiles, ListDeleted, TimeOut, vars
  <2>2. ~ RegisterUserFile(r)
    <3> SUFFICES ASSUME RegisterUserFile(r) PROVE FALSE
      OBVIOUS
    <3>1. /\ Row(r) = NoRow
          /\ userTbl' = [userTbl EXCEPT ![UserOf[r]][req[r].file] =
                           [name |-> req[r].name, status |-> 0]]
      BY DEF RegisterUserFile
    <3>2. userTbl \in [Users -> [Files -> [name : Names, status : 0..1] \cup {NoRow}]]
      BY DEF TypeOK
    <3> QED BY <3>1, <3>2 DEF Row
  <2>3. userTbl' = Edited(r) /\ req[r].at \in {"call", "adrift"}
    BY <2>1, <2>2 DEF Writes, Edit, EditAgain
  <2> QED BY <2>3, EditedBin
<1> QED BY <1>1, <1>2, <1>3, UserFilesTypes, PTL DEF Spec, BinLeftByRecover

(***************************************************************************)
(* Answers.  A user no two of whose requests ever ran at once has one that *)
(* is busy at most, so nothing changes the row between the listing of the  *)
(* page and the SQL of the edit, but for the edit's own first try.         *)
(***************************************************************************)
OneBusy == \A r \in Requests, s \in Requests :
    Busy(r) /\ Busy(s) /\ UserOf[r] = UserOf[s] /\ r # s => UserOf[r] \in overlapped

\* The SQL of the edit finds the row, or has changed it already.
Reaches(r) ==
    LET row == Row(r) IN
      /\ row # NoRow
      /\ IF req[r].op = "rename"
           THEN row.status = 0 /\ row.name \in {req[r].listed, req[r].name}
           ELSE row.name = req[r].listed

CallReaches(r) ==
    /\ req[r].at = "call" /\ UserOf[r] \notin overlapped => Reaches(r)
    /\ req[r].at = "adrift" => req[r].told = "error"

CallsReach == \A r \in Requests : CallReaches(r)

AnswersInv == StepsFit /\ OneBusy /\ CallsReach

\* What a handler leaves alone.
LEMMA HandlerLeaves ==
  ASSUME TypeOK, NEW r \in Requests, RegisterFile(r) \/ Writes(r) \/ TimeOut(r)
  PROVE  /\ Busy(r)
         /\ overlapped' = overlapped
         /\ \A s \in Requests \ {r} : req'[s] = req[s]
<1> QED
  BY DEF RegisterFile, Writes, RegisterUserFile, Edit, EditAgain, TimeOut, Goto, Answer,
     Busy, TypeOK

\* What a request that starts leaves alone.
LEMMA StartLeaves ==
  ASSUME TypeOK, NEW r \in Requests, Starts(r)
  PROVE  /\ req[r].at = "idle" /\ UNCHANGED userTbl
         /\ \A s \in Requests \ {r} : req'[s] = req[s]
         /\ overlapped' = IF \E s \in Requests : UserOf[s] = UserOf[r] /\ Busy(s)
                            THEN overlapped \cup {UserOf[r]} ELSE overlapped
<1> USE DEF Start, MayStart
<1>1. req[r].at = "idle" /\ UNCHANGED userTbl
  BY DEF Starts, StartPlain, StartMulti, StartFast, ListFiles, ListDeleted
<1>2. \A s \in Requests \ {r} : req'[s] = req[s]
  BY DEF Starts, StartPlain, StartMulti, StartFast, ListFiles, ListDeleted, TypeOK
<1>3. overlapped' = IF \E s \in Requests : UserOf[s] = UserOf[r] /\ Busy(s)
                      THEN overlapped \cup {UserOf[r]} ELSE overlapped
  BY DEF Starts, StartPlain, StartMulti, StartFast, ListFiles, ListDeleted
<1> QED BY <1>1, <1>2, <1>3

LEMMA OneBusyStays ==
  ASSUME TypeOK, OneBusy, [Next]_vars
  PROVE  OneBusy'
<1>1. ASSUME NEW r \in Requests, Starts(r) PROVE OneBusy'
  BY <1>1, StartLeaves DEF OneBusy, Busy
<1>2. ASSUME NEW r \in Requests, RegisterFile(r) \/ Writes(r) \/ TimeOut(r)
      PROVE  OneBusy'
  BY <1>2, HandlerLeaves DEF OneBusy, Busy
<1>3. CASE UNCHANGED vars
  BY <1>3 DEF vars, OneBusy, Busy
<1> QED BY <1>1, <1>2, <1>3 DEF Next, Starts, Writes

\* The rows of other users than the writer's stay.
LEMMA OwnRows ==
  ASSUME TypeOK, NEW r \in Requests, Writes(r), NEW u \in Users, u # UserOf[r]
  PROVE  userTbl'[u] = userTbl[u]
<1> QED
  BY UserFilesAssumption DEF Writes, RegisterUserFile, Edit, EditAgain, Edited, Renamed,
     Marked, TypeOK

\* The page of an edit has listed the row.
LEMMA ListedReaches ==
  ASSUME TypeOK, NEW r \in Requests, Starts(r), req'[r].at = "call"
  PROVE  Reaches(r)'
<1> USE DEF Start, TypeOK
<1>1. CASE ListFiles(r)
  <2>1. PICK f \in Listed(UserOf[r], 0) :
          LET name == userTbl[UserOf[r]][f].name IN
           \/ \E n \in Names : Start(r, "rename", f, n, name, "call", "nothing")
           \/ Start(r, "delete", f, name, name, "call", "nothing")
    BY <1>1 DEF ListFiles
  <2>2. /\ req'[r].file = f /\ req'[r].listed = userTbl[UserOf[r]][f].name
    BY <2>1
  <2>3. userTbl[UserOf[r]][f] # NoRow /\ userTbl[UserOf[r]][f].status = 0
    BY DEF Listed
  <2> QED BY <2>2, <2>3, StartLeaves DEF Reaches, Row
<1>2. CASE ListDeleted(r)
  <2>1. PICK f \in Listed(UserOf[r], 1) :
          Start(r, "recover", f, userTbl[UserOf[r]][f].name, userTbl[UserOf[r]][f].name,
                "call", "nothing")
    BY <1>2 DEF ListDeleted
  <2>2. /\ req'[r].op = "recover" /\ req'[r].file = f
        /\ req'[r].listed = userTbl[UserOf[r]][f].name
    BY <2>1
  <2>3. userTbl[UserOf[r]][f] # NoRow
    BY DEF Listed
  <2> QED BY <2>2, <2>3, StartLeaves DEF Reaches, Row
<1>3. ~ (StartPlain(r) \/ StartMulti(r) \/ StartFast(r))
  BY DEF StartPlain, StartMulti, StartFast
<1> QED BY <1>1, <1>2, <1>3 DEF Starts

\* What the SQL of an edit that reaches its row makes of the row.
LEMMA EditedRow ==
  ASSUME TypeOK, StepsFit, NEW r \in Requests, req[r].at = "call", Reaches(r),
         userTbl' = Edited(r)
  PROVE  LET new == userTbl'[UserOf[r]][req[r].file] IN
           CASE req[r].op = "rename"  -> new = [name |-> req[r].name, status |-> 0]
             [] req[r].op = "delete"  -> new = [name |-> req[r].listed, status |-> 1]
             [] OTHER                 -> new = [name |-> req[r].listed, status |-> 0]
<1> USE UserFilesAssumption DEF Row
<1> DEFINE u == UserOf[r]
           f == req[r].file
           old == userTbl[u][f]
<1>1. u \in Users /\ f \in Files /\ req[r].op \in Edits
  BY DEF StepsFit, TypeOK
<1>2. userTbl \in [Users -> [Files -> [name : Names, status : 0..1] \cup {NoRow}]]
  BY DEF TypeOK
<1>3. old \in [name : Names, status : 0..1]
  BY <1>1, <1>2 DEF Reaches
<1>4. CASE req[r].op = "rename"
  <2>1. old.status = 0 /\ old.name \in {req[r].listed, req[r].name}
    BY <1>4 DEF Reaches
  <2>2. CASE old.name = req[r].listed
    <3>1. userTbl' = [userTbl EXCEPT ![u][f].name = req[r].name]
      BY <1>4, <2>1, <2>2 DEF Edited, Renamed, Reaches
    <3>2. userTbl'[u][f] = [old EXCEPT !.name = req[r].name]
      BY <1>1, <1>2, <3>1
    <3> QED BY <1>3, <1>4, <2>1, <3>2
  <2>3. CASE old.name # req[r].listed
    <3>1. userTbl' = userTbl
      BY <1>4, <2>3 DEF Edited, Renamed
    <3> QED BY <1>3, <1>4, <2>1, <2>3, <3>1
  <2> QED BY <2>2, <2>3
<1>5. ASSUME NEW status \in 0..1, userTbl' = Marked(r, status), req[r].op # "rename"
      PROVE  userTbl'[u][f] = [name |-> req[r].listed, status |-> status]
  <2>1. old # NoRow /\ old.name = req[r].listed
    BY <1>5 DEF Reaches
  <2>2. userTbl' = [userTbl EXCEPT ![u][f].status = status]
    BY <1>5, <2>1 DEF Marked
  <2>3. userTbl'[u][f] = [old EXCEPT !.status = status]
    BY <1>1, <1>2, <2>2
  <2> QED BY <1>3, <2>1, <2>3
<1>6. CASE req[r].op = "delete"
  BY <1>5, <1>6 DEF Edited
<1>7. CASE req[r].op = "recover"
  BY <1>5, <1>7 DEF Edited
<1> QED BY <1>1, <1>4, <1>6, <1>7

\* Of the handlers, EditAgain alone leaves its request at the call.
LEMMA StillCalling ==
  ASSUME TypeOK, NEW r \in Requests, RegisterFile(r) \/ Writes(r) \/ TimeOut(r)
  PROVE  /\ req'[r].at = "call" => EditAgain(r)
         /\ req'[r].at = "adrift" => req'[r].told = "error"
<1>1. CASE RegisterFile(r)
  BY <1>1 DEF RegisterFile, Goto, Answer, TypeOK
<1>2. CASE RegisterUserFile(r)
  BY <1>2 DEF RegisterUserFile, Answer, TypeOK
<1>3. CASE Edit(r)
  BY <1>3 DEF Edit, Answer, TypeOK
<1>4. CASE EditAgain(r)
  BY <1>4 DEF EditAgain
<1>5. CASE TimeOut(r)
  <2>1. req[r] \in Request
    BY DEF TypeOK
  <2>2. req'[r] = [req[r] EXCEPT !.at = "adrift", !.told = "error"]
    BY <1>5 DEF TimeOut, TypeOK
  <2>3. req'[r].at = "adrift" /\ req'[r].told = "error"
    BY <2>1, <2>2
  <2> QED BY <2>3
<1> QED BY <1>1, <1>2, <1>3, <1>4, <1>5 DEF Writes

\* A user of one request at a time keeps the row that an edit was asked for.
LEMMA CallsStay ==
  ASSUME TypeOK, AnswersInv, [Next]_vars
  PROVE  CallsReach'
<1> USE DEF AnswersInv
<1>1. ASSUME NEW r \in Requests, Starts(r), NEW s \in Requests
      PROVE  CallReaches(s)'
  <2>1. CASE s = r
    <3>1. req'[r].at # "adrift"
      BY <1>1 DEF Starts, StartPlain, StartMulti, StartFast, ListFiles, ListDeleted,
         Start, TypeOK
    <3> QED BY <1>1, <2>1, <3>1, ListedReaches DEF CallReaches
  <2>2. CASE s # r
    <3>1. req'[s] = req[s] /\ userTbl' = userTbl /\ overlapped \subseteq overlapped'
      BY <1>1, <2>2, StartLeaves
    <3>2. CallReaches(s)
      BY DEF CallsReach
    <3> QED BY <3>1, <3>2 DEF CallReaches, Reaches, Row
  <2> QED BY <2>1, <2>2
<1>2. ASSUME NEW r \in Requests, RegisterFile(r) \/ Writes(r) \/ TimeOut(r),
             NEW s \in Requests
      PROVE  CallReaches(s)'
  <2>1. /\ Busy(r) /\ overlapped' = overlapped
        /\ \A q \in Requests \ {r} : req'[q] = req[q]
    BY <1>2, HandlerLeaves
  <2>2. CallReaches(s)
    BY DEF CallsReach
  <2>3. CASE s # r
    <3>1. SUFFICES ASSUME req[s].at = "call", UserOf[s] \notin overlapped
                   PROVE  Reaches(s)'
      BY <2>1, <2>2, <2>3 DEF CallReaches
    <3>2. UserOf[s] # UserOf[r]
      BY <2>1, <2>3, <3>1 DEF OneBusy, Busy
    <3>3. userTbl'[UserOf[s]] = userTbl[UserOf[s]]
      BY <1>2, <3>2, OwnRows, UserFilesAssumption DEF RegisterFile, TimeOut
    <3> QED BY <2>1, <2>2, <2>3, <3>1, <3>3 DEF CallReaches, Reaches, Row
  <2>4. CASE s = r
    <3>1. SUFFICES ASSUME req'[r].at = "call", UserOf[r] \notin overlapped
                   PROVE  Reaches(r)'
      BY <1>2, <2>1, <2>4, StillCalling DEF CallReaches
    <3>2. EditAgain(r)
      BY <1>2, <3>1, StillCalling
    <3>3. req' = req /\ req[r].at = "call" /\ userTbl' = Edited(r)
      BY <3>2 DEF EditAgain
    <3>4. Reaches(r) /\ req[r].op \in Edits
      BY <2>2, <2>4, <3>1, <3>3 DEF CallReaches, StepsFit
    <3> DEFINE new == userTbl'[UserOf[r]][req[r].file]
    <3>5. CASE req[r].op = "rename"
      <4>1. new = [name |-> req[r].name, status |-> 0]
        BY <3>3, <3>4, <3>5, EditedRow
      <4> QED BY <3>3, <3>5, <4>1, UserFilesAssumption DEF Reaches, Row, TypeOK
    <3>6. CASE req[r].op # "rename"
      <4>1. new = [name |-> req[r].listed,
                   status |-> IF req[r].op = "delete" THEN 1 ELSE 0]
        BY <3>3, <3>4, <3>6, EditedRow
      <4>2. req[r].listed \in Names
        <5>1. Row(r) \in [name : Names, status : 0..1] /\ Row(r).name = req[r].listed
          BY <3>3, <3>4, <3>6, UserFilesAssumption DEF Reaches, Row, TypeOK
        <5> QED BY <5>1
      <4> QED BY <3>3, <3>6, <4>1, <4>2, UserFilesAssumption DEF Reaches, Row
    <3> QED BY <3>5, <3>6
  <2> QED BY <2>3, <2>4
<1>3. CASE UNCHANGED vars
  BY <1>3 DEF vars, CallsReach, CallReaches, Reaches, Row
<1> QED BY <1>1, <1>2, <1>3 DEF Next, Starts, Writes, CallsReach

\* A page is told ok by the last step of its request, whose call dbproxy has
\* carried out.
LEMMA OkIsDone ==
  ASSUME TypeOK, CallsReach, NEW r \in Requests, [Next]_vars, ToldOk(r),
         faults'["sql"] = faults["sql"]
  PROVE  /\ overlapped' = overlapped /\ Same(r)
         /\ \/ /\ req[r].at = "reguser"
               /\ userTbl' = IF Row(r) = NoRow
                               THEN [userTbl EXCEPT ![UserOf[r]][req[r].file] =
                                       [name |-> req[r].name, status |-> 0]]
                               ELSE userTbl
            \/ req[r].at = "call" /\ userTbl' = Edited(r)
<1>1. PICK s \in Requests : Starts(s) \/ RegisterFile(s) \/ Writes(s) \/ TimeOut(s)
  BY DEF Next, Starts, Writes, ToldOk, vars
<1>2. s = r
  BY <1>1, StartLeaves, HandlerLeaves DEF ToldOk
<1>3. ~ Starts(r)
  BY DEF Starts, StartPlain, StartMulti, StartFast, ListFiles, ListDeleted, Start, ToldOk,
     TypeOK
<1>4. ~ RegisterFile(r) /\ ~ EditAgain(r) /\ ~ TimeOut(r)
  BY DEF RegisterFile, EditAgain, TimeOut, Goto, Answer, ToldOk, TypeOK
<1>5. faults["sql"] \in Nat /\ (Fault("sql") => faults'["sql"] = faults["sql"] + 1)
  BY KindsOfFault DEF Fault, TypeOK
<1>6. ~ Fault("sql")
  BY <1>5
<1>7. CASE RegisterUserFile(r)
  <2>1. PICK o \in DbOutcomes :
          /\ DbFault(o)
          /\ userTbl' = IF RowWritten(o) /\ Row(r) = NoRow
                          THEN [userTbl EXCEPT ![UserOf[r]][req[r].file] =
                                  [name |-> req[r].name, status |-> 0]]
                          ELSE userTbl
          /\ Answer(r, IF \/ req[r].at = "lastuser" \/ RpcError(o)
                          \/ (o = "sqlfails" /\ req[r].op # "multi")
                         THEN "error" ELSE "ok")
    BY <1>7 DEF RegisterUserFile
  <2>2. req[r].at # "lastuser" /\ ~ RpcError(o)
    BY <2>1 DEF Answer, ToldOk, TypeOK
  <2>3. o = "done"
    BY <1>6, <2>1, <2>2 DEF DbFault, DbOutcomes, RpcError
  <2> QED BY <1>7, <2>1, <2>2, <2>3, HandlerKeepsRequest
          DEF RegisterUserFile, RowWritten, Writes, Kept
<1>8. CASE Edit(r)
  <2>1. PICK o \in DbOutcomes :
          /\ DbFault(o)
          /\ userTbl' = IF RowWritten(o) THEN Edited(r) ELSE userTbl
          /\ Answer(r, IF RpcError(o) THEN "error" ELSE "ok")
    BY <1>8 DEF Edit
  <2>2. ~ RpcError(o) /\ req[r].told # "error"
    BY <2>1 DEF Answer, ToldOk, TypeOK
  <2>3. o = "done"
    BY <1>6, <2>1, <2>2 DEF DbFault, DbOutcomes, RpcError
  <2>4. req[r].at = "call"
    BY <1>8, <2>2 DEF Edit, CallsReach, CallReaches
  <2> QED BY <1>8, <2>1, <2>3, <2>4, HandlerKeepsRequest
          DEF Edit, RowWritten, Writes, Kept
<1> QED BY <1>1, <1>2, <1>3, <1>4, <1>7, <1>8 DEF Writes

\* A user who does one thing after the other is told the truth: what is
\* answered ok is done, unless the call answers with Suc = FALSE, or it is the
\* upload of a file in the user's recycle bin.
THEOREM AnswersSafe == Spec => AnswersAreTrue
<1>1. Init => AnswersInv
  BY DEF Init, AnswersInv, StepsFit, OneBusy, Busy, CallsReach, CallReaches
<1>2. TypeOK /\ AnswersInv /\ [Next]_vars => AnswersInv'
  BY StepsKeepFit, OneBusyStays, CallsStay DEF AnswersInv
<1>3. TypeOK /\ AnswersInv /\ [Next]_vars =>
        (faults'["sql"] = faults["sql"] =>
           \A r \in Requests :
             ToldOk(r) /\ ~ OfBinned(r) /\ UserOf[r] \notin overlapped' => Effect(r)')
  <2> SUFFICES ASSUME TypeOK, AnswersInv, [Next]_vars, faults'["sql"] = faults["sql"],
                      NEW r \in Requests, ToldOk(r), ~ OfBinned(r),
                      UserOf[r] \notin overlapped'
               PROVE  Effect(r)'
    OBVIOUS
  <2> DEFINE new == userTbl'[UserOf[r]][req[r].file]
  <2>1. overlapped' = overlapped /\ Same(r)
    BY OkIsDone DEF AnswersInv
  <2>2. Row(r)' = new
    BY <2>1 DEF Row, Same
  <2>3. CASE /\ req[r].at = "reguser"
             /\ userTbl' = IF Row(r) = NoRow
                             THEN [userTbl EXCEPT ![UserOf[r]][req[r].file] =
                                     [name |-> req[r].name, status |-> 0]]
                             ELSE userTbl
    <3>1. req[r].op \in Uploads /\ req[r].file \in Files /\ req[r].name \in Names
      BY <2>3 DEF AnswersInv, StepsFit, TypeOK
    <3>2. new # NoRow /\ new.status = 0
      <4>1. CASE Row(r) = NoRow
        <5>1. new = [name |-> req[r].name, status |-> 0]
          BY <2>3, <3>1, <4>1, UserFilesAssumption DEF TypeOK
        <5>2. [name |-> req[r].name, status |-> 0] \in [name : Names, status : 0..1]
          BY <3>1
        <5> QED BY <5>1, <5>2, UserFilesAssumption
      <4>2. CASE Row(r) # NoRow
        <5>1. new = Row(r)
          BY <2>3, <4>2 DEF Row
        <5>2. Row(r) \in [name : Names, status : 0..1]
          BY <3>1, <4>2, UserFilesAssumption DEF Row, TypeOK
        <5>3. Row(r).status \in 0..1 /\ Row(r).status # 1
          BY <3>1, <4>2, <5>2 DEF OfBinned
        <5> QED BY <4>2, <5>1, <5>3
      <4> QED BY <4>1, <4>2
    <3> QED BY <2>1, <2>2, <3>1, <3>2 DEF Effect, Same
  <2>4. CASE req[r].at = "call" /\ userTbl' = Edited(r)
    <3>1. Reaches(r) /\ req[r].op \in Edits
      BY <2>1, <2>4 DEF AnswersInv, CallsReach, CallReaches, StepsFit
    <3>2. CASE req[r].op = "rename"
      <4>1. new = [name |-> req[r].name, status |-> 0]
        BY <2>4, <3>1, <3>2, EditedRow DEF AnswersInv
      <4> QED BY <2>1, <2>2, <3>2, <4>1 DEF Effect, Same
    <3>3. CASE req[r].op # "rename"
      <4>1. new = [name |-> req[r].listed,
                   status |-> IF req[r].op = "delete" THEN 1 ELSE 0]
        BY <2>4, <3>1, <3>3, EditedRow DEF AnswersInv
      <4>2. Row(r) \in [name : Names, status : 0..1] /\ Row(r).name = req[r].listed
        BY <2>4, <3>1, <3>3, UserFilesAssumption DEF Reaches, Row, TypeOK
      <4>3. new # NoRow /\ new.status = IF req[r].op = "delete" THEN 1 ELSE 0
        BY <4>1, <4>2, UserFilesAssumption
      <4> QED BY <2>1, <2>2, <3>1, <3>3, <4>3 DEF Effect, Same
    <3> QED BY <3>2, <3>3
  <2> QED BY <2>3, <2>4, OkIsDone DEF AnswersInv
<1> QED BY <1>1, <1>2, <1>3, UserFilesTypes, PTL DEF Spec, AnswersAreTrue

=============================================================================
