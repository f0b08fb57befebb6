------------------------ MODULE MultipartUpload_proof ------------------------
(***************************************************************************)
(* Theorems about MultipartUpload, for any number of clients, files and    *)
(* chunks.                                                                 *)
(***************************************************************************)
EXTENDS MultipartUpload, TLAPS

USE ConstantsAssumption DEF UploadIDs

-----------------------------------------------------------------------------
(***************************************************************************)
(* Type correctness.  What a client reads with its uploadID has a type     *)
(* only if it has one, so the type invariant is inductive together with    *)
(* HasId and PartsHaveId.                                                  *)
(***************************************************************************)
WithId == {"list", "setcount", "setttl", "sethash", "have"} \cup CompleteSteps

HasId == \A c \in Clients : pc[c] \in WithId => upid[c] # NoId

PartsHaveId ==
    \A c \in Clients : \A i \in AllChunks :
      part[c][i].at # "none" => upid[c] # NoId

TypeInv == TypeOK /\ HasId /\ PartsHaveId

\* The number of chunks of a file is a natural number.
LEMMA ChunkCountType == \A f \in Files : ChunkCount(f) \in Nat
BY DEF ChunkCount

LEMMA InitType == Init => TypeInv
BY DEF Init, TypeInv, TypeOK, HasId, PartsHaveId, WithId, NoSession, InitSteps, CompleteSteps,
       Over, PartSteps, PartOver, FaultKinds

\* A fault that happens is counted.
LEMMA FaultType ==
    ASSUME faults \in [FaultKinds -> Nat], NEW k \in FaultKinds, Fault(k)
    PROVE  faults' \in [FaultKinds -> Nat]
BY DEF Fault

LEMMA KindsOfFault ==
    {"cut", "disk", "cat", "crash", "expire", "redis", "rpc", "sql", "mq", "leave",
     "early"} \subseteq FaultKinds
BY DEF FaultKinds

\* The requests of the Init handler keep types.
LEMMA InitHandlerType ==
    ASSUME TypeInv, NEW c \in Clients, InitHandler(c) \/ InitHandlerFails(c)
    PROVE  TypeInv'
<1> USE DEF TypeInv, TypeOK, HasId, PartsHaveId, WithId, InitSteps, CompleteSteps, Over, Goto,
            redis, disk, mysql
<1>1. CASE CheckUserFile(c)
  <2>1. \E step \in {"exists", "lookup"} : pc' = [pc EXCEPT ![c] = step]
    BY <1>1 DEF CheckUserFile
  <2>2. faults' \in [FaultKinds -> Nat]
    BY <1>1, FaultType, KindsOfFault DEF CheckUserFile
  <2>3. UNCHANGED <<redis, disk, mysql, published, upid, found, part, left, off, ferr>>
    BY <1>1 DEF CheckUserFile
  <2> QED BY <2>1, <2>2, <2>3
<1>2. CASE LookupSession(c)
  <2>1. CASE hashUp[FileOf[c]] # NoId
    <3>1. pc' = [pc EXCEPT ![c] = "get"] /\ UNCHANGED upid
      BY <1>2, <2>1 DEF LookupSession
    <3>2. UNCHANGED <<redis, disk, mysql, published, found, part, left, off, ferr, faults>>
      BY <1>2 DEF LookupSession
    <3> QED BY <3>1, <3>2
  <2>2. CASE hashUp[FileOf[c]] = NoId
    <3>1. pc' = [pc EXCEPT ![c] = "setcount"] /\ upid' = [upid EXCEPT ![c] = c]
      BY <1>2, <2>2 DEF LookupSession
    <3>2. upid' \in [Clients -> UploadIDs \cup {NoId}]  BY <3>1
    <3>3. HasId'  BY <3>1
    <3>4. UNCHANGED <<redis, disk, mysql, published, found, part, left, off, ferr, faults>>
      BY <1>2 DEF LookupSession
    <3> QED BY <3>1, <3>2, <3>3, <3>4
  <2> QED BY <2>1, <2>2
<1>3. CASE LookupSessionFails(c) BY <1>3, FaultType, KindsOfFault DEF LookupSessionFails
<1>4. CASE GetSession(c)
  <2>1. CASE hashUp[FileOf[c]] # NoId
    <3>1. /\ pc' = [pc EXCEPT ![c] = "list"]
          /\ upid' = [upid EXCEPT ![c] = hashUp[FileOf[c]]]
      BY <1>4, <2>1 DEF GetSession
    <3>2. upid' \in [Clients -> UploadIDs \cup {NoId}] /\ HasId'
      BY <2>1, <3>1
    <3>3. UNCHANGED <<redis, disk, mysql, published, found, part, left, off, ferr, faults>>
      BY <1>4 DEF GetSession
    <3> QED BY <3>1, <3>2, <3>3
  <2>2. CASE hashUp[FileOf[c]] = NoId
    <3>1. pc' = [pc EXCEPT ![c] = "initfail"] /\ UNCHANGED upid
      BY <1>4, <2>2 DEF GetSession
    <3>2. UNCHANGED <<redis, disk, mysql, published, found, part, left, off, ferr, faults>>
      BY <1>4 DEF GetSession
    <3> QED BY <3>1, <3>2
  <2> QED BY <2>1, <2>2
<1>5. CASE ListChunks(c)
  <2>1. mp[upid[c]].done \in SUBSET AllChunks  BY <1>5 DEF ListChunks
  <2> QED  BY <1>5, <2>1 DEF ListChunks
<1>6. CASE GetOrListFails(c)     BY <1>6, FaultType, KindsOfFault DEF GetOrListFails
<1>7. CASE SetChunkCount(c)      BY <1>7, ChunkCountType DEF SetChunkCount
<1>8. CASE SetSessionTTL(c)      BY <1>8 DEF SetSessionTTL
<1>9. CASE SetHashKey(c)         BY <1>9 DEF SetHashKey
<1>10. CASE SessionWritesFail(c) BY <1>10, FaultType, KindsOfFault DEF SessionWritesFail
<1> QED BY <1>1, <1>2, <1>3, <1>4, <1>5, <1>6, <1>7, <1>8, <1>9, <1>10
        DEF InitHandler, InitHandlerFails

\* So does a chunk request that goes one step on.
PartType == [Clients -> [AllChunks -> [at : {"none"} \cup PartSteps \cup PartOver,
                                       off : 0..PieceCount]]]

LEMMA PartGotoType ==
    ASSUME part \in PartType, NEW c \in Clients, NEW i \in AllChunks,
           NEW step \in PartSteps \cup PartOver, PartGoto(c, i, step)
    PROVE  part' \in PartType
<1> DEFINE r == [part[c][i] EXCEPT !.at = step]
<1>1. r \in [at : {"none"} \cup PartSteps \cup PartOver, off : 0..PieceCount]
  BY DEF PartType
<1>2. part' = [part EXCEPT ![c] = [part[c] EXCEPT ![i] = r]]
  BY DEF PartGoto, PartType
<1> QED BY <1>1, <1>2 DEF PartType

LEMMA PartSetType ==
    ASSUME part \in PartType, NEW c \in Clients, NEW i \in AllChunks,
           NEW step \in PartSteps \cup PartOver, NEW n \in 0..PieceCount,
           part' = [part EXCEPT ![c][i] = [at |-> step, off |-> n]]
    PROVE  part' \in PartType
BY DEF PartType

LEMMA BodySetType ==
    ASSUME body \in [UploadIDs -> [AllChunks -> SUBSET Pieces]],
           NEW u \in UploadIDs \cup {NoId}, NEW i \in AllChunks,
           NEW b, u # NoId => b \subseteq Pieces,
           body' = [body EXCEPT ![u][i] = b]
    PROVE  body' \in [UploadIDs -> [AllChunks -> SUBSET Pieces]]
<1>1. CASE u = NoId  BY <1>1
<1>2. CASE u # NoId  BY <1>2
<1> QED BY <1>1, <1>2

LEMMA DirAddType ==
    ASSUME dir \in [UploadIDs -> SUBSET AllChunks],
           NEW u, NEW i \in AllChunks, dir' = [dir EXCEPT ![u] = @ \cup {i}]
    PROVE  dir' \in [UploadIDs -> SUBSET AllChunks]
OBVIOUS

\* The requests for a chunk keep types.
LEMMA PartHandlerType ==
    ASSUME TypeInv, NEW c \in Clients, NEW i \in AllChunks,
           StartPart(c, i) \/ PartHandler(c, i) \/ PartHandlerFails(c, i)
    PROVE  TypeInv'
<1> part \in PartType
  BY DEF TypeInv, TypeOK, PartType
<1>1. part' \in PartType
  <2> USE PartGotoType, PartSetType DEF PartSteps, PartOver
  <2>1. CASE StartPart(c, i)        BY <2>1 DEF StartPart
  <2>2. CASE CreateChunk(c, i)
    <3>1. part' = [part EXCEPT ![c][i] = [at |-> "write", off |-> 0]]
      BY <2>2 DEF CreateChunk
    <3>2. 0 \in 0..PieceCount  OBVIOUS
    <3> QED BY <3>1, <3>2
  <2>3. CASE CreateChunkFails(c, i) BY <2>3 DEF CreateChunkFails
  <2>4. CASE WritePiece(c, i)
    <3> DEFINE p == part[c][i].off + 1
               step == IF p = PieceCount THEN "verify" ELSE "write"
    <3>1. part' = [part EXCEPT ![c][i] = [at |-> step, off |-> p]]
      BY <2>4 DEF WritePiece
    <3>2. p \in 0..PieceCount
      <4>1. part[c][i] \in [at : {"none"} \cup PartSteps \cup PartOver,
                            off : 0..PieceCount]
        BY DEF PartType
      <4>2. part[c][i].off # PieceCount
        BY <2>4 DEF WritePiece
      <4> QED BY <4>1, <4>2
    <3>3. step \in PartSteps \cup PartOver  OBVIOUS
    <3> HIDE DEF p, step
    <3> QED BY <3>1, <3>2, <3>3
  <2>5. CASE CutBody(c, i)          BY <2>5 DEF CutBody
  <2>6. CASE VerifyChunk(c, i)      BY <2>6 DEF VerifyChunk
  <2>7. CASE MarkChunk(c, i)        BY <2>7 DEF MarkChunk
  <2>8. CASE MarkChunkFails(c, i)   BY <2>8 DEF MarkChunkFails
  <2> QED BY <2>1, <2>2, <2>3, <2>4, <2>5, <2>6, <2>7, <2>8
          DEF PartHandler, PartHandlerFails
<1>2. PartsHaveId /\ PartsHaveId'
  <2>1. PartsHaveId
    BY DEF TypeInv
  <2>2. UNCHANGED upid /\ \A d \in Clients : \A j \in AllChunks :
          d # c \/ j # i => part'[d][j] = part[d][j]
    BY DEF StartPart, PartHandler, PartHandlerFails, CreateChunk, CreateChunkFails,
           WritePiece, CutBody, VerifyChunk, MarkChunk, MarkChunkFails, PartGoto, PartType
  <2>3. part[c][i].at # "none" \/ upid[c] # NoId
    BY DEF StartPart, PartHandler, PartHandlerFails, CreateChunk, CreateChunkFails,
           WritePiece, CutBody, VerifyChunk, MarkChunk, MarkChunkFails, TypeInv, HasId, WithId
  <2> QED BY <2>1, <2>2, <2>3 DEF PartsHaveId
<1>3. TypeOK' /\ HasId'
  <2> USE <1>1 DEF TypeInv, TypeOK, HasId, PartType, redis, disk, mysql
  <2>1. CASE StartPart(c, i)        BY <2>1 DEF StartPart
  <2>2. CASE CreateChunk(c, i)
    <3>1. body' \in [UploadIDs -> [AllChunks -> SUBSET Pieces]]
      <4>1. body' = [body EXCEPT ![upid[c]][i] = {}]  BY <2>2 DEF CreateChunk
      <4>2. upid[c] \in UploadIDs \cup {NoId}  OBVIOUS
      <4>3. upid[c] # NoId => {} \subseteq Pieces  OBVIOUS
      <4> QED BY <4>1, <4>2, <4>3, BodySetType
    <3>2. dir' \in [UploadIDs -> SUBSET AllChunks]
      <4>1. dir' = [dir EXCEPT ![upid[c]] = @ \cup {i}]  BY <2>2 DEF CreateChunk
      <4>2. dir \in [UploadIDs -> SUBSET AllChunks]  OBVIOUS
      <4> HIDE DEF TypeInv, TypeOK
      <4> QED BY <4>1, <4>2, DirAddType
    <3>3. made' \subseteq UploadIDs
      BY <1>2, <2>2 DEF CreateChunk, PartsHaveId
    <3> QED BY <2>2, <3>1, <3>2, <3>3 DEF CreateChunk
  <2>3. CASE CreateChunkFails(c, i)
    <3>1. made' \subseteq UploadIDs
      BY <1>2, <2>3 DEF CreateChunkFails, PartsHaveId
    <3> QED BY <2>3, <3>1, FaultType, KindsOfFault DEF CreateChunkFails
  <2>4. CASE WritePiece(c, i)
    <3> DEFINE p == part[c][i].off + 1
               b == body[upid[c]][i] \cup {p}
    <3>1. body' = [body EXCEPT ![upid[c]][i] = b]
      BY <2>4 DEF WritePiece
    <3>2. p \in Pieces
      BY <2>4 DEF WritePiece, Pieces
    <3>3. upid[c] # NoId => b \subseteq Pieces
      BY <3>2
    <3>4. body' \in [UploadIDs -> [AllChunks -> SUBSET Pieces]]
      BY <3>1, <3>3, BodySetType
    <3> QED BY <2>4, <3>4 DEF WritePiece
  <2>5. CASE CutBody(c, i)          BY <2>5, FaultType, KindsOfFault DEF CutBody
  <2>6. CASE VerifyChunk(c, i)      BY <2>6 DEF VerifyChunk
  <2>7. CASE MarkChunk(c, i)        BY <2>7 DEF MarkChunk
  <2>8. CASE MarkChunkFails(c, i)   BY <2>8, FaultType, KindsOfFault DEF MarkChunkFails
  <2> QED BY <2>1, <2>2, <2>3, <2>4, <2>5, <2>6, <2>7, <2>8
          DEF PartHandler, PartHandlerFails
<1> QED BY <1>2, <1>3 DEF TypeInv

\* cat counts the pieces it reads of a chunk file and the units it writes.
LEMMA CopyReads ==
    ASSUME TypeInv, NEW c \in Clients, NEW i \in left[c], pc[c] = "cat", CopyPiece(c, i)
    PROVE  off' \in [Clients -> [out : Nat, in : 0..PieceCount]]
<1> DEFINE b == body[upid[c]][i]
<1>1. PICK o \in Nat, n \in 0..PieceCount : off[c] = [out |-> o, in |-> n]
  BY DEF TypeInv, TypeOK
<1>2. b \subseteq Pieces
  <2>1. upid[c] \in UploadIDs
    BY DEF TypeInv, TypeOK, HasId, WithId, CompleteSteps
  <2>2. i \in AllChunks
    BY DEF TypeInv, TypeOK
  <2> QED BY <2>1, <2>2 DEF TypeInv, TypeOK
<1>3. \E r \in [out : Nat, in : 0..PieceCount] : off' = [off EXCEPT ![c] = r]
  <2>1. CASE \E p \in b : p > off[c].in
    <3>1. off' = [off EXCEPT ![c] = [out |-> o + 1, in |-> n + 1]]
      BY <1>1, <2>1 DEF CopyPiece
    <3>2. o + 1 \in Nat /\ n + 1 \in 0..PieceCount
      BY <1>1, <1>2, <2>1 DEF Pieces
    <3>3. [out |-> o + 1, in |-> n + 1] \in [out : Nat, in : 0..PieceCount]
      BY <3>2
    <3> QED BY <3>1, <3>3, Zenon
  <2>2. CASE ~ \E p \in b : p > off[c].in
    <3>1. off' = [off EXCEPT ![c] = [out |-> o, in |-> 0]]
      BY <1>1, <2>2 DEF CopyPiece
    <3>2. [out |-> o, in |-> 0] \in [out : Nat, in : 0..PieceCount]
      OBVIOUS
    <3> QED BY <3>1, <3>2, Zenon
  <2> QED BY <2>1, <2>2
<1> QED BY <1>3 DEF TypeInv, TypeOK

\* The request for the merge keeps types.
LEMMA CompleteHandlerType ==
    ASSUME TypeInv, NEW c \in Clients,
           \/ CallComplete(c) \/ CompleteHandler(c)
           \/ CompleteHandlerFails(c) \/ Leave(c)
    PROVE  TypeInv'
<1> USE DEF TypeInv, TypeOK, HasId, PartsHaveId, WithId, InitSteps, CompleteSteps, Over, Goto,
            redis, disk, mysql
<1>1. CASE CallComplete(c)       BY <1>1, FaultType, KindsOfFault DEF CallComplete
<1>2. CASE CheckComplete(c)      BY <1>2 DEF CheckComplete
<1>3. CASE CheckCompleteFails(c) BY <1>3, FaultType, KindsOfFault DEF CheckCompleteFails
<1>4. CASE StartMerge(c)
  <2>1. CASE upid[c] \notin made  BY <1>4, <2>1 DEF StartMerge
  <2>2. CASE upid[c] \in made
    <3>1. dir[upid[c]] \subseteq AllChunks  BY <1>4 DEF StartMerge
    <3>2. [u \in AllUnits |-> "none"] \in [AllUnits -> {"none", "good", "bad"}]
      OBVIOUS
    <3>3. merged' = [merged EXCEPT ![FileOf[c]] = [u \in AllUnits |-> "none"]]
      BY <1>4, <2>2 DEF StartMerge
    <3>4. merged' \in [Files -> [AllUnits -> {"none", "good", "bad"}]]
      BY <3>2, <3>3
    <3>5. left' = [left EXCEPT ![c] = dir[upid[c]]]
      BY <1>4, <2>2 DEF StartMerge
    <3>6. off' = [off EXCEPT ![c] = [out |-> 0, in |-> 0]]
      BY <1>4, <2>2 DEF StartMerge
    <3>7. PICK step \in {"regfile", "cat"} : pc' = [pc EXCEPT ![c] = step]
      BY <1>4, <2>2 DEF StartMerge
    <3>8. UNCHANGED <<redis, made, dir, body, mysql, published, upid, found, part, ferr,
                      faults>>
      BY <1>4 DEF StartMerge
    <3>9. left' \in [Clients -> SUBSET AllChunks]
      BY <3>1, <3>5
    <3>10. off' \in [Clients -> [out : Nat, in : 0..PieceCount]]
      <4>1. [out |-> 0, in |-> 0] \in [out : Nat, in : 0..PieceCount]
        OBVIOUS
      <4> QED BY <4>1, <3>6
    <3>11. pc' \in [Clients -> {"idle", "have"} \cup InitSteps \cup CompleteSteps \cup Over]
      BY <3>7
    <3>12. HasId'  BY <1>4, <3>7, <3>8 DEF StartMerge
    <3> QED BY <3>4, <3>8, <3>9, <3>10, <3>11, <3>12
  <2> QED BY <2>1, <2>2
<1>13. CASE MergeFails(c)        BY <1>13, FaultType, KindsOfFault DEF MergeFails
<1>5. CASE CatChunk(c)
  <2>1. PICK i \in left[c] : CopyPiece(c, i)  BY <1>5 DEF CatChunk
  <2>2. pc[c] = "cat"  BY <1>5 DEF CatChunk
  <2>3. /\ merged' \in [Files -> [AllUnits -> {"none", "good", "bad"}]]
        /\ left' \in [Clients -> SUBSET AllChunks]
    <3> DEFINE at == (i - 1) * PieceCount + off[c].in
               x  == IF off[c].out = at /\ off[c].in + 1 \in body[upid[c]][i]
                       THEN "good" ELSE "bad"
    <3>1. CASE \E p \in body[upid[c]][i] : p > off[c].in
      <4>1. /\ merged' = [merged EXCEPT ![FileOf[c]][off[c].out + 1] = x]
            /\ UNCHANGED left
        BY <2>1, <3>1 DEF CopyPiece
      <4>2. x \in {"good", "bad"}
        OBVIOUS
      <4> HIDE DEF x
      <4> QED BY <4>1, <4>2
    <3>2. CASE ~ \E p \in body[upid[c]][i] : p > off[c].in
      <4>1. UNCHANGED merged /\ left' = [left EXCEPT ![c] = @ \ {i}]
        BY <2>1, <3>2 DEF CopyPiece
      <4> QED BY <4>1
    <3> QED BY <3>1, <3>2
  <2>4. off' \in [Clients -> [out : Nat, in : 0..PieceCount]]
    BY <2>1, <2>2, CopyReads
  <2>5. /\ pc' \in [Clients -> {"idle", "have"} \cup InitSteps \cup CompleteSteps \cup Over]
        /\ HasId'
    BY <2>1, <2>2 DEF CopyPiece
  <2>6. UNCHANGED <<redis, made, dir, body, mysql, published, upid, found, part, ferr, faults>>
    BY <2>1 DEF CopyPiece
  <2> QED BY <2>3, <2>4, <2>5, <2>6
<1>6. CASE RegisterFile(c)
  BY <1>6, FaultType, KindsOfFault DEF RegisterFile, DbFault, DbOutcomes, RowWritten, RpcError
<1>7. CASE RegisterUserFile(c)
  BY <1>7, FaultType, KindsOfFault DEF RegisterUserFile, DbFault, DbOutcomes, RowWritten, RpcError
<1>8. CASE DeleteHashKey(c)      BY <1>8 DEF DeleteHashKey
<1>9. CASE DeleteSession(c)      BY <1>9 DEF DeleteSession, NoSession
<1>10. CASE DeleteFails(c)       BY <1>10, FaultType, KindsOfFault DEF DeleteFails
<1>11. CASE PublishTransfer(c)   BY <1>11, FaultType, KindsOfFault DEF PublishTransfer
<1>12. CASE Leave(c)             BY <1>12, FaultType, KindsOfFault DEF Leave
<1> QED BY <1>1, <1>2, <1>3, <1>4, <1>5, <1>6, <1>7, <1>8, <1>9, <1>10, <1>11,
       <1>12, <1>13 DEF CompleteHandler, CompleteHandlerFails

\* Expiry and a crash keep types.
LEMMA EnvironmentType ==
    ASSUME TypeInv,
           \/ \E f \in Files : ExpireHashKey(f)
           \/ \E u \in UploadIDs : ExpireSession(u)
           \/ Crash
    PROVE  TypeInv'
<1> USE DEF TypeInv, TypeOK, HasId, PartsHaveId, WithId, InitSteps, CompleteSteps, Over,
            PartSteps, PartOver, redis, disk, mysql, run
<1>1. CASE \E f \in Files : ExpireHashKey(f)
  BY <1>1, FaultType, KindsOfFault DEF ExpireHashKey
<1>2. CASE \E u \in UploadIDs : ExpireSession(u)
  BY <1>2, FaultType, KindsOfFault DEF ExpireSession, NoSession
<1>3. CASE Crash
  BY <1>3, FaultType, KindsOfFault DEF Crash
<1> QED BY <1>1, <1>2, <1>3

LEMMA TypeInvariant == Spec => []TypeInv
<1>1. TypeInv /\ [Next]_vars => TypeInv'
  <2> SUFFICES ASSUME TypeInv, [Next]_vars PROVE TypeInv'
    OBVIOUS
  <2>1. CASE \E c \in Clients : ClientNext(c)
    BY <2>1, InitHandlerType, PartHandlerType, CompleteHandlerType DEF ClientNext
  <2>2. CASE ~ (\E c \in Clients : ClientNext(c)) /\ Next
    BY <2>2, EnvironmentType DEF Next
  <2>3. CASE UNCHANGED vars
    BY <2>3 DEF vars, redis, disk, mysql, run, TypeInv, TypeOK, HasId, PartsHaveId
  <2> QED BY <2>1, <2>2, <2>3
<1> QED BY InitType, <1>1, PTL DEF Spec

\* The state of the stores and of the clients has its type in every
\* reachable state.
THEOREM TypeCorrect == Spec => []TypeOK
<1>1. TypeInv => TypeOK
  BY DEF TypeInv
<1> QED BY <1>1, TypeInvariant, PTL
-----------------------------------------------------------------------------
(***************************************************************************)
(* Sessions.  Only the Init handler writes upid and names a session in     *)
(* redis; every other step leaves both alone or forgets the name.          *)
(***************************************************************************)
LEMMA ChunkStepsKeepSessions ==
    ASSUME NEW c \in Clients, NEW i \in AllChunks,
           StartPart(c, i) \/ PartHandler(c, i) \/ PartHandlerFails(c, i)
    PROVE  UNCHANGED <<hashUp, upid>>
BY DEF StartPart, PartHandler, PartHandlerFails, CreateChunk, CreateChunkFails,
       WritePiece, CutBody, VerifyChunk, MarkChunk, MarkChunkFails, redis, disk

LEMMA CompleteStepsKeepSessions ==
    ASSUME NEW c \in Clients,
           \/ CallComplete(c) \/ CompleteHandler(c)
           \/ CompleteHandlerFails(c) \/ Leave(c)
    PROVE  UNCHANGED upid /\ (UNCHANGED hashUp \/ DeleteHashKey(c))
BY DEF CallComplete, CompleteHandler, CompleteHandlerFails, CheckComplete,
       CheckCompleteFails, StartMerge, CatChunk, CopyPiece, MergeFails, RegisterFile, RegisterUserFile,
       DeleteHashKey, DeleteSession, DeleteFails, PublishTransfer, Leave, redis,
       disk, mysql

\* An uploadID belongs to one file: the hash key of a file and the clients of
\* the file only ever name sessions that were made for it.
THEOREM SessionsSafe == Spec => []SessionOwnsOneFile
<1>1. Init => SessionOwnsOneFile
  BY DEF Init, SessionOwnsOneFile
<1>2. TypeInv /\ SessionOwnsOneFile /\ [Next]_vars => SessionOwnsOneFile'
  <2> SUFFICES ASSUME TypeInv, SessionOwnsOneFile, [Next]_vars
               PROVE  SessionOwnsOneFile'
    OBVIOUS
  <2> USE DEF SessionOwnsOneFile
  <2>1. ASSUME UNCHANGED <<hashUp, upid>> PROVE SessionOwnsOneFile'
    BY <2>1
  <2>2. ASSUME NEW c \in Clients, InitHandler(c) PROVE SessionOwnsOneFile'
    <3> USE DEF TypeInv, TypeOK, redis
    <3>1. CASE CheckUserFile(c)  BY <3>1, <2>1 DEF CheckUserFile
    <3>2. CASE LookupSession(c)
      <4>1. UNCHANGED upid \/ upid' = [upid EXCEPT ![c] = c]
        BY <3>2 DEF LookupSession
      <4>2. UNCHANGED hashUp  BY <3>2 DEF LookupSession
      <4>3. \A d \in Clients : upid'[d] = upid[d] \/ (d = c /\ upid'[d] = c)
        BY <4>1
      <4> HIDE DEF TypeInv, TypeOK
      <4> QED BY <4>2, <4>3
    <3>3. CASE GetSession(c)     BY <3>3 DEF GetSession
    <3>4. CASE ListChunks(c)     BY <3>4, <2>1 DEF ListChunks
    <3>5. CASE SetChunkCount(c)  BY <3>5, <2>1 DEF SetChunkCount
    <3>6. CASE SetSessionTTL(c)  BY <3>6, <2>1 DEF SetSessionTTL
    <3>7. CASE SetHashKey(c)     BY <3>7 DEF SetHashKey
    <3> QED BY <2>2, <3>1, <3>2, <3>3, <3>4, <3>5, <3>6, <3>7 DEF InitHandler
  <2>3. ASSUME NEW c \in Clients, InitHandlerFails(c) PROVE SessionOwnsOneFile'
    <3> USE DEF TypeInv, TypeOK, redis
    <3>1. CASE LookupSessionFails(c)  BY <3>1 DEF LookupSessionFails
    <3>2. CASE GetOrListFails(c)      BY <3>2, <2>1 DEF GetOrListFails
    <3>3. CASE SessionWritesFail(c)   BY <3>3, <2>1 DEF SessionWritesFail
    <3> QED BY <2>3, <3>1, <3>2, <3>3 DEF InitHandlerFails
  <2>4. ASSUME NEW c \in Clients, DeleteHashKey(c) PROVE SessionOwnsOneFile'
    BY <2>4 DEF DeleteHashKey, TypeInv, TypeOK
  <2>5. ASSUME NEW c \in Clients, ClientNext(c) PROVE SessionOwnsOneFile'
    <3>1. CASE \E i \in AllChunks :
                 StartPart(c, i) \/ PartHandler(c, i) \/ PartHandlerFails(c, i)
      BY <3>1, <2>1, ChunkStepsKeepSessions
    <3>2. CASE \/ CallComplete(c) \/ CompleteHandler(c)
               \/ CompleteHandlerFails(c) \/ Leave(c)
      BY <3>2, <2>1, <2>4, CompleteStepsKeepSessions
    <3> QED BY <2>5, <2>2, <2>3, <3>1, <3>2 DEF ClientNext
  <2>6. ASSUME NEW f \in Files, ExpireHashKey(f) PROVE SessionOwnsOneFile'
    BY <2>6 DEF ExpireHashKey, run, TypeInv, TypeOK
  <2>7. ASSUME NEW u \in UploadIDs, ExpireSession(u) PROVE SessionOwnsOneFile'
    BY <2>7 DEF ExpireSession, run
  <2>8. CASE Crash
    BY <2>8, <2>1 DEF Crash, redis
  <2>9. CASE UNCHANGED vars
    BY <2>9, <2>1 DEF vars, redis, run
  <2> QED BY <2>5, <2>6, <2>7, <2>8, <2>9 DEF Next
<1> QED BY <1>1, <1>2, TypeInvariant, PTL DEF Spec

-----------------------------------------------------------------------------
(***************************************************************************)
(* Chunks.  A request is under way only for a client whose Init is over,   *)
(* so its uploadID no longer changes; past os.Create its chunk has a file. *)
(***************************************************************************)
PartsAfterInit ==
    \A c \in Clients : pc[c] \in {"idle"} \cup InitSteps =>
      \A i \in AllChunks : part[c][i].at = "none"

PartsHaveFile ==
    \A c \in Clients : \A i \in AllChunks :
      part[c][i].at \in {"write", "verify", "mark"} => i \in dir[upid[c]]

StoreInv == PartsAfterInit /\ PartsHaveFile /\ MarkedIsStored

\* The Init handler runs while its client has no chunk request, and marks
\* nothing.
LEMMA InitHandlerStore ==
    ASSUME TypeInv, StoreInv, NEW c \in Clients,
           InitHandler(c) \/ InitHandlerFails(c)
    PROVE  StoreInv'
<1>1. /\ pc[c] \in {"idle"} \cup InitSteps
      /\ \A d \in Clients : d # c => pc'[d] = pc[d] /\ upid'[d] = upid[d]
      /\ UNCHANGED <<dir, part>>
      /\ \A u \in UploadIDs : mp'[u].done = mp[u].done
  <2> USE DEF TypeInv, TypeOK, InitSteps, Goto, redis, disk
  <2>1. CASE CheckUserFile(c)      BY <2>1 DEF CheckUserFile
  <2>2. CASE LookupSession(c)      BY <2>2 DEF LookupSession
  <2>3. CASE LookupSessionFails(c) BY <2>3 DEF LookupSessionFails
  <2>4. CASE GetSession(c)         BY <2>4 DEF GetSession
  <2>5. CASE ListChunks(c)         BY <2>5 DEF ListChunks
  <2>6. CASE GetOrListFails(c)     BY <2>6 DEF GetOrListFails
  <2>7. CASE SetChunkCount(c)      BY <2>7 DEF SetChunkCount
  <2>8. CASE SetSessionTTL(c)      BY <2>8 DEF SetSessionTTL
  <2>9. CASE SetHashKey(c)         BY <2>9 DEF SetHashKey
  <2>10. CASE SessionWritesFail(c) BY <2>10 DEF SessionWritesFail
  <2> QED BY <2>1, <2>2, <2>3, <2>4, <2>5, <2>6, <2>7, <2>8, <2>9, <2>10
          DEF InitHandler, InitHandlerFails
<1>2. \A i \in AllChunks : part[c][i].at = "none"
  BY <1>1 DEF StoreInv, PartsAfterInit
<1>3. PartsAfterInit' /\ PartsHaveFile'
  BY <1>1, <1>2 DEF StoreInv, PartsAfterInit, PartsHaveFile
<1>4. MarkedIsStored'
  BY <1>1 DEF StoreInv, MarkedIsStored
<1> QED BY <1>3, <1>4 DEF StoreInv

\* A chunk request moves on alone; it adds files to its session's directory
\* and marks only a chunk that has one.
LEMMA PartHandlerStore ==
    ASSUME TypeInv, StoreInv, NEW c \in Clients, NEW i \in AllChunks,
           StartPart(c, i) \/ PartHandler(c, i) \/ PartHandlerFails(c, i)
    PROVE  StoreInv'
<1>1. UNCHANGED <<pc, upid>>
  BY DEF StartPart, PartHandler, PartHandlerFails, CreateChunk, CreateChunkFails,
         WritePiece, CutBody, VerifyChunk, MarkChunk, MarkChunkFails
<1>2. \A d \in Clients : \A j \in AllChunks :
        d # c \/ j # i => part'[d][j] = part[d][j]
  BY DEF StartPart, PartHandler, PartHandlerFails, CreateChunk, CreateChunkFails,
         WritePiece, CutBody, VerifyChunk, MarkChunk, MarkChunkFails, PartGoto,
         TypeInv, TypeOK
<1>3. upid[c] \in UploadIDs /\ pc[c] \notin {"idle"} \cup InitSteps
  <2>1. CASE StartPart(c, i)
    BY <2>1 DEF StartPart, TypeInv, TypeOK, HasId, WithId, InitSteps
  <2>2. CASE part[c][i].at # "none"
    BY <2>2 DEF StoreInv, PartsHaveId, PartsAfterInit, TypeInv, TypeOK
  <2> QED BY <2>1, <2>2
          DEF PartHandler, PartHandlerFails, CreateChunk, CreateChunkFails,
              WritePiece, CutBody, VerifyChunk, MarkChunk, MarkChunkFails
<1>4. /\ dir'[upid[c]] = dir[upid[c]] \/ dir'[upid[c]] = dir[upid[c]] \cup {i}
      /\ \A u \in UploadIDs : u # upid[c] => dir'[u] = dir[u]
  BY <1>3 DEF StartPart, PartHandler, PartHandlerFails, CreateChunk,
         CreateChunkFails, WritePiece, CutBody, VerifyChunk, MarkChunk,
         MarkChunkFails, disk, TypeInv, TypeOK
<1>5. part'[c][i].at \in {"write", "verify", "mark"} => i \in dir'[upid[c]]
  <2> USE <1>3 DEF TypeInv, TypeOK, PartGoto, disk
  <2>1. CASE StartPart(c, i)        BY <2>1 DEF StartPart
  <2>2. CASE CreateChunk(c, i)      BY <2>2 DEF CreateChunk
  <2>3. CASE CreateChunkFails(c, i) BY <2>3 DEF CreateChunkFails
  <2>4. CASE WritePiece(c, i)
    BY <2>4 DEF WritePiece, StoreInv, PartsHaveFile
  <2>5. CASE CutBody(c, i)
    BY <2>5 DEF CutBody, StoreInv, PartsHaveFile
  <2>6. CASE VerifyChunk(c, i)
    BY <2>6 DEF VerifyChunk, StoreInv, PartsHaveFile
  <2>7. CASE MarkChunk(c, i)        BY <2>7 DEF MarkChunk
  <2>8. CASE MarkChunkFails(c, i)   BY <2>8 DEF MarkChunkFails
  <2> QED BY <2>1, <2>2, <2>3, <2>4, <2>5, <2>6, <2>7, <2>8
          DEF PartHandler, PartHandlerFails
<1>6. PartsAfterInit'
  BY <1>1, <1>2, <1>3 DEF StoreInv, PartsAfterInit
<1>7. PartsHaveFile'
  <2> SUFFICES ASSUME NEW d \in Clients, NEW j \in AllChunks,
                      part'[d][j].at \in {"write", "verify", "mark"}
               PROVE  j \in dir'[upid'[d]]
    BY DEF PartsHaveFile
  <2>1. CASE d = c /\ j = i
    BY <2>1, <1>1, <1>5
  <2>2. CASE d # c \/ j # i
    <3>1. part'[d][j] = part[d][j]  BY <2>2, <1>2
    <3>2. j \in dir[upid[d]] /\ upid[d] # NoId
      BY <3>1 DEF StoreInv, PartsHaveFile, TypeInv, PartsHaveId
    <3>3. upid[d] \in UploadIDs  BY <3>2 DEF TypeInv, TypeOK
    <3> QED BY <3>2, <3>3, <1>1, <1>4
  <2> QED BY <2>1, <2>2
<1>8. MarkedIsStored'
  <2>1. CASE MarkChunk(c, i)
    <3>1. i \in dir[upid[c]]
      BY <2>1 DEF MarkChunk, StoreInv, PartsHaveFile
    <3> QED BY <2>1, <3>1, <1>3
            DEF MarkChunk, StoreInv, MarkedIsStored, disk, TypeInv, TypeOK
  <2>2. CASE UNCHANGED mp
    BY <2>2, <1>4 DEF StoreInv, MarkedIsStored
  <2> QED BY <2>1, <2>2
          DEF StartPart, PartHandler, PartHandlerFails, CreateChunk,
              CreateChunkFails, WritePiece, CutBody, VerifyChunk, MarkChunkFails,
              redis
<1> QED BY <1>6, <1>7, <1>8 DEF StoreInv

\* The merge reads chunk files and forgets marks.
LEMMA CompleteHandlerStore ==
    ASSUME TypeInv, StoreInv, NEW c \in Clients,
           \/ CallComplete(c) \/ CompleteHandler(c)
           \/ CompleteHandlerFails(c) \/ Leave(c)
    PROVE  StoreInv'
<1>1. UNCHANGED <<dir, body, part, upid>>
  BY DEF CallComplete, CompleteHandler, CompleteHandlerFails, CheckComplete,
         CheckCompleteFails, StartMerge, CatChunk, CopyPiece, MergeFails, RegisterFile, RegisterUserFile,
         DeleteHashKey, DeleteSession, DeleteFails, PublishTransfer, Leave, disk
<1>2. \A d \in Clients : pc'[d] \in {"idle"} \cup InitSteps => pc'[d] = pc[d]
  BY DEF CallComplete, CompleteHandler, CompleteHandlerFails, CheckComplete,
         CheckCompleteFails, StartMerge, CatChunk, CopyPiece, MergeFails, RegisterFile, RegisterUserFile,
         DeleteHashKey, DeleteSession, DeleteFails, PublishTransfer, Leave, Goto,
         InitSteps, TypeInv, TypeOK
<1>3. UNCHANGED mp \/ mp' = [mp EXCEPT ![upid[c]] = NoSession]
  BY DEF CallComplete, CompleteHandler, CompleteHandlerFails, CheckComplete,
         CheckCompleteFails, StartMerge, CatChunk, CopyPiece, MergeFails, RegisterFile, RegisterUserFile,
         DeleteHashKey, DeleteSession, DeleteFails, PublishTransfer, Leave, redis
<1>4. MarkedIsStored'
  <2>1. \A u \in UploadIDs : mp'[u].done = mp[u].done \/ mp'[u].done = {}
    <3>1. CASE UNCHANGED mp  BY <3>1
    <3>2. CASE mp' = [mp EXCEPT ![upid[c]] = NoSession]
      <4>1. NoSession.done = {}  BY DEF NoSession
      <4>2. \A u \in UploadIDs : mp'[u] = mp[u] \/ mp'[u] = NoSession
        BY <3>2 DEF TypeInv, TypeOK
      <4> QED BY <4>1, <4>2
    <3> QED BY <1>3, <3>1, <3>2
  <2> QED BY <1>1, <2>1 DEF StoreInv, MarkedIsStored
<1> QED BY <1>1, <1>2, <1>4
        DEF StoreInv, PartsAfterInit, PartsHaveFile

\* Expiry forgets marks; a crash ends every request.
LEMMA EnvironmentStore ==
    ASSUME TypeInv, StoreInv,
           \/ \E f \in Files : ExpireHashKey(f)
           \/ \E u \in UploadIDs : ExpireSession(u)
           \/ Crash
    PROVE  StoreInv'
<1> USE DEF StoreInv, PartsAfterInit, PartsHaveFile, MarkedIsStored,
            redis, disk, run
<1>1. ASSUME NEW f \in Files, ExpireHashKey(f) PROVE StoreInv'
  BY <1>1 DEF ExpireHashKey
<1>2. ASSUME NEW u \in UploadIDs, ExpireSession(u) PROVE StoreInv'
  <2>1. \A v \in UploadIDs : mp'[v].done = mp[v].done \/ mp'[v].done = {}
    BY <1>2 DEF ExpireSession, NoSession, TypeInv, TypeOK
  <2>2. UNCHANGED <<dir, part, upid, pc>>
    BY <1>2 DEF ExpireSession
  <2> QED BY <2>1, <2>2
<1>3. CASE Crash
  <2>1. /\ \A c \in Clients : pc'[c] \in {pc[c], "gone"}
        /\ \A c \in Clients : \A i \in AllChunks :
             part'[c][i] = part[c][i]
               \/ (part[c][i].at \in PartSteps /\ part'[c][i].at = "lost")
        /\ UNCHANGED <<mp, dir, upid>>
    BY <1>3 DEF Crash
  <2> QED BY <2>1 DEF PartSteps, InitSteps
<1> QED BY <1>1, <1>2, <1>3

LEMMA StoreStep == TypeInv /\ StoreInv /\ [Next]_vars => StoreInv'
<1> SUFFICES ASSUME TypeInv, StoreInv, [Next]_vars PROVE StoreInv'
  OBVIOUS
<1>1. ASSUME NEW c \in Clients, ClientNext(c) PROVE StoreInv'
  BY <1>1, InitHandlerStore, PartHandlerStore, CompleteHandlerStore DEF ClientNext
<1>2. CASE \/ \E f \in Files : ExpireHashKey(f)
           \/ \E u \in UploadIDs : ExpireSession(u)
           \/ Crash
  BY <1>2, EnvironmentStore
<1>3. CASE UNCHANGED vars
  BY <1>3 DEF vars, redis, disk, run, StoreInv, PartsAfterInit,
              PartsHaveFile, MarkedIsStored
<1> QED BY <1>1, <1>2, <1>3 DEF Next

LEMMA StoreInit == Init => StoreInv
BY DEF Init, StoreInv, PartsAfterInit, PartsHaveFile, MarkedIsStored,
       NoSession

\* A chunk redis lists as uploaded has a chunk file, whatever fails.
THEOREM MarkedSafe == Spec => []MarkedIsStored
<1>1. StoreInv => MarkedIsStored
  BY DEF StoreInv
<1> QED BY <1>1, StoreInit, StoreStep, TypeInvariant, PTL DEF Spec

-----------------------------------------------------------------------------
(***************************************************************************)
(* Faults are counted: what never happened had not happened a step before, *)
(* and does not happen in the step.                                        *)
(***************************************************************************)
LEMMA FaultCounts ==
    ASSUME TypeInv, NEW k \in FaultKinds, Fault(k)
    PROVE  faults'[k] # 0
BY DEF TypeInv, TypeOK, Fault

LEMMA FaultOrNone ==
    ASSUME [Next]_vars
    PROVE  UNCHANGED faults \/ \E k \in FaultKinds : Fault(k)
<1>1. ASSUME NEW o \in DbOutcomes, DbFault(o)
      PROVE  UNCHANGED faults \/ \E k \in FaultKinds : Fault(k)
  BY <1>1, KindsOfFault DEF DbFault, DbOutcomes
<1>2. ASSUME NEW c \in Clients, ClientNext(c)
      PROVE  UNCHANGED faults \/ \E k \in FaultKinds : Fault(k)
  <2>1. CASE InitHandler(c) \/ InitHandlerFails(c)
    BY <2>1, KindsOfFault DEF InitHandler, InitHandlerFails, CheckUserFile,
       LookupSession, LookupSessionFails, GetSession, ListChunks, GetOrListFails,
       SetChunkCount, SetSessionTTL, SetHashKey, SessionWritesFail
  <2>2. ASSUME NEW i \in AllChunks,
               StartPart(c, i) \/ PartHandler(c, i) \/ PartHandlerFails(c, i)
        PROVE  UNCHANGED faults \/ \E k \in FaultKinds : Fault(k)
    BY <2>2, KindsOfFault DEF StartPart, PartHandler, PartHandlerFails,
       CreateChunk, CreateChunkFails, WritePiece, CutBody, VerifyChunk, MarkChunk,
       MarkChunkFails
  <2>3. CASE RegisterFile(c) \/ RegisterUserFile(c)
    BY <2>3, <1>1 DEF RegisterFile, RegisterUserFile
  <2>4. CASE \/ CallComplete(c) \/ CompleteHandlerFails(c) \/ Leave(c)
             \/ CheckComplete(c) \/ StartMerge(c) \/ CatChunk(c)
             \/ DeleteHashKey(c) \/ DeleteSession(c) \/ PublishTransfer(c)
    BY <2>4, KindsOfFault DEF CallComplete, CompleteHandlerFails, CheckComplete,
       CheckCompleteFails, StartMerge, CatChunk, CopyPiece, MergeFails, DeleteHashKey,
       DeleteSession, DeleteFails, PublishTransfer, Leave
  <2> QED BY <1>2, <2>1, <2>2, <2>3, <2>4 DEF ClientNext, CompleteHandler
<1> QED BY <1>2, KindsOfFault DEF Next, ExpireHashKey, ExpireSession, Crash, vars

LEMMA NeverBefore ==
    ASSUME TypeInv, [Next]_vars, NEW kinds \in SUBSET FaultKinds, Never(kinds)'
    PROVE  Never(kinds)
<1>1. CASE UNCHANGED faults  BY <1>1 DEF Never
<1>2. ASSUME NEW k \in FaultKinds, Fault(k) PROVE Never(kinds)
  BY <1>2, FaultCounts DEF Never, Fault, TypeInv, TypeOK
<1> QED BY <1>1, <1>2, FaultOrNone

-----------------------------------------------------------------------------
(***************************************************************************)
(* Integrity.  Truncation makes a marked chunk incomplete, so "marked" is  *)
(* not "whole"; what holds is that each missing piece is owed by a request *)
(* that is still writing and has not come to that piece.                   *)
(***************************************************************************)
Owes(c, u, i, p) ==
    upid[c] = u /\ part[c][i].at = "write" /\ part[c][i].off < p

PiecesAreOwed ==
    \A u \in UploadIDs : \A i \in dir[u] : \A p \in Pieces :
      p \in body[u][i] \/ \E c \in Clients : Owes(c, u, i, p)

NoCutNoCrash   == Never({"cut", "crash"})
OwedUnlessDead == NoCutNoCrash => PiecesAreOwed

\* A step that changes neither chunk files nor a writer keeps the invariant.
LEMMA OthersOwe ==
    ASSUME PiecesAreOwed, UNCHANGED <<dir, body>>,
           \A c \in Clients : \A i \in AllChunks :
             part[c][i].at = "write"
               => upid'[c] = upid[c] /\ part'[c][i] = part[c][i],
           dir \in [UploadIDs -> SUBSET AllChunks]
    PROVE  PiecesAreOwed'
BY DEF PiecesAreOwed, Owes

\* os.Create empties the chunk file and owes every piece of it.
LEMMA CreateOwes ==
    ASSUME TypeInv, StoreInv, PiecesAreOwed, NEW c \in Clients,
           NEW i \in AllChunks, CreateChunk(c, i)
    PROVE  PiecesAreOwed'
<1>1. upid[c] \in UploadIDs /\ UNCHANGED upid
  BY DEF CreateChunk, PartsHaveId, TypeInv, TypeOK
<1>2. /\ part'[c][i] = [at |-> "write", off |-> 0]
      /\ \A d \in Clients : \A j \in AllChunks :
           d # c \/ j # i => part'[d][j] = part[d][j]
  BY DEF CreateChunk, TypeInv, TypeOK
<1>3. \A u \in UploadIDs : \A j \in AllChunks :
        u # upid[c] \/ j # i =>
          body'[u][j] = body[u][j] /\ (j \in dir'[u] <=> j \in dir[u])
  BY <1>1 DEF CreateChunk, TypeInv, TypeOK
<1> SUFFICES ASSUME NEW u \in UploadIDs, NEW j \in dir'[u], NEW p \in Pieces
             PROVE  p \in body'[u][j] \/ \E d \in Clients : Owes(d, u, j, p)'
  BY DEF PiecesAreOwed
<1>4. j \in AllChunks
  BY <1>1 DEF CreateChunk, TypeInv, TypeOK
<1>5. CASE u = upid[c] /\ j = i
  <2>1. Owes(c, u, j, p)'
    BY <1>1, <1>2, <1>5 DEF Owes, Pieces
  <2> QED BY <2>1
<1>6. CASE u # upid[c] \/ j # i
  <2>1. CASE p \in body[u][j]
    BY <2>1, <1>3, <1>4, <1>6
  <2>2. CASE p \notin body[u][j]
    <3>1. PICK d \in Clients : Owes(d, u, j, p)
      BY <2>2, <1>3, <1>4, <1>6 DEF PiecesAreOwed
    <3>2. d # c \/ j # i
      BY <3>1, <1>6 DEF Owes
    <3>3. Owes(d, u, j, p)'
      BY <3>1, <3>2, <1>1, <1>2, <1>4 DEF Owes
    <3> QED BY <3>3
  <2> QED BY <2>1, <2>2
<1> QED BY <1>5, <1>6

\* A writer pays the next piece and still owes those after it.
LEMMA WriteOwes ==
    ASSUME TypeInv, StoreInv, PiecesAreOwed, NEW c \in Clients,
           NEW i \in AllChunks, WritePiece(c, i)
    PROVE  PiecesAreOwed'
<1> DEFINE q == part[c][i].off + 1
<1>1. upid[c] \in UploadIDs /\ UNCHANGED <<upid, dir>>
  BY DEF WritePiece, PartsHaveId, TypeInv, TypeOK
<1>2. /\ part'[c][i] = [at |-> IF q = PieceCount THEN "verify" ELSE "write",
                        off |-> q]
      /\ \A d \in Clients : \A j \in AllChunks :
           d # c \/ j # i => part'[d][j] = part[d][j]
  BY DEF WritePiece, TypeInv, TypeOK
<1>3. /\ body'[upid[c]][i] = body[upid[c]][i] \cup {q}
      /\ \A u \in UploadIDs : \A j \in AllChunks :
           u # upid[c] \/ j # i => body'[u][j] = body[u][j]
  BY <1>1 DEF WritePiece, TypeInv, TypeOK
<1>4. part[c][i].off \in 0..PieceCount /\ part[c][i].at = "write"
  BY DEF WritePiece, TypeInv, TypeOK
<1> SUFFICES ASSUME NEW u \in UploadIDs, NEW j \in dir'[u], NEW p \in Pieces
             PROVE  p \in body'[u][j] \/ \E d \in Clients : Owes(d, u, j, p)'
  BY DEF PiecesAreOwed
<1>5. j \in AllChunks /\ j \in dir[u]
  BY <1>1 DEF TypeInv, TypeOK
<1>6. CASE p \in body[u][j]
  BY <1>3, <1>5, <1>6
<1>7. CASE p \notin body[u][j]
  <2>1. PICK d \in Clients : Owes(d, u, j, p)
    BY <1>5, <1>7 DEF PiecesAreOwed
  <2>2. CASE d # c \/ j # i
    <3>1. Owes(d, u, j, p)'
      BY <2>1, <2>2, <1>1, <1>2, <1>5 DEF Owes
    <3> QED BY <3>1
  <2>3. CASE d = c /\ j = i
    <3>1. u = upid[c] /\ part[c][i].off < p
      BY <2>1, <2>3 DEF Owes
    <3>2. CASE p = q
      BY <3>1, <3>2, <2>3, <1>3
    <3>3. CASE p # q
      <4>1. q < p /\ q # PieceCount
        BY <3>1, <3>3, <1>4 DEF Pieces
      <4>2. Owes(c, u, i, p)'
        BY <4>1, <3>1, <1>1, <1>2 DEF Owes
      <4> QED BY <4>2, <2>3
    <3> QED BY <3>2, <3>3
  <2> QED BY <2>2, <2>3
<1> QED BY <1>6, <1>7

LEMMA OwedStep ==
    TypeInv /\ StoreInv /\ OwedUnlessDead /\ [Next]_vars => OwedUnlessDead'
<1> SUFFICES ASSUME TypeInv, StoreInv, OwedUnlessDead, [Next]_vars,
                    NoCutNoCrash'
             PROVE  PiecesAreOwed'
  BY DEF OwedUnlessDead
<1>0. PiecesAreOwed
  BY NeverBefore, KindsOfFault DEF OwedUnlessDead, NoCutNoCrash
<1>9. ~ Fault("cut") /\ ~ Fault("crash")
  BY FaultCounts, KindsOfFault DEF NoCutNoCrash, Never
<1>1. dir \in [UploadIDs -> SUBSET AllChunks]
  BY DEF TypeInv, TypeOK
<1>2. ASSUME NEW c \in Clients, InitHandler(c) \/ InitHandlerFails(c)
      PROVE  PiecesAreOwed'
  <2>1. /\ pc[c] \in {"idle"} \cup InitSteps
        /\ \A d \in Clients : d # c => upid'[d] = upid[d]
        /\ UNCHANGED <<dir, body, part>>
    BY <1>2 DEF InitHandler, InitHandlerFails, CheckUserFile, LookupSession,
       LookupSessionFails, GetSession, ListChunks, GetOrListFails, SetChunkCount,
       SetSessionTTL, SetHashKey, SessionWritesFail, InitSteps, TypeInv, TypeOK, disk
  <2> QED BY <2>1, <1>0, <1>1, OthersOwe DEF StoreInv, PartsAfterInit
<1>3. ASSUME NEW c \in Clients, NEW i \in AllChunks,
             StartPart(c, i) \/ PartHandler(c, i) \/ PartHandlerFails(c, i)
      PROVE  PiecesAreOwed'
  <2>1. CASE CreateChunk(c, i)  BY <2>1, <1>0, CreateOwes
  <2>2. CASE WritePiece(c, i)   BY <2>2, <1>0, WriteOwes
  <2>3. CASE CutBody(c, i)
    BY <2>3, <1>9 DEF CutBody
  <2>4. CASE \/ StartPart(c, i) \/ VerifyChunk(c, i) \/ MarkChunk(c, i)
             \/ CreateChunkFails(c, i) \/ MarkChunkFails(c, i)
    <3>1. UNCHANGED <<dir, body, upid>> /\ part[c][i].at # "write"
      BY <2>4 DEF StartPart, VerifyChunk, MarkChunk, CreateChunkFails,
                  MarkChunkFails, disk
    <3>2. \A d \in Clients : \A j \in AllChunks :
            d # c \/ j # i => part'[d][j] = part[d][j]
      BY <2>4 DEF StartPart, VerifyChunk, MarkChunk, CreateChunkFails,
                  MarkChunkFails, PartGoto, TypeInv, TypeOK
    <3> QED BY <3>1, <3>2, <1>0, <1>1, OthersOwe
  <2> QED BY <1>3, <2>1, <2>2, <2>3, <2>4 DEF PartHandler, PartHandlerFails
<1>4. ASSUME NEW c \in Clients,
             \/ CallComplete(c) \/ CompleteHandler(c)
             \/ CompleteHandlerFails(c) \/ Leave(c)
      PROVE  PiecesAreOwed'
  <2>1. UNCHANGED <<dir, body, part, upid>>
    BY <1>4 DEF CallComplete, CompleteHandler, CompleteHandlerFails, CheckComplete,
       CheckCompleteFails, StartMerge, CatChunk, CopyPiece, MergeFails, RegisterFile, RegisterUserFile,
       DeleteHashKey, DeleteSession, DeleteFails, PublishTransfer, Leave, disk
  <2> QED BY <2>1, <1>0, <1>1, OthersOwe
<1>5. ASSUME NEW c \in Clients, ClientNext(c) PROVE PiecesAreOwed'
  BY <1>5, <1>2, <1>3, <1>4 DEF ClientNext
<1>6. CASE \/ \E f \in Files : ExpireHashKey(f)
           \/ \E u \in UploadIDs : ExpireSession(u)
  <2>1. UNCHANGED <<dir, body, part, upid>>
    BY <1>6 DEF ExpireHashKey, ExpireSession, disk, run
  <2> QED BY <2>1, <1>0, <1>1, OthersOwe
<1>7. CASE Crash
  BY <1>7, <1>9 DEF Crash
<1>8. CASE UNCHANGED vars
  <2>1. UNCHANGED <<dir, body, part, upid>>
    BY <1>8 DEF vars, disk, run
  <2> QED BY <2>1, <1>0, <1>1, OthersOwe
<1> QED BY <1>5, <1>6, <1>7, <1>8 DEF Next

\* While no body is cut short and the service does not crash, a marked chunk
\* that nobody writes is whole, for any number of clients of the session.
THEOREM ChunkIntegritySafe == Spec => []ChunkIntegrity
<1>1. Init => OwedUnlessDead
  BY DEF Init, OwedUnlessDead, PiecesAreOwed
<1>2. TypeInv /\ StoreInv /\ OwedUnlessDead => ChunkIntegrity
  <2> SUFFICES ASSUME TypeInv, StoreInv, PiecesAreOwed, NEW u \in UploadIDs,
                      NEW i \in mp[u].done,
                      \A c \in Clients : upid[c] = u => part[c][i].at # "write"
               PROVE  body[u][i] = Pieces
    BY DEF ChunkIntegrity, Settled, OwedUnlessDead, NoCutNoCrash
  <2>1. i \in dir[u] /\ i \in AllChunks
    BY DEF StoreInv, MarkedIsStored, TypeInv, TypeOK
  <2>2. Pieces \subseteq body[u][i]
    BY <2>1 DEF PiecesAreOwed, Owes
  <2>3. body[u][i] \subseteq Pieces
    BY <2>1 DEF TypeInv, TypeOK
  <2> HIDE DEF TypeInv, TypeOK
  <2> QED BY <2>2, <2>3
<1> QED BY <1>1, <1>2, StoreInit, StoreStep, OwedStep, TypeInvariant, PTL DEF Spec

-----------------------------------------------------------------------------
(***************************************************************************)
(* Discarding.  When a Complete comes to its DELs without an rpc error the *)
(* rows are there, if no SQL statement failed unnoticed.                   *)
(***************************************************************************)
RowsBeforeDelete ==
    \A c \in Clients :
      /\ pc[c] = "reguser" /\ ~ ferr[c] => FileOf[c] \in fileTbl
      /\ pc[c] \in {"delhash", "delsession"} =>
           FileOf[c] \in fileTbl /\ <<UserOf[c], FileOf[c]>> \in userTbl

NoSqlFault       == Never({"sql"})
RowsUnlessSqlErr == NoSqlFault => RowsBeforeDelete

\* Every other step leaves a client where it is or takes it elsewhere, and
\* keeps the rows.
LEMMA OtherRows ==
    ASSUME RowsBeforeDelete, UNCHANGED <<fileTbl, userTbl, ferr>>,
           \A c \in Clients :
             pc'[c] \in {"reguser", "delhash", "delsession"} =>
               \/ pc'[c] = pc[c]
               \/ pc[c] = "delhash" /\ pc'[c] = "delsession"
    PROVE  RowsBeforeDelete'
BY DEF RowsBeforeDelete

LEMMA RowsStep ==
    TypeInv /\ RowsUnlessSqlErr /\ [Next]_vars => RowsUnlessSqlErr'
<1> SUFFICES ASSUME TypeInv, RowsUnlessSqlErr, [Next]_vars, NoSqlFault'
             PROVE  RowsBeforeDelete'
  BY DEF RowsUnlessSqlErr
<1>0. RowsBeforeDelete
  BY NeverBefore, KindsOfFault DEF RowsUnlessSqlErr, NoSqlFault
<1>9. ~ Fault("sql")
  BY FaultCounts, KindsOfFault DEF NoSqlFault, Never
<1>1. ASSUME NEW c \in Clients, InitHandler(c) \/ InitHandlerFails(c)
      PROVE  RowsBeforeDelete'
  <2>1. /\ UNCHANGED <<fileTbl, userTbl, ferr>>
        /\ \A d \in Clients : pc'[d] \in {"reguser", "delhash", "delsession"}
                               => pc'[d] = pc[d]
    BY <1>1 DEF InitHandler, InitHandlerFails, CheckUserFile, LookupSession,
       LookupSessionFails, GetSession, ListChunks, GetOrListFails, SetChunkCount,
       SetSessionTTL, SetHashKey, SessionWritesFail, Goto, TypeInv, TypeOK, mysql
  <2> QED BY <2>1, <1>0, OtherRows
<1>2. ASSUME NEW c \in Clients, NEW i \in AllChunks,
             StartPart(c, i) \/ PartHandler(c, i) \/ PartHandlerFails(c, i)
      PROVE  RowsBeforeDelete'
  <2>1. UNCHANGED <<fileTbl, userTbl, ferr, pc>>
    BY <1>2 DEF StartPart, PartHandler, PartHandlerFails, CreateChunk,
       CreateChunkFails, WritePiece, CutBody, VerifyChunk, MarkChunk,
       MarkChunkFails, mysql
  <2> QED BY <2>1, <1>0, OtherRows
<1>3. ASSUME NEW c \in Clients, RegisterFile(c) PROVE RowsBeforeDelete'
  <2>1. PICK o \in DbOutcomes :
          /\ DbFault(o)
          /\ fileTbl' = IF RowWritten(o) THEN fileTbl \cup {FileOf[c]} ELSE fileTbl
          /\ ferr' = [ferr EXCEPT ![c] = RpcError(o)]
    BY <1>3 DEF RegisterFile
  <2>2. o # "sqlfails"
    BY <2>1, <1>9 DEF DbFault
  <2>3. FileOf[c] \in fileTbl' \/ RpcError(o)
    BY <2>1, <2>2 DEF DbOutcomes, RowWritten, RpcError
  <2>4. fileTbl \subseteq fileTbl' /\ UNCHANGED userTbl
    BY <2>1, <1>3 DEF RegisterFile
  <2>5. /\ \A d \in Clients : d # c => pc'[d] = pc[d] /\ ferr'[d] = ferr[d]
        /\ pc'[c] = "reguser" /\ (ferr'[c] <=> RpcError(o))
    BY <2>1, <1>3 DEF RegisterFile, Goto, TypeInv, TypeOK, RpcError
  <2> QED BY <1>0, <2>3, <2>4, <2>5 DEF RowsBeforeDelete
<1>4. ASSUME NEW c \in Clients, RegisterUserFile(c) PROVE RowsBeforeDelete'
  <2>1. PICK o \in DbOutcomes :
          /\ DbFault(o)
          /\ userTbl' = IF RowWritten(o)
                          THEN userTbl \cup {<<UserOf[c], FileOf[c]>>} ELSE userTbl
          /\ Goto(c, IF ferr[c] \/ RpcError(o) THEN "dbfail" ELSE "delhash")
    BY <1>4 DEF RegisterUserFile
  <2>2. o # "sqlfails"
    BY <2>1, <1>9 DEF DbFault
  <2>3. <<UserOf[c], FileOf[c]>> \in userTbl' \/ RpcError(o)
    BY <2>1, <2>2 DEF DbOutcomes, RowWritten, RpcError
  <2>4. userTbl \subseteq userTbl' /\ UNCHANGED <<fileTbl, ferr>>
    BY <2>1, <1>4 DEF RegisterUserFile
  <2>5. /\ pc[c] = "reguser"
        /\ \A d \in Clients : d # c => pc'[d] = pc[d]
        /\ pc'[c] = IF ferr[c] \/ RpcError(o) THEN "dbfail" ELSE "delhash"
    BY <2>1, <1>4 DEF RegisterUserFile, Goto, TypeInv, TypeOK
  <2> QED BY <1>0, <2>3, <2>4, <2>5 DEF RowsBeforeDelete
<1>5. ASSUME NEW c \in Clients,
             \/ CallComplete(c) \/ CompleteHandlerFails(c) \/ Leave(c)
             \/ CheckComplete(c) \/ StartMerge(c) \/ CatChunk(c)
             \/ DeleteHashKey(c) \/ DeleteSession(c) \/ PublishTransfer(c)
      PROVE  RowsBeforeDelete'
  <2>1. /\ UNCHANGED <<fileTbl, userTbl, ferr>>
        /\ \A d \in Clients :
             pc'[d] \in {"reguser", "delhash", "delsession"} =>
               \/ pc'[d] = pc[d]
               \/ pc[d] = "delhash" /\ pc'[d] = "delsession"
    BY <1>5 DEF CallComplete, CompleteHandlerFails, CheckComplete,
       CheckCompleteFails, StartMerge, CatChunk, CopyPiece, MergeFails, DeleteHashKey, DeleteSession,
       DeleteFails, PublishTransfer, Leave, Goto, TypeInv, TypeOK, mysql
  <2> QED BY <2>1, <1>0, OtherRows
<1>6. ASSUME NEW c \in Clients, ClientNext(c) PROVE RowsBeforeDelete'
  BY <1>6, <1>1, <1>2, <1>3, <1>4, <1>5 DEF ClientNext, CompleteHandler
<1>7. CASE \/ \E f \in Files : ExpireHashKey(f)
           \/ \E u \in UploadIDs : ExpireSession(u)
           \/ UNCHANGED vars
  <2>1. UNCHANGED <<fileTbl, userTbl, ferr, pc>>
    BY <1>7 DEF ExpireHashKey, ExpireSession, vars, mysql, run
  <2> QED BY <2>1, <1>0, OtherRows
<1>8. CASE Crash
  <2>1. /\ UNCHANGED <<fileTbl, userTbl, ferr>>
        /\ \A d \in Clients : pc'[d] \in {pc[d], "gone"}
    BY <1>8 DEF Crash, mysql
  <2> QED BY <2>1, <1>0, OtherRows
<1> QED BY <1>6, <1>7, <1>8 DEF Next

\* Who takes marks away: the DEL of a Complete, or the TTL.
LEMMA WhoDiscards ==
    ASSUME TypeInv, [Next]_vars, NEW u \in UploadIDs,
           ~ mp[u].done \subseteq mp'[u].done
    PROVE  \/ \E c \in Clients : DeleteSession(c) /\ upid[c] = u
           \/ faults'["expire"] # faults["expire"]
<1>1. ASSUME NEW c \in Clients, InitHandler(c) \/ InitHandlerFails(c)
      PROVE  mp'[u].done = mp[u].done
  <2>1. CASE SetChunkCount(c)  BY <2>1 DEF SetChunkCount, TypeInv, TypeOK
  <2>2. CASE SetSessionTTL(c)  BY <2>2 DEF SetSessionTTL, TypeInv, TypeOK
  <2>3. CASE UNCHANGED mp      BY <2>3
  <2> QED BY <1>1, <2>1, <2>2, <2>3
          DEF InitHandler, InitHandlerFails, CheckUserFile, LookupSession,
              LookupSessionFails, GetSession, ListChunks, GetOrListFails,
              SetHashKey, SessionWritesFail, redis
<1>2. ASSUME NEW c \in Clients, NEW i \in AllChunks,
             StartPart(c, i) \/ PartHandler(c, i) \/ PartHandlerFails(c, i)
      PROVE  mp[u].done \subseteq mp'[u].done
  <2>1. CASE MarkChunk(c, i)  BY <2>1 DEF MarkChunk, TypeInv, TypeOK
  <2>2. CASE UNCHANGED mp     BY <2>2
  <2> QED BY <1>2, <2>1, <2>2
          DEF StartPart, PartHandler, PartHandlerFails, CreateChunk,
              CreateChunkFails, WritePiece, CutBody, VerifyChunk,
              MarkChunkFails, redis
<1>3. ASSUME NEW c \in Clients,
             \/ CallComplete(c) \/ CompleteHandlerFails(c) \/ Leave(c)
             \/ CheckComplete(c) \/ StartMerge(c) \/ CatChunk(c)
             \/ RegisterFile(c) \/ RegisterUserFile(c)
             \/ DeleteHashKey(c) \/ PublishTransfer(c)
      PROVE  UNCHANGED mp
  BY <1>3 DEF CallComplete, CompleteHandlerFails, CheckComplete,
     CheckCompleteFails, StartMerge, CatChunk, CopyPiece, MergeFails, RegisterFile, RegisterUserFile,
     DeleteHashKey, DeleteFails, PublishTransfer, Leave, redis
<1>4. ASSUME NEW c \in Clients, DeleteSession(c)
      PROVE  upid[c] = u \/ mp'[u] = mp[u]
  BY <1>4 DEF DeleteSession, TypeInv, TypeOK
<1>5. CASE (\E f \in Files : ExpireHashKey(f)) \/ Crash \/ UNCHANGED vars
  BY <1>5 DEF ExpireHashKey, Crash, vars, redis
<1>6. ASSUME NEW v \in UploadIDs, ExpireSession(v)
      PROVE  faults'["expire"] # faults["expire"]
  BY <1>6, KindsOfFault DEF ExpireSession, Fault, TypeInv, TypeOK
<1> QED BY <1>1, <1>2, <1>3, <1>4, <1>5, <1>6
        DEF Next, ClientNext, CompleteHandler

\* If no SQL statement fails, marks go only to their TTL or after the file and
\* a user's file are registered: a Complete that fails can be asked for again.
THEOREM DiscardSafe == Spec => DiscardOnlyRegistered
<1> DEFINE Kept == Never({"sql"}) =>
                   \A u \in UploadIDs :
                     ~ mp[u].done \subseteq mp'[u].done
                       /\ faults'["expire"] = faults["expire"]
                     => /\ FileOf[u] \in fileTbl
                        /\ \E n \in Users : <<n, FileOf[u]>> \in userTbl
<1>1. Init => RowsUnlessSqlErr
  BY DEF Init, RowsUnlessSqlErr, RowsBeforeDelete
<1>2. ASSUME TypeInv, SessionOwnsOneFile, RowsUnlessSqlErr, [Next]_vars
      PROVE  Kept
  <2> SUFFICES ASSUME Never({"sql"}), NEW u \in UploadIDs,
                      ~ mp[u].done \subseteq mp'[u].done,
                      faults'["expire"] = faults["expire"]
               PROVE  /\ FileOf[u] \in fileTbl
                      /\ \E n \in Users : <<n, FileOf[u]>> \in userTbl
    OBVIOUS
  <2>1. PICK c \in Clients : DeleteSession(c) /\ upid[c] = u
    BY <1>2, WhoDiscards
  <2>2. /\ FileOf[c] \in fileTbl
        /\ <<UserOf[c], FileOf[c]>> \in userTbl
    BY <2>1, <1>2 DEF DeleteSession, RowsUnlessSqlErr, NoSqlFault, RowsBeforeDelete
  <2>3. FileOf[u] = FileOf[c]
    BY <2>1, <1>2 DEF SessionOwnsOneFile
  <2>4. UserOf[c] \in Users
    OBVIOUS
  <2> QED BY <2>2, <2>3, <2>4
<1>3. TypeInv /\ SessionOwnsOneFile /\ RowsUnlessSqlErr /\ [Next]_vars
        => [Kept]_vars
  BY <1>2
<1> HIDE DEF Kept
<1>4. Spec => [][Kept]_vars
  BY <1>1, <1>3, RowsStep, TypeInvariant, SessionsSafe, PTL DEF Spec
<1> QED BY <1>4 DEF DiscardOnlyRegistered, Kept

-----------------------------------------------------------------------------
(***************************************************************************)
(* Publication.  Of the Completes of a session the one whose DEL finds the *)
(* session publishes.  So a session that is gone leaves its file handed    *)
(* on, to a client about to publish or to the queue; and whoever works     *)
(* with a session has one that is there, or a file that is handed on.      *)
(***************************************************************************)
Asked  == {"list", "setttl", "sethash", "have"} \cup (CompleteSteps \ {"publish"})
Ending == {"reguser", "delhash", "delsession"}

HandedOn(f) == f \in published \/ \E c \in Clients : FileOf[c] = f /\ pc[c] = "publish"

Handed ==
    /\ \A f \in Files : hashUp[f] # NoId => mp[hashUp[f]].live \/ HandedOn(f)
    /\ \A c \in Clients : pc[c] \in Asked => mp[upid[c]].live \/ HandedOn(FileOf[c])
    /\ \A f \in fileTbl :
         HandedOn(f) \/ \E c \in Clients : FileOf[c] = f /\ pc[c] \in Ending
    /\ \A c \in Clients : pc[c] = "reguser" => ~ ferr[c]

Bad               == FaultKinds \ {"cut", "disk", "early", "leave", "cat"}
HandedUnlessFault == Never(Bad) => Handed

LEMMA BadKinds ==
    "crash" \in Bad /\ "expire" \in Bad /\ "redis" \in Bad /\ "rpc" \in Bad
      /\ "sql" \in Bad /\ "mq" \in Bad /\ Bad \subseteq FaultKinds
BY DEF Bad, FaultKinds

\* A file that is handed on stays so, if who is about to publish does.
LEMMA OnStays ==
    ASSUME published \subseteq published',
           \A c \in Clients : pc[c] = "publish" =>
             pc'[c] = "publish" \/ FileOf[c] \in published',
           NEW f, HandedOn(f)
    PROVE  HandedOn(f)'
BY DEF HandedOn

\* What a step has to do: a session goes only with its file handed on; who
\* comes to work with a session has one that is there; a file that gets a row
\* has a client that goes on with it, which ends only with the file handed on.
LEMMA HandedStays ==
    ASSUME Handed, TypeInv, SessionOwnsOneFile,
           \A f \in Files : HandedOn(f) => HandedOn(f)',
           \A u \in UploadIDs : mp[u].live => mp'[u].live \/ HandedOn(FileOf[u])',
           \A f \in Files : hashUp'[f] \in {hashUp[f], NoId}
                              \/ mp'[hashUp'[f]].live \/ HandedOn(f)',
           \A f \in fileTbl' \ fileTbl :
             \E c \in Clients : FileOf[c] = f /\ pc'[c] \in Ending,
           \A c \in Clients :
             /\ pc'[c] \in Asked => \/ pc[c] \in Asked /\ upid'[c] = upid[c]
                                    \/ mp'[upid'[c]].live
                                    \/ HandedOn(FileOf[c])'
             /\ pc[c] \in Ending => pc'[c] \in Ending \/ HandedOn(FileOf[c])'
             /\ pc'[c] = "reguser" => ~ ferr'[c]
    PROVE  Handed'
<1>1. ASSUME NEW f \in Files, hashUp'[f] # NoId
      PROVE  mp'[hashUp'[f]].live \/ HandedOn(f)'
  <2>1. CASE hashUp'[f] = hashUp[f]
    <3>1. hashUp[f] \in UploadIDs /\ FileOf[hashUp[f]] = f
      BY <1>1, <2>1 DEF TypeInv, TypeOK, SessionOwnsOneFile
    <3>2. mp[hashUp[f]].live \/ HandedOn(f)
      BY <1>1, <2>1 DEF Handed
    <3> QED BY <2>1, <3>1, <3>2
  <2>2. CASE hashUp'[f] # hashUp[f]
    BY <1>1, <2>2
  <2> QED BY <2>1, <2>2
<1>2. ASSUME NEW c \in Clients, pc'[c] \in Asked
      PROVE  mp'[upid'[c]].live \/ HandedOn(FileOf[c])'
  <2>1. CASE pc[c] \in Asked /\ upid'[c] = upid[c]
    <3>1. upid[c] # NoId
      BY <2>1 DEF TypeInv, HasId, WithId, Asked
    <3>2. upid[c] \in UploadIDs /\ FileOf[upid[c]] = FileOf[c]
      BY <3>1 DEF TypeInv, TypeOK, SessionOwnsOneFile
    <3>3. mp[upid[c]].live \/ HandedOn(FileOf[c])
      BY <2>1 DEF Handed
    <3> QED BY <2>1, <3>2, <3>3
  <2>2. CASE ~ (pc[c] \in Asked /\ upid'[c] = upid[c])
    BY <1>2, <2>2
  <2> QED BY <2>1, <2>2
<1>3. ASSUME NEW f \in fileTbl'
      PROVE  HandedOn(f)' \/ \E c \in Clients : FileOf[c] = f /\ pc'[c] \in Ending
  <2>1. CASE f \in fileTbl
    <3>1. f \in Files
      BY <2>1 DEF TypeInv, TypeOK
    <3>2. HandedOn(f) \/ \E c \in Clients : FileOf[c] = f /\ pc[c] \in Ending
      BY <2>1 DEF Handed
    <3> QED BY <3>1, <3>2
  <2>2. CASE f \notin fileTbl
    BY <1>3, <2>2
  <2> QED BY <2>1, <2>2
<1>4. ASSUME NEW c \in Clients, pc'[c] = "reguser" PROVE ~ ferr'[c]
  BY <1>4
<1> QED BY <1>1, <1>2, <1>3, <1>4 DEF Handed

\* The steps that only move a client on.
LEMMA MovesOn ==
    ASSUME Handed, TypeInv, SessionOwnsOneFile,
           \A u \in UploadIDs : mp[u].live => mp'[u].live,
           \A f \in Files : hashUp'[f] \in {hashUp[f], NoId},
           UNCHANGED <<fileTbl, ferr>>, published \subseteq published',
           \A c \in Clients :
             /\ pc[c] = "publish" => pc'[c] = "publish" \/ FileOf[c] \in published'
             /\ pc'[c] \in Asked => pc[c] \in Asked /\ upid'[c] = upid[c]
             /\ pc[c] \in Ending => pc'[c] \in Ending
             /\ pc'[c] = "reguser" => pc[c] = "reguser"
    PROVE  Handed'
<1>1. \A f \in Files : HandedOn(f) => HandedOn(f)'
  BY OnStays
<1>2. \A c \in Clients : pc'[c] = "reguser" => ~ ferr'[c]
  BY DEF Handed
<1> QED BY <1>1, <1>2, HandedStays

\* One client moves, to a place of its own.
LEMMA OneMoves ==
    ASSUME TypeInv, NEW c \in Clients, NEW step, Goto(c, step)
    PROVE  /\ pc'[c] = step
           /\ \A d \in Clients \ {c} : pc'[d] = pc[d]
BY DEF Goto, TypeInv, TypeOK

LEMMA HandedStep ==
    ASSUME TypeInv, SessionOwnsOneFile, HandedUnlessFault, [Next]_vars, Never(Bad)'
    PROVE  Handed'
<1>0. Handed
  BY NeverBefore, BadKinds DEF HandedUnlessFault
<1>9. \A k \in Bad : ~ Fault(k)
  BY FaultCounts, BadKinds DEF Never
<1>1. ASSUME NEW c \in Clients,
             \/ CheckUserFile(c) \/ LookupSession(c) \/ ListChunks(c) \/ SetSessionTTL(c)
             \/ CallComplete(c) \/ CheckComplete(c) \/ StartMerge(c) \/ CatChunk(c)
             \/ MergeFails(c) \/ DeleteHashKey(c) \/ PublishTransfer(c) \/ Leave(c)
      PROVE  Handed'
  <2>1. UNCHANGED <<fileTbl, ferr>>
    BY <1>1 DEF CheckUserFile, LookupSession, ListChunks, SetSessionTTL, CallComplete,
       CheckComplete, StartMerge, CatChunk, CopyPiece, MergeFails, DeleteHashKey, PublishTransfer,
       Leave, mysql
  <2>2. /\ published \subseteq published'
        /\ pc[c] = "publish" => FileOf[c] \in published'
    <3>1. CASE PublishTransfer(c)
      BY <1>9, <3>1, BadKinds DEF PublishTransfer
    <3>2. CASE ~ PublishTransfer(c)
      <4>1. UNCHANGED published
        BY <1>1, <3>2 DEF CheckUserFile, LookupSession, ListChunks, SetSessionTTL,
           CallComplete, CheckComplete, StartMerge, CatChunk, CopyPiece, MergeFails,
           DeleteHashKey, Leave
      <4>2. pc[c] # "publish"
        BY <1>1, <3>2 DEF CheckUserFile, LookupSession, ListChunks, SetSessionTTL,
           CallComplete, CheckComplete, StartMerge, CatChunk, CopyPiece, MergeFails,
           DeleteHashKey, Leave
      <4> QED BY <4>1, <4>2
    <3> QED BY <3>1, <3>2
  <2>3. \A d \in Clients \ {c} : pc'[d] = pc[d] /\ upid'[d] = upid[d]
    <3>1. UNCHANGED upid \/ upid' = [upid EXCEPT ![c] = c]
      BY <1>1 DEF CheckUserFile, LookupSession, ListChunks, SetSessionTTL, CallComplete,
         CheckComplete, StartMerge, CatChunk, CopyPiece, MergeFails, DeleteHashKey, PublishTransfer,
         Leave
    <3>2. UNCHANGED pc \/ \E step : Goto(c, step)
      BY <1>1 DEF CheckUserFile, LookupSession, ListChunks, SetSessionTTL, CallComplete,
         CheckComplete, StartMerge, CatChunk, CopyPiece, MergeFails, DeleteHashKey, PublishTransfer,
         Leave
    <3> QED BY <3>1, <3>2, OneMoves DEF TypeInv, TypeOK
  <2>4. /\ pc'[c] \in Asked => pc[c] \in Asked /\ upid'[c] = upid[c]
        /\ pc[c] \in Ending => pc'[c] \in Ending
        /\ pc'[c] = "reguser" => pc[c] = "reguser"
    BY <1>1 DEF CheckUserFile, LookupSession, ListChunks, SetSessionTTL, CallComplete,
       CheckComplete, StartMerge, CatChunk, CopyPiece, MergeFails, DeleteHashKey, PublishTransfer,
       Leave, Goto, Asked, Ending, CompleteSteps, TypeInv, TypeOK
  <2>5. \A u \in UploadIDs : mp[u].live => mp'[u].live
    <3>1. CASE SetSessionTTL(c)
      BY <3>1 DEF SetSessionTTL, TypeInv, TypeOK
    <3>2. CASE ~ SetSessionTTL(c)
      BY <1>1, <3>2 DEF CheckUserFile, LookupSession, ListChunks, CallComplete,
         CheckComplete, StartMerge, CatChunk, CopyPiece, MergeFails, DeleteHashKey, PublishTransfer,
         Leave, redis
    <3> QED BY <3>1, <3>2
  <2>6. \A f \in Files : hashUp'[f] \in {hashUp[f], NoId}
    <3>1. CASE DeleteHashKey(c)
      BY <3>1 DEF DeleteHashKey, TypeInv, TypeOK
    <3>2. CASE ~ DeleteHashKey(c)
      BY <1>1, <3>2 DEF CheckUserFile, LookupSession, ListChunks, SetSessionTTL,
         CallComplete, CheckComplete, StartMerge, CatChunk, CopyPiece, MergeFails, PublishTransfer,
         Leave, redis
    <3> QED BY <3>1, <3>2
  <2>7. \A d \in Clients :
          /\ pc[d] = "publish" => pc'[d] = "publish" \/ FileOf[d] \in published'
          /\ pc'[d] \in Asked => pc[d] \in Asked /\ upid'[d] = upid[d]
          /\ pc[d] \in Ending => pc'[d] \in Ending
          /\ pc'[d] = "reguser" => pc[d] = "reguser"
    BY <2>2, <2>3, <2>4
  <2> QED BY <1>0, <2>1, <2>2, <2>5, <2>6, <2>7, MovesOn
<1>2. ASSUME NEW c \in Clients, NEW i \in AllChunks,
             StartPart(c, i) \/ PartHandler(c, i) \/ PartHandlerFails(c, i)
      PROVE  Handed'
  <2>1. UNCHANGED <<published, fileTbl, ferr, pc, upid, hashUp>>
    BY <1>2 DEF StartPart, PartHandler, PartHandlerFails, CreateChunk,
       CreateChunkFails, WritePiece, CutBody, VerifyChunk, MarkChunk,
       MarkChunkFails, mysql, redis
  <2>2. \A u \in UploadIDs : mp[u].live => mp'[u].live
    <3>1. CASE MarkChunk(c, i)
      BY <3>1 DEF MarkChunk, TypeInv, TypeOK
    <3>2. CASE UNCHANGED mp
      BY <3>2
    <3> QED BY <1>2, <3>1, <3>2 DEF StartPart, PartHandler, PartHandlerFails,
            CreateChunk, CreateChunkFails, WritePiece, CutBody, VerifyChunk,
            MarkChunkFails, redis
  <2> QED BY <1>0, <2>1, <2>2, MovesOn
<1>3. ASSUME NEW c \in Clients, GetSession(c) PROVE Handed'
  <2>1. UNCHANGED <<published, fileTbl, ferr, hashUp, mp>> /\ pc[c] = "get"
    BY <1>3 DEF GetSession, mysql, redis
  <2>2. \A d \in Clients \ {c} : pc'[d] = pc[d] /\ upid'[d] = upid[d]
    BY <1>3 DEF GetSession, Goto, TypeInv, TypeOK
  <2>3. \/ pc'[c] = "initfail"
        \/ pc'[c] = "list" /\ hashUp[FileOf[c]] # NoId /\ upid'[c] = hashUp[FileOf[c]]
    BY <1>3 DEF GetSession, Goto, TypeInv, TypeOK
  <2>4. \A f \in Files : HandedOn(f) => HandedOn(f)'
    BY <2>1, <2>2, OnStays
  <2>5. pc'[c] \in Asked => mp'[upid'[c]].live \/ HandedOn(FileOf[c])'
    BY <1>0, <2>1, <2>3, <2>4 DEF Handed, Asked, CompleteSteps
  <2>6. \A d \in Clients : pc'[d] = "reguser" => ~ ferr'[d]
    BY <1>0, <2>1, <2>2, <2>3 DEF Handed
  <2> QED BY <1>0, <2>1, <2>2, <2>4, <2>5, <2>6, HandedStays DEF Ending
<1>4. ASSUME NEW c \in Clients, SetChunkCount(c) PROVE Handed'
  <2>1. UNCHANGED <<published, fileTbl, ferr, hashUp, upid>> /\ pc[c] = "setcount"
    BY <1>4 DEF SetChunkCount, mysql
  <2>2. pc'[c] = "setttl" /\ \A d \in Clients \ {c} : pc'[d] = pc[d]
    BY <1>4, OneMoves DEF SetChunkCount
  <2>3. upid[c] \in UploadIDs
    BY <2>1 DEF TypeInv, TypeOK, HasId, WithId
  <2>4. mp'[upid[c]].live /\ \A u \in UploadIDs : mp[u].live => mp'[u].live
    BY <1>4, <2>3 DEF SetChunkCount, TypeInv, TypeOK
  <2>5. \A f \in Files : HandedOn(f) => HandedOn(f)'
    BY <2>1, <2>2, OnStays
  <2>6. \A d \in Clients : pc'[d] = "reguser" => ~ ferr'[d]
    BY <1>0, <2>1, <2>2 DEF Handed
  <2> QED BY <1>0, <2>1, <2>2, <2>4, <2>5, <2>6, HandedStays DEF Ending
<1>5. ASSUME NEW c \in Clients, SetHashKey(c) PROVE Handed'
  <2>1. UNCHANGED <<published, fileTbl, ferr, mp, upid>> /\ pc[c] = "sethash"
    BY <1>5 DEF SetHashKey, mysql
  <2>2. pc'[c] = "have" /\ \A d \in Clients \ {c} : pc'[d] = pc[d]
    BY <1>5, OneMoves DEF SetHashKey
  <2>3. \A f \in Files : HandedOn(f) => HandedOn(f)'
    BY <2>1, <2>2, OnStays
  <2>4. mp[upid[c]].live \/ HandedOn(FileOf[c])
    BY <1>0, <2>1 DEF Handed, Asked
  <2>5. \A f \in Files : \/ hashUp'[f] = hashUp[f]
                         \/ f = FileOf[c] /\ hashUp'[f] = upid[c]
    BY <1>5 DEF SetHashKey, TypeInv, TypeOK
  <2>6. \A f \in Files : hashUp'[f] \in {hashUp[f], NoId}
                           \/ mp'[hashUp'[f]].live \/ HandedOn(f)'
    BY <2>1, <2>3, <2>4, <2>5
  <2>7. \A d \in Clients : pc'[d] = "reguser" => ~ ferr'[d]
    BY <1>0, <2>1, <2>2 DEF Handed
  <2> QED BY <1>0, <2>1, <2>2, <2>3, <2>6, <2>7, HandedStays DEF Ending, Asked
<1>6. ASSUME NEW c \in Clients, RegisterFile(c) PROVE Handed'
  <2>1. UNCHANGED <<published, hashUp, mp, upid>> /\ pc[c] = "regfile"
    BY <1>6 DEF RegisterFile, redis
  <2>2. pc'[c] = "reguser" /\ \A d \in Clients \ {c} : pc'[d] = pc[d]
    BY <1>6, OneMoves DEF RegisterFile
  <2>3. /\ fileTbl' = fileTbl \cup {FileOf[c]}
        /\ ferr' = [ferr EXCEPT ![c] = FALSE]
    <3>1. PICK o \in DbOutcomes :
            /\ DbFault(o)
            /\ fileTbl' = IF RowWritten(o) THEN fileTbl \cup {FileOf[c]} ELSE fileTbl
            /\ ferr' = [ferr EXCEPT ![c] = RpcError(o)]
      BY <1>6 DEF RegisterFile
    <3>2. o = "done"
      BY <1>9, <3>1, BadKinds DEF DbFault, DbOutcomes
    <3>3. RpcError(o) = FALSE /\ RowWritten(o)
      BY <3>2 DEF RpcError, RowWritten
    <3> QED BY <3>1, <3>3
  <2>4. \A f \in Files : HandedOn(f) => HandedOn(f)'
    BY <2>1, <2>2, OnStays
  <2>5. \A d \in Clients : pc'[d] = "reguser" => ~ ferr'[d]
    BY <1>0, <2>2, <2>3 DEF Handed, TypeInv, TypeOK
  <2>6. \A f \in fileTbl' \ fileTbl :
          \E d \in Clients : FileOf[d] = f /\ pc'[d] \in Ending
    BY <2>2, <2>3 DEF Ending
  <2>7. pc[c] \in Asked
    BY <2>1 DEF Asked, CompleteSteps
  <2> QED BY <1>0, <2>1, <2>2, <2>4, <2>5, <2>6, <2>7, HandedStays DEF Ending
<1>7. ASSUME NEW c \in Clients, RegisterUserFile(c) PROVE Handed'
  <2>1. UNCHANGED <<published, hashUp, mp, upid, fileTbl, ferr>> /\ pc[c] = "reguser"
    BY <1>7 DEF RegisterUserFile, redis
  <2>2. pc'[c] = "delhash" /\ \A d \in Clients \ {c} : pc'[d] = pc[d]
    <3>1. PICK o \in DbOutcomes :
            DbFault(o) /\ Goto(c, IF ferr[c] \/ RpcError(o) THEN "dbfail" ELSE "delhash")
      BY <1>7 DEF RegisterUserFile
    <3>2. o = "done"
      BY <1>9, <3>1, BadKinds DEF DbFault, DbOutcomes
    <3>3. ~ ferr[c] /\ ~ RpcError(o)
      BY <1>0, <2>1, <3>2 DEF RpcError, Handed
    <3>4. Goto(c, "delhash")
      BY <3>1, <3>3
    <3> QED BY <3>4, OneMoves
  <2>3. pc'[c] \in Asked /\ pc[c] \in Asked /\ pc'[c] \in Ending
    BY <2>1, <2>2 DEF Asked, Ending, CompleteSteps
  <2> QED BY <1>0, <2>1, <2>2, <2>3, MovesOn
<1>8. ASSUME NEW c \in Clients, DeleteSession(c) PROVE Handed'
  <2>1. UNCHANGED <<published, hashUp, upid, fileTbl, ferr>> /\ pc[c] = "delsession"
    BY <1>8 DEF DeleteSession, mysql
  <2>2. /\ pc'[c] = IF mp[upid[c]].live THEN "publish" ELSE "delfail"
        /\ \A d \in Clients \ {c} : pc'[d] = pc[d]
    BY <1>8, OneMoves DEF DeleteSession
  <2>3. \A f \in Files : HandedOn(f) => HandedOn(f)'
    BY <2>1, <2>2, OnStays
  <2>4. HandedOn(FileOf[c])'
    <3>1. CASE mp[upid[c]].live
      BY <2>2, <3>1 DEF HandedOn
    <3>2. CASE ~ mp[upid[c]].live
      BY <1>0, <2>1, <2>3, <3>2 DEF Handed, Asked, CompleteSteps
    <3> QED BY <3>1, <3>2
  <2>5. upid[c] # NoId
    BY <2>1 DEF TypeInv, HasId, WithId, CompleteSteps
  <2>6. upid[c] \in UploadIDs /\ FileOf[upid[c]] = FileOf[c]
    BY <2>5 DEF TypeInv, TypeOK, SessionOwnsOneFile
  <2>7. \A u \in UploadIDs : u = upid[c] \/ mp'[u] = mp[u]
    BY <1>8 DEF DeleteSession, TypeInv, TypeOK
  <2>8. \A u \in UploadIDs : mp[u].live => mp'[u].live \/ HandedOn(FileOf[u])'
    BY <2>4, <2>6, <2>7
  <2>9. \A d \in Clients : pc'[d] = "reguser" => ~ ferr'[d]
    BY <1>0, <2>1, <2>2 DEF Handed
  <2>10. pc'[c] \notin Asked
    BY <2>2 DEF Asked, CompleteSteps
  <2> QED BY <1>0, <2>1, <2>2, <2>3, <2>4, <2>8, <2>9, <2>10, HandedStays
<1>10. \A c \in Clients : ~ InitHandlerFails(c) /\ ~ CheckCompleteFails(c)
                            /\ ~ DeleteFails(c)
  BY <1>9, BadKinds DEF InitHandlerFails, LookupSessionFails, GetOrListFails,
     SessionWritesFail, CheckCompleteFails, DeleteFails
<1>11. CASE UNCHANGED vars
  BY <1>0, <1>11, MovesOn DEF vars, redis, mysql, run
<1>12. /\ \A f \in Files : ~ ExpireHashKey(f)
       /\ \A u \in UploadIDs : ~ ExpireSession(u)
       /\ ~ Crash
  BY <1>9, BadKinds DEF ExpireHashKey, ExpireSession, Crash
<1>13. ASSUME NEW c \in Clients, ClientNext(c) PROVE Handed'
  BY <1>1, <1>2, <1>3, <1>4, <1>5, <1>6, <1>7, <1>8, <1>10, <1>13
     DEF ClientNext, InitHandler, CompleteHandler, CompleteHandlerFails
<1> QED BY <1>11, <1>12, <1>13 DEF Next

\* When every request is over, a registered file has its transfer message,
\* though several Completes of a session overlap and only one of them finds
\* it: unless redis, dbproxy, the queue or the service fails.
THEOREM PublicationSafe == Spec => []RegisteredIsPublished
<1>1. Init => HandedUnlessFault
  BY DEF Init, HandedUnlessFault, Handed, Asked, CompleteSteps
<1>2. TypeInv /\ SessionOwnsOneFile /\ HandedUnlessFault /\ [Next]_vars
        => HandedUnlessFault'
  BY HandedStep DEF HandedUnlessFault
<1>3. HandedUnlessFault => RegisteredIsPublished
  <2> SUFFICES ASSUME Handed, Quiet, NEW f \in fileTbl
               PROVE  f \in published
    BY DEF HandedUnlessFault, RegisteredIsPublished, Bad
  <2>1. \A c \in Clients : pc[c] # "publish" /\ pc[c] \notin Ending
    BY DEF Quiet, Busy, Over, Ending
  <2> QED BY <2>1 DEF Handed, HandedOn
<1> QED BY <1>1, <1>2, <1>3, TypeInvariant, SessionsSafe, PTL DEF Spec

=============================================================================
