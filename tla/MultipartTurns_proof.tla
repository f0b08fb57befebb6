------------------------- MODULE MultipartTurns_proof -------------------------
(***************************************************************************)
(* Theorems about MultipartUpload that compare what redis counts with what *)
(* is on disk: the merge finds every chunk, a client that resumes finds    *)
(* the listed chunks whole, a registered file is whole, and the upload     *)
(* keeps the promise of UploadPromise.                                     *)
(***************************************************************************)
EXTENDS MultipartUpload_proof, FiniteSetTheorems

USE ConstantsAssumption DEF UploadIDs

-----------------------------------------------------------------------------
(***************************************************************************)
(* What a handler leaves alone.  The Init handler runs while its client    *)
(* has no chunk request; a chunk request moves alone; the merge writes no  *)
(* chunk file.                                                             *)
(***************************************************************************)
LEMMA InitShape ==
    ASSUME TypeInv, NEW c \in Clients, InitHandler(c) \/ InitHandlerFails(c)
    PROVE  /\ UNCHANGED <<disk, mysql, published, part, left, off, ferr>>
           /\ pc[c] \in {"idle"} \cup InitSteps
           /\ pc'[c] \in InitSteps \cup {"have"} \cup Over
           /\ pc'[c] = "lookup" => pc[c] = "idle"
           /\ \A d \in Clients \ {c} : pc'[d] = pc[d] /\ upid'[d] = upid[d] /\ found'[d] = found[d]
           /\ \A u \in UploadIDs : mp'[u].done = mp[u].done
<1> USE DEF TypeInv, TypeOK, InitSteps, Over, Goto, redis
<1>1. CASE CheckUserFile(c)      BY <1>1 DEF CheckUserFile
<1>2. CASE LookupSession(c)      BY <1>2 DEF LookupSession
<1>3. CASE LookupSessionFails(c) BY <1>3 DEF LookupSessionFails
<1>4. CASE GetSession(c)         BY <1>4 DEF GetSession
<1>5. CASE ListChunks(c)         BY <1>5 DEF ListChunks
<1>6. CASE GetOrListFails(c)     BY <1>6 DEF GetOrListFails
<1>7. CASE SetChunkCount(c)      BY <1>7 DEF SetChunkCount
<1>8. CASE SetSessionTTL(c)      BY <1>8 DEF SetSessionTTL
<1>9. CASE SetHashKey(c)         BY <1>9 DEF SetHashKey
<1>10. CASE SessionWritesFail(c) BY <1>10 DEF SessionWritesFail
<1> QED BY <1>1, <1>2, <1>3, <1>4, <1>5, <1>6, <1>7, <1>8, <1>9, <1>10
        DEF InitHandler, InitHandlerFails

\* The names of sessions: a client keeps its own, makes one up that is its
\* own, or reads the hash key of its file.
LEMMA InitNames ==
    ASSUME TypeInv, NEW c \in Clients, InitHandler(c) \/ InitHandlerFails(c)
    PROVE  /\ \/ upid'[c] = upid[c]
              \/ upid'[c] = c /\ pc'[c] \notin {"idle", "lookup"}
              \/ hashUp[FileOf[c]] # NoId /\ upid'[c] = hashUp[FileOf[c]]
           /\ \A f \in Files : \/ hashUp'[f] = hashUp[f]
                               \/ f = FileOf[c] /\ hashUp'[f] = upid[c]
<1> USE DEF TypeInv, TypeOK, Goto, redis
<1>1. CASE CheckUserFile(c)      BY <1>1 DEF CheckUserFile
<1>2. CASE LookupSession(c)      BY <1>2 DEF LookupSession
<1>3. CASE LookupSessionFails(c) BY <1>3 DEF LookupSessionFails
<1>4. CASE GetSession(c)         BY <1>4 DEF GetSession
<1>5. CASE ListChunks(c)         BY <1>5 DEF ListChunks
<1>6. CASE GetOrListFails(c)     BY <1>6 DEF GetOrListFails
<1>7. CASE SetChunkCount(c)      BY <1>7 DEF SetChunkCount
<1>8. CASE SetSessionTTL(c)      BY <1>8 DEF SetSessionTTL
<1>9. CASE SetHashKey(c)         BY <1>9 DEF SetHashKey
<1>10. CASE SessionWritesFail(c) BY <1>10 DEF SessionWritesFail
<1> QED BY <1>1, <1>2, <1>3, <1>4, <1>5, <1>6, <1>7, <1>8, <1>9, <1>10
        DEF InitHandler, InitHandlerFails

LEMMA PartShape ==
    ASSUME TypeInv, NEW c \in Clients, NEW i \in AllChunks,
           StartPart(c, i) \/ PartHandler(c, i) \/ PartHandlerFails(c, i)
    PROVE  /\ UNCHANGED <<hashUp, merged, mysql, published, pc, upid, found, left, off, ferr>>
           /\ \A d \in Clients, j \in AllChunks :
                d # c \/ j # i => part'[d][j] = part[d][j]
           /\ \/ StartPart(c, i)
              \/ part[c][i].at \in PartSteps
<1>1. UNCHANGED <<hashUp, merged, mysql, published, pc, upid, found, left, off, ferr>>
  BY DEF StartPart, PartHandler, PartHandlerFails, CreateChunk, CreateChunkFails,
         WritePiece, CutBody, VerifyChunk, MarkChunk, MarkChunkFails, redis, disk
<1>2. \A d \in Clients, j \in AllChunks :
        d # c \/ j # i => part'[d][j] = part[d][j]
  BY DEF StartPart, PartHandler, PartHandlerFails, CreateChunk, CreateChunkFails,
         WritePiece, CutBody, VerifyChunk, MarkChunk, MarkChunkFails, PartGoto,
         TypeInv, TypeOK
<1>3. StartPart(c, i) \/ part[c][i].at \in PartSteps
  BY DEF PartHandler, PartHandlerFails, CreateChunk, CreateChunkFails,
         WritePiece, CutBody, VerifyChunk, MarkChunk, MarkChunkFails, PartSteps
<1> QED BY <1>1, <1>2, <1>3

\* A client that has asked for the merge.
CompleteStep(c) ==
    CallComplete(c) \/ CompleteHandler(c) \/ CompleteHandlerFails(c) \/ Leave(c)

LEMMA CompleteShape ==
    ASSUME TypeInv, NEW c \in Clients, CompleteStep(c)
    PROVE  /\ UNCHANGED <<made, dir, body, part, upid, found>>
           /\ pc[c] \in {"have"} \cup CompleteSteps
           /\ pc'[c] \in CompleteSteps \cup Over
           /\ \A d \in Clients \ {c} : pc'[d] = pc[d]
<1>1. UNCHANGED <<made, dir, body, part, upid, found>>
  BY DEF CompleteStep, CallComplete, CompleteHandler, CompleteHandlerFails, CheckComplete,
         CheckCompleteFails, StartMerge, CatChunk, CopyPiece, MergeFails, RegisterFile, RegisterUserFile,
         DeleteHashKey, DeleteSession, DeleteFails, PublishTransfer, Leave, disk
<1>2. \/ \E step \in CompleteSteps \cup Over : Goto(c, step)
      \/ pc[c] = "cat" /\ UNCHANGED pc
  BY DEF CompleteStep, CallComplete, CompleteHandler, CompleteHandlerFails, CheckComplete,
         CheckCompleteFails, StartMerge, CatChunk, CopyPiece, MergeFails, RegisterFile, RegisterUserFile,
         DeleteHashKey, DeleteSession, DeleteFails, PublishTransfer, Leave, CompleteSteps,
         Over
<1>3. pc[c] \in {"have"} \cup CompleteSteps
  BY DEF CompleteStep, CallComplete, CompleteHandler, CompleteHandlerFails, CheckComplete,
         CheckCompleteFails, StartMerge, CatChunk, CopyPiece, MergeFails, RegisterFile, RegisterUserFile,
         DeleteHashKey, DeleteSession, DeleteFails, PublishTransfer, Leave, CompleteSteps
<1> QED BY <1>1, <1>2, <1>3, OneMoves DEF CompleteSteps

\* The session that a Complete deletes, and the hash key it deletes before.
LEMMA CompleteRedis ==
    ASSUME TypeInv, NEW c \in Clients, CompleteStep(c)
    PROVE  /\ UNCHANGED mp \/ (DeleteSession(c) /\ mp' = [mp EXCEPT ![upid[c]] = NoSession])
           /\ UNCHANGED hashUp \/ (DeleteHashKey(c) /\ hashUp' = [hashUp EXCEPT ![FileOf[c]] = NoId])
BY DEF CompleteStep, CallComplete, CompleteHandler, CompleteHandlerFails, CheckComplete,
       CheckCompleteFails, StartMerge, CatChunk, CopyPiece, MergeFails, RegisterFile, RegisterUserFile,
       DeleteHashKey, DeleteSession, DeleteFails, PublishTransfer, Leave, redis

LEMMA ExpiryShape ==
    ASSUME TypeInv,
           (\E f \in Files : ExpireHashKey(f)) \/ (\E u \in UploadIDs : ExpireSession(u))
    PROVE  /\ UNCHANGED <<disk, mysql, published, run>>
           /\ \A f \in Files : hashUp'[f] \in {hashUp[f], NoId}
           /\ \A u \in UploadIDs : mp'[u] \in {mp[u], NoSession}
BY DEF ExpireHashKey, ExpireSession, TypeInv, TypeOK

LEMMA CrashShape ==
    ASSUME TypeInv, Crash
    PROVE  /\ UNCHANGED <<redis, disk, mysql, published, upid, found, left, off, ferr>>
           /\ \A c \in Clients :
                /\ pc'[c] = pc[c] \/ pc'[c] = "gone"
                /\ pc'[c] \notin InitSteps \cup CompleteSteps
           /\ \A c \in Clients, i \in AllChunks :
                /\ part'[c][i] = part[c][i] \/ part'[c][i].at = "lost"
                /\ part'[c][i].at = "none" <=> part[c][i].at = "none"
                /\ part'[c][i].at \notin PartSteps
BY DEF Crash, TypeInv, TypeOK, PartSteps, InitSteps, CompleteSteps

-----------------------------------------------------------------------------
(***************************************************************************)
(* Which chunks and sessions belong together, whatever fails: a session    *)
(* has chunks of its file only, and a directory only if the file has some; *)
(* a client posts what its Init did not list, has no request under way when it asks for the merge, and the uploadID   *)
(* it would make up is not in use before.                                  *)
(***************************************************************************)
PartsFit ==
    \A c \in Clients : \A i \in AllChunks :
      part[c][i].at # "none" => i \in Missing(c)

StoresFit ==
    \A u \in UploadIDs :
      /\ mp[u].done \subseteq Chunks(FileOf[u])
      /\ dir[u] \subseteq Chunks(FileOf[u])
      /\ u \in made => Chunks(FileOf[u]) # {}

AllPosted ==
    \A c \in Clients : pc[c] \in CompleteSteps =>
      \A i \in AllChunks : part[c][i].at \notin PartSteps

FreshIsUnused ==
    \A c \in Clients : pc[c] \in {"idle", "lookup"} =>
      /\ mp[c].done = {}
      /\ \A d \in Clients : upid[d] # c
      /\ \A f \in Files : hashUp[f] # c

FitInv == PartsFit /\ StoresFit /\ AllPosted /\ FreshIsUnused

LEMMA InitFit ==
    ASSUME TypeInv, StoreInv, FitInv, NEW c \in Clients,
           InitHandler(c) \/ InitHandlerFails(c)
    PROVE  FitInv'
<1>0. \A i \in AllChunks : part[c][i].at = "none"
  BY InitShape DEF StoreInv, PartsAfterInit
<1>1. PartsFit'
  <2> SUFFICES ASSUME NEW d \in Clients, NEW i \in AllChunks, part'[d][i].at # "none"
               PROVE  i \in Missing(d)'
    BY DEF PartsFit
  <2>1. d # c /\ part[d][i].at # "none"
    BY <1>0, InitShape
  <2> QED BY <2>1, InitShape DEF FitInv, PartsFit, Missing
<1>2. StoresFit'
  BY InitShape DEF FitInv, StoresFit, disk
<1>3. AllPosted'
  BY InitShape DEF FitInv, AllPosted, CompleteSteps, InitSteps, Over
<1>4. FreshIsUnused'
  <2> SUFFICES ASSUME NEW e \in Clients, pc'[e] \in {"idle", "lookup"}
               PROVE  /\ mp'[e].done = {}
                      /\ \A d \in Clients : upid'[d] # e
                      /\ \A f \in Files : hashUp'[f] # e
    BY DEF FreshIsUnused
  <2>1. pc[e] \in {"idle", "lookup"}
    BY InitShape DEF InitSteps, Over
  <2>2. /\ mp[e].done = {}
        /\ \A d \in Clients : upid[d] # e
        /\ \A f \in Files : hashUp[f] # e
    BY <2>1 DEF FitInv, FreshIsUnused
  <2>3. mp'[e].done = {}
    BY <2>2, InitShape
  <2>4. \A d \in Clients : upid'[d] # e
    BY <2>2, InitShape, InitNames
  <2>5. \A f \in Files : hashUp'[f] # e
    BY <2>2, InitNames
  <2> QED BY <2>3, <2>4, <2>5
<1> QED BY <1>1, <1>2, <1>3, <1>4 DEF FitInv

LEMMA PartFit ==
    ASSUME TypeInv, StoreInv, SessionOwnsOneFile, FitInv, NEW c \in Clients,
           NEW i \in AllChunks,
           StartPart(c, i) \/ PartHandler(c, i) \/ PartHandlerFails(c, i)
    PROVE  FitInv'
<1>1. i \in Missing(c) /\ pc[c] \notin CompleteSteps \cup {"idle", "lookup"}
  <2>1. CASE StartPart(c, i)
    BY <2>1 DEF StartPart, CompleteSteps
  <2>2. CASE part[c][i].at \in PartSteps
    BY <2>2 DEF FitInv, PartsFit, AllPosted, PartSteps, StoreInv, PartsAfterInit, InitSteps
  <2> QED BY <2>1, <2>2, PartShape
<1>2. upid[c] \in UploadIDs /\ FileOf[upid[c]] = FileOf[c]
  <2>1. upid[c] # NoId
    <3>1. CASE StartPart(c, i)
      BY <3>1 DEF StartPart, TypeInv, HasId, WithId
    <3>2. CASE part[c][i].at \in PartSteps
      BY <3>2 DEF TypeInv, PartsHaveId, PartSteps
    <3> QED BY <3>1, <3>2, PartShape
  <2> QED BY <2>1 DEF TypeInv, TypeOK, SessionOwnsOneFile
<1>3. i \in Chunks(FileOf[upid[c]])
  BY <1>1, <1>2 DEF Missing
<1>4. PartsFit'
  <2> SUFFICES ASSUME NEW d \in Clients, NEW j \in AllChunks, part'[d][j].at # "none"
               PROVE  j \in Missing(d)'
    BY DEF PartsFit
  <2>1. UNCHANGED found
    BY PartShape
  <2>2. CASE d = c /\ j = i
    BY <2>1, <2>2, <1>1 DEF Missing
  <2>3. CASE d # c \/ j # i
    BY <2>1, <2>3, PartShape DEF FitInv, PartsFit, Missing
  <2> QED BY <2>2, <2>3
<1>5. \A u \in UploadIDs :
        /\ mp'[u].done = mp[u].done \/ (u = upid[c] /\ mp'[u].done = mp[u].done \cup {i})
        /\ dir'[u] = dir[u] \/ (u = upid[c] /\ dir'[u] = dir[u] \cup {i})
        /\ u \in made' => u \in made \/ u = upid[c]
  <2>1. CASE CreateChunk(c, i) \/ CreateChunkFails(c, i)
    BY <2>1 DEF CreateChunk, CreateChunkFails, redis, TypeInv, TypeOK
  <2>2. CASE MarkChunk(c, i)
    BY <2>2 DEF MarkChunk, disk, TypeInv, TypeOK
  <2>3. CASE UNCHANGED <<mp, dir, made>>
    BY <2>3
  <2> QED BY <2>1, <2>2, <2>3 DEF StartPart, PartHandler, PartHandlerFails,
          CreateChunkFails, WritePiece, CutBody, VerifyChunk, MarkChunkFails, redis, disk
<1>6. StoresFit'
  BY <1>3, <1>5 DEF FitInv, StoresFit
<1>7. AllPosted'
  <2> SUFFICES ASSUME NEW d \in Clients, pc'[d] \in CompleteSteps, NEW j \in AllChunks
               PROVE  part'[d][j].at \notin PartSteps
    BY DEF AllPosted
  <2>1. pc[d] \in CompleteSteps /\ d # c
    BY <1>1, PartShape
  <2> QED BY <2>1, PartShape DEF FitInv, AllPosted
<1>8. FreshIsUnused'
  <2> SUFFICES ASSUME NEW e \in Clients, pc'[e] \in {"idle", "lookup"}
               PROVE  /\ mp'[e].done = {}
                      /\ \A d \in Clients : upid'[d] # e
                      /\ \A f \in Files : hashUp'[f] # e
    BY DEF FreshIsUnused
  <2>1. UNCHANGED <<pc, upid, hashUp>>
    BY PartShape
  <2>2. /\ mp[e].done = {}
        /\ \A d \in Clients : upid[d] # e
        /\ \A f \in Files : hashUp[f] # e
    BY <2>1 DEF FitInv, FreshIsUnused
  <2>3. mp'[e].done = {}
    BY <2>2, <1>5
  <2> QED BY <2>1, <2>2, <2>3
<1> QED BY <1>4, <1>6, <1>7, <1>8 DEF FitInv

LEMMA CompleteFit ==
    ASSUME TypeInv, FitInv, NEW c \in Clients, CompleteStep(c)
    PROVE  FitInv'
<1>1. \A u \in UploadIDs : mp'[u].done \subseteq mp[u].done
  <2>1. \A u \in UploadIDs : mp'[u] \in {mp[u], NoSession}
    BY CompleteRedis DEF TypeInv, TypeOK
  <2> QED BY <2>1 DEF NoSession
<1>2. \A f \in Files : hashUp'[f] \in {hashUp[f], NoId}
  BY CompleteRedis DEF TypeInv, TypeOK
<1>3. \A d \in Clients : pc'[d] \in {"idle", "lookup"} => pc[d] \in {"idle", "lookup"}
  BY CompleteShape DEF CompleteSteps, Over
<1>4. FreshIsUnused'
  BY <1>1, <1>2, <1>3, CompleteShape DEF FitInv, FreshIsUnused
<1>5. AllPosted'
  <2>1. CASE CallComplete(c)
    BY <2>1, CompleteShape DEF CallComplete, FitInv, AllPosted
  <2>2. CASE pc[c] \in CompleteSteps
    BY <2>2, CompleteShape DEF FitInv, AllPosted
  <2>3. CASE Leave(c)
    BY <2>3, CompleteShape DEF Leave, Goto, TypeInv, TypeOK, FitInv, AllPosted, CompleteSteps
  <2>4. CompleteHandler(c) \/ CompleteHandlerFails(c) => pc[c] \in CompleteSteps
    BY DEF CompleteHandler, CompleteHandlerFails, CheckComplete, CheckCompleteFails,
       StartMerge, CatChunk, CopyPiece, MergeFails, RegisterFile, RegisterUserFile, DeleteHashKey,
       DeleteSession, DeleteFails, PublishTransfer, CompleteSteps
  <2> QED BY <2>1, <2>2, <2>3, <2>4 DEF CompleteStep
<1> QED BY <1>1, <1>4, <1>5, CompleteShape DEF FitInv, PartsFit, StoresFit, Missing

LEMMA FitStep ==
    ASSUME TypeInv, StoreInv, SessionOwnsOneFile, FitInv, [Next]_vars
    PROVE  FitInv'
<1>1. ASSUME NEW c \in Clients, ClientNext(c) PROVE FitInv'
  BY <1>1, InitFit, PartFit, CompleteFit DEF ClientNext, CompleteStep
<1>2. CASE (\E f \in Files : ExpireHashKey(f)) \/ (\E u \in UploadIDs : ExpireSession(u))
  <2>1. \A u \in UploadIDs : mp'[u].done \subseteq mp[u].done
    BY <1>2, ExpiryShape DEF NoSession
  <2> QED BY <1>2, <2>1, ExpiryShape
          DEF FitInv, PartsFit, StoresFit, AllPosted, FreshIsUnused, Missing, run, disk
<1>3. CASE Crash
  <2> USE <1>3, CrashShape
  <2>1. PartsFit'
    BY DEF FitInv, PartsFit, Missing
  <2>2. StoresFit'
    BY DEF FitInv, StoresFit, redis, disk
  <2>3. AllPosted'
    BY DEF AllPosted
  <2>4. FreshIsUnused'
    BY DEF FitInv, FreshIsUnused, redis
  <2> QED BY <2>1, <2>2, <2>3, <2>4 DEF FitInv
<1>4. CASE UNCHANGED vars
  BY <1>4 DEF vars, redis, disk, run, FitInv, PartsFit, StoresFit, AllPosted,
     FreshIsUnused, Missing
<1> QED BY <1>1, <1>2, <1>3, <1>4 DEF Next

LEMMA Fits == Spec => []FitInv
<1>1. Init => FitInv
  BY DEF Init, FitInv, PartsFit, StoresFit, AllPosted, FreshIsUnused, NoSession,
     CompleteSteps
<1>2. TypeInv /\ StoreInv /\ SessionOwnsOneFile /\ FitInv /\ [Next]_vars => FitInv'
  BY FitStep
<1> QED BY <1>1, <1>2, StoreInit, StoreStep, TypeInvariant, SessionsSafe, PTL DEF Spec

\* Redis counts as many chunks as it marks only when it marks all of them.
LEMMA CountIsAll ==
    ASSUME NEW f \in Files, NEW S \in SUBSET Chunks(f), Cardinality(S) = ChunkCount(f)
    PROVE  S = Chunks(f)
<1>1. ChunkCount(f) \in Nat
  BY ChunkCountType
<1>2. IsFiniteSet(Chunks(f)) /\ Cardinality(Chunks(f)) = ChunkCount(f)
  BY <1>1, FS_Interval DEF Chunks
<1> QED BY <1>2, FS_Subset

\* Where a client has a session that it may ask to merge, and where it has
\* found all of its chunks marked.
InSession == {"list", "setttl", "sethash", "have", "check"}
PastCheck == {"merge", "cat", "regfile", "reguser", "delhash", "delsession"}

-----------------------------------------------------------------------------
(***************************************************************************)
(* The merge.  While redis keeps what it was told, a session that a client *)
(* works with is there with its chunkcount, or another client has merged   *)
(* it, and then its directory has every chunk.                             *)
(***************************************************************************)
Counted(u) == mp[u].live /\ mp[u].count = ChunkCount(FileOf[u])
Stored(u)  == Chunks(FileOf[u]) \subseteq dir[u]
Kept(u)    == Counted(u) \/ Stored(u)

CountInv ==
    /\ \A f \in Files : hashUp[f] # NoId => Kept(hashUp[f])
    /\ \A c \in Clients : pc[c] \in InSession => Kept(upid[c])
    /\ \A c \in Clients : pc[c] \in PastCheck => Stored(upid[c])

RedisKeeps == Never({"expire", "redis"})
CountsKept == RedisKeeps => CountInv

\* Who is in a session has one.
LEMMA InSessionHasId ==
    ASSUME TypeInv, NEW c \in Clients, pc[c] \in InSession \cup PastCheck \cup {"setcount"}
    PROVE  upid[c] \in UploadIDs
BY DEF TypeInv, TypeOK, HasId, WithId, InSession, PastCheck, CompleteSteps

\* A step keeps the counts if no session of a client is touched but that of
\* the client that moves, and that one is counted or stored in the end.
LEMMA CountStays ==
    ASSUME TypeInv, CountInv,
           \A u \in UploadIDs : Kept(u) => Kept(u)',
           \A u \in UploadIDs : dir[u] \subseteq dir'[u],
           \A f \in Files : \/ hashUp'[f] \in {hashUp[f], NoId}
                            \/ Kept(hashUp[f])',
           \A c \in Clients :
             /\ pc'[c] \in InSession =>
                  \/ pc[c] \in InSession /\ upid'[c] = upid[c]
                  \/ Kept(upid[c])'
             /\ pc'[c] \in PastCheck =>
                  \/ pc[c] \in PastCheck /\ upid'[c] = upid[c]
                  \/ Stored(upid[c])'
    PROVE  CountInv'
<1>1. ASSUME NEW f \in Files, hashUp'[f] # NoId
      PROVE  Kept(hashUp[f])'
  <2>1. CASE hashUp'[f] = hashUp[f]
    <3>1. hashUp[f] \in UploadIDs
      BY <1>1, <2>1 DEF TypeInv, TypeOK
    <3>2. Kept(hashUp[f])
      BY <1>1, <2>1 DEF CountInv
    <3> QED BY <2>1, <3>1, <3>2 DEF Kept, Counted, Stored
  <2> QED BY <1>1, <2>1
<1>2. ASSUME NEW c \in Clients, pc'[c] \in InSession
      PROVE  Kept(upid[c])'
  <2>1. CASE pc[c] \in InSession /\ upid'[c] = upid[c]
    <3>1. Kept(upid[c])
      BY <2>1 DEF CountInv
    <3> QED BY <2>1, <3>1, InSessionHasId DEF Kept, Counted, Stored
  <2> QED BY <1>2, <2>1
<1>3. ASSUME NEW c \in Clients, pc'[c] \in PastCheck PROVE Stored(upid[c])'
  <2>1. CASE pc[c] \in PastCheck /\ upid'[c] = upid[c]
    <3>1. Stored(upid[c])
      BY <2>1 DEF CountInv
    <3> QED BY <2>1, <3>1, InSessionHasId DEF Stored
  <2> QED BY <1>3, <2>1
<1> QED BY <1>1, <1>2, <1>3 DEF CountInv

LEMMA InitCounts ==
    ASSUME TypeInv, SessionOwnsOneFile, CountInv, ~ Fault("redis"),
           NEW c \in Clients, InitHandler(c) \/ InitHandlerFails(c)
    PROVE  CountInv'
<1>1. ~ InitHandlerFails(c)
  BY DEF InitHandlerFails, LookupSessionFails, GetOrListFails, SessionWritesFail
<1>2. \A d \in Clients \ {c} : pc'[d] = pc[d] /\ upid'[d] = upid[d]
  BY InitShape
<1>3. UNCHANGED dir
  BY InitShape DEF disk
<1>4. ASSUME UNCHANGED mp,
             \A f \in Files : hashUp'[f] \in {hashUp[f], NoId} \/ Kept(hashUp[f])',
             pc'[c] \in InSession => Kept(upid[c])',
             pc'[c] \notin PastCheck
      PROVE  CountInv'
  <2>1. \A u \in UploadIDs : Kept(u) => Kept(u)'
    BY <1>3, <1>4 DEF Kept, Counted, Stored
  <2> QED BY <2>1, <1>2, <1>3, <1>4, CountStays
<1>5. CASE CheckUserFile(c) \/ LookupSession(c)
  <2>1. UNCHANGED <<mp, hashUp>> /\ pc'[c] \notin InSession \cup PastCheck
    BY <1>5 DEF CheckUserFile, LookupSession, redis, Goto, InSession, PastCheck,
       TypeInv, TypeOK
  <2> QED BY <2>1, <1>4
<1>6. CASE GetSession(c)
  <2>1. UNCHANGED <<mp, hashUp>>
    BY <1>6 DEF GetSession, redis
  <2>2. \/ pc'[c] = "initfail"
        \/ pc'[c] = "list" /\ hashUp[FileOf[c]] # NoId /\ upid'[c] = hashUp[FileOf[c]]
    BY <1>6 DEF GetSession, Goto, TypeInv, TypeOK
  <2>3. pc'[c] \in InSession => Kept(upid[c])'
    BY <1>3, <2>1, <2>2 DEF CountInv, Kept, Counted, Stored, InSession
  <2> QED BY <2>1, <2>2, <2>3, <1>4 DEF PastCheck
<1>7. CASE ListChunks(c)
  <2>1. UNCHANGED <<mp, hashUp, upid>> /\ pc[c] = "list" /\ pc'[c] \in {"setcount", "have"}
    BY <1>7 DEF ListChunks, redis, Goto, TypeInv, TypeOK
  <2>2. Kept(upid[c])'
    BY <1>3, <2>1 DEF CountInv, Kept, Counted, Stored, InSession
  <2> QED BY <2>1, <2>2, <1>4 DEF PastCheck
<1>8. CASE SetChunkCount(c)
  <2>1. UNCHANGED <<hashUp, upid>> /\ pc[c] = "setcount" /\ pc'[c] = "setttl"
    BY <1>8 DEF SetChunkCount, Goto, TypeInv, TypeOK
  <2>2. upid[c] \in UploadIDs /\ FileOf[upid[c]] = FileOf[c]
    BY <2>1, InSessionHasId DEF SessionOwnsOneFile
  <2>3. /\ mp'[upid[c]].live /\ mp'[upid[c]].count = ChunkCount(FileOf[c])
        /\ \A u \in UploadIDs : u # upid[c] => mp'[u] = mp[u]
    BY <1>8, <2>2 DEF SetChunkCount, TypeInv, TypeOK
  <2>4. Kept(upid[c])'
    BY <2>1, <2>2, <2>3 DEF Kept, Counted
  <2>5. \A u \in UploadIDs : Kept(u) => Kept(u)'
    BY <1>3, <2>2, <2>3 DEF Kept, Counted, Stored
  <2> QED BY <1>2, <1>3, <2>1, <2>4, <2>5, CountStays DEF PastCheck
<1>9. CASE SetSessionTTL(c)
  <2>1. UNCHANGED <<hashUp, upid>> /\ pc[c] = "setttl" /\ pc'[c] = "sethash"
    BY <1>9 DEF SetSessionTTL, Goto, TypeInv, TypeOK
  <2>2. \A u \in UploadIDs : mp'[u].live = mp[u].live /\ mp'[u].count = mp[u].count
    BY <1>9 DEF SetSessionTTL, TypeInv, TypeOK
  <2>3. \A u \in UploadIDs : Kept(u) => Kept(u)'
    BY <1>3, <2>2 DEF Kept, Counted, Stored
  <2> QED BY <1>2, <1>3, <2>1, <2>3, CountStays DEF InSession, PastCheck
<1>10. CASE SetHashKey(c)
  <2>1. UNCHANGED <<mp, upid>> /\ pc[c] = "sethash" /\ pc'[c] = "have"
    BY <1>10 DEF SetHashKey, Goto, TypeInv, TypeOK
  <2>2. Kept(upid[c])
    BY <2>1 DEF CountInv, InSession
  <2>3. \A f \in Files : hashUp'[f] \in {hashUp[f], NoId} \/ Kept(hashUp[f])'
    BY <1>3, <2>1, <2>2, InitNames DEF Kept, Counted, Stored
  <2>4. Kept(upid[c])'
    BY <1>3, <2>1, <2>2 DEF Kept, Counted, Stored
  <2> QED BY <2>1, <2>3, <2>4, <1>4 DEF PastCheck
<1> QED BY <1>1, <1>5, <1>6, <1>7, <1>8, <1>9, <1>10 DEF InitHandler

LEMMA PartCounts ==
    ASSUME TypeInv, CountInv, NEW c \in Clients, NEW i \in AllChunks,
           StartPart(c, i) \/ PartHandler(c, i) \/ PartHandlerFails(c, i)
    PROVE  CountInv'
<1>1. \A u \in UploadIDs :
        /\ mp[u].live => mp'[u].live
        /\ mp'[u].count = mp[u].count
        /\ dir[u] \subseteq dir'[u]
  <2>1. CASE CreateChunk(c, i)
    BY <2>1 DEF CreateChunk, redis, TypeInv, TypeOK
  <2>2. CASE MarkChunk(c, i)
    BY <2>2 DEF MarkChunk, disk, TypeInv, TypeOK
  <2>3. CASE UNCHANGED <<mp, dir>>
    BY <2>3
  <2> QED BY <2>1, <2>2, <2>3 DEF StartPart, PartHandler, PartHandlerFails,
          CreateChunkFails, WritePiece, CutBody, VerifyChunk, MarkChunkFails, redis, disk
<1>2. \A u \in UploadIDs : Kept(u) => Kept(u)'
  BY <1>1 DEF Kept, Counted, Stored
<1> QED BY <1>1, <1>2, PartShape, CountStays

\* The check lets a client pass that finds every chunk marked, and each has a
\* chunk file; or its session is gone, and then another client passed before.
LEMMA CheckedIsStored ==
    ASSUME TypeInv, StoreInv, SessionOwnsOneFile, FitInv, CountInv, NEW c \in Clients,
           CheckComplete(c), pc'[c] = "merge"
    PROVE  Stored(upid[c])
<1>1. pc[c] = "check" /\ mp[upid[c]].count = Cardinality(mp[upid[c]].done)
  BY DEF CheckComplete, Goto, TypeInv, TypeOK
<1>2. upid[c] \in UploadIDs /\ Kept(upid[c])
  BY <1>1, InSessionHasId DEF CountInv, InSession
<1>3. CASE Counted(upid[c])
  <2>1. mp[upid[c]].done = Chunks(FileOf[upid[c]])
    <3>1. FileOf[upid[c]] \in Files
      BY <1>2
    <3>2. mp[upid[c]].done \in SUBSET Chunks(FileOf[upid[c]])
      BY <1>2 DEF FitInv, StoresFit
    <3>3. Cardinality(mp[upid[c]].done) = ChunkCount(FileOf[upid[c]])
      BY <1>1, <1>3 DEF Counted
    <3> QED BY <3>1, <3>2, <3>3, CountIsAll
  <2> QED BY <1>2, <2>1 DEF StoreInv, MarkedIsStored, Stored
<1> QED BY <1>2, <1>3 DEF Kept

LEMMA CompleteCounts ==
    ASSUME TypeInv, StoreInv, SessionOwnsOneFile, FitInv, CountInv, NEW c \in Clients,
           CompleteStep(c)
    PROVE  CountInv'
<1>1. UNCHANGED <<dir, upid>> /\ \A d \in Clients \ {c} : pc'[d] = pc[d]
  BY CompleteShape
<1>2. \A f \in Files : hashUp'[f] \in {hashUp[f], NoId}
  BY CompleteRedis DEF TypeInv, TypeOK
<1>3. \A u \in UploadIDs : Kept(u) => Kept(u)'
  <2>1. CASE DeleteSession(c) /\ mp' = [mp EXCEPT ![upid[c]] = NoSession]
    <3>1. Stored(upid[c])
      BY <2>1 DEF DeleteSession, CountInv, PastCheck
    <3>2. \A u \in UploadIDs : u # upid[c] => mp'[u] = mp[u]
      BY <2>1 DEF TypeInv, TypeOK
    <3> QED BY <1>1, <3>1, <3>2 DEF Kept, Counted, Stored
  <2>2. CASE UNCHANGED mp
    BY <1>1, <2>2 DEF Kept, Counted, Stored
  <2> QED BY <2>1, <2>2, CompleteRedis
<1>4. /\ pc'[c] \in InSession => pc[c] \in InSession
      /\ pc'[c] \in PastCheck => pc[c] \in PastCheck \/ Stored(upid[c])'
  <2>1. CASE CheckComplete(c)
    <3>1. pc[c] = "check" /\ pc'[c] \in {"merge", "incomplete"}
      BY <2>1 DEF CheckComplete, Goto, TypeInv, TypeOK
    <3> QED BY <1>1, <2>1, <3>1, CheckedIsStored DEF InSession, PastCheck, Stored
  <2>2. CASE ~ CheckComplete(c)
    BY <2>2 DEF CompleteStep, CallComplete, CompleteHandler, CompleteHandlerFails,
       CheckCompleteFails, StartMerge, CatChunk, CopyPiece, MergeFails, RegisterFile,
       RegisterUserFile, DeleteHashKey, DeleteSession, DeleteFails, PublishTransfer,
       Leave, Goto, InSession, PastCheck, TypeInv, TypeOK
  <2> QED BY <2>1, <2>2
<1> QED BY <1>1, <1>2, <1>3, <1>4, CountStays

LEMMA CountStep ==
    ASSUME TypeInv, StoreInv, SessionOwnsOneFile, FitInv, CountsKept, [Next]_vars,
           RedisKeeps'
    PROVE  CountInv'
<1>0. CountInv
  BY NeverBefore, KindsOfFault DEF CountsKept, RedisKeeps
<1>9. ~ Fault("redis") /\ ~ Fault("expire")
  BY FaultCounts, KindsOfFault DEF RedisKeeps, Never
<1>1. ASSUME NEW c \in Clients, ClientNext(c) PROVE CountInv'
  BY <1>0, <1>1, <1>9, InitCounts, PartCounts, CompleteCounts DEF ClientNext, CompleteStep
<1>2. CASE (\E f \in Files : ExpireHashKey(f)) \/ (\E u \in UploadIDs : ExpireSession(u))
  BY <1>2, <1>9 DEF ExpireHashKey, ExpireSession
<1>3. ASSUME UNCHANGED <<redis, dir, upid>>,
             \A c \in Clients : pc'[c] \in InSession \cup PastCheck => pc'[c] = pc[c]
      PROVE  CountInv'
  BY <1>0, <1>3 DEF redis, CountInv, Kept, Counted, Stored
<1>4. CASE Crash
  BY <1>3, <1>4, CrashShape DEF disk, InSession, PastCheck
<1>5. CASE UNCHANGED vars
  BY <1>3, <1>5 DEF vars, disk, run
<1> QED BY <1>1, <1>2, <1>4, <1>5 DEF Next

LEMMA Counts == Spec => []CountsKept
<1>1. Init => CountsKept
  BY DEF Init, CountsKept, CountInv, InSession, PastCheck
<1>2. TypeInv /\ StoreInv /\ SessionOwnsOneFile /\ FitInv /\ CountsKept /\ [Next]_vars
        => CountsKept'
  BY CountStep DEF CountsKept
<1> QED BY <1>1, <1>2, StoreInit, StoreStep, TypeInvariant, SessionsSafe, Fits, PTL
        DEF Spec

-----------------------------------------------------------------------------
(***************************************************************************)
(* Clients that take turns.  One is busy at a time, so a chunk is emptied  *)
(* only while it is unmarked, and what Init lists stays whole until its    *)
(* client is done, through cut bodies, crashes and a failing redis.        *)
(***************************************************************************)
OneBusy == \A c, d \in Clients : Busy(c) /\ Busy(d) => c = d

MarkedIsWhole == \A u \in UploadIDs : \A i \in mp[u].done : body[u][i] = Pieces

PartsAreUnmarked ==
    \A c \in Clients : \A i \in AllChunks :
      part[c][i].at \in {"create", "write", "verify"} => i \notin mp[upid[c]].done

VerifiedIsWhole ==
    \A c \in Clients : \A i \in AllChunks :
      part[c][i].at = "mark" => body[upid[c]][i] = Pieces

NothingFound ==
    \A c \in Clients : pc[c] \in {"idle"} \cup InitSteps => found[c] = {}

NothingMarked ==
    \A c \in Clients : pc[c] \in {"setcount", "setttl", "sethash"} =>
      mp[upid[c]].done = {}

MarksAreKnown ==
    \A c \in Clients : pc[c] = "have" => \A i \in mp[upid[c]].done :
      i \in found[c] \/ part[c][i].at = "acked"

FoundIsWhole ==
    \A c \in Clients : pc[c] = "have" => \A i \in found[c] : body[upid[c]][i] = Pieces

TurnInv == OneBusy /\ MarkedIsWhole /\ PartsAreUnmarked /\ VerifiedIsWhole
             /\ NothingFound /\ NothingMarked /\ MarksAreKnown /\ FoundIsWhole

TurnsKept == TakeTurns => TurnInv

\* Who is busy.
LEMMA BusyWhere ==
    ASSUME NEW c \in Clients
    PROVE  /\ pc[c] \in {"have"} \cup InitSteps \cup CompleteSteps => Busy(c)
           /\ \A i \in AllChunks : part[c][i].at \in PartSteps => Busy(c)
BY DEF Busy, PartActive, InitSteps, CompleteSteps, Over

\* Turns are kept by a step of a busy client that makes nobody else busy.
LEMMA BusyStays ==
    ASSUME OneBusy, \A c \in Clients : Busy(c)' => Busy(c)
    PROVE  OneBusy'
BY DEF OneBusy

LEMMA InitTurn ==
    ASSUME TypeInv, StoreInv, FitInv, TakeTurns, TurnInv, NEW c \in Clients,
           InitHandler(c) \/ InitHandlerFails(c)
    PROVE  TurnInv'
<1>0. \A i \in AllChunks : part[c][i].at = "none"
  BY InitShape DEF StoreInv, PartsAfterInit
<1>1. /\ UNCHANGED <<body, part>>
      /\ \A d \in Clients \ {c} : pc'[d] = pc[d] /\ upid'[d] = upid[d] /\ found'[d] = found[d]
      /\ \A u \in UploadIDs : mp'[u].done = mp[u].done
  BY InitShape DEF disk
<1>2. OneBusy'
  <2>1. \A d \in Clients \ {c} : Busy(d)' => Busy(d)
    BY <1>1 DEF Busy, PartActive
  <2>2. CASE CheckUserFile(c)
    <3>1. \A d \in Clients \ {c} : ~ Busy(d)
      BY <2>2 DEF CheckUserFile
    <3> QED BY <2>1, <3>1 DEF OneBusy
  <2>3. CASE ~ CheckUserFile(c)
    <3>1. pc[c] \in InitSteps
      BY <2>3 DEF InitHandler, InitHandlerFails, LookupSession, LookupSessionFails,
         GetSession, ListChunks, GetOrListFails, SetChunkCount, SetSessionTTL,
         SetHashKey, SessionWritesFail, InitSteps
    <3> QED BY <2>1, <3>1, BusyWhere, BusyStays DEF TurnInv
  <2> QED BY <2>2, <2>3
<1>3. MarkedIsWhole'
  BY <1>1 DEF TurnInv, MarkedIsWhole
<1>4. PartsAreUnmarked' /\ VerifiedIsWhole'
  <2> SUFFICES ASSUME NEW d \in Clients, NEW i \in AllChunks, part'[d][i].at # "none"
               PROVE  /\ part'[d][i].at \in {"create", "write", "verify"}
                           => i \notin mp'[upid'[d]].done
                      /\ part'[d][i].at = "mark" => body'[upid'[d]][i] = Pieces
    BY DEF PartsAreUnmarked, VerifiedIsWhole
  <2>1. d # c /\ part[d][i].at # "none"
    BY <1>0, <1>1
  <2>2. upid[d] \in UploadIDs
    BY <2>1 DEF PartsHaveId, TypeInv, TypeOK
  <2> QED BY <1>1, <2>1, <2>2 DEF TurnInv, PartsAreUnmarked, VerifiedIsWhole
<1>5. /\ pc'[c] \in {"idle"} \cup InitSteps => found'[c] = {}
      /\ pc'[c] \in {"setcount", "setttl", "sethash"} => mp'[upid'[c]].done = {}
      /\ pc'[c] = "have" => /\ \A i \in mp'[upid'[c]].done : i \in found'[c]
                            /\ found'[c] \subseteq mp'[upid'[c]].done
  <2>0. pc[c] \in {"idle"} \cup InitSteps /\ found[c] = {}
    BY InitShape DEF TurnInv, NothingFound
  <2>1. CASE CheckUserFile(c)
    BY <2>0, <2>1 DEF CheckUserFile, Goto, TypeInv, TypeOK
  <2>2. CASE LookupSession(c) \/ LookupSessionFails(c)
    <3>1. mp[c].done = {} /\ UNCHANGED <<mp, found>>
      BY <2>2 DEF LookupSession, LookupSessionFails, FitInv, FreshIsUnused, redis
    <3>2. pc'[c] = "get" \/ (pc'[c] \in {"setcount", "have"} /\ upid'[c] = c)
      BY <2>2 DEF LookupSession, LookupSessionFails, Goto, TypeInv, TypeOK
    <3> QED BY <2>0, <3>1, <3>2
  <2>3. CASE GetSession(c) \/ GetOrListFails(c)
    <3>1. UNCHANGED found /\ pc'[c] \in {"list", "initfail"}
      BY <2>3 DEF GetSession, GetOrListFails, Goto, TypeInv, TypeOK
    <3> QED BY <2>0, <3>1
  <2>4. CASE ListChunks(c)
    <3>1. /\ UNCHANGED <<mp, upid>> /\ found'[c] = mp[upid[c]].done
          /\ pc'[c] = IF mp[upid[c]].done = {} THEN "setcount" ELSE "have"
      BY <2>4 DEF ListChunks, redis, Goto, TypeInv, TypeOK
    <3> QED BY <3>1 DEF InitSteps
  <2>5. CASE \/ SetChunkCount(c) \/ SetSessionTTL(c) \/ SetHashKey(c)
             \/ SessionWritesFail(c)
    <3>1. /\ UNCHANGED <<upid, found>>
          /\ pc[c] \in {"setcount", "setttl", "sethash"}
          /\ pc'[c] \in {"setttl", "sethash", "have"}
      BY <2>5 DEF SetChunkCount, SetSessionTTL, SetHashKey, SessionWritesFail, Goto,
         TypeInv, TypeOK
    <3>2. upid[c] \in UploadIDs
      BY <3>1 DEF TypeInv, TypeOK, HasId, WithId
    <3>3. mp'[upid[c]].done = {}
      BY <1>1, <3>1, <3>2 DEF TurnInv, NothingMarked
    <3> QED BY <2>0, <3>1, <3>3
  <2> QED BY <2>1, <2>2, <2>3, <2>4, <2>5 DEF InitHandler, InitHandlerFails
<1>6. ASSUME NEW d \in Clients \ {c}
      PROVE  /\ pc'[d] \in {"idle"} \cup InitSteps => found'[d] = {}
             /\ pc'[d] \in {"setcount", "setttl", "sethash"} => mp'[upid'[d]].done = {}
             /\ pc'[d] = "have" =>
                  /\ \A i \in mp'[upid'[d]].done : i \in found'[d] \/ part'[d][i].at = "acked"
                  /\ \A i \in found'[d] : body'[upid'[d]][i] = Pieces
  <2>1. pc[d] \in {"setcount", "setttl", "sethash", "have"} => upid[d] \in UploadIDs
    BY DEF TypeInv, TypeOK, HasId, WithId
  <2>2. /\ pc'[d] = pc[d] /\ upid'[d] = upid[d] /\ found'[d] = found[d]
        /\ part' = part /\ body' = body
    BY <1>1
  <2>3. pc[d] \in {"idle"} \cup InitSteps => found[d] = {}
    BY DEF TurnInv, NothingFound
  <2>4. pc[d] \in {"setcount", "setttl", "sethash"} => mp'[upid[d]].done = {}
    BY <1>1, <2>1 DEF TurnInv, NothingMarked
  <2>5. pc[d] = "have" =>
          /\ \A i \in mp'[upid[d]].done : i \in found[d] \/ part[d][i].at = "acked"
          /\ \A i \in found[d] : body[upid[d]][i] = Pieces
    BY <1>1, <2>1 DEF TurnInv, MarksAreKnown, FoundIsWhole
  <2> QED BY <2>2, <2>3, <2>4, <2>5
<1>7. pc'[c] = "have" => \A i \in found'[c] : body'[upid'[c]][i] = Pieces
  <2> SUFFICES ASSUME pc'[c] = "have", NEW i \in found'[c]
               PROVE  body'[upid'[c]][i] = Pieces
    OBVIOUS
  <2>1. i \in mp'[upid'[c]].done
    BY <1>5
  <2>2. upid'[c] \in UploadIDs
    BY InitHandlerType DEF TypeInv, TypeOK, HasId, WithId
  <2> QED BY <1>3, <2>1, <2>2 DEF MarkedIsWhole
<1>8. NothingFound' /\ NothingMarked' /\ MarksAreKnown' /\ FoundIsWhole'
  BY <1>5, <1>6, <1>7 DEF NothingFound, NothingMarked, MarksAreKnown, FoundIsWhole
<1> QED BY <1>2, <1>3, <1>4, <1>8 DEF TurnInv

\* A chunk request in a turn: it empties a chunk that is not marked and not
\* listed, and marks one that it found whole.
LEMMA PartTurn ==
    ASSUME TypeInv, StoreInv, SessionOwnsOneFile, FitInv, TurnInv, NEW c \in Clients,
           NEW i \in AllChunks,
           StartPart(c, i) \/ PartHandler(c, i) \/ PartHandlerFails(c, i)
    PROVE  TurnInv'
<1>0. /\ UNCHANGED <<pc, upid, found>>
      /\ \A d \in Clients, j \in AllChunks : d # c \/ j # i => part'[d][j] = part[d][j]
      /\ StartPart(c, i) \/ part[c][i].at \in PartSteps
  BY PartShape
<1>1. Busy(c) /\ \A d \in Clients : Busy(d) => d = c
  BY <1>0, BusyWhere DEF StartPart, TurnInv, OneBusy
<1>2. /\ pc[c] \notin {"idle"} \cup InitSteps
      /\ upid[c] \in UploadIDs
      /\ i \in Missing(c)
  <2>1. CASE StartPart(c, i)
    BY <2>1 DEF StartPart, InitSteps, TypeInv, TypeOK, HasId, WithId
  <2>2. CASE part[c][i].at \in PartSteps
    BY <2>2 DEF PartSteps, StoreInv, PartsAfterInit, TypeInv, PartsHaveId, FitInv, PartsFit,
       TypeInv, TypeOK
  <2> QED BY <1>0, <2>1, <2>2
<1>3. OneBusy'
  <2>1. \A d \in Clients \ {c} : Busy(d)' => Busy(d)
    BY <1>0 DEF Busy, PartActive
  <2> QED BY <1>1, <2>1 DEF OneBusy
<1>4. NothingFound' /\ NothingMarked'
  <2>1. \A d \in Clients : pc[d] \in {"setcount", "setttl", "sethash"} => d = c
    BY <1>1, BusyWhere DEF InitSteps
  <2>2. \A d \in Clients : pc[d] \notin {"setcount", "setttl", "sethash"}
    BY <1>2, <2>1 DEF InitSteps
  <2> QED BY <1>0, <2>2 DEF TurnInv, NothingFound, NothingMarked
\* Other clients and other requests of c.
<1>5. \A d \in Clients : pc[d] = "have" => d = c
  BY <1>1, BusyWhere
<1>6. \A d \in Clients, j \in AllChunks :
        part[d][j].at \in PartSteps => d = c
  BY <1>1, BusyWhere
<1>7. \A d \in Clients, j \in AllChunks :
        part'[d][j].at \in PartSteps =>
          d = c /\ (j = i \/ part'[d][j] = part[d][j])
  BY <1>0, <1>6
\* What the step does to the chunk and the mark.
<1>8. ASSUME UNCHANGED <<mp, body>>,
             part'[c][i].at \in {"create", "write", "verify"} => i \notin mp[upid[c]].done,
             part'[c][i].at = "mark" => body[upid[c]][i] = Pieces,
             pc[c] = "have" /\ i \in mp[upid[c]].done =>
               i \in found[c] \/ part'[c][i].at = "acked"
      PROVE  TurnInv'
  <2>1. MarkedIsWhole' /\ FoundIsWhole'
    BY <1>0, <1>8 DEF TurnInv, MarkedIsWhole, FoundIsWhole
  <2>2. PartsAreUnmarked' /\ VerifiedIsWhole'
    BY <1>0, <1>7, <1>8 DEF TurnInv, PartsAreUnmarked, VerifiedIsWhole, PartSteps
  <2>3. MarksAreKnown'
    <3> SUFFICES ASSUME NEW d \in Clients, pc'[d] = "have", NEW j \in mp'[upid'[d]].done
                 PROVE  j \in found'[d] \/ part'[d][j].at = "acked"
      BY DEF MarksAreKnown
    <3>1. d = c /\ j \in mp[upid[c]].done /\ j \in AllChunks /\ pc[c] = "have"
      BY <1>0, <1>2, <1>5, <1>8 DEF TypeInv, TypeOK
    <3>2. CASE j = i
      BY <1>0, <1>8, <3>1, <3>2
    <3>3. CASE j # i
      <4>1. part'[c][j] = part[c][j]
        BY <1>0, <3>1, <3>3
      <4> QED BY <1>0, <3>1, <4>1 DEF TurnInv, MarksAreKnown
    <3> QED BY <3>2, <3>3
  <2> QED BY <1>3, <1>4, <2>1, <2>2, <2>3 DEF TurnInv
<1>9. CASE StartPart(c, i)
  <2>1. /\ UNCHANGED <<mp, body>> /\ pc[c] = "have" /\ part[c][i].at = "none"
        /\ part'[c][i].at = "create"
    BY <1>9 DEF StartPart, PartGoto, redis, disk, TypeInv, TypeOK
  <2>2. i \notin mp[upid[c]].done
    BY <1>2, <2>1 DEF TurnInv, MarksAreKnown, Missing
  <2> QED BY <1>8, <2>1, <2>2
<1>10. CASE CreateChunk(c, i)
  <2>1. /\ UNCHANGED mp /\ part[c][i].at = "create" /\ part'[c][i].at = "write"
        /\ body' = [body EXCEPT ![upid[c]][i] = {}]
    BY <1>10 DEF CreateChunk, redis, TypeInv, TypeOK
  <2>2. \A u \in UploadIDs, j \in AllChunks :
          u # upid[c] \/ j # i => body'[u][j] = body[u][j]
    BY <2>1 DEF TypeInv, TypeOK
  <2>3. i \notin mp[upid[c]].done
    BY <2>1 DEF TurnInv, PartsAreUnmarked
  <2>4. MarkedIsWhole'
    BY <2>1, <2>2, <2>3 DEF TurnInv, MarkedIsWhole, TypeInv, TypeOK
  <2>5. FoundIsWhole'
    <3> SUFFICES ASSUME NEW d \in Clients, pc'[d] = "have", NEW j \in found'[d]
                 PROVE  body'[upid'[d]][j] = Pieces
      BY DEF FoundIsWhole
    <3>1. d = c /\ j \in found[c] /\ j \in AllChunks /\ pc[c] = "have"
      BY <1>0, <1>5 DEF TypeInv, TypeOK
    <3>2. j # i
      BY <1>2, <3>1 DEF Missing
    <3>3. body[upid[c]][j] = Pieces
      BY <3>1 DEF TurnInv, FoundIsWhole
    <3> QED BY <1>0, <1>2, <2>2, <3>1, <3>2, <3>3
  <2>6. PartsAreUnmarked'
    BY <1>0, <1>7, <2>1, <2>3 DEF TurnInv, PartsAreUnmarked, PartSteps
  <2>7. VerifiedIsWhole'
    <3> SUFFICES ASSUME NEW d \in Clients, NEW j \in AllChunks, part'[d][j].at = "mark"
                 PROVE  body'[upid'[d]][j] = Pieces
      BY DEF VerifiedIsWhole
    <3>1. d = c /\ j # i /\ part[c][j].at = "mark"
      BY <1>7, <2>1 DEF PartSteps
    <3>2. body[upid[c]][j] = Pieces
      BY <3>1 DEF TurnInv, VerifiedIsWhole
    <3> QED BY <1>0, <1>2, <2>2, <3>1, <3>2
  <2>8. MarksAreKnown'
    <3> SUFFICES ASSUME NEW d \in Clients, pc'[d] = "have", NEW j \in mp'[upid'[d]].done
                 PROVE  j \in found'[d] \/ part'[d][j].at = "acked"
      BY DEF MarksAreKnown
    <3>1. d = c /\ j \in mp[upid[c]].done /\ j \in AllChunks /\ pc[c] = "have"
      BY <1>0, <1>2, <1>5, <2>1 DEF TypeInv, TypeOK
    <3> QED BY <1>0, <2>3, <3>1 DEF TurnInv, MarksAreKnown
  <2> QED BY <1>3, <1>4, <2>4, <2>5, <2>6, <2>7, <2>8 DEF TurnInv
<1>11. CASE CreateChunkFails(c, i)
  <2>1. UNCHANGED <<mp, body>> /\ part'[c][i].at = "acked"
    BY <1>11 DEF CreateChunkFails, PartGoto, redis, disk, TypeInv, TypeOK
  <2> QED BY <1>8, <2>1
<1>12. CASE WritePiece(c, i)
  <2> DEFINE p == part[c][i].off + 1
  <2>1. /\ UNCHANGED mp /\ part[c][i].at = "write"
        /\ part'[c][i].at \in {"write", "verify"}
        /\ body' = [body EXCEPT ![upid[c]][i] = @ \cup {p}]
    BY <1>12 DEF WritePiece, redis, TypeInv, TypeOK
  <2>2. p \in Pieces
    BY <1>12 DEF WritePiece, Pieces, TypeInv, TypeOK
  <2>3. \A u \in UploadIDs, j \in AllChunks :
          body[u][j] = Pieces => body'[u][j] = Pieces
    BY <2>1, <2>2 DEF TypeInv, TypeOK
  <2>4. i \notin mp[upid[c]].done
    BY <2>1 DEF TurnInv, PartsAreUnmarked
  <2>5. MarkedIsWhole'
    BY <2>1, <2>3 DEF TurnInv, MarkedIsWhole, TypeInv, TypeOK
  <2>6. FoundIsWhole'
    <3> SUFFICES ASSUME NEW d \in Clients, pc'[d] = "have", NEW j \in found'[d]
                 PROVE  body'[upid'[d]][j] = Pieces
      BY DEF FoundIsWhole
    <3>1. d = c /\ j \in found[c] /\ j \in AllChunks /\ pc[c] = "have"
      BY <1>0, <1>5 DEF TypeInv, TypeOK
    <3>2. body[upid[c]][j] = Pieces
      BY <3>1 DEF TurnInv, FoundIsWhole
    <3> QED BY <1>0, <1>2, <2>3, <3>1, <3>2
  <2>7. PartsAreUnmarked'
    BY <1>0, <1>7, <2>1, <2>4 DEF TurnInv, PartsAreUnmarked, PartSteps
  <2>8. VerifiedIsWhole'
    <3> SUFFICES ASSUME NEW d \in Clients, NEW j \in AllChunks, part'[d][j].at = "mark"
                 PROVE  body'[upid'[d]][j] = Pieces
      BY DEF VerifiedIsWhole
    <3>1. d = c /\ part[c][j].at = "mark"
      BY <1>7, <2>1 DEF PartSteps
    <3>2. body[upid[c]][j] = Pieces
      BY <3>1 DEF TurnInv, VerifiedIsWhole
    <3> QED BY <1>0, <1>2, <2>3, <3>1, <3>2
  <2>9. MarksAreKnown'
    <3> SUFFICES ASSUME NEW d \in Clients, pc'[d] = "have", NEW j \in mp'[upid'[d]].done
                 PROVE  j \in found'[d] \/ part'[d][j].at = "acked"
      BY DEF MarksAreKnown
    <3>1. d = c /\ j \in mp[upid[c]].done /\ j \in AllChunks /\ pc[c] = "have"
      BY <1>0, <1>2, <1>5, <2>1 DEF TypeInv, TypeOK
    <3> QED BY <1>0, <2>4, <3>1 DEF TurnInv, MarksAreKnown
  <2> QED BY <1>3, <1>4, <2>5, <2>6, <2>7, <2>8, <2>9 DEF TurnInv
<1>13. CASE CutBody(c, i)
  <2>1. /\ UNCHANGED <<mp, body>> /\ part[c][i].at = "write" /\ part'[c][i].at = "verify"
    BY <1>13 DEF CutBody, PartGoto, redis, disk, TypeInv, TypeOK
  <2>2. i \notin mp[upid[c]].done
    BY <2>1 DEF TurnInv, PartsAreUnmarked
  <2> QED BY <1>8, <2>1, <2>2
<1>14. CASE VerifyChunk(c, i)
  <2>1. /\ UNCHANGED <<mp, body>> /\ part[c][i].at = "verify"
        /\ part'[c][i].at = IF body[upid[c]][i] = Pieces THEN "mark" ELSE "refused"
    BY <1>14 DEF VerifyChunk, PartGoto, redis, disk, TypeInv, TypeOK
  <2>2. i \notin mp[upid[c]].done
    BY <2>1 DEF TurnInv, PartsAreUnmarked
  <2> QED BY <1>8, <2>1, <2>2
<1>15. CASE MarkChunk(c, i)
  <2>1. /\ UNCHANGED body /\ part[c][i].at = "mark" /\ part'[c][i].at = "acked"
    BY <1>15 DEF MarkChunk, PartGoto, disk, TypeInv, TypeOK
  <2>2. /\ mp'[upid[c]].done = mp[upid[c]].done \cup {i}
        /\ \A u \in UploadIDs : u # upid[c] => mp'[u] = mp[u]
    BY <1>2, <1>15 DEF MarkChunk, TypeInv, TypeOK
  <2>3. body[upid[c]][i] = Pieces
    BY <2>1 DEF TurnInv, VerifiedIsWhole
  <2>4. MarkedIsWhole'
    BY <1>2, <2>1, <2>2, <2>3 DEF TurnInv, MarkedIsWhole
  <2>5. FoundIsWhole' /\ VerifiedIsWhole'
    BY <1>0, <1>7, <2>1 DEF TurnInv, FoundIsWhole, VerifiedIsWhole, PartSteps
  <2>6. PartsAreUnmarked'
    BY <1>0, <1>7, <2>1, <2>2 DEF TurnInv, PartsAreUnmarked, PartSteps
  <2>7. MarksAreKnown'
    <3> SUFFICES ASSUME NEW d \in Clients, pc'[d] = "have", NEW j \in mp'[upid'[d]].done
                 PROVE  j \in found'[d] \/ part'[d][j].at = "acked"
      BY DEF MarksAreKnown
    <3>1. d = c /\ pc[c] = "have" /\ (j = i \/ j \in mp[upid[c]].done)
      BY <1>0, <1>5, <2>2
    <3>2. j \in AllChunks
      BY <1>2, <3>1 DEF TypeInv, TypeOK
    <3>3. CASE j = i
      BY <2>1, <3>1, <3>3
    <3>4. CASE j # i
      <4>1. part'[c][j] = part[c][j]
        BY <1>0, <3>2, <3>4
      <4> QED BY <1>0, <3>1, <3>4, <4>1 DEF TurnInv, MarksAreKnown
    <3> QED BY <3>3, <3>4
  <2> QED BY <1>3, <1>4, <2>4, <2>5, <2>6, <2>7 DEF TurnInv
<1>16. CASE MarkChunkFails(c, i)
  <2>1. UNCHANGED <<mp, body>> /\ part'[c][i].at = "acked"
    BY <1>16 DEF MarkChunkFails, PartGoto, redis, disk, TypeInv, TypeOK
  <2> QED BY <1>8, <2>1
<1> QED BY <1>9, <1>10, <1>11, <1>12, <1>13, <1>14, <1>15, <1>16
        DEF PartHandler, PartHandlerFails

\* A step that only forgets marks, ends chunk requests or takes clients out of
\* their uploads: what a Complete, expiry and a crash do.
LEMMA TurnShrinks ==
    ASSUME TypeInv, StoreInv, TurnInv, OneBusy',
           UNCHANGED <<body, upid, found>>,
           \A u \in UploadIDs : mp'[u].done \subseteq mp[u].done,
           \A d \in Clients : pc'[d] \in {"have", "idle"} \cup InitSteps => pc'[d] = pc[d],
           \A d \in Clients, j \in AllChunks :
             part'[d][j] = part[d][j]
               \/ (part'[d][j].at = "lost" /\ part[d][j].at \in PartSteps)
    PROVE  TurnInv'
<1>1. MarkedIsWhole'
  BY DEF TurnInv, MarkedIsWhole
<1>2. FoundIsWhole'
  BY DEF TurnInv, FoundIsWhole
<1>3. NothingFound'
  BY DEF TurnInv, NothingFound
<1>4. VerifiedIsWhole'
  BY DEF TurnInv, VerifiedIsWhole
<1>5. PartsAreUnmarked'
  <2> SUFFICES ASSUME NEW d \in Clients, NEW j \in AllChunks,
                      part'[d][j].at \in {"create", "write", "verify"}
               PROVE  j \notin mp'[upid'[d]].done
    BY DEF PartsAreUnmarked
  <2>1. part'[d][j] = part[d][j]
    OBVIOUS
  <2>2. upid[d] \in UploadIDs
    BY <2>1 DEF PartsHaveId, TypeInv, TypeOK
  <2>3. j \notin mp[upid[d]].done
    BY <2>1 DEF TurnInv, PartsAreUnmarked
  <2> QED BY <2>2, <2>3
<1>6. \A d \in Clients : pc'[d] \in {"have", "setcount", "setttl", "sethash"} =>
        pc'[d] = pc[d] /\ upid[d] \in UploadIDs
  BY DEF InitSteps, TypeInv, TypeOK, HasId, WithId
<1>7. NothingMarked'
  BY <1>6 DEF TurnInv, NothingMarked
<1>8. MarksAreKnown'
  <2> SUFFICES ASSUME NEW d \in Clients, pc'[d] = "have", NEW j \in mp'[upid'[d]].done
               PROVE  j \in found'[d] \/ part'[d][j].at = "acked"
    BY DEF MarksAreKnown
  <2>1. pc[d] = "have" /\ upid[d] \in UploadIDs
    BY <1>6
  <2>2. j \in mp[upid[d]].done /\ j \in AllChunks
    BY <2>1 DEF TypeInv, TypeOK
  <2>3. j \in found[d] \/ part[d][j].at = "acked"
    BY <2>1, <2>2 DEF TurnInv, MarksAreKnown
  <2> QED BY <2>2, <2>3 DEF PartSteps
<1> QED BY <1>1, <1>2, <1>3, <1>4, <1>5, <1>7, <1>8 DEF TurnInv

LEMMA CompleteTurn ==
    ASSUME TypeInv, StoreInv, TurnInv, NEW c \in Clients, CompleteStep(c)
    PROVE  TurnInv'
<1>1. /\ UNCHANGED <<body, part, upid, found>>
      /\ pc[c] \in {"have"} \cup CompleteSteps /\ pc'[c] \in CompleteSteps \cup Over
      /\ \A d \in Clients \ {c} : pc'[d] = pc[d]
  BY CompleteShape
<1>2. \A u \in UploadIDs : mp'[u].done \subseteq mp[u].done
  <2>1. \A u \in UploadIDs : mp'[u] \in {mp[u], NoSession}
    BY CompleteRedis DEF TypeInv, TypeOK
  <2> QED BY <2>1 DEF NoSession
<1>3. OneBusy'
  <2>1. \A d \in Clients : Busy(d)' => Busy(d)
    BY <1>1, BusyWhere DEF Busy, PartActive
  <2> QED BY <2>1, BusyStays DEF TurnInv
<1>4. \A d \in Clients : pc'[d] \in {"have", "idle"} \cup InitSteps => pc'[d] = pc[d]
  BY <1>1 DEF InitSteps, CompleteSteps, Over
<1> QED BY <1>1, <1>2, <1>3, <1>4, TurnShrinks

LEMMA TurnStep ==
    ASSUME TypeInv, StoreInv, SessionOwnsOneFile, FitInv, TakeTurns, TurnInv, [Next]_vars
    PROVE  TurnInv'
<1>1. ASSUME NEW c \in Clients, ClientNext(c) PROVE TurnInv'
  BY <1>1, InitTurn, PartTurn, CompleteTurn DEF ClientNext, CompleteStep
\* Expiry forgets marks; a crash ends requests.
<1>2. ASSUME UNCHANGED <<body, upid, found>>,
             \A u \in UploadIDs : mp'[u].done \subseteq mp[u].done,
             \A d \in Clients : pc'[d] \in {pc[d], "gone"},
             \A d \in Clients, j \in AllChunks :
               part'[d][j] = part[d][j]
                 \/ (part'[d][j].at = "lost" /\ part[d][j].at \in PartSteps)
      PROVE  TurnInv'
  <2>1. OneBusy'
    <3>1. \A d \in Clients : Busy(d)' => Busy(d)
      BY <1>2 DEF Busy, PartActive, PartSteps, Over
    <3> QED BY <3>1, BusyStays DEF TurnInv
  <2>2. \A d \in Clients : pc'[d] \in {"have", "idle"} \cup InitSteps => pc'[d] = pc[d]
    BY <1>2 DEF InitSteps
  <2> QED BY <1>2, <2>1, <2>2, TurnShrinks
<1>3. CASE (\E f \in Files : ExpireHashKey(f)) \/ (\E u \in UploadIDs : ExpireSession(u))
  <2>1. \A u \in UploadIDs : mp'[u].done \subseteq mp[u].done
    BY <1>3, ExpiryShape DEF NoSession
  <2> QED BY <1>2, <1>3, <2>1, ExpiryShape DEF disk, run
<1>4. CASE Crash
  <2>1. \A d \in Clients, j \in AllChunks :
          part'[d][j] = part[d][j]
            \/ (part'[d][j].at = "lost" /\ part[d][j].at \in PartSteps)
    BY <1>4 DEF Crash
  <2> QED BY <1>2, <1>4, <2>1, CrashShape DEF redis, disk
<1>5. CASE UNCHANGED vars
  BY <1>2, <1>5 DEF vars, redis, disk, run
<1> QED BY <1>1, <1>3, <1>4, <1>5 DEF Next

LEMMA Turns == Spec => []TurnsKept
<1>1. Init => TurnsKept
  BY DEF Init, TurnsKept, TurnInv, OneBusy, MarkedIsWhole, PartsAreUnmarked,
     VerifiedIsWhole, NothingFound, NothingMarked, MarksAreKnown, FoundIsWhole,
     NoSession, Busy, PartActive, PartSteps, CompleteSteps
<1>2. TypeInv /\ StoreInv /\ SessionOwnsOneFile /\ FitInv /\ TurnsKept /\ [Next]_vars
        => TurnsKept'
  BY TurnStep DEF TurnsKept
<1> QED BY <1>1, <1>2, StoreInit, StoreStep, TypeInvariant, SessionsSafe, Fits, PTL
        DEF Spec

\* When clients take turns, one that resumes and skips the chunks its Init
\* listed finds each of them whole, whatever failed before it came or fails
\* while it uploads.
THEOREM ListedSafe == Spec => []ListedChunksAreWhole
<1>1. TurnsKept => ListedChunksAreWhole
  BY DEF TurnsKept, TurnInv, FoundIsWhole, ListedChunksAreWhole
<1> QED BY <1>1, Turns, PTL

-----------------------------------------------------------------------------
(***************************************************************************)
(* Turns and counts.  When redis also keeps what it was told, a session    *)
(* that redis or a client names is there with its chunkcount until its     *)
(* Complete deletes it, and by then no hash key names it; the merge finds  *)
(* every chunk whole.                                                      *)
(***************************************************************************)
HashIsCounted == \A f \in Files : hashUp[f] # NoId => Counted(hashUp[f])

SessionIsCounted == \A c \in Clients : pc[c] \in InSession => Counted(upid[c])

DeletedIsUnnamed == \A c \in Clients : pc[c] = "delsession" => hashUp[FileOf[c]] = NoId

MergedIsWhole ==
    \A c \in Clients : pc[c] \in {"merge", "cat"} =>
      \A i \in Chunks(FileOf[c]) : body[upid[c]][i] = Pieces

TurnCountInv == HashIsCounted /\ SessionIsCounted /\ DeletedIsUnnamed /\ MergedIsWhole

TurnCountsKept == TakeTurns /\ RedisKeeps => TurnCountInv

\* While one client is busy the others are not.
LEMMA OthersRest ==
    ASSUME TurnInv, NEW c \in Clients, Busy(c), NEW d \in Clients \ {c}
    PROVE  pc[d] \in {"idle"} \cup Over /\ \A i \in AllChunks : part[d][i].at \notin PartSteps
BY DEF TurnInv, OneBusy, Busy, PartActive

\* A step of one client, in its turn, keeps the counts if it leaves the
\* sessions that are named counted, those of its own included.
LEMMA TurnCountStays ==
    ASSUME TypeInv, NEW c \in Clients,
           \A d \in Clients \ {c} : pc'[d] \in {"idle"} \cup Over,
           HashIsCounted',
           pc'[c] \in InSession => Counted(upid[c])',
           pc'[c] = "delsession" => hashUp'[FileOf[c]] = NoId,
           pc'[c] \in {"merge", "cat"} =>
             \A i \in Chunks(FileOf[c]) : body'[upid'[c]][i] = Pieces
    PROVE  TurnCountInv'
<1>1. \A d \in Clients \ {c} : pc'[d] \notin InSession \cup {"delsession", "merge", "cat"}
  BY DEF InSession, Over
<1>2. SessionIsCounted'
  BY <1>1 DEF SessionIsCounted
<1>3. DeletedIsUnnamed'
  BY <1>1 DEF DeletedIsUnnamed
<1>4. MergedIsWhole'
  BY <1>1 DEF MergedIsWhole, Chunks, ChunkCount
<1> QED BY <1>2, <1>3, <1>4 DEF TurnCountInv

LEMMA InitTurnCounts ==
    ASSUME TypeInv, SessionOwnsOneFile, TakeTurns, TurnInv, TurnCountInv,
           ~ Fault("redis"), NEW c \in Clients, InitHandler(c) \/ InitHandlerFails(c)
    PROVE  TurnCountInv'
<1>1. ~ InitHandlerFails(c)
  BY DEF InitHandlerFails, LookupSessionFails, GetOrListFails, SessionWritesFail
<1>2. \A d \in Clients \ {c} : pc'[d] \in {"idle"} \cup Over
  <2>1. CASE CheckUserFile(c)
    BY <2>1, InitShape DEF CheckUserFile, Busy
  <2>2. CASE ~ CheckUserFile(c)
    <3>1. pc[c] \in InitSteps
      BY <1>1, <2>2 DEF InitHandler, LookupSession, GetSession, ListChunks,
         SetChunkCount, SetSessionTTL, SetHashKey, InitSteps
    <3> QED BY <3>1, InitShape, BusyWhere, OthersRest
  <2> QED BY <2>1, <2>2
<1>3. pc'[c] \notin {"delsession", "merge", "cat"}
  BY InitShape DEF InitSteps, Over
<1>4. \A f \in Files : hashUp[f] # NoId => hashUp[f] \in UploadIDs
  BY DEF TypeInv, TypeOK
<1>5. ASSUME UNCHANGED <<mp, hashUp>>, pc'[c] \in InSession => Counted(upid[c])'
      PROVE  TurnCountInv'
  <2>1. HashIsCounted'
    BY <1>5 DEF TurnCountInv, HashIsCounted, Counted
  <2> QED BY <1>2, <1>3, <1>5, <2>1, TurnCountStays
<1>6. CASE CheckUserFile(c) \/ LookupSession(c)
  BY <1>5, <1>6 DEF CheckUserFile, LookupSession, redis, Goto, InSession, TypeInv, TypeOK
<1>7. CASE GetSession(c)
  <2>1. UNCHANGED <<mp, hashUp>>
    BY <1>7 DEF GetSession, redis
  <2>2. \/ pc'[c] = "initfail"
        \/ hashUp[FileOf[c]] # NoId /\ upid'[c] = hashUp[FileOf[c]]
    BY <1>7 DEF GetSession, Goto, TypeInv, TypeOK
  <2>3. pc'[c] \in InSession => Counted(upid[c])'
    BY <2>1, <2>2 DEF TurnCountInv, HashIsCounted, Counted, InSession
  <2> QED BY <1>5, <2>1, <2>3
<1>8. CASE ListChunks(c)
  <2>1. UNCHANGED <<mp, hashUp, upid>> /\ pc[c] = "list"
    BY <1>8 DEF ListChunks, redis
  <2>2. Counted(upid[c])'
    BY <2>1 DEF TurnCountInv, SessionIsCounted, Counted, InSession
  <2> QED BY <1>5, <2>1, <2>2
<1>9. CASE SetChunkCount(c)
  <2>1. UNCHANGED <<hashUp, upid>> /\ pc[c] = "setcount"
    BY <1>9 DEF SetChunkCount
  <2>2. upid[c] \in UploadIDs /\ FileOf[upid[c]] = FileOf[c]
    BY <2>1, InSessionHasId DEF SessionOwnsOneFile
  <2>3. /\ mp'[upid[c]].live /\ mp'[upid[c]].count = ChunkCount(FileOf[c])
        /\ \A u \in UploadIDs : u # upid[c] => mp'[u] = mp[u]
    BY <1>9, <2>2 DEF SetChunkCount, TypeInv, TypeOK
  <2>4. Counted(upid[c])'
    BY <2>1, <2>2, <2>3 DEF Counted
  <2>5. HashIsCounted'
    <3> SUFFICES ASSUME NEW f \in Files, hashUp[f] # NoId
                 PROVE  Counted(hashUp[f])'
      BY <2>1 DEF HashIsCounted
    <3>1. CASE hashUp[f] = upid[c]
      BY <2>1, <2>4, <3>1 DEF Counted
    <3>2. CASE hashUp[f] # upid[c]
      BY <1>4, <2>1, <2>3, <3>2 DEF TurnCountInv, HashIsCounted, Counted
    <3> QED BY <3>1, <3>2
  <2> QED BY <1>2, <1>3, <2>4, <2>5, TurnCountStays
<1>10. CASE SetSessionTTL(c)
  <2>1. UNCHANGED <<hashUp, upid>> /\ pc[c] = "setttl"
    BY <1>10 DEF SetSessionTTL
  <2>2. \A u \in UploadIDs : mp'[u].live = mp[u].live /\ mp'[u].count = mp[u].count
    BY <1>10 DEF SetSessionTTL, TypeInv, TypeOK
  <2>3. Counted(upid[c])'
    BY <2>1, <2>2, InSessionHasId DEF TurnCountInv, SessionIsCounted, Counted, InSession
  <2>4. HashIsCounted'
    BY <1>4, <2>1, <2>2 DEF TurnCountInv, HashIsCounted, Counted
  <2> QED BY <1>2, <1>3, <2>3, <2>4, TurnCountStays
<1>11. CASE SetHashKey(c)
  <2>1. UNCHANGED <<mp, upid>> /\ pc[c] = "sethash"
    BY <1>11 DEF SetHashKey
  <2>2. Counted(upid[c])'
    BY <2>1 DEF TurnCountInv, SessionIsCounted, Counted, InSession
  <2>3. HashIsCounted'
    <3> SUFFICES ASSUME NEW f \in Files, hashUp'[f] # NoId
                 PROVE  Counted(hashUp[f])'
      BY DEF HashIsCounted
    <3>1. hashUp'[f] \in {hashUp[f], upid[c]}
      BY InitNames
    <3> QED BY <2>1, <2>2, <3>1 DEF TurnCountInv, HashIsCounted, Counted
  <2> QED BY <1>2, <1>3, <2>2, <2>3, TurnCountStays
<1> QED BY <1>1, <1>6, <1>7, <1>8, <1>9, <1>10, <1>11 DEF InitHandler

LEMMA PartTurnCounts ==
    ASSUME TypeInv, StoreInv, FitInv, TurnInv, TurnCountInv, NEW c \in Clients,
           NEW i \in AllChunks,
           StartPart(c, i) \/ PartHandler(c, i) \/ PartHandlerFails(c, i)
    PROVE  TurnCountInv'
<1>1. UNCHANGED <<hashUp, pc, upid>>
  BY PartShape
<1>2. \A u \in UploadIDs : (mp[u].live => mp'[u].live) /\ mp'[u].count = mp[u].count
  <2>1. CASE MarkChunk(c, i)
    BY <2>1 DEF MarkChunk, TypeInv, TypeOK
  <2>2. CASE UNCHANGED mp
    BY <2>2
  <2> QED BY <2>1, <2>2 DEF StartPart, PartHandler, PartHandlerFails, CreateChunk,
          CreateChunkFails, WritePiece, CutBody, VerifyChunk, MarkChunkFails, redis
<1>3. Busy(c) /\ pc[c] \notin CompleteSteps
  BY PartShape, BusyWhere DEF StartPart, FitInv, AllPosted, CompleteSteps
<1>4. \A d \in Clients \ {c} : pc'[d] \in {"idle"} \cup Over
  BY <1>1, <1>3, OthersRest
<1>5. HashIsCounted'
  <2>1. \A f \in Files : hashUp[f] # NoId => hashUp[f] \in UploadIDs
    BY DEF TypeInv, TypeOK
  <2> QED BY <1>1, <1>2, <2>1 DEF TurnCountInv, HashIsCounted, Counted
<1>6. pc'[c] \in InSession => Counted(upid[c])'
  BY <1>1, <1>2, InSessionHasId DEF TurnCountInv, SessionIsCounted, Counted
<1> QED BY <1>1, <1>3, <1>4, <1>5, <1>6, TurnCountStays DEF CompleteSteps

\* The check lets a client pass in its turn that finds every chunk marked, and
\* what is marked is whole.
LEMMA CheckedIsWhole ==
    ASSUME TypeInv, SessionOwnsOneFile, FitInv, TurnInv, TurnCountInv, NEW c \in Clients,
           CheckComplete(c), pc'[c] = "merge"
    PROVE  \A i \in Chunks(FileOf[c]) : body[upid[c]][i] = Pieces
<1>1. pc[c] = "check" /\ mp[upid[c]].count = Cardinality(mp[upid[c]].done)
  BY DEF CheckComplete, Goto, TypeInv, TypeOK
<1>2. upid[c] \in UploadIDs /\ Counted(upid[c]) /\ FileOf[upid[c]] = FileOf[c]
  BY <1>1, InSessionHasId DEF TurnCountInv, SessionIsCounted, InSession, SessionOwnsOneFile
<1>3. mp[upid[c]].done \in SUBSET Chunks(FileOf[c]) /\ FileOf[c] \in Files
  BY <1>2 DEF FitInv, StoresFit
<1>4. Cardinality(mp[upid[c]].done) = ChunkCount(FileOf[c])
  BY <1>1, <1>2 DEF Counted
<1>5. mp[upid[c]].done = Chunks(FileOf[c])
  BY <1>3, <1>4, CountIsAll
<1> QED BY <1>2, <1>5 DEF TurnInv, MarkedIsWhole

LEMMA CompleteTurnCounts ==
    ASSUME TypeInv, SessionOwnsOneFile, FitInv, TurnInv, TurnCountInv, NEW c \in Clients,
           CompleteStep(c)
    PROVE  TurnCountInv'
<1>1. UNCHANGED <<body, upid>> /\ \A d \in Clients \ {c} : pc'[d] = pc[d]
  BY CompleteShape
<1>2. \A d \in Clients \ {c} : pc'[d] \in {"idle"} \cup Over
  BY <1>1, CompleteShape, BusyWhere, OthersRest
<1>3. HashIsCounted'
  <2> SUFFICES ASSUME NEW f \in Files, hashUp'[f] # NoId
               PROVE  Counted(hashUp[f])'
    BY DEF HashIsCounted
  <2>1. hashUp'[f] = hashUp[f] /\ hashUp[f] \in UploadIDs
    <3>1. hashUp \in [Files -> UploadIDs \cup {NoId}]
      BY DEF TypeInv, TypeOK
    <3>2. hashUp'[f] \in {hashUp[f], NoId}
      BY <3>1, CompleteRedis
    <3> QED BY <3>1, <3>2
  <2>2. Counted(hashUp[f])
    BY <2>1 DEF TurnCountInv, HashIsCounted
  <2>3. CASE UNCHANGED mp
    BY <2>1, <2>2, <2>3 DEF Counted
  <2>4. CASE DeleteSession(c) /\ mp' = [mp EXCEPT ![upid[c]] = NoSession]
    <3>1. pc[c] = "delsession" /\ upid[c] # NoId
      BY <2>4 DEF DeleteSession, TypeInv, HasId, WithId, CompleteSteps
    <3>2. hashUp[f] # upid[c]
      BY <2>1, <3>1 DEF TurnCountInv, DeletedIsUnnamed, SessionOwnsOneFile
    <3>3. mp'[hashUp[f]] = mp[hashUp[f]]
      BY <2>1, <2>4, <3>2 DEF TypeInv, TypeOK
    <3> QED BY <2>1, <2>2, <3>3 DEF Counted
  <2> QED BY <2>3, <2>4, CompleteRedis
<1>4. pc'[c] \in InSession => Counted(upid[c])'
  <2> SUFFICES ASSUME pc'[c] \in InSession PROVE Counted(upid[c])'
    OBVIOUS
  <2>1. pc[c] = "have" /\ UNCHANGED mp
    BY DEF CompleteStep, CallComplete, CompleteHandler, CompleteHandlerFails,
       CheckComplete, CheckCompleteFails, StartMerge, CatChunk, CopyPiece, MergeFails, RegisterFile,
       RegisterUserFile, DeleteHashKey, DeleteSession, DeleteFails, PublishTransfer,
       Leave, Goto, InSession, redis, TypeInv, TypeOK
  <2> QED BY <1>1, <2>1 DEF TurnCountInv, SessionIsCounted, Counted, InSession
<1>5. pc'[c] = "delsession" => hashUp'[FileOf[c]] = NoId
  <2> SUFFICES ASSUME pc'[c] = "delsession" PROVE hashUp'[FileOf[c]] = NoId
    OBVIOUS
  <2>1. DeleteHashKey(c)
    BY DEF CompleteStep, CallComplete, CompleteHandler, CompleteHandlerFails,
       CheckComplete, CheckCompleteFails, StartMerge, CatChunk, CopyPiece, MergeFails, RegisterFile,
       RegisterUserFile, DeleteSession, DeleteFails, PublishTransfer, Leave, Goto,
       TypeInv, TypeOK
  <2> QED BY <2>1 DEF DeleteHashKey, TypeInv, TypeOK
<1>6. pc'[c] \in {"merge", "cat"} =>
        \A i \in Chunks(FileOf[c]) : body'[upid'[c]][i] = Pieces
  <2> SUFFICES ASSUME pc'[c] \in {"merge", "cat"}
               PROVE  \A i \in Chunks(FileOf[c]) : body[upid[c]][i] = Pieces
    BY <1>1
  <2>1. (CheckComplete(c) /\ pc'[c] = "merge") \/ pc[c] \in {"merge", "cat"}
    BY DEF CompleteStep, CallComplete, CompleteHandler, CompleteHandlerFails,
       CheckComplete, CheckCompleteFails, StartMerge, CatChunk, CopyPiece, MergeFails, RegisterFile,
       RegisterUserFile, DeleteHashKey, DeleteSession, DeleteFails, PublishTransfer,
       Leave, Goto, TypeInv, TypeOK
  <2> QED BY <2>1, CheckedIsWhole DEF TurnCountInv, MergedIsWhole
<1> QED BY <1>2, <1>3, <1>4, <1>5, <1>6, TurnCountStays

LEMMA TurnCountStep ==
    ASSUME TypeInv, StoreInv, SessionOwnsOneFile, FitInv, TurnsKept, TurnCountsKept,
           [Next]_vars, TakeTurns, RedisKeeps'
    PROVE  TurnCountInv'
<1>0. TurnInv /\ TurnCountInv
  BY NeverBefore, KindsOfFault DEF TurnsKept, TurnCountsKept, RedisKeeps
<1>9. ~ Fault("redis") /\ ~ Fault("expire")
  BY FaultCounts, KindsOfFault DEF RedisKeeps, Never
<1>1. ASSUME NEW c \in Clients, ClientNext(c) PROVE TurnCountInv'
  BY <1>0, <1>1, <1>9, InitTurnCounts, PartTurnCounts, CompleteTurnCounts
     DEF ClientNext, CompleteStep
<1>2. CASE (\E f \in Files : ExpireHashKey(f)) \/ (\E u \in UploadIDs : ExpireSession(u))
  BY <1>2, <1>9 DEF ExpireHashKey, ExpireSession
<1>3. ASSUME UNCHANGED <<redis, body, upid>>,
             \A c \in Clients : pc'[c] = pc[c] \/ pc'[c] = "gone"
      PROVE  TurnCountInv'
  BY <1>0, <1>3 DEF redis, TurnCountInv, HashIsCounted, SessionIsCounted,
     DeletedIsUnnamed, MergedIsWhole, Counted, InSession, Chunks, ChunkCount
<1>4. CASE Crash
  BY <1>3, <1>4, CrashShape DEF disk
<1>5. CASE UNCHANGED vars
  BY <1>3, <1>5 DEF vars, disk, run
<1> QED BY <1>1, <1>2, <1>4, <1>5 DEF Next

LEMMA TurnCounts == Spec => []TurnCountsKept
<1>1. Init => TurnCountsKept
  BY DEF Init, TurnCountsKept, TurnCountInv, HashIsCounted, SessionIsCounted,
     DeletedIsUnnamed, MergedIsWhole, InSession
<1>2. TypeInv /\ StoreInv /\ SessionOwnsOneFile /\ FitInv /\ TurnsKept /\ TurnCountsKept
        /\ [Next]_vars => TurnCountsKept'
  BY TurnCountStep DEF TurnCountsKept
<1> QED BY <1>1, <1>2, StoreInit, StoreStep, TypeInvariant, SessionsSafe, Fits, Turns, PTL
        DEF Spec

\* As long as redis keeps what it was told, the merge finds every chunk of the
\* file in the session's directory, whole unless a request writes it again;
\* for clients that overlap while no body is cut and nothing crashes, and for
\* clients that take turns whatever else fails.
THEOREM MergeSafe == Spec => []MergeSeesAllChunks
<1>1. Init => OwedUnlessDead
  BY DEF Init, OwedUnlessDead, PiecesAreOwed
<1>2. TypeInv /\ SessionOwnsOneFile /\ CountsKept /\ TurnCountsKept /\ OwedUnlessDead
        => MergeSeesAllChunks
  <2> SUFFICES ASSUME TypeInv, SessionOwnsOneFile, CountsKept, TurnCountsKept,
                      OwedUnlessDead, RedisKeeps, TakeTurns \/ NoCutNoCrash,
                      NEW c \in Clients, pc[c] \in {"merge", "cat"},
                      NEW i \in Chunks(FileOf[c])
               PROVE  i \in dir[upid[c]] /\ Settled(upid[c], i)
    BY DEF MergeSeesAllChunks, RedisKeeps, NoCutNoCrash
  <2>1. upid[c] \in UploadIDs /\ FileOf[upid[c]] = FileOf[c]
    BY InSessionHasId DEF PastCheck, SessionOwnsOneFile
  <2>2. i \in dir[upid[c]]
    BY <2>1 DEF CountsKept, CountInv, PastCheck, Stored
  <2>3. CASE TakeTurns
    BY <2>2, <2>3 DEF TurnCountsKept, TurnCountInv, MergedIsWhole, Settled
  <2>4. CASE PiecesAreOwed
    <3>1. i \in AllChunks /\ body[upid[c]][i] \subseteq Pieces
      BY <2>1, <2>2 DEF TypeInv, TypeOK
    <3>2. ASSUME \A d \in Clients : upid[d] = upid[c] => part[d][i].at # "write"
          PROVE  Pieces \subseteq body[upid[c]][i]
      BY <2>1, <2>2, <2>4, <3>2 DEF PiecesAreOwed, Owes
    <3> HIDE DEF TypeInv, TypeOK, Pieces
    <3> QED BY <2>2, <3>1, <3>2 DEF Settled
  <2> QED BY <2>3, <2>4 DEF OwedUnlessDead
<1> QED BY <1>1, <1>2, StoreInit, StoreStep, OwedStep, TypeInvariant, SessionsSafe, Counts,
        TurnCounts, PTL DEF Spec

-----------------------------------------------------------------------------
(***************************************************************************)
(* The merged file.  In its turn a Complete lists every chunk, each of     *)
(* PieceCount pieces, so that after k of them and n pieces of the next it  *)
(* has written the first k * PieceCount + n units, and these are good.     *)
(***************************************************************************)
LEMMA TimesNext ==
    ASSUME NEW k \in Nat, NEW n \in Nat
    PROVE  (k + 1) * n = k * n + n
OBVIOUS

LEMMA TimesNat ==
    ASSUME NEW k \in Nat, NEW n \in Nat
    PROVE  k * n \in Nat
OBVIOUS

LEMMA TimesMonotone ==
    ASSUME NEW j \in Nat, NEW k \in Nat, NEW n \in Nat, j <= k
    PROVE  j * n \in Nat /\ j * n <= k * n
<1>1. PICK d \in Nat : k = j + d
  <2>1. k - j \in Nat /\ k = j + (k - j)
    OBVIOUS
  <2> QED BY <2>1
<1>2. k * n = j * n + d * n
  BY <1>1
<1>3. j * n \in Nat /\ d * n \in Nat
  OBVIOUS
<1> QED BY <1>2, <1>3

\* The units of the first k chunks of a file are units of the file.
LEMMA UnitsOfChunks ==
    ASSUME NEW f \in Files, NEW k \in Nat, k <= ChunkCount(f)
    PROVE  k * PieceCount \in Nat /\ 1..(k * PieceCount) \subseteq Units(f)
BY TimesMonotone, ChunkCountType DEF Units

LEMMA SomeUnits ==
    ASSUME NEW f \in Files, Chunks(f) # {}
    PROVE  Units(f) # {}
<1>1. 1 <= ChunkCount(f) /\ ChunkCount(f) \in Nat
  BY ChunkCountType DEF Chunks
<1>2. 1 * PieceCount <= ChunkCount(f) * PieceCount /\ ChunkCount(f) * PieceCount \in Nat
  BY <1>1, TimesMonotone
<1> QED BY <1>2 DEF Units

\* The merge of client c has copied the first k chunks, and what it has read
\* of the next.
Copied(c, k) ==
    /\ left[c] = (k + 1)..ChunkCount(FileOf[c])
    /\ off[c].out = k * PieceCount + off[c].in
    /\ \A u \in 1..off[c].out : merged[FileOf[c]][u] = "good"

Finishing == {"regfile", "reguser", "delhash", "delsession", "publish"}

MergeIsGood ==
    \A c \in Clients : pc[c] = "cat" =>
      \E k \in 0..(ChunkCount(FileOf[c]) - 1) : Copied(c, k)

FinishedIsWhole ==
    \A c \in Clients : pc[c] \in Finishing =>
      Whole(FileOf[c]) /\ Chunks(FileOf[c]) # {}

RowIsWhole == \A f \in fileTbl : Whole(f) \/ CutShort(f)

WholeInv  == MergeIsGood /\ FinishedIsWhole /\ RowIsWhole
WholeKept == TakeTurns /\ RedisKeeps => WholeInv

\* A step that writes no merged file and takes nobody into a merge, or past
\* its end; it may take a client out of one.
LEMMA MergesStay ==
    ASSUME WholeInv, UNCHANGED <<merged, left, off>>,
           \A c \in Clients :
             /\ pc'[c] = "cat" => pc[c] = "cat"
             /\ pc'[c] \in Finishing => pc[c] \in Finishing
    PROVE  MergeIsGood' /\ FinishedIsWhole'
<1>1. MergeIsGood'
  <2> SUFFICES ASSUME NEW c \in Clients, pc'[c] = "cat"
               PROVE  \E k \in 0..(ChunkCount(FileOf[c]) - 1) : Copied(c, k)'
    BY DEF MergeIsGood, ChunkCount
  <2>1. PICK k \in 0..(ChunkCount(FileOf[c]) - 1) : Copied(c, k)
    BY DEF WholeInv, MergeIsGood
  <2>2. Copied(c, k)'
    BY <2>1 DEF Copied, ChunkCount
  <2> QED BY <2>1, <2>2
<1>2. FinishedIsWhole'
  BY DEF WholeInv, FinishedIsWhole, Whole, Units, Chunks, ChunkCount
<1> QED BY <1>1, <1>2

LEMMA WholeStays ==
    ASSUME WholeInv, UNCHANGED <<merged, left, off, fileTbl>>,
           \A c \in Clients :
             /\ pc'[c] = "cat" => pc[c] = "cat"
             /\ pc'[c] \in Finishing => pc[c] \in Finishing
    PROVE  WholeInv'
<1>1. RowIsWhole'
  BY DEF WholeInv, RowIsWhole, Whole, Units, CutShort, ChunkCount
<1> QED BY <1>1, MergesStay DEF WholeInv

\* A step of the client that merges, in its turn: the other files stay.
LEMMA MergeStays ==
    ASSUME TypeInv, WholeInv, TurnInv, NEW c \in Clients, Busy(c), UNCHANGED fileTbl,
           \A f \in Files : f # FileOf[c] => merged'[f] = merged[f],
           \A d \in Clients \ {c} : pc'[d] = pc[d] /\ left'[d] = left[d],
           \/ pc'[c] = "cat" /\ \E k \in 0..(ChunkCount(FileOf[c]) - 1) : Copied(c, k)'
           \/ pc'[c] = "regfile" /\ Whole(FileOf[c])' /\ Chunks(FileOf[c]) # {}
    PROVE  WholeInv'
<1>1. \A d \in Clients \ {c} : pc'[d] \notin {"cat"} \cup Finishing
  BY OthersRest DEF Over, Finishing
<1>2. MergeIsGood'
  BY <1>1 DEF MergeIsGood, ChunkCount
<1>3. FinishedIsWhole'
  BY <1>1 DEF FinishedIsWhole, Whole, Units, Chunks, ChunkCount, Finishing
<1>4. RowIsWhole'
  <2> SUFFICES ASSUME NEW f \in fileTbl PROVE Whole(f)' \/ CutShort(f)'
    BY DEF RowIsWhole
  <2>1. f \in Files
    BY DEF TypeInv, TypeOK
  <2>2. CASE f = FileOf[c]
    <3>1. CASE pc'[c] = "regfile"
      BY <2>2, <3>1 DEF Whole, Units, ChunkCount
    <3>2. CASE pc'[c] = "cat"
      <4>1. PICK k \in 0..(ChunkCount(FileOf[c]) - 1) : Copied(c, k)'
        BY <3>2
      <4>2. ChunkCount(FileOf[c]) \in Nat /\ left'[c] = (k + 1)..ChunkCount(FileOf[c])
        BY <4>1, ChunkCountType DEF Copied, ChunkCount
      <4>3. left'[c] # {}
        BY <4>2
      <4> QED BY <2>2, <4>3 DEF CutShort
    <3> QED BY <3>1, <3>2
  <2>3. CASE f # FileOf[c]
    <3>1. Whole(f) \/ CutShort(f)
      BY DEF WholeInv, RowIsWhole
    <3>2. CutShort(f) => CutShort(f)'
      BY <2>3 DEF CutShort
    <3>3. Whole(f) => Whole(f)'
      BY <2>1, <2>3 DEF Whole, Units, ChunkCount
    <3> QED BY <3>1, <3>2, <3>3
  <2> QED BY <2>2, <2>3
<1> QED BY <1>2, <1>3, <1>4 DEF WholeInv

\* A session with a directory is one of a file with chunks, and all of them
\* are in it, so cat has something to copy.
LEMMA StartWhole ==
    ASSUME TypeInv, SessionOwnsOneFile, FitInv, CountInv, TurnInv, WholeInv,
           NEW c \in Clients, StartMerge(c)
    PROVE  WholeInv'
<1>1. pc[c] = "merge" /\ UNCHANGED fileTbl /\ \A d \in Clients \ {c} : pc'[d] = pc[d]
  BY DEF StartMerge, mysql, Goto, TypeInv, TypeOK
<1>2. CASE upid[c] \notin made
  <2>1. UNCHANGED <<merged, left, off>> /\ pc'[c] = "mergefail"
    BY <1>2 DEF StartMerge, Goto, TypeInv, TypeOK
  <2> QED BY <1>1, <2>1, WholeStays DEF Finishing
<1>3. CASE upid[c] \in made
  <2> DEFINE f == FileOf[c]
  <2>1. dir[upid[c]] = Chunks(f) /\ Chunks(f) # {}
    <3>1. upid[c] \in UploadIDs /\ FileOf[upid[c]] = f
      BY <1>1, InSessionHasId DEF PastCheck, SessionOwnsOneFile
    <3>2. Chunks(f) \subseteq dir[upid[c]]
      BY <1>1, <3>1 DEF PastCheck, CountInv, Stored
    <3>3. dir[upid[c]] \subseteq Chunks(f) /\ Chunks(f) # {}
      BY <1>3, <3>1 DEF FitInv, StoresFit
    <3> QED BY <3>2, <3>3
  <2>2. /\ pc'[c] = "cat" /\ left'[c] = Chunks(f) /\ off'[c] = [out |-> 0, in |-> 0]
        /\ \A d \in Clients \ {c} : left'[d] = left[d]
        /\ \A g \in Files : g # f => merged'[g] = merged[g]
    BY <1>3, <2>1 DEF StartMerge, Goto, TypeInv, TypeOK
  <2>3. 0 \in 0..(ChunkCount(f) - 1)
    BY <2>1, ChunkCountType DEF Chunks
  <2>4. Copied(c, 0)'
    <3>1. off'[c].out = 0 * PieceCount + off'[c].in
      BY <2>2
    <3> QED BY <2>2, <3>1 DEF Copied, Chunks, ChunkCount
  <2> QED BY <1>1, <2>2, <2>3, <2>4, BusyWhere, MergeStays DEF CompleteSteps
<1> QED BY <1>2, <1>3

LEMMA CatWhole ==
    ASSUME TypeInv, TurnInv, TurnCountInv, WholeInv, NEW c \in Clients, CatChunk(c)
    PROVE  WholeInv'
<1> DEFINE f == FileOf[c]
<1>1. pc[c] = "cat" /\ UNCHANGED fileTbl /\ f \in Files
  BY DEF CatChunk, CopyPiece, mysql
<1>2. PICK k \in 0..(ChunkCount(f) - 1) : Copied(c, k)
  BY <1>1 DEF WholeInv, MergeIsGood
<1>3. ChunkCount(f) \in Nat /\ k \in Nat /\ k + 1 \in Nat /\ k + 1 <= ChunkCount(f)
  BY <1>1, <1>2, ChunkCountType
<1>4. PICK i \in left[c] : (\A j \in left[c] : i <= j) /\ CopyPiece(c, i)
  BY DEF CatChunk
<1>5. i = k + 1 /\ i \in Chunks(f)
  <2>1. left[c] = (k + 1)..ChunkCount(f)
    BY <1>2 DEF Copied
  <2>2. i \in Int /\ k + 1 <= i /\ i <= ChunkCount(f)
    BY <1>3, <1>4, <2>1
  <2>3. i <= k + 1
    <3>1. k + 1 \in left[c]
      BY <1>3, <2>1
    <3> QED BY <1>4, <3>1
  <2> QED BY <1>3, <2>2, <2>3 DEF Chunks
<1>6. body[upid[c]][i] = Pieces
  BY <1>1, <1>5 DEF TurnCountInv, MergedIsWhole
<1>7. PICK out \in Nat, in \in 0..PieceCount : off[c] = [out |-> out, in |-> in]
  BY DEF TypeInv, TypeOK
<1>8. /\ out = k * PieceCount + in /\ k * PieceCount \in Nat
      /\ (k + 1) * PieceCount = k * PieceCount + PieceCount
      /\ (k + 1) * PieceCount \in Nat
      /\ \A u \in 1..out : merged[f][u] = "good"
  <2>1. PieceCount \in Nat
    OBVIOUS
  <2>2. k * PieceCount \in Nat
    BY <1>3, <2>1, TimesNat
  <2>3. (k + 1) * PieceCount = k * PieceCount + PieceCount
    BY <1>3, <2>1, TimesNext
  <2>4. off[c].out = out /\ off[c].in = in
    BY <1>7
  <2>5. out = k * PieceCount + in /\ \A u \in 1..out : merged[f][u] = "good"
    BY <1>2, <2>4 DEF Copied
  <2>6. (k + 1) * PieceCount \in Nat
    BY <1>3, <2>1, TimesNat
  <2> QED BY <2>2, <2>3, <2>5, <2>6, Zenon
<1>9. CASE in < PieceCount
  <2>1. /\ \E p \in Pieces : p > in
        /\ in + 1 \in Pieces
    BY <1>9 DEF Pieces
  <2>2. out = (i - 1) * PieceCount + in
    BY <1>3, <1>5, <1>8
  <2>3. /\ merged' = [merged EXCEPT ![f][out + 1] = "good"]
        /\ off' = [off EXCEPT ![c] = [out |-> out + 1, in |-> in + 1]]
        /\ UNCHANGED <<left, pc>>
    BY <1>4, <1>6, <1>7, <2>1, <2>2 DEF CopyPiece
  <2>4. /\ \A g \in Files : g # f => merged'[g] = merged[g]
        /\ off'[c] = [out |-> out + 1, in |-> in + 1]
    BY <2>3 DEF TypeInv, TypeOK
  <2>5. \A u \in 1..(out + 1) : merged'[f][u] = "good"
    <3> SUFFICES ASSUME NEW u \in 1..(out + 1) PROVE merged'[f][u] = "good"
      OBVIOUS
    <3>1. u \in 1..((k + 1) * PieceCount)
      BY <1>8, <1>9
    <3>2. u \in AllUnits
      BY <1>1, <1>3, <3>1, UnitsOfChunks DEF AllUnits
    <3>3. merged'[f][u] = IF u = out + 1 THEN "good" ELSE merged[f][u]
      BY <1>1, <2>3, <3>2 DEF TypeInv, TypeOK
    <3> QED BY <1>8, <3>3
  <2>6. Copied(c, k)'
    <3>1. off'[c].out = k * PieceCount + off'[c].in /\ off'[c].out = out + 1
      BY <1>8, <2>4
    <3>2. left'[c] = (k + 1)..ChunkCount(f)
      BY <1>2, <2>3 DEF Copied
    <3> QED BY <2>5, <3>1, <3>2 DEF Copied, ChunkCount
  <2> QED BY <1>1, <1>2, <2>3, <2>4, <2>6, BusyWhere, MergeStays DEF CompleteSteps
<1>10. CASE ~ (in < PieceCount)
  <2>1. in = PieceCount /\ ~ \E p \in Pieces : p > in
    BY <1>10 DEF Pieces
  <2>2. /\ off' = [off EXCEPT ![c] = [out |-> out, in |-> 0]]
        /\ left' = [left EXCEPT ![c] = @ \ {i}]
        /\ Goto(c, IF left[c] = {i} THEN "regfile" ELSE "cat")
        /\ UNCHANGED merged
    BY <1>4, <1>6, <1>7, <2>1 DEF CopyPiece
  <2>3. /\ \A d \in Clients \ {c} : pc'[d] = pc[d] /\ left'[d] = left[d]
        /\ pc'[c] = IF left[c] = {i} THEN "regfile" ELSE "cat"
        /\ off'[c] = [out |-> out, in |-> 0]
    BY <2>2 DEF Goto, TypeInv, TypeOK
  <2>4. left'[c] = (k + 2)..ChunkCount(f)
    BY <1>2, <1>3, <1>5, <2>2 DEF Copied, TypeInv, TypeOK
  <2>5. out = (k + 1) * PieceCount
    BY <1>8, <2>1
  <2>6. left[c] = (k + 1)..ChunkCount(f)
    BY <1>2 DEF Copied
  <2>7. CASE left[c] = {i}
    <3>1. k + 1 = ChunkCount(f)
      <4>1. ChunkCount(f) \in left[c]
        BY <1>3, <2>6
      <4> QED BY <1>5, <2>7, <4>1
    <3>2. Whole(f)'
      BY <1>8, <2>2, <2>5, <3>1 DEF Whole, Units, ChunkCount
    <3> QED BY <1>1, <1>5, <2>2, <2>3, <2>7, <3>2, BusyWhere, MergeStays DEF CompleteSteps
  <2>8. CASE left[c] # {i}
    <3>1. k + 1 \in 0..(ChunkCount(f) - 1)
      <4>1. k + 1 # ChunkCount(f)
        BY <1>3, <1>5, <2>6, <2>8
      <4> QED BY <1>3, <4>1
    <3>2. Copied(c, k + 1)'
      <4>1. off'[c].out = (k + 1) * PieceCount + off'[c].in /\ off'[c].out = out
        <5>1. off'[c].out = out /\ off'[c].in = 0
          BY <2>3
        <5>2. out = (k + 1) * PieceCount + 0
          BY <1>8, <2>5
        <5> QED BY <5>1, <5>2
      <4>2. left'[c] = ((k + 1) + 1)..ChunkCount(f)
        BY <1>3, <2>4
      <4>3. \A u \in 1..out : merged'[f][u] = "good"
        BY <1>8, <2>2
      <4> QED BY <4>1, <4>2, <4>3 DEF Copied, ChunkCount
    <3> QED BY <1>1, <2>2, <2>3, <2>8, <3>1, <3>2, BusyWhere, MergeStays DEF CompleteSteps
  <2> QED BY <2>7, <2>8
<1> QED BY <1>9, <1>10

LEMMA CompleteWhole ==
    ASSUME TypeInv, SessionOwnsOneFile, FitInv, CountInv, TurnInv, TurnCountInv, WholeInv,
           NEW c \in Clients, CompleteStep(c)
    PROVE  WholeInv'
<1>1. CASE RegisterFile(c)
  <2>1. /\ UNCHANGED <<merged, left, off>> /\ pc[c] = "regfile" /\ pc'[c] = "reguser"
        /\ \A d \in Clients \ {c} : pc'[d] = pc[d]
        /\ fileTbl' \subseteq fileTbl \cup {FileOf[c]}
    BY <1>1 DEF RegisterFile, disk, Goto, TypeInv, TypeOK
  <2>2. MergeIsGood' /\ FinishedIsWhole'
    <3>1. \A d \in Clients : /\ pc'[d] = "cat" => pc[d] = "cat"
                            /\ pc'[d] \in Finishing => pc[d] \in Finishing
      BY <2>1 DEF Finishing
    <3> QED BY <2>1, <3>1, MergesStay
  <2>3. Whole(FileOf[c])
    BY <2>1 DEF WholeInv, FinishedIsWhole, Finishing
  <2>4. \A f \in fileTbl' : Whole(f) \/ CutShort(f)
    BY <2>1, <2>3 DEF WholeInv, RowIsWhole
  <2>5. RowIsWhole'
    BY <2>1, <2>4 DEF RowIsWhole, CutShort, Whole, Units, ChunkCount
  <2> QED BY <2>2, <2>5 DEF WholeInv
<1>2. CASE \/ CallComplete(c) \/ CheckComplete(c) \/ CheckCompleteFails(c)
           \/ RegisterUserFile(c) \/ DeleteHashKey(c) \/ DeleteSession(c)
           \/ MergeFails(c) \/ DeleteFails(c) \/ PublishTransfer(c) \/ Leave(c)
  <2>1. UNCHANGED <<merged, left, off, fileTbl>>
    BY <1>2 DEF CallComplete, CheckComplete, CheckCompleteFails, RegisterUserFile,
       DeleteHashKey, DeleteSession, MergeFails, DeleteFails, PublishTransfer, Leave, disk, mysql
  <2>2. /\ pc'[c] = "cat" => pc[c] = "cat"
        /\ pc'[c] \in Finishing => pc[c] \in Finishing
    BY <1>2 DEF CallComplete, CheckComplete, CheckCompleteFails, RegisterUserFile,
       DeleteHashKey, DeleteSession, MergeFails, DeleteFails, PublishTransfer, Leave, Goto, Finishing,
       TypeInv, TypeOK
  <2> QED BY <2>1, <2>2, CompleteShape, WholeStays
<1> QED BY <1>1, <1>2, StartWhole, CatWhole
        DEF CompleteStep, CompleteHandler, CompleteHandlerFails

LEMMA WholeStep ==
    ASSUME TypeInv, SessionOwnsOneFile, FitInv, CountsKept, TurnsKept, TurnCountsKept,
           WholeKept, [Next]_vars, TakeTurns, RedisKeeps'
    PROVE  WholeInv'
<1>0. TurnInv /\ CountInv /\ TurnCountInv /\ WholeInv
  <2>1. RedisKeeps
    BY NeverBefore, KindsOfFault DEF RedisKeeps
  <2> QED BY <2>1 DEF TurnsKept, CountsKept, TurnCountsKept, WholeKept
<1>9. ~ Fault("expire")
  BY FaultCounts, KindsOfFault DEF RedisKeeps, Never
<1>1. ASSUME NEW c \in Clients, InitHandler(c) \/ InitHandlerFails(c) PROVE WholeInv'
  <2>1. UNCHANGED <<merged, left, off, fileTbl>>
    BY <1>1, InitShape DEF disk, mysql
  <2>2. pc[c] # "cat" /\ pc'[c] \notin {"cat"} \cup Finishing
    BY <1>1, InitShape DEF InitSteps, Over, Finishing
  <2> QED BY <1>0, <1>1, <2>1, <2>2, InitShape, WholeStays
<1>2. ASSUME NEW c \in Clients, NEW i \in AllChunks,
             StartPart(c, i) \/ PartHandler(c, i) \/ PartHandlerFails(c, i)
      PROVE  WholeInv'
  BY <1>0, <1>2, PartShape, WholeStays DEF mysql
<1>3. ASSUME NEW c \in Clients, ClientNext(c) PROVE WholeInv'
  BY <1>0, <1>1, <1>2, <1>3, CompleteWhole DEF ClientNext, CompleteStep
<1>4. CASE (\E f \in Files : ExpireHashKey(f)) \/ (\E u \in UploadIDs : ExpireSession(u))
  BY <1>4, <1>9 DEF ExpireHashKey, ExpireSession
<1>5. CASE Crash
  BY <1>0, <1>5, CrashShape, WholeStays DEF disk, mysql, CompleteSteps, Finishing
<1>6. CASE UNCHANGED vars
  BY <1>0, <1>6, WholeStays DEF vars, disk, mysql, run
<1> QED BY <1>3, <1>4, <1>5, <1>6 DEF Next

LEMMA Wholes == Spec => []WholeKept
<1>1. Init => WholeKept
  BY DEF Init, WholeKept, WholeInv, MergeIsGood, FinishedIsWhole, RowIsWhole, Finishing
<1>2. TypeInv /\ SessionOwnsOneFile /\ FitInv /\ CountsKept /\ TurnsKept /\ TurnCountsKept
        /\ WholeKept /\ [Next]_vars => WholeKept'
  BY WholeStep DEF WholeKept
<1> QED BY <1>1, <1>2, TypeInvariant, SessionsSafe, Fits, Counts, Turns, TurnCounts, PTL
        DEF Spec

\* A file with a row is whole on disk unless a merge of it runs or was cut
\* short by its shell or a crash, for clients that take turns, as long as
\* redis keeps what it was told, whatever else fails.
THEOREM RegisteredSafe == Spec => []RegisteredIsWhole
<1>1. WholeKept => RegisteredIsWhole
  BY DEF WholeKept, RedisKeeps, WholeInv, RowIsWhole, RegisteredIsWhole
<1> QED BY <1>1, Wholes, PTL

-----------------------------------------------------------------------------
(***************************************************************************)
(* The promise.  While dbproxy does what it is asked, a Complete comes to  *)
(* the user's row with the row of the file written, and to the message     *)
(* with both.                                                              *)
(***************************************************************************)
Registered == {"delhash", "delsession", "publish"}

FileHasRow ==
    \A c \in Clients : pc[c] \in {"reguser"} \cup Registered => FileOf[c] \in fileTbl

OwnerHasRow ==
    \A c \in Clients : pc[c] \in Registered => <<UserOf[c], FileOf[c]>> \in userTbl

RowsInv   == FileHasRow /\ OwnerHasRow
MysqlDoes == Never({"rpc", "sql"})
RowsKept  == MysqlDoes => RowsInv

LEMMA RowsStay ==
    ASSUME RowsInv, fileTbl \subseteq fileTbl', userTbl \subseteq userTbl',
           \A c \in Clients :
             /\ pc'[c] = "reguser" => pc[c] = "reguser" \/ FileOf[c] \in fileTbl'
             /\ pc'[c] \in Registered =>
                  \/ pc[c] \in Registered
                  \/ FileOf[c] \in fileTbl' /\ <<UserOf[c], FileOf[c]>> \in userTbl'
    PROVE  RowsInv'
<1>1. FileHasRow'
  BY DEF RowsInv, FileHasRow, Registered
<1>2. OwnerHasRow'
  BY DEF RowsInv, OwnerHasRow
<1> QED BY <1>1, <1>2 DEF RowsInv

\* A call of dbproxy that is not at fault writes its row.
LEMMA RowIsWritten ==
    ASSUME ~ Fault("rpc"), ~ Fault("sql"), NEW o \in DbOutcomes, DbFault(o)
    PROVE  RowWritten(o) /\ ~ RpcError(o)
BY DEF DbOutcomes, DbFault, RowWritten, RpcError

LEMMA CompleteRows ==
    ASSUME TypeInv, RowsInv, ~ Fault("rpc"), ~ Fault("sql"), NEW c \in Clients,
           CompleteStep(c)
    PROVE  RowsInv'
<1>0. \A d \in Clients \ {c} : pc'[d] = pc[d]
  BY CompleteShape
<1>1. CASE RegisterFile(c)
  <2>1. pc'[c] = "reguser" /\ UNCHANGED userTbl
    BY <1>1 DEF RegisterFile, Goto, TypeInv, TypeOK
  <2>2. fileTbl' = fileTbl \cup {FileOf[c]}
    BY <1>1, RowIsWritten DEF RegisterFile
  <2> QED BY <1>0, <2>1, <2>2, RowsStay DEF Registered
<1>2. CASE RegisterUserFile(c)
  <2>1. pc[c] = "reguser" /\ pc'[c] \in {"dbfail", "delhash"} /\ UNCHANGED fileTbl
    BY <1>2 DEF RegisterUserFile, Goto, TypeInv, TypeOK
  <2>2. userTbl' = userTbl \cup {<<UserOf[c], FileOf[c]>>}
    BY <1>2, RowIsWritten DEF RegisterUserFile
  <2>3. FileOf[c] \in fileTbl
    BY <2>1 DEF RowsInv, FileHasRow
  <2> QED BY <1>0, <2>1, <2>2, <2>3, RowsStay DEF Registered
<1>3. CASE ~ RegisterFile(c) /\ ~ RegisterUserFile(c)
  <2>1. UNCHANGED mysql
    BY <1>3 DEF CompleteStep, CallComplete, CompleteHandler, CompleteHandlerFails,
       CheckComplete, CheckCompleteFails, StartMerge, CatChunk, CopyPiece, MergeFails, DeleteHashKey,
       DeleteSession, DeleteFails, PublishTransfer, Leave
  <2>2. pc'[c] # "reguser" /\ (pc'[c] \in Registered => pc[c] \in Registered)
    BY <1>3 DEF CompleteStep, CallComplete, CompleteHandler, CompleteHandlerFails,
       CheckComplete, CheckCompleteFails, StartMerge, CatChunk, CopyPiece, MergeFails, DeleteHashKey,
       DeleteSession, DeleteFails, PublishTransfer, Leave, Goto, Registered, TypeInv,
       TypeOK
  <2> QED BY <1>0, <2>1, <2>2, RowsStay DEF mysql
<1> QED BY <1>1, <1>2, <1>3

LEMMA RegisteringStep ==
    ASSUME TypeInv, RowsKept, [Next]_vars, MysqlDoes'
    PROVE  RowsInv'
<1>0. RowsInv
  BY NeverBefore, KindsOfFault DEF MysqlDoes, RowsKept
<1>9. ~ Fault("rpc") /\ ~ Fault("sql")
  BY FaultCounts, KindsOfFault DEF MysqlDoes, Never
<1>1. ASSUME UNCHANGED mysql,
             \A c \in Clients : pc'[c] \in {"reguser"} \cup Registered => pc'[c] = pc[c]
      PROVE  RowsInv'
  BY <1>0, <1>1, RowsStay DEF mysql
<1>2. ASSUME NEW c \in Clients, InitHandler(c) \/ InitHandlerFails(c) PROVE RowsInv'
  BY <1>1, <1>2, InitShape DEF InitSteps, Over, Registered
<1>3. ASSUME NEW c \in Clients, NEW i \in AllChunks,
             StartPart(c, i) \/ PartHandler(c, i) \/ PartHandlerFails(c, i)
      PROVE  RowsInv'
  BY <1>1, <1>3, PartShape
<1>4. ASSUME NEW c \in Clients, ClientNext(c) PROVE RowsInv'
  BY <1>0, <1>2, <1>3, <1>4, <1>9, CompleteRows DEF ClientNext, CompleteStep
<1>5. CASE (\E f \in Files : ExpireHashKey(f)) \/ (\E u \in UploadIDs : ExpireSession(u))
  BY <1>1, <1>5, ExpiryShape DEF run
<1>6. CASE Crash
  BY <1>1, <1>6, CrashShape DEF Registered
<1>7. CASE UNCHANGED vars
  BY <1>1, <1>7 DEF vars, run
<1> QED BY <1>4, <1>5, <1>6, <1>7 DEF Next

LEMMA Rows == Spec => []RowsKept
<1>1. Init => RowsKept
  BY DEF Init, RowsKept, RowsInv, FileHasRow, OwnerHasRow, Registered
<1>2. TypeInv /\ RowsKept /\ [Next]_vars => RowsKept'
  BY RegisteringStep DEF RowsKept
<1> QED BY <1>1, <1>2, TypeInvariant, PTL DEF Spec

\* What the state of the upload is in the terms of the promise.
WholeFiles == {f \in Files : Units(f) # {} /\ Whole(f)}
Void == ~ TakeTurns \/ ~ Never({"expire", "redis", "rpc", "sql"})

\* A step of the promise, or none, as long as it stands.
Promised == Promise!Next \/ UNCHANGED <<WholeFiles, fileTbl, userTbl, published>>

\* The merges: they make the file whole or start it over.
LEMMA MergePromised ==
    ASSUME TypeInv, NEW c \in Clients, StartMerge(c) \/ CatChunk(c)
    PROVE  Promised
<1> DEFINE f == FileOf[c]
<1>1. UNCHANGED <<fileTbl, userTbl, published>> /\ f \in Files
  BY DEF StartMerge, CatChunk, CopyPiece, MergeFails, mysql
<1>2. \A g \in Files : g # f => merged'[g] = merged[g]
  BY DEF StartMerge, CatChunk, CopyPiece, MergeFails, TypeInv, TypeOK
<1>3. \A g \in Files : g # f => (Whole(g)' <=> Whole(g))
  BY <1>2 DEF Whole, Units, ChunkCount
<1>4. WholeFiles' = WholeFiles \cup {f} \/ WholeFiles' = WholeFiles \ {f}
  <2>1. \A g \in Files : g # f => (g \in WholeFiles' <=> g \in WholeFiles)
    BY <1>3 DEF WholeFiles, Units, ChunkCount
  <2>2. WholeFiles \subseteq Files /\ WholeFiles' \subseteq Files
    BY DEF WholeFiles
  <2> QED BY <1>1, <2>1, <2>2
<1>5. Promise!Assemble(f) \/ Promise!Reassemble(f)
  BY <1>1, <1>4 DEF Promise!Assemble, Promise!Reassemble, WholeFiles
<1> QED BY <1>1, <1>5 DEF Promised, Promise!Next

\* The rows and the message: each finds what was written before it.
LEMMA RegisterPromised ==
    ASSUME TypeInv, WholeInv, RowsInv, NEW c \in Clients,
           RegisterFile(c) \/ RegisterUserFile(c) \/ PublishTransfer(c)
    PROVE  Promised
<1> DEFINE f == FileOf[c]
<1>1. f \in Files /\ UserOf[c] \in Users
  OBVIOUS
<1>2. UNCHANGED merged /\ pc[c] \in {"regfile", "reguser", "publish"}
  BY DEF RegisterFile, RegisterUserFile, PublishTransfer, disk
<1>3. f \in WholeFiles /\ UNCHANGED WholeFiles
  <2>1. Whole(f) /\ Units(f) # {}
    BY <1>1, <1>2, SomeUnits DEF WholeInv, FinishedIsWhole, Finishing
  <2> QED BY <1>1, <1>2, <2>1 DEF WholeFiles, Whole, Units, ChunkCount
<1>4. CASE RegisterFile(c)
  <2>1. UNCHANGED <<userTbl, published>> /\ fileTbl' \in {fileTbl, fileTbl \cup {f}}
    BY <1>4 DEF RegisterFile
  <2>2. UNCHANGED fileTbl \/ Promise!AddFile(f)
    BY <1>3, <2>1 DEF Promise!AddFile, WholeFiles
  <2> QED BY <1>1, <1>3, <2>1, <2>2 DEF Promised, Promise!Next
<1>5. CASE RegisterUserFile(c)
  <2>1. /\ UNCHANGED <<fileTbl, published>>
        /\ userTbl' \in {userTbl, userTbl \cup {<<UserOf[c], f>>}}
    BY <1>5 DEF RegisterUserFile
  <2>2. f \in fileTbl
    BY <1>5 DEF RegisterUserFile, RowsInv, FileHasRow
  <2>3. UNCHANGED userTbl \/ Promise!AddOwner(UserOf[c], f)
    BY <1>3, <2>1, <2>2 DEF Promise!AddOwner, WholeFiles
  <2> QED BY <1>1, <1>3, <2>1, <2>3 DEF Promised, Promise!Next
<1>6. CASE PublishTransfer(c)
  <2>1. /\ UNCHANGED <<fileTbl, userTbl>>
        /\ published' \in {published, published \cup {f}}
    BY <1>6 DEF PublishTransfer, mysql
  <2>2. f \in fileTbl /\ <<UserOf[c], f>> \in userTbl
    BY <1>6 DEF PublishTransfer, RowsInv, FileHasRow, OwnerHasRow, Registered
  <2>3. UNCHANGED published \/ Promise!AddJob(f)
    BY <1>1, <1>3, <2>1, <2>2 DEF Promise!AddJob, WholeFiles
  <2> QED BY <1>1, <1>3, <2>1, <2>3 DEF Promised, Promise!Next
<1> QED BY <1>4, <1>5, <1>6

LEMMA PromiseStep ==
    ASSUME TypeInv, WholeKept, RowsKept, [Next]_vars, ~ Void'
    PROVE  ~ Void /\ Promised
<1>1. ~ Void
  BY NeverBefore, KindsOfFault DEF Void
<1>2. WholeInv /\ RowsInv
  BY <1>1 DEF Void, Never, WholeKept, RedisKeeps, RowsKept, MysqlDoes
<1>3. ASSUME UNCHANGED <<merged, mysql, published>> PROVE Promised
  BY <1>3 DEF mysql, Promised, WholeFiles, Whole, Units, ChunkCount
<1>4. ASSUME NEW c \in Clients, ClientNext(c) PROVE Promised
  <2>1. CASE InitHandler(c) \/ InitHandlerFails(c)
    BY <1>3, <2>1, InitShape DEF disk
  <2>2. ASSUME NEW i \in AllChunks,
               StartPart(c, i) \/ PartHandler(c, i) \/ PartHandlerFails(c, i)
        PROVE  Promised
    BY <1>3, <2>2, PartShape
  <2>3. CASE \/ CallComplete(c) \/ CheckComplete(c) \/ CheckCompleteFails(c)
             \/ MergeFails(c) \/ DeleteHashKey(c) \/ DeleteSession(c) \/ DeleteFails(c)
             \/ Leave(c)
    BY <1>3, <2>3 DEF CallComplete, CheckComplete, CheckCompleteFails, MergeFails,
       DeleteHashKey, DeleteSession, DeleteFails, Leave, disk
  <2> QED BY <1>2, <1>4, <2>1, <2>2, <2>3, MergePromised, RegisterPromised
          DEF ClientNext, CompleteHandler, CompleteHandlerFails
<1>5. CASE (\E f \in Files : ExpireHashKey(f)) \/ (\E u \in UploadIDs : ExpireSession(u))
  BY <1>1, <1>3, <1>5, ExpiryShape DEF disk
<1>6. CASE Crash
  BY <1>1, <1>3, <1>6, CrashShape DEF disk
<1>7. CASE UNCHANGED vars
  BY <1>1, <1>3, <1>7 DEF vars, disk
<1> QED BY <1>1, <1>4, <1>5, <1>6, <1>7 DEF Next

\* The upload implements UploadPromise: for clients that take turns, until a
\* store fails, a file's row appears when the file is whole on disk, a user's
\* row after the file's, and the job of the transfer service after both.
THEOREM PromiseKept == Spec => KeepsPromise
<1>1. Init => Promise!Init
  <2> SUFFICES ASSUME Init PROVE Promise!Init
    OBVIOUS
  <2>1. ASSUME NEW f \in Files, Units(f) # {} PROVE ~ Whole(f)
    <3>1. PICK u \in Units(f) : TRUE
      BY <2>1
    <3>2. merged[f][u] = "none"
      BY <3>1 DEF Init, AllUnits
    <3> QED BY <3>1, <3>2 DEF Whole
  <2> QED BY <2>1 DEF Init, Promise!Init, Never
<1>2. TypeInv /\ WholeKept /\ RowsKept /\ [Next]_vars
        => [Void' \/ (Void' = Void /\ Promise!Next)]_(Promise!vars)
  <2> SUFFICES ASSUME TypeInv, WholeKept, RowsKept, [Next]_vars, ~ Void'
               PROVE  (Void' = Void /\ Promise!Next) \/ UNCHANGED Promise!vars
    BY Zenon
  <2>1. ~ Void /\ Promised
    BY PromiseStep
  <2>2. Void' = Void
    BY <2>1 DEF Void
  <2> QED BY <2>1, <2>2 DEF Promised, Promise!vars, WholeFiles, Void
<1> QED BY <1>1, <1>2, TypeInvariant, Wholes, Rows, PTL DEF Spec, KeepsPromise, Promise!Spec, Void

=============================================================================
