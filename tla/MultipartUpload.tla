--------------------------- MODULE MultipartUpload ---------------------------
(***************************************************************************)
(* The resumable upload of service/upload/api/mpupload.go: a client asks   *)
(* for an upload session, posts the chunks the session lacks, and asks for *)
(* the chunks to be merged.  A session is spread over three stores that no *)
(* transaction ties together:                                              *)
(*                                                                         *)
(*   redis  HASH_UPID_<hash> names the session of a file, and the hash     *)
(*          MP_<uploadID> counts and marks its chunks; both expire;        *)
(*   disk   one directory of chunk files per session, and one merged file  *)
(*          per file hash, shared by every session of that hash;           *)
(*   mysql  tbl_file and tbl_user_file, written through the dbproxy rpc.   *)
(*                                                                         *)
(* A handler is a goroutine; every call it makes on a store is one action, *)
(* so the calls of different requests interleave here as they do there.    *)
(* A client stands for one run of the upload page (or of the test program) *)
(* by one user for one file; a user who comes back is another client.      *)
(***************************************************************************)
EXTENDS Integers, FiniteSets

CONSTANTS
    Files,        \* the file hashes
    Users,
    Clients,      \* the runs of the upload page
    FileOf,       \* [Clients -> Files]
    UserOf,       \* [Clients -> Users]
    FileSize,     \* [Files -> Nat]
    ChunkSize,    \* 5MB in the code
    PieceCount,   \* the fd.Write calls one chunk takes
    NoId,         \* the empty uploadID
    FaultBudget,  \* [FaultKinds -> Nat], how often each fault may happen
    KindsAtOnce,  \* how many kinds of faults meet in one behaviour
    TakeTurns     \* TRUE: a client starts only when no other is busy

FaultKinds == {
    "cut",        \* the body of a chunk ends early (or fd.Write fails)
    "disk",       \* os.Create fails
    "cat",        \* the merge's shell fails: a chunk cannot be read, the disk is full
    "crash",      \* the upload service dies and is restarted
    "expire",     \* a redis key reaches its TTL
    "redis",      \* a redis command fails, and the rest of the request's too
    "rpc",        \* the call of dbproxy returns an error, applied or not
    "sql",        \* dbproxy answers with Suc = false
    "mq",         \* mq.Publish returns false
    "leave",      \* a client gives up
    "early"}      \* a client asks for the merge without posting every chunk

ASSUME ConstantsAssumption ==
    /\ FileOf \in [Clients -> Files]
    /\ UserOf \in [Clients -> Users]
    /\ FileSize \in [Files -> Nat]
    /\ ChunkSize \in Nat \ {0}
    /\ PieceCount \in Nat \ {0}
    /\ NoId \notin Clients
    /\ FaultBudget \in [FaultKinds -> Nat]
    /\ KindsAtOnce \in Nat
    /\ TakeTurns \in BOOLEAN

\* A fresh uploadID is the user's name and the time in nanoseconds: unique,
\* so the client whose request made it up can stand for it.
UploadIDs == Clients

ChunkCount(f) == (FileSize[f] + ChunkSize - 1) \div ChunkSize
Chunks(f)     == 1..ChunkCount(f)
AllChunks     == UNION {Chunks(f) : f \in Files}

\* A chunk is written piece by piece, and the merged file has the pieces of
\* chunk 1, then those of chunk 2, ...
Pieces   == 1..PieceCount
Units(f) == 1..(ChunkCount(f) * PieceCount)
AllUnits == UNION {Units(f) : f \in Files}

VARIABLES
    hashUp,       \* redis HASH_UPID_<hash>: [Files -> UploadIDs or NoId]
    mp,           \* redis MP_<uploadID>, as its readers see it
    made,         \* the sessions that have a directory
    dir,          \* the chunk files a session's directory holds
    body,         \* the pieces a chunk file holds
    merged,       \* each unit of a merged file: none, good or bad bytes
    fileTbl,      \* tbl_file
    userTbl,      \* tbl_user_file
    published,    \* the files a transfer message was published for
    pc,           \* where a client's run is
    upid,         \* the uploadID its Init answered
    found,        \* the ChunkExists its Init answered
    part,         \* its chunk requests
    left, off,    \* its merge: files to cat; units written, pieces read of the first
    ferr,         \* its OnFileUploadFinished returned an error
    faults        \* the faults so far

redis == <<hashUp, mp>>
disk  == <<made, dir, body, merged>>
mysql == <<fileTbl, userTbl>>
run   == <<pc, upid, found, part, left, off, ferr>>
vars  == <<redis, disk, mysql, published, run, faults>>

(***************************************************************************)
(* Where a run is: before its Init request, inside a handler, between its  *)
(* requests ("have"), or over.                                             *)
(***************************************************************************)
InitSteps     == {"lookup", "get", "list", "setcount", "setttl", "sethash"}
CompleteSteps == {"check", "merge", "cat", "regfile", "reguser", "delhash",
                  "delsession", "publish"}
Over          == {"exists", "initfail", "nolookup", "incomplete", "mergefail",
                  "dbfail", "delfail", "ok", "gone"}
PartSteps     == {"create", "write", "verify", "mark"}
PartOver      == {"acked", "refused", "lost"}

NoSession == [live |-> FALSE, ttl |-> FALSE, count |-> 0, done |-> {}]

TypeOK ==
    /\ hashUp \in [Files -> UploadIDs \cup {NoId}]
    /\ mp \in [UploadIDs -> [live : BOOLEAN, ttl : BOOLEAN, count : Nat,
                             done : SUBSET AllChunks]]
    /\ made \subseteq UploadIDs
    /\ dir \in [UploadIDs -> SUBSET AllChunks]
    /\ body \in [UploadIDs -> [AllChunks -> SUBSET Pieces]]
    /\ merged \in [Files -> [AllUnits -> {"none", "good", "bad"}]]
    /\ fileTbl \subseteq Files
    /\ userTbl \subseteq Users \X Files
    /\ published \subseteq Files
    /\ pc \in [Clients -> {"idle", "have"} \cup InitSteps \cup CompleteSteps
                          \cup Over]
    /\ upid \in [Clients -> UploadIDs \cup {NoId}]
    /\ found \in [Clients -> SUBSET AllChunks]
    /\ part \in [Clients -> [AllChunks -> [at : {"none"} \cup PartSteps \cup PartOver,
                                           off : 0..PieceCount]]]
    /\ left \in [Clients -> SUBSET AllChunks]
    /\ off \in [Clients -> [out : Nat, in : 0..PieceCount]]
    /\ ferr \in [Clients -> BOOLEAN]
    /\ faults \in [FaultKinds -> Nat]

Init ==
    /\ hashUp = [f \in Files |-> NoId]
    /\ mp = [u \in UploadIDs |-> NoSession]
    /\ made = {}
    /\ dir = [u \in UploadIDs |-> {}]
    /\ body = [u \in UploadIDs |-> [i \in AllChunks |-> {}]]
    /\ merged = [f \in Files |-> [u \in AllUnits |-> "none"]]
    /\ fileTbl = {}
    /\ userTbl = {}
    /\ published = {}
    /\ pc = [c \in Clients |-> "idle"]
    /\ upid = [c \in Clients |-> NoId]
    /\ found = [c \in Clients |-> {}]
    /\ part = [c \in Clients |-> [i \in AllChunks |-> [at |-> "none", off |-> 0]]]
    /\ left = [c \in Clients |-> {}]
    /\ off = [c \in Clients |-> [out |-> 0, in |-> 0]]
    /\ ferr = [c \in Clients |-> FALSE]
    /\ faults = [k \in FaultKinds |-> 0]

-----------------------------------------------------------------------------
Goto(c, step) == pc' = [pc EXCEPT ![c] = step]

PartGoto(c, i, step) == part' = [part EXCEPT ![c][i].at = step]

\* FaultBudget and KindsAtOnce bound the faults of a behaviour.
MayHappen(k) ==
    /\ faults[k] < FaultBudget[k]
    /\ Cardinality({j \in FaultKinds : faults[j] > 0} \cup {k}) <= KindsAtOnce

Fault(k) == MayHappen(k) /\ faults' = [faults EXCEPT ![k] = @ + 1]

\* The outcomes of a dbproxy call that writes a row: it is written; the SQL
\* fails and Suc is FALSE; the rpc fails before or after the row is written.
DbOutcomes    == {"done", "sqlfails", "lost", "late"}
RowWritten(o) == o \in {"done", "late"}
RpcError(o)   == o \in {"lost", "late"}
DbFault(o)    == CASE o = "done"     -> UNCHANGED faults
                   [] o = "sqlfails" -> Fault("sql")
                   [] OTHER          -> Fault("rpc")

PartActive(c) == \E i \in AllChunks : part[c][i].at \in PartSteps
Busy(c)       == pc[c] \notin {"idle"} \cup Over \/ PartActive(c)

(***************************************************************************)
(* InitialMultipartUploadHandler                                           *)
(***************************************************************************)

\* IsUserFileUploaded; an error of the call reads as "not uploaded".
CheckUserFile(c) ==
    /\ pc[c] = "idle"
    /\ TakeTurns =>
          \A d \in Clients \ {c} : ~ Busy(d)
    /\ \/ /\ Goto(c, IF <<UserOf[c], FileOf[c]>> \in userTbl
                       THEN "exists" ELSE "lookup")
          /\ UNCHANGED faults
       \/ /\ <<UserOf[c], FileOf[c]>> \in userTbl
          /\ Goto(c, "lookup")
          /\ Fault("rpc")
    /\ UNCHANGED <<redis, disk, mysql, published, upid, found, part, left, off,
                   ferr>>

\* EXISTS HASH_UPID_<hash>: resume the session the key names, or start a new
\* one under a fresh uploadID.
LookupSession(c) ==
    /\ pc[c] = "lookup"
    /\ IF hashUp[FileOf[c]] # NoId
         THEN Goto(c, "get") /\ UNCHANGED upid
         ELSE Goto(c, "setcount") /\ upid' = [upid EXCEPT ![c] = c]
    /\ UNCHANGED <<redis, disk, mysql, published, found, part, left, off, ferr,
                   faults>>

\* EXISTS fails and reads as "no key": a fresh uploadID that redis never
\* learns of, because the request's remaining commands fail too.
LookupSessionFails(c) ==
    /\ pc[c] = "lookup"
    /\ Goto(c, "have")
    /\ upid' = [upid EXCEPT ![c] = c]
    /\ Fault("redis")
    /\ UNCHANGED <<redis, disk, mysql, published, found, part, left, off, ferr>>

\* Mutant of GetSession: a hash key without the hash, so any file's session.
GetAnySession(c) ==
    /\ pc[c] = "get"
    /\ \E f \in Files :
         /\ hashUp[f] # NoId
         /\ upid' = [upid EXCEPT ![c] = hashUp[f]]
    /\ Goto(c, "list")
    /\ UNCHANGED <<redis, disk, mysql, published, found, part, left, off, ferr,
                   faults>>

\* GET HASH_UPID_<hash>: nil when the key went away since EXISTS.
GetSession(c) ==
    /\ pc[c] = "get"
    /\ IF hashUp[FileOf[c]] # NoId
         THEN Goto(c, "list") /\ upid' = [upid EXCEPT ![c] = hashUp[FileOf[c]]]
         ELSE Goto(c, "initfail") /\ UNCHANGED upid
    /\ UNCHANGED <<redis, disk, mysql, published, found, part, left, off, ferr,
                   faults>>

\* Mutant of ListChunks: lists the chunk files instead of the marks.
ListFiles(c) ==
    /\ pc[c] = "list"
    /\ found' = [found EXCEPT ![c] = dir[upid[c]]]
    /\ Goto(c, IF dir[upid[c]] = {} THEN "setcount" ELSE "have")
    /\ UNCHANGED <<redis, disk, mysql, published, upid, part, left, off, ferr,
                   faults>>

\* HGETALL MP_<uploadID>.  With a marked chunk the handler answers at once;
\* with none it writes the session again.
ListChunks(c) ==
    /\ pc[c] = "list"
    /\ found' = [found EXCEPT ![c] = mp[upid[c]].done]
    /\ Goto(c, IF mp[upid[c]].done = {} THEN "setcount" ELSE "have")
    /\ UNCHANGED <<redis, disk, mysql, published, upid, part, left, off, ferr,
                   faults>>

\* GET or HGETALL fails: code -2 or -3.
GetOrListFails(c) ==
    /\ pc[c] \in {"get", "list"}
    /\ Goto(c, "initfail")
    /\ Fault("redis")
    /\ UNCHANGED <<redis, disk, mysql, published, upid, found, part, left, off,
                   ferr>>

\* HSET chunkcount (and filehash and filesize, which no handler reads).  An
\* HSET keeps the TTL of a key that has one.
SetChunkCount(c) ==
    /\ pc[c] = "setcount"
    /\ mp' = [mp EXCEPT ![upid[c]] =
                [live |-> TRUE, ttl |-> @.ttl, count |-> ChunkCount(FileOf[c]),
                 done |-> @.done]]
    /\ Goto(c, "setttl")
    /\ UNCHANGED <<hashUp, disk, mysql, published, upid, found, part, left, off,
                   ferr, faults>>

\* EXPIRE MP_<uploadID> 43200, nothing when the key is gone.
SetSessionTTL(c) ==
    /\ pc[c] = "setttl"
    /\ mp' = [mp EXCEPT ![upid[c]] =
                [live |-> @.live, ttl |-> @.live, count |-> @.count,
                 done |-> @.done]]
    /\ Goto(c, "sethash")
    /\ UNCHANGED <<hashUp, disk, mysql, published, upid, found, part, left, off,
                   ferr, faults>>

\* SET HASH_UPID_<hash> <uploadID> EX 43200, then the answer.
SetHashKey(c) ==
    /\ pc[c] = "sethash"
    /\ hashUp' = [hashUp EXCEPT ![FileOf[c]] = upid[c]]
    /\ Goto(c, "have")
    /\ UNCHANGED <<mp, disk, mysql, published, upid, found, part, left, off,
                   ferr, faults>>

\* One of these writes fails, as do those after it; nobody looks at the
\* errors and the client is answered all the same.
SessionWritesFail(c) ==
    /\ pc[c] \in {"setcount", "setttl", "sethash"}
    /\ Goto(c, "have")
    /\ Fault("redis")
    /\ UNCHANGED <<redis, disk, mysql, published, upid, found, part, left, off,
                   ferr>>

(***************************************************************************)
(* UploadPartHandler, for chunk i of client c.  The page posts one chunk   *)
(* after the other, the test program all at once.                          *)
(***************************************************************************)
\* Mutant of Missing: the client posts every chunk again.
EveryChunk(c) == Chunks(FileOf[c])

Missing(c) == Chunks(FileOf[c]) \ found[c]

StartPart(c, i) ==
    /\ pc[c] = "have"
    /\ i \in Missing(c)
    /\ part[c][i].at = "none"
    /\ PartGoto(c, i, "create")
    /\ UNCHANGED <<redis, disk, mysql, published, pc, upid, found, left, off,
                   ferr, faults>>

\* os.MkdirAll and os.Create, which truncates a chunk file already there.
CreateChunk(c, i) ==
    /\ part[c][i].at = "create"
    /\ made' = made \cup {upid[c]}
    /\ dir' = [dir EXCEPT ![upid[c]] = @ \cup {i}]
    /\ body' = [body EXCEPT ![upid[c]][i] = {}]
    /\ part' = [part EXCEPT ![c][i] = [at |-> "write", off |-> 0]]
    /\ UNCHANGED <<redis, merged, mysql, published, pc, upid, found, left, off,
                   ferr, faults>>

\* Mutant of CreateChunkFails: the handler goes on after the error.
CreateChunkFailsUnseen(c, i) ==
    /\ part[c][i].at = "create"
    /\ PartGoto(c, i, "mark")
    /\ Fault("disk")
    /\ UNCHANGED <<redis, disk, mysql, published, pc, upid, found, left, off,
                   ferr>>

\* os.Create fails, with the directory there or not (the error of os.MkdirAll
\* is not looked at): the answer says so in its text, but its code is 0.
CreateChunkFails(c, i) ==
    /\ part[c][i].at = "create"
    /\ made' \in {made, made \cup {upid[c]}}
    /\ PartGoto(c, i, "acked")
    /\ Fault("disk")
    /\ UNCHANGED <<redis, dir, body, merged, mysql, published, pc, upid, found,
                   left, off, ferr>>

\* Mutant of WritePiece: the loop does not end with the body.
WriteWithoutEnd(c, i) ==
    /\ part[c][i].at = "write"
    /\ LET p == part[c][i].off + 1 IN
         /\ body' = [body EXCEPT ![upid[c]][i] = @ \cup {p}]
         /\ part' = [part EXCEPT ![c][i] = [at |-> "write", off |-> p]]
    /\ UNCHANGED <<redis, made, dir, merged, mysql, published, pc, upid, found,
                   left, off, ferr, faults>>

\* One Body.Read and fd.Write, at the writer's own offset.
WritePiece(c, i) ==
    /\ part[c][i].at = "write"
    /\ part[c][i].off < PieceCount
    /\ LET p == part[c][i].off + 1 IN
         /\ body' = [body EXCEPT ![upid[c]][i] = @ \cup {p}]
         /\ part' = [part EXCEPT ![c][i] =
                       [at |-> IF p = PieceCount THEN "verify" ELSE "write",
                        off |-> p]]
    /\ UNCHANGED <<redis, made, dir, merged, mysql, published, pc, upid, found,
                   left, off, ferr, faults>>

\* The body ends early; the loop ends as it does at the end of the body.
CutBody(c, i) ==
    /\ part[c][i].at = "write"
    /\ PartGoto(c, i, "verify")
    /\ Fault("cut")
    /\ UNCHANGED <<redis, disk, mysql, published, pc, upid, found, left, off,
                   ferr>>

\* Mutant of VerifyChunk: no check.
VerifyNothing(c, i) ==
    /\ part[c][i].at = "verify"
    /\ PartGoto(c, i, "mark")
    /\ UNCHANGED <<redis, disk, mysql, published, pc, upid, found, left, off,
                   ferr, faults>>

\* The sha1 is that of the file, whoever wrote it.
VerifyChunk(c, i) ==
    /\ part[c][i].at = "verify"
    /\ PartGoto(c, i, IF body[upid[c]][i] = Pieces THEN "mark" ELSE "refused")
    /\ UNCHANGED <<redis, disk, mysql, published, pc, upid, found, left, off,
                   ferr, faults>>

\* Mutant of MarkChunk: marks every chunk up to this one.
MarkUpTo(c, i) ==
    /\ part[c][i].at = "mark"
    /\ mp' = [mp EXCEPT ![upid[c]] =
                [live |-> TRUE, ttl |-> @.ttl, count |-> @.count,
                 done |-> @.done \cup 1..i]]
    /\ PartGoto(c, i, "acked")
    /\ UNCHANGED <<hashUp, disk, mysql, published, pc, upid, found, left, off,
                   ferr, faults>>

\* HSET MP_<uploadID> chkidx_<i> 1, which makes the key when it is gone.
MarkChunk(c, i) ==
    /\ part[c][i].at = "mark"
    /\ mp' = [mp EXCEPT ![upid[c]] =
                [live |-> TRUE, ttl |-> @.ttl, count |-> @.count,
                 done |-> @.done \cup {i}]]
    /\ PartGoto(c, i, "acked")
    /\ UNCHANGED <<hashUp, disk, mysql, published, pc, upid, found, left, off,
                   ferr, faults>>

\* The HSET fails and nobody looks at the error.
MarkChunkFails(c, i) ==
    /\ part[c][i].at = "mark"
    /\ PartGoto(c, i, "acked")
    /\ Fault("redis")
    /\ UNCHANGED <<redis, disk, mysql, published, pc, upid, found, left, off,
                   ferr>>

(***************************************************************************)
(* CompleteUploadHandler.  A client asks for the merge when its chunk      *)
(* requests are answered, whatever the answers say (the page ignores their *)
(* codes); the test program may not have posted every missing chunk.       *)
(***************************************************************************)
CallComplete(c) ==
    /\ pc[c] = "have"
    /\ \A i \in AllChunks : part[c][i].at \notin PartSteps \cup {"lost"}
    /\ \/ (\A i \in Missing(c) : part[c][i].at # "none") /\ UNCHANGED faults
       \/ (\E i \in Missing(c) : part[c][i].at = "none") /\ Fault("early")
    /\ Goto(c, "check")
    /\ UNCHANGED <<redis, disk, mysql, published, upid, found, part, left, off,
                   ferr>>

\* Mutant of CheckComplete: one marked chunk too few is enough.
CheckNearlyComplete(c) ==
    /\ pc[c] = "check"
    /\ Goto(c, IF mp[upid[c]].count <= Cardinality(mp[upid[c]].done) + 1
                 THEN "merge" ELSE "incomplete")
    /\ UNCHANGED <<redis, disk, mysql, published, upid, found, part, left, off,
                   ferr, faults>>

\* HGETALL MP_<uploadID>: as many marked chunks as chunkcount says.  A key
\* that is not there has no chunk and no chunkcount.
CheckComplete(c) ==
    /\ pc[c] = "check"
    /\ Goto(c, IF mp[upid[c]].count = Cardinality(mp[upid[c]].done)
                 THEN "merge" ELSE "incomplete")
    /\ UNCHANGED <<redis, disk, mysql, published, upid, found, part, left, off,
                   ferr, faults>>

CheckCompleteFails(c) ==
    /\ pc[c] = "check"
    /\ Goto(c, "nolookup")
    /\ Fault("redis")
    /\ UNCHANGED <<redis, disk, mysql, published, upid, found, part, left, off,
                   ferr>>

\* cd <dir> && ls | sort -n | xargs cat > <merged file>: without the
\* directory the shell stops there; else it truncates the merged file and
\* lists the directory.  Of an empty one cat writes nothing, and succeeds.
StartMerge(c) ==
    /\ pc[c] = "merge"
    /\ IF upid[c] \notin made
         THEN Goto(c, "mergefail") /\ UNCHANGED <<merged, left, off>>
         ELSE /\ Goto(c, IF dir[upid[c]] = {} THEN "regfile" ELSE "cat")
              /\ merged' = [merged EXCEPT ![FileOf[c]] =
                              [u \in AllUnits |-> "none"]]
              /\ left' = [left EXCEPT ![c] = dir[upid[c]]]
              /\ off' = [off EXCEPT ![c] = [out |-> 0, in |-> 0]]
    /\ UNCHANGED <<redis, made, dir, body, mysql, published, upid, found, part,
                   ferr, faults>>

\* The shell fails: before it truncates the merged file, or anywhere in cat,
\* which leaves what it has written.  Code -3.
MergeFails(c) ==
    /\ pc[c] \in {"merge", "cat"}
    /\ Goto(c, "mergefail")
    /\ Fault("cat")
    /\ UNCHANGED <<redis, disk, mysql, published, upid, found, part, left, off,
                   ferr>>

\* cat reads the next piece of chunk file i, or its end as it is by now, and
\* writes it behind what it has written.  A piece that is not there before one
\* that is, is a hole.  A unit is good when it is the right piece of the
\* right chunk.
CopyPiece(c, i) ==
    LET b  == body[upid[c]][i]
        o  == off[c]
        at == (i - 1) * PieceCount + o.in
    IN
      /\ IF \E p \in b : p > o.in
           THEN /\ merged' = [merged EXCEPT ![FileOf[c]][o.out + 1] =
                                IF o.out = at /\ o.in + 1 \in b THEN "good" ELSE "bad"]
                /\ off' = [off EXCEPT ![c] = [out |-> o.out + 1, in |-> o.in + 1]]
                /\ UNCHANGED <<left, pc>>
           ELSE /\ off' = [off EXCEPT ![c] = [out |-> o.out, in |-> 0]]
                /\ left' = [left EXCEPT ![c] = @ \ {i}]
                /\ Goto(c, IF left[c] = {i} THEN "regfile" ELSE "cat")
                /\ UNCHANGED merged
      /\ UNCHANGED <<redis, made, dir, body, mysql, published, upid, found, part,
                     ferr, faults>>

\* Mutant of CatChunk: the listing is not sorted by number.
CatUnsorted(c) ==
    pc[c] = "cat" /\ \E i \in left[c] : CopyPiece(c, i)

\* The chunk files come in the order of their numbers.
CatChunk(c) ==
    /\ pc[c] = "cat"
    /\ \E i \in left[c] : (\A j \in left[c] : i <= j) /\ CopyPiece(c, i)

(***************************************************************************)
(* Still CompleteUploadHandler: the rows, the redis keys, the message.     *)
(***************************************************************************)
\* Mutant of RegisterFile: the error of the rpc is dropped.
RegisterFileUnchecked(c) ==
    /\ pc[c] = "regfile"
    /\ \E o \in DbOutcomes :
         /\ DbFault(o)
         /\ fileTbl' = IF RowWritten(o) THEN fileTbl \cup {FileOf[c]} ELSE fileTbl
    /\ Goto(c, "reguser")
    /\ UNCHANGED <<redis, disk, userTbl, published, upid, found, part, left, off,
                   ferr>>

\* OnFileUploadFinished: insert ignore into tbl_file.  Only the rpc's error
\* counts, not the Suc of the answer; the user's row is written either way.
RegisterFile(c) ==
    /\ pc[c] = "regfile"
    /\ \E o \in DbOutcomes :
         /\ DbFault(o)
         /\ fileTbl' = IF RowWritten(o) THEN fileTbl \cup {FileOf[c]} ELSE fileTbl
         /\ ferr' = [ferr EXCEPT ![c] = RpcError(o)]
    /\ Goto(c, "reguser")
    /\ UNCHANGED <<redis, disk, userTbl, published, upid, found, part, left, off>>

\* OnUserFileUploadFinished: insert ignore into tbl_user_file.
RegisterUserFile(c) ==
    /\ pc[c] = "reguser"
    /\ \E o \in DbOutcomes :
         /\ DbFault(o)
         /\ userTbl' = IF RowWritten(o)
                         THEN userTbl \cup {<<UserOf[c], FileOf[c]>>} ELSE userTbl
         /\ Goto(c, IF ferr[c] \/ RpcError(o) THEN "dbfail" ELSE "delhash")
    /\ UNCHANGED <<redis, disk, fileTbl, published, upid, found, part, left, off,
                   ferr>>

\* Mutant of DeleteHashKey: one DEL for both keys, before the counted one.
DeleteBothKeys(c) ==
    /\ pc[c] = "delhash"
    /\ hashUp' = [hashUp EXCEPT ![FileOf[c]] = NoId]
    /\ mp' = [mp EXCEPT ![upid[c]] = NoSession]
    /\ Goto(c, "delsession")
    /\ UNCHANGED <<disk, mysql, published, upid, found, part, left, off, ferr,
                   faults>>

\* DEL HASH_UPID_<hash>, whichever session it names by now.
DeleteHashKey(c) ==
    /\ pc[c] = "delhash"
    /\ hashUp' = [hashUp EXCEPT ![FileOf[c]] = NoId]
    /\ Goto(c, "delsession")
    /\ UNCHANGED <<mp, disk, mysql, published, upid, found, part, left, off, ferr,
                   faults>>

\* DEL MP_<uploadID>: code -5 unless exactly one key was deleted.
DeleteSession(c) ==
    /\ pc[c] = "delsession"
    /\ Goto(c, IF mp[upid[c]].live THEN "publish" ELSE "delfail")
    /\ mp' = [mp EXCEPT ![upid[c]] = NoSession]
    /\ UNCHANGED <<hashUp, disk, mysql, published, upid, found, part, left, off,
                   ferr, faults>>

\* The first DEL fails, and the second with it; or the second alone.
DeleteFails(c) ==
    /\ pc[c] \in {"delhash", "delsession"}
    /\ Goto(c, "delfail")
    /\ Fault("redis")
    /\ UNCHANGED <<redis, disk, mysql, published, upid, found, part, left, off,
                   ferr>>

\* mq.Publish of the transfer message; a failure is only logged.
PublishTransfer(c) ==
    /\ pc[c] = "publish"
    /\ \/ published' = published \cup {FileOf[c]} /\ UNCHANGED faults
       \/ UNCHANGED published /\ Fault("mq")
    /\ Goto(c, "ok")
    /\ UNCHANGED <<redis, disk, mysql, upid, found, part, left, off, ferr>>

(***************************************************************************)
(* The environment: a user closes the page, a key reaches its TTL, the     *)
(* service dies.  A client whose request died with the service hears       *)
(* nothing more: its run is over, or, for a chunk, waits for its user to   *)
(* give up.                                                                *)
(***************************************************************************)
Unanswered(c) == \E i \in AllChunks : part[c][i].at = "lost"

Leave(c) ==
    /\ pc[c] = "have"
    /\ \/ Unanswered(c) /\ UNCHANGED faults
       \/ ~ Unanswered(c) /\ Fault("leave")
    /\ Goto(c, "gone")
    /\ UNCHANGED <<redis, disk, mysql, published, upid, found, part, left, off,
                   ferr>>

ExpireHashKey(f) ==
    /\ hashUp[f] # NoId
    /\ hashUp' = [hashUp EXCEPT ![f] = NoId]
    /\ Fault("expire")
    /\ UNCHANGED <<mp, disk, mysql, published, run>>

ExpireSession(u) ==
    /\ mp[u].live /\ mp[u].ttl
    /\ mp' = [mp EXCEPT ![u] = NoSession]
    /\ Fault("expire")
    /\ UNCHANGED <<hashUp, disk, mysql, published, run>>

Crash ==
    /\ \E c \in Clients : pc[c] \in InitSteps \cup CompleteSteps \/ PartActive(c)
    /\ pc' = [c \in Clients |->
                IF pc[c] \in InitSteps \cup CompleteSteps THEN "gone" ELSE pc[c]]
    /\ part' = [c \in Clients |-> [i \in AllChunks |->
                  IF part[c][i].at \in PartSteps
                    THEN [at |-> "lost", off |-> part[c][i].off]
                    ELSE part[c][i]]]
    /\ Fault("crash")
    /\ UNCHANGED <<redis, disk, mysql, published, upid, found, left, off, ferr>>

-----------------------------------------------------------------------------
InitHandler(c) ==
    \/ CheckUserFile(c) \/ LookupSession(c) \/ GetSession(c) \/ ListChunks(c)
    \/ SetChunkCount(c) \/ SetSessionTTL(c) \/ SetHashKey(c)

InitHandlerFails(c) ==
    LookupSessionFails(c) \/ GetOrListFails(c) \/ SessionWritesFail(c)

PartHandler(c, i) ==
    \/ CreateChunk(c, i) \/ WritePiece(c, i) \/ VerifyChunk(c, i)
    \/ MarkChunk(c, i)

PartHandlerFails(c, i) ==
    CreateChunkFails(c, i) \/ CutBody(c, i) \/ MarkChunkFails(c, i)

CompleteHandler(c) ==
    \/ CheckComplete(c) \/ StartMerge(c) \/ CatChunk(c) \/ RegisterFile(c)
    \/ RegisterUserFile(c) \/ DeleteHashKey(c) \/ DeleteSession(c)
    \/ PublishTransfer(c)

CompleteHandlerFails(c) == CheckCompleteFails(c) \/ MergeFails(c) \/ DeleteFails(c)

ClientNext(c) ==
    \/ InitHandler(c) \/ InitHandlerFails(c)
    \/ \E i \in AllChunks :
         StartPart(c, i) \/ PartHandler(c, i) \/ PartHandlerFails(c, i)
    \/ CallComplete(c)
    \/ CompleteHandler(c) \/ CompleteHandlerFails(c)
    \/ Leave(c)

Next ==
    \/ \E c \in Clients : ClientNext(c)
    \/ \E f \in Files : ExpireHashKey(f)
    \/ \E u \in UploadIDs : ExpireSession(u)
    \/ Crash

Spec == Init /\ [][Next]_vars

\* Goroutines run, an open page goes on, a user gives up a page that hangs.
\* No fault, no expiry and no wilful leaving is ever required to happen.
Fairness ==
    \A c \in Clients :
      /\ WF_vars(InitHandler(c))
      /\ WF_vars(\E i \in AllChunks : StartPart(c, i) \/ PartHandler(c, i))
      /\ WF_vars(CallComplete(c))
      /\ WF_vars(CompleteHandler(c))
      /\ WF_vars(Unanswered(c) /\ Leave(c))

FairSpec == Spec /\ Fairness

(***************************************************************************)
(* Properties.  Those that hold only as long as certain faults have not    *)
(* happened say so with Never.                                             *)
(***************************************************************************)
Never(kinds) == \A k \in kinds : faults[k] = 0

Whole(f)   == \A u \in Units(f) : merged[f][u] = "good"
Quiet      == \A c \in Clients : ~ Busy(c)

\* An uploadID belongs to one file: neither the hash key of a file nor the
\* answer of an Init request ever names a session of another file, so the
\* chunks of two files never share a directory, whatever fails.
SessionOwnsOneFile ==
    /\ \A f \in Files : hashUp[f] # NoId => FileOf[hashUp[f]] = f
    /\ \A c \in Clients : upid[c] # NoId => FileOf[upid[c]] = FileOf[c]

\* A chunk redis lists as uploaded has a chunk file, whatever failed since
\* (UploadPartHandler marks only after os.Create).
MarkedIsStored == \A u \in UploadIDs : mp[u].done \subseteq dir[u]

\* Without a cut body or a crash, a marked chunk that no request is writing
\* at the moment is whole, however many clients upload the chunk at once and
\* in whatever order their truncations, writes, checks and marks interleave.
\* (A request that dies after os.Create leaves a marked chunk truncated.)
Settled(u, i) ==
    (\A c \in Clients : upid[c] = u => part[c][i].at # "write")
      => body[u][i] = Pieces

ChunkIntegrity ==
    Never({"cut", "crash"}) =>
      \A u \in UploadIDs : \A i \in mp[u].done : Settled(u, i)

\* As long as redis keeps what it was told, CompleteUploadHandler merges only
\* a session whose directory has every chunk of the file, and has it from the
\* start of the merge to the end of cat, each chunk whole unless a request is
\* writing it again; when clients overlap, no cut and no crash.
MergeSeesAllChunks ==
    Never({"expire", "redis"}) /\ (TakeTurns \/ Never({"cut", "crash"})) =>
      \A c \in Clients : pc[c] \in {"merge", "cat"} =>
        \A i \in Chunks(FileOf[c]) : i \in dir[upid[c]] /\ Settled(upid[c], i)

\* mpupload.go:34: ChunkExists lists the chunks whose upload is complete; a
\* client alone at the file that skips them finds them whole, whatever failed.
ListedChunksAreWhole ==
    TakeTurns =>
      \A c \in Clients : pc[c] = "have" =>
        \A i \in found[c] : body[upid[c]][i] = Pieces

\* A file with a row in tbl_file is whole on disk, though later clients of the
\* file, one after the other, merge over it: unless such a merge runs or ended
\* on the way, because its shell failed (code -3 leaves the file truncated)
\* or the service died.  Redis keeps what it was told.
CutShort(f) == \E c \in Clients : FileOf[c] = f /\ left[c] # {}

RegisteredIsWhole ==
    TakeTurns /\ Never({"expire", "redis"}) =>
      \A f \in fileTbl : Whole(f) \/ CutShort(f)

\* Unless dbproxy says Suc = false, which nobody reads, the record of
\* uploaded chunks is given up only to its TTL, or once the file and the
\* user's file are registered: a failing Complete can be asked for again
\* without a chunk to upload.
DiscardOnlyRegistered ==
    [][Never({"sql"}) =>
         \A u \in UploadIDs :
           ~ mp[u].done \subseteq mp'[u].done /\ faults'["expire"] = faults["expire"]
             => /\ FileOf[u] \in fileTbl
                /\ \E n \in Users : <<n, FileOf[u]>> \in userTbl]_vars

\* When every request is over, a registered file has its transfer message,
\* though only one of several overlapping Completes of a session, the one
\* whose DEL finds it, gets to publish, and pages leave, send cut bodies, ask
\* too early or meet a failing disk or merge.
RegisteredIsPublished ==
    Quiet /\ Never(FaultKinds \ {"cut", "disk", "early", "leave", "cat"}) =>
      fileTbl \subseteq published

\* A client that resumes when the faults are spent, alone at the file,
\* uploads what is missing and is answered ok with the whole file on disk,
\* whatever earlier clients, a crash, failing calls and a merge that ended on
\* the way left in redis and on disk.  (A file of no byte has no directory to
\* merge and never succeeds.)
FaultsSpent == \A k \in FaultKinds : ~ MayHappen(k)

ResumeSucceeds ==
    \A c \in Clients :
      (/\ pc[c] = "lookup" /\ Chunks(FileOf[c]) # {}
       /\ TakeTurns /\ FaultsSpent /\ Never({"expire"}))
        ~> pc[c] = "ok" /\ Whole(FileOf[c])

\* When clients take turns, the upload keeps its promise to the services that
\* read its rows and jobs, until redis or dbproxy fails: cut bodies, a full
\* disk, a merge that ends on the way, a crash, pages that leave or ask too
\* early and a lost message do not end it.
Promise == INSTANCE UploadPromise WITH
    whole  <- {f \in Files : Units(f) # {} /\ Whole(f)},
    files  <- fileTbl,
    owners <- userTbl,
    jobs   <- published,
    void   <- ~ TakeTurns \/ ~ Never({"expire", "redis", "rpc", "sql"})

KeepsPromise == Promise!Spec

\* A comment of the code, and not what the code does: mpupload.go:229, a
\* Complete goes on when all the chunks are uploaded.
AllChunksUploaded ==
    \A c \in Clients : pc[c] = "merge" =>
      \A i \in Chunks(FileOf[c]) : body[upid[c]][i] = Pieces

=============================================================================
