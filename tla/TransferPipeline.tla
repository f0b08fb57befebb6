--------------------------- MODULE TransferPipeline ---------------------------
(***************************************************************************)
(* Where the bytes of a file live once an upload has them: the merged file *)
(* on the disk the services share, the object the transfer service puts    *)
(* on OSS, and the address in tbl_file that tells a download which of the  *)
(* two to read.                                                            *)
(*                                                                         *)
(*   upload    DoUploadHandler ("plain"), the end of                       *)
(*             CompleteUploadHandler ("multi"), TryFastUploadHandler       *)
(*             ("fast"): write the file, the rows, and a transfer message; *)
(*   broker    the queue, the messages already delivered to the consumer   *)
(*             (acknowledged by delivery: autoAck), the error queue;       *)
(*   transfer  one consumer that runs ProcessTransfer message by message;  *)
(*   download  DownloadHandler and DownloadURLHandler: read the row, then  *)
(*             read from the address; RangeDownloadHandler: read the row,  *)
(*             then the merged file, whatever the address.                 *)
(*                                                                         *)
(* The store is OSS and the transfer asynchronous, as config has it.  An   *)
(* upload publishes at most one message, so the upload stands for it.      *)
(***************************************************************************)
EXTENDS Integers, Sequences, FiniteSets

CONSTANTS
    Hashes,       \* the sha1 of a file's contents
    Names,        \* file names; the OSS key of a file is made of its name
    Users,
    Uploads,      \* upload requests
    KindOf,       \* [Uploads -> {"plain", "multi", "fast"}]
    HashOf,       \* [Uploads -> Hashes]
    NameOf,       \* [Uploads -> Names]
    UserOf,       \* [Uploads -> Users]
    Downloads,    \* download requests
    WantedBy,     \* [Downloads -> Hashes]
    None,         \* no row, no object, no message
    FaultBudget,  \* [FaultKinds -> Nat], how often each fault may happen
    KindsAtOnce   \* how many kinds of faults meet in one behaviour

FaultKinds == {
    "disk",       \* os.Create or Write fails in the upload service
    "session",    \* the DEL of the upload session fails or finds no key
    "rpc",        \* the call of dbproxy returns an error, applied or not
    "sql",        \* dbproxy answers with Suc = false
    "mq",         \* mq.Publish returns false
    "open",       \* the transfer service cannot open the merged file
    "put",        \* PutObject fails
    "fetch",      \* a download cannot open or read what is at its address
    "upcrash",    \* the upload service dies and is restarted
    "crash"}      \* the transfer service dies and is restarted

\* An object: the file its bytes come from, and whether it has them all.
Object == [hash : Hashes, all : BOOLEAN]

ASSUME PipelineAssumption ==
    /\ KindOf \in [Uploads -> {"plain", "multi", "fast"}]
    /\ HashOf \in [Uploads -> Hashes]
    /\ NameOf \in [Uploads -> Names]
    /\ UserOf \in [Uploads -> Users]
    /\ WantedBy \in [Downloads -> Hashes]
    /\ None \notin Names \cup Uploads \cup Object
    /\ "local" \notin Names \cup {None} /\ "guess" \notin Names \cup {None}
    /\ FaultBudget \in [FaultKinds -> Nat]
    /\ KindsAtOnce \in Nat

VARIABLES
    local,     \* the merged files: absent, part of the bytes, or all of them
    oss,       \* the objects, by name
    row,       \* tbl_file: no row, or the address: "local" or an OSS name
    owns,      \* tbl_user_file
    pc,        \* where an upload request is
    queue,     \* the messages the broker holds
    inbox,     \* the messages delivered to the consumer, not yet handled
    job,       \* the running ProcessTransfer
    errq,      \* the error queue
    moved,     \* the messages ProcessTransfer returned true for
    down,      \* the download requests, and from which address they read
    faults     \* the faults so far

tables   == <<row, owns>>
broker   == <<queue, inbox, errq>>
transfer == <<job, moved>>
vars     == <<local, oss, tables, pc, broker, transfer, down, faults>>

UploadSteps == {"write", "publish", "regfile", "reguser", "lastuser"}
UploadOver  == {"ok", "failed", "gone"}
Idle        == [at |-> "idle", msg |-> None, all |-> FALSE]

TypeOK ==
    /\ local \in [Hashes -> {"absent", "part", "all"}]
    /\ oss \in [Names -> Object \cup {None}]
    /\ row \in [Hashes -> Names \cup {None, "local"}]
    /\ owns \subseteq Users \X Hashes
    /\ pc \in [Uploads -> {"idle"} \cup UploadSteps \cup UploadOver]
    /\ queue \in Seq(Uploads) /\ inbox \in Seq(Uploads)
    /\ job \in [at : {"idle", "head", "tail", "update", "report"},
                msg : Uploads \cup {None}, all : BOOLEAN]
    /\ job.at # "idle" => job.msg # None
    /\ errq \subseteq Uploads /\ moved \subseteq Uploads
    /\ down \in [Downloads -> [at : {"idle", "fetch", "over"},
                               addr : Names \cup {None, "local", "guess"},
                               got : {"nothing", "all", "bad", "error"}]]
    /\ \A d \in Downloads : down[d].at = "fetch" => down[d].addr # None
    /\ faults \in [FaultKinds -> Nat]

Init ==
    /\ local = [h \in Hashes |-> "absent"]
    /\ oss = [n \in Names |-> None]
    /\ row = [h \in Hashes |-> None]
    /\ owns = {}
    /\ pc = [u \in Uploads |-> "idle"]
    /\ queue = <<>> /\ inbox = <<>>
    /\ job = Idle
    /\ errq = {} /\ moved = {}
    /\ down = [d \in Downloads |-> [at |-> "idle", addr |-> None, got |-> "nothing"]]
    /\ faults = [k \in FaultKinds |-> 0]

-----------------------------------------------------------------------------
Goto(u, step) == pc' = [pc EXCEPT ![u] = step]

\* FaultBudget and KindsAtOnce bound the faults of a behaviour.
Fault(k) ==
    /\ faults[k] < FaultBudget[k]
    /\ Cardinality({j \in FaultKinds : faults[j] > 0} \cup {k}) <= KindsAtOnce
    /\ faults' = [faults EXCEPT ![k] = @ + 1]

\* The outcomes of a dbproxy call that writes a row: it is written; the SQL
\* fails and Suc is FALSE; the rpc fails before or after the row is written.
DbOutcomes    == {"done", "sqlfails", "lost", "late"}
RowWritten(o) == o \in {"done", "late"}
RpcError(o)   == o \in {"lost", "late"}
DbFault(o)    == CASE o = "done"     -> UNCHANGED faults
                   [] o = "sqlfails" -> Fault("sql")
                   [] OTHER          -> Fault("rpc")

\* Mutant of After: a multipart upload publishes first, as a plain one does.
PublishFirst(u, step) ==
    CASE step = "write"   -> "publish"
      [] step = "publish" -> "regfile"
      [] step = "regfile" -> "reguser"
      [] OTHER            -> "ok"

\* The step after a step that went well.  A plain upload publishes before it
\* writes its rows, a multipart upload after.
After(u, step) ==
    CASE step = "write"   -> IF KindOf[u] = "plain" THEN "publish" ELSE "regfile"
      [] step = "publish" -> IF KindOf[u] = "plain" THEN "regfile" ELSE "ok"
      [] step = "regfile" -> "reguser"
      [] OTHER            -> IF KindOf[u] = "multi" THEN "publish" ELSE "ok"

(***************************************************************************)
(* The upload service.  The request's file is in memory by now, or its     *)
(* chunks are on disk.                                                     *)
(***************************************************************************)

\* os.Create of the merged file, or the shell's redirection into it: both
\* truncate a file an earlier upload of the same bytes left.
CreateFile(u) ==
    /\ pc[u] = "idle" /\ KindOf[u] # "fast"
    /\ local' = [local EXCEPT ![HashOf[u]] = "part"]
    /\ Goto(u, "write")
    /\ UNCHANGED <<oss, tables, broker, transfer, down, faults>>

\* newFile.Write, or the cat of the chunk files.  The CreateFile of another
\* upload of the same bytes may have cut off what was written of them.
WriteFile(u) ==
    /\ pc[u] = "write"
    /\ \/ local' = [local EXCEPT ![HashOf[u]] = "all"]
       \/ /\ \E v \in Uploads \ {u} : HashOf[v] = HashOf[u] /\ pc[v] = "write"
          /\ UNCHANGED local
    /\ Goto(u, After(u, "write"))
    /\ UNCHANGED <<oss, tables, broker, transfer, down, faults>>

\* Codes -3 and -4: the file cannot be created, or not be written.
FileFails(u) ==
    /\ \/ pc[u] = "write"
       \/ pc[u] = "idle" /\ KindOf[u] # "fast"
    /\ Goto(u, "failed")
    /\ Fault("disk")
    /\ UNCHANGED <<local, oss, tables, broker, transfer, down>>

\* Mutant of PublishJob: no message for a file that has its row already.
PublishNewOnly(u) ==
    /\ pc[u] = "publish"
    /\ queue' = IF row[HashOf[u]] = None THEN Append(queue, u) ELSE queue
    /\ Goto(u, After(u, "publish"))
    /\ UNCHANGED <<local, oss, tables, inbox, errq, transfer, down, faults>>

\* mq.Publish of the transfer message; a failure is only printed.
PublishJob(u) ==
    /\ pc[u] = "publish"
    /\ \/ queue' = Append(queue, u) /\ UNCHANGED faults
       \/ UNCHANGED queue /\ Fault("mq")
    /\ Goto(u, After(u, "publish"))
    /\ UNCHANGED <<local, oss, tables, inbox, errq, transfer, down>>

\* Mutant of RegisterFile: replace into tbl_file.
ReplaceFile(u) ==
    /\ pc[u] = "regfile"
    /\ row' = [row EXCEPT ![HashOf[u]] = "local"]
    /\ Goto(u, "reguser")
    /\ UNCHANGED <<local, oss, owns, broker, transfer, down, faults>>

\* OnFileUploadFinished: insert ignore into tbl_file.  Suc is not looked at.
\* After an error of the rpc a plain upload stops; a multipart upload writes
\* the user's row all the same and fails then.
RegisterFile(u) ==
    /\ pc[u] = "regfile"
    /\ \E o \in DbOutcomes :
         /\ DbFault(o)
         /\ row' = IF RowWritten(o) /\ row[HashOf[u]] = None
                     THEN [row EXCEPT ![HashOf[u]] = "local"] ELSE row
         /\ Goto(u, IF ~ RpcError(o) THEN "reguser"
                    ELSE IF KindOf[u] = "plain" THEN "failed" ELSE "lastuser")
    /\ UNCHANGED <<local, oss, owns, broker, transfer, down>>

\* OnUserFileUploadFinished: insert ignore into tbl_user_file.  A multipart
\* upload does not look at Suc.
RegisterUserFile(u) ==
    /\ pc[u] \in {"reguser", "lastuser"}
    /\ \E o \in DbOutcomes :
         /\ DbFault(o)
         /\ owns' = IF RowWritten(o) THEN owns \cup {<<UserOf[u], HashOf[u]>>}
                    ELSE owns
         /\ Goto(u, IF \/ pc[u] = "lastuser" \/ RpcError(o)
                       \/ (o = "sqlfails" /\ KindOf[u] # "multi")
                      THEN "failed" ELSE After(u, "reguser"))
    /\ UNCHANGED <<local, oss, row, broker, transfer, down>>

\* Code -5: another Complete deleted the session first, or redis failed.
SessionFails(u) ==
    /\ pc[u] = "publish" /\ KindOf[u] = "multi"
    /\ Goto(u, "failed")
    /\ Fault("session")
    /\ UNCHANGED <<local, oss, tables, broker, transfer, down>>

\* Mutant of FindFile: an answer without data counts as found.
FindAnything(u) ==
    /\ pc[u] = "idle" /\ KindOf[u] = "fast"
    /\ Goto(u, "reguser")
    /\ UNCHANGED <<local, oss, tables, broker, transfer, down, faults>>

\* GetFileMeta of a fast upload; an error of the rpc or of the SQL ends it.
FindFile(u) ==
    /\ pc[u] = "idle" /\ KindOf[u] = "fast"
    /\ \/ Goto(u, IF row[HashOf[u]] # None THEN "reguser" ELSE "failed")
          /\ UNCHANGED faults
       \/ Goto(u, "failed") /\ (Fault("rpc") \/ Fault("sql"))
    /\ UNCHANGED <<local, oss, tables, broker, transfer, down>>

\* The upload service dies: its requests end where they are.
UploadCrash ==
    /\ \E u \in Uploads : pc[u] \in UploadSteps
    /\ pc' = [u \in Uploads |-> IF pc[u] \in UploadSteps THEN "gone" ELSE pc[u]]
    /\ Fault("upcrash")
    /\ UNCHANGED <<local, oss, tables, broker, transfer, down>>

(***************************************************************************)
(* The transfer service.                                                   *)
(***************************************************************************)

\* The broker pushes a message to the consumer and forgets it (autoAck).
Deliver ==
    /\ queue # <<>>
    /\ inbox' = Append(inbox, Head(queue))
    /\ queue' = Tail(queue)
    /\ UNCHANGED <<local, oss, tables, pc, errq, transfer, down, faults>>

\* Mutant of TakeJob: the address first, the object after.
TakeJobUnsent ==
    /\ job = Idle /\ inbox # <<>>
    /\ inbox' = Tail(inbox)
    /\ job' = [at |-> "update", msg |-> Head(inbox), all |-> FALSE]
    /\ UNCHANGED <<local, oss, tables, pc, queue, errq, moved, down, faults>>

\* The loop of StartConsume takes a message, ProcessTransfer opens the file.
TakeJob ==
    /\ job = Idle /\ inbox # <<>>
    /\ inbox' = Tail(inbox)
    /\ \/ /\ local[HashOf[Head(inbox)]] # "absent"
          /\ job' = [at |-> "head", msg |-> Head(inbox), all |-> FALSE]
          /\ UNCHANGED faults
       \/ /\ job' = [at |-> "report", msg |-> Head(inbox), all |-> FALSE]
          /\ Fault("open")
    /\ UNCHANGED <<local, oss, tables, pc, queue, errq, moved, down>>

\* PutObject reads the file while uploads may write it: it reads the first
\* bytes here and the rest with PutObject.
ReadHead ==
    /\ job.at = "head"
    /\ job' = [job EXCEPT !.at = "tail", !.all = local[HashOf[job.msg]] = "all"]
    /\ UNCHANGED <<local, oss, tables, pc, broker, moved, down, faults>>

\* The object is there when PutObject returns, with the bytes that were read.
PutObject ==
    /\ job.at = "tail"
    /\ oss' = [oss EXCEPT ![NameOf[job.msg]] =
                 [hash |-> HashOf[job.msg],
                  all |-> job.all /\ local[HashOf[job.msg]] = "all"]]
    /\ job' = [job EXCEPT !.at = "update"]
    /\ UNCHANGED <<local, tables, pc, broker, moved, down, faults>>

PutFails ==
    /\ job.at = "tail"
    /\ job' = [job EXCEPT !.at = "report"]
    /\ Fault("put")
    /\ UNCHANGED <<local, oss, tables, pc, broker, moved, down>>

\* UpdateFileLocation: Suc is FALSE when no row was changed, because the file
\* has none or because its address is the new one already.
UpdateLocation ==
    /\ job.at = "update"
    /\ LET u == job.msg
           h == HashOf[u]
       IN \E o \in DbOutcomes :
            /\ DbFault(o)
            /\ row' = IF RowWritten(o) /\ row[h] # None
                        THEN [row EXCEPT ![h] = NameOf[u]] ELSE row
            /\ IF o = "done" /\ row[h] \notin {None, NameOf[u]}
                 THEN job' = Idle /\ moved' = moved \cup {u}
                 ELSE job' = [job EXCEPT !.at = "report"] /\ UNCHANGED moved
    /\ UNCHANGED <<local, oss, owns, pc, broker, down>>

\* Mutant of ReportJob: the message of a failed transfer is dropped.
DropJob ==
    /\ job.at = "report"
    /\ job' = Idle
    /\ UNCHANGED <<local, oss, tables, pc, broker, moved, down, faults>>

\* ProcessTransfer returned false: the message goes to the error queue, from
\* where nothing takes it.  The result of that Publish is not looked at.
ReportJob ==
    /\ job.at = "report"
    /\ job' = Idle
    /\ \/ errq' = errq \cup {job.msg} /\ UNCHANGED faults
       \/ UNCHANGED errq /\ Fault("mq")
    /\ UNCHANGED <<local, oss, tables, pc, queue, inbox, moved, down>>

\* Mutant of TransferCrash: the new process takes up the old one's step.
CrashKeepsStep ==
    /\ job # Idle \/ inbox # <<>>
    /\ job' = [job EXCEPT !.msg = None] /\ inbox' = <<>>
    /\ Fault("crash")
    /\ UNCHANGED <<local, oss, tables, pc, queue, errq, moved, down>>

\* The transfer service dies with the messages it was delivered.
TransferCrash ==
    /\ job # Idle \/ inbox # <<>>
    /\ job' = Idle /\ inbox' = <<>>
    /\ Fault("crash")
    /\ UNCHANGED <<local, oss, tables, pc, queue, errq, moved, down>>

(***************************************************************************)
(* Downloads.                                                              *)
(***************************************************************************)
ReadFrom(d, addr) ==
    down' = [down EXCEPT ![d] = [at |-> "fetch", addr |-> addr, got |-> "nothing"]]

\* DownloadHandler: GetFileMeta (and QueryUserFileMeta, for the name to show).
ReadRow(d) ==
    /\ down[d].at = "idle"
    /\ row[WantedBy[d]] # None
    /\ ReadFrom(d, row[WantedBy[d]])
    /\ UNCHANGED <<local, oss, tables, pc, broker, transfer, faults>>

\* DownloadURLHandler: the signed link of an object, or for a file on the disk
\* a link to DownloadHandler, where the download starts anew.
DownloadURL(d) ==
    /\ down[d].at = "idle"
    /\ \/ row[WantedBy[d]] \in Names /\ ReadFrom(d, row[WantedBy[d]])
       \/ row[WantedBy[d]] = "local" /\ UNCHANGED down
    /\ UNCHANGED <<local, oss, tables, pc, broker, transfer, faults>>

\* Mutant of RangeDownload: the file may be there, so it need not be asked for.
RangeUnasked(d) ==
    /\ down[d].at = "idle"
    /\ ReadFrom(d, "local")
    /\ UNCHANGED <<local, oss, tables, pc, broker, transfer, faults>>

\* RangeDownloadHandler asks for the rows, and is told Suc = TRUE without a
\* row as with one.
RangeDownload(d) ==
    /\ down[d].at = "idle"
    /\ ReadFrom(d, IF row[WantedBy[d]] # None THEN "local" ELSE "guess")
    /\ UNCHANGED <<local, oss, tables, pc, broker, transfer, faults>>

\* Without a row 404, or a text in the place of a link; after a failing call
\* "server error".
ReadRowFails(d) ==
    /\ down[d].at = "idle"
    /\ \/ row[WantedBy[d]] = None /\ UNCHANGED faults
       \/ Fault("rpc") \/ Fault("sql")
    /\ down' = [down EXCEPT ![d].at = "over"]
    /\ UNCHANGED <<local, oss, tables, pc, broker, transfer>>

\* What the reader of an address gets when it expects the file h.
Contents(addr, h) ==
    IF addr \in {"local", "guess"}
      THEN CASE local[h] = "all" -> "all" [] local[h] = "part" -> "bad"
             [] OTHER -> "error"
      ELSE CASE oss[addr] = None -> "error"
             [] oss[addr] = [hash |-> h, all |-> TRUE] -> "all"
             [] OTHER -> "bad"

\* FileAttachment of the merged file, or GetObject.
Fetch(d) ==
    /\ down[d].at = "fetch"
    /\ down' = [down EXCEPT ![d].at = "over",
                            ![d].got = Contents(down[d].addr, WantedBy[d])]
    /\ UNCHANGED <<local, oss, tables, pc, broker, transfer, faults>>

\* os.Open or the read of the merged file fails, or GetObject or ReadAll, for
\* something that is there: "server error", or a body shorter than announced.
FetchFails(d) ==
    /\ down[d].at = "fetch"
    /\ down' = [down EXCEPT ![d].at = "over", ![d].got = "error"]
    /\ Fault("fetch")
    /\ UNCHANGED <<local, oss, tables, pc, broker, transfer>>

-----------------------------------------------------------------------------
Upload(u) ==
    \/ CreateFile(u) \/ WriteFile(u) \/ PublishJob(u) \/ RegisterFile(u)
    \/ RegisterUserFile(u) \/ FindFile(u)

UploadFails(u) == FileFails(u) \/ SessionFails(u)

Transfer == TakeJob \/ ReadHead \/ PutObject \/ UpdateLocation \/ ReportJob

Download(d) ==
    \/ ReadRow(d) \/ DownloadURL(d) \/ RangeDownload(d) \/ ReadRowFails(d)
    \/ Fetch(d) \/ FetchFails(d)

Next ==
    \/ \E u \in Uploads : Upload(u) \/ UploadFails(u)
    \/ Deliver \/ Transfer \/ PutFails
    \/ \E d \in Downloads : Download(d)
    \/ UploadCrash \/ TransferCrash

Spec == Init /\ [][Next]_vars

\* The consumer's goroutine and the broker go on; no request is required to
\* come, or to get further.
FairSpec == Spec /\ WF_vars(Deliver) /\ WF_vars(Transfer)

(***************************************************************************)
(* Properties.  Those that hold only as long as certain faults have not    *)
(* happened say so with Never.                                             *)
(***************************************************************************)
Never(kinds) == \A k \in kinds : faults[k] = 0

Exists(addr, h) ==
    IF addr = "local" THEN local[h] # "absent" ELSE oss[addr] # None

\* The address in a row, and the address a download has read, name something
\* that is there: the transfer puts the object before it changes the address,
\* and an address read before the change stays good, whatever fails.  And a
\* file with a row has its merged file, for the range downloads that read it
\* after the file has moved.
AddressesResolve ==
    /\ \A h \in Hashes : row[h] # None => Exists(row[h], h) /\ Exists("local", h)
    /\ \A d \in Downloads :
         down[d].at = "fetch" /\ down[d].addr # "guess" => Exists(down[d].addr, WantedBy[d])

\* A row once moved to OSS never goes back to the disk, whoever uploads the
\* file again and whatever fails.
RowsStayMoved ==
    [][\A h \in Hashes : row[h] \in Names => row'[h] \in Names]_vars

\* Unless dbproxy says Suc = false, a user who has a file has its row, so that
\* the download finds an address; or the row is missing after a multipart
\* upload of this user, which writes the user's row after a failing call and
\* answers with an error then.
NotRegistered(u, h) ==
    \E m \in Uploads :
      /\ KindOf[m] = "multi" /\ UserOf[m] = u /\ HashOf[m] = h
      /\ pc[m] \in {"lastuser", "failed", "gone"}

OwnedHasRow ==
    Never({"sql"}) =>
      \A u \in Users, h \in Hashes :
        <<u, h>> \in owns => row[h] # None \/ NotRegistered(u, h)

\* No message is forgotten: one that was published waits, runs, was carried
\* out, or is in the error queue, as long as the transfer service lives and
\* no publish fails.
Elements(s)   == {s[i] : i \in 1..Len(s)}
Accounted(u)  == u \in Elements(queue) \cup Elements(inbox) \cup {job.msg}
                        \cup errq \cup moved
Published(u)  == /\ KindOf[u] # "fast"
                 /\ \/ pc[u] = "ok"
                    \/ KindOf[u] = "plain" /\ pc[u] \in {"regfile", "reguser"}

NoJobLost ==
    Never({"crash", "mq"}) => \A u \in Uploads : Published(u) => Accounted(u)

\* The uploads that have touched a file.
Started == {u \in Uploads : pc[u] # "idle" /\ KindOf[u] # "fast"}

\* When all is done and nothing failed but an SQL statement or the read of a
\* download, an object a row names is the whole file, if each file had a name of its own: what a transfer
\* reads while an upload of the same bytes truncates the file under it, the
\* message of that upload puts right.
Drained == /\ queue = <<>> /\ inbox = <<>> /\ job = Idle
           /\ \A u \in Uploads : pc[u] \in {"idle"} \cup UploadOver

ObjectsHeal ==
    /\ Drained /\ Never(FaultKinds \ {"sql", "fetch"})
    /\ \A u, v \in Started : NameOf[u] = NameOf[v] <=> HashOf[u] = HashOf[v]
    => \A h \in Hashes : row[h] \in Names =>
         oss[row[h]] = [hash |-> h, all |-> TRUE]

\* A download gets the whole file from wherever its row pointed to, while the
\* transfer moves the file and whatever else fails or dies, if the file is
\* written once and, when it comes from OSS, no other file has its name.  It
\* may get an error when a read fails (code 500, "server error"), and then
\* only: it is never sent to where nothing is, and never gets other bytes.
WrittenOnce(h) ==
    \A u, v \in Started : HashOf[u] = h /\ u # v => HashOf[v] # h

OwnName(h) ==
    \A u, v \in Started : HashOf[u] = h /\ HashOf[v] # h => NameOf[v] # NameOf[u]

DownloadsAreWhole ==
    \A d \in Downloads :
      /\ down[d].addr # "guess" /\ WrittenOnce(WantedBy[d])
      /\ down[d].addr \in Names => OwnName(WantedBy[d])
      => /\ down[d].got # "bad"
         /\ down[d].got = "error" => ~ Never({"fetch"})

\* A file whose multipart upload was answered ok gets to OSS, unless something
\* fails before, under fairness of the broker and the transfer service.
MultipartMoves ==
    \A u \in Uploads :
      KindOf[u] = "multi" /\ pc[u] = "ok"
        ~> row[HashOf[u]] \in Names \/ ~ Never(FaultKinds \ {"fetch"})

\* A comment of the code, and not what the code does: orm/file.go:151, a file
\* that was transferred has its address updated.
MovedIsRecorded ==
    Drained => \A u \in Uploads :
      pc[u] = "ok" /\ oss[NameOf[u]] = [hash |-> HashOf[u], all |-> TRUE]
        => row[HashOf[u]] # "local"

=============================================================================
