------------------------------ MODULE UserFiles ------------------------------
(***************************************************************************)
(* The files of a user: tbl_user_file, one row per user and hash, under    *)
(* the requests of several pages of the same and of other users.  An       *)
(* upload of any kind inserts the row with insert ignore; the home page    *)
(* lists rows and renames and deletes them, the recycle bin restores them, *)
(* each by the name the page has listed, which may be stale by then.       *)
(*                                                                         *)
(*   page -> apiwg/handler/user_file.go -> account/handler/user_file.go    *)
(*        -> dbproxy -> orm/userfile.go                                    *)
(*                                                                         *)
(* The bytes and the sessions of an upload are in the other modules; here  *)
(* an upload is the calls of dbproxy it makes.  A request is used once: a  *)
(* page that goes on is another request.                                   *)
(***************************************************************************)
EXTENDS Naturals, FiniteSets

CONSTANTS
    Files,        \* the file hashes
    Users,
    Names,        \* file names
    Requests,
    UserOf,       \* [Requests -> Users]
    NoRow,        \* no row in a table, no name
    FaultBudget   \* [FaultKinds -> Nat], how often each fault may happen

FaultKinds == {
    "rpc",        \* a call returns an error, its SQL applied or not
    "sql",        \* dbproxy answers with Suc = false
    "retry",      \* the SQL is applied, the call fails and is made again
    "timeout"}    \* the page is told of an error while the call goes on

ASSUME UserFilesAssumption ==
    /\ UserOf \in [Requests -> Users]
    /\ NoRow \notin Names
    /\ NoRow \notin [name : Names, status : 0..1]
    /\ FaultBudget \in [FaultKinds -> Nat]

VARIABLES
    fileTbl,   \* tbl_file: the name in a file's row
    userTbl,   \* tbl_user_file: name, and status 0 (listed) or 1 (deleted)
    req,       \* the requests
    overlapped,\* history: the users two of whose requests ran at once
    faults     \* the faults so far

vars == <<fileTbl, userTbl, req, overlapped, faults>>

Uploads == {"plain", "multi", "fast"}
Edits   == {"rename", "delete", "recover"}

\* A request: what it is, of which file, the name it sends, the name its page
\* has listed, where its handler is, and what the page was told.
Request == [op : Uploads \cup Edits \cup {"none"},
            file : Files \cup {NoRow},
            name : Names \cup {NoRow},
            listed : Names \cup {NoRow},
            at : {"idle", "regfile", "reguser", "lastuser", "call", "adrift", "over"},
            told : {"nothing", "ok", "error", "exists"}]

NotYet == [op |-> "none", file |-> NoRow, name |-> NoRow, listed |-> NoRow,
           at |-> "idle", told |-> "nothing"]

TypeOK ==
    /\ fileTbl \in [Files -> Names \cup {NoRow}]
    /\ userTbl \in [Users -> [Files -> [name : Names, status : 0..1] \cup {NoRow}]]
    /\ req \in [Requests -> Request]
    /\ \A r \in Requests : req[r].at # "idle" =>
         req[r].file \in Files /\ req[r].name \in Names
    /\ overlapped \subseteq Users
    /\ faults \in [FaultKinds -> Nat]

Init ==
    /\ fileTbl = [f \in Files |-> NoRow]
    /\ userTbl = [u \in Users |-> [f \in Files |-> NoRow]]
    /\ req = [r \in Requests |-> NotYet]
    /\ overlapped = {}
    /\ faults = [k \in FaultKinds |-> 0]

-----------------------------------------------------------------------------
Fault(k) ==
    /\ faults[k] < FaultBudget[k]
    /\ faults' = [faults EXCEPT ![k] = @ + 1]

\* The outcomes of a dbproxy call, as in the other modules.
DbOutcomes    == {"done", "sqlfails", "lost", "late"}
RowWritten(o) == o \in {"done", "late"}
RpcError(o)   == o \in {"lost", "late"}
DbFault(o)    == CASE o = "done"     -> UNCHANGED faults
                   [] o = "sqlfails" -> Fault("sql")
                   [] OTHER          -> Fault("rpc")

Row(r)  == userTbl[UserOf[r]][req[r].file]
Busy(r) == req[r].at \notin {"idle", "over"}

\* User.UserFiles: the user's files of a status, as QueryUserFileMetas finds
\* them.
Listed(u, status) ==
    {f \in Files : userTbl[u][f] # NoRow /\ userTbl[u][f].status = status}

MayStart(r) == req[r].at = "idle"

Start(r, op, f, n, old, at, told) ==
    /\ req' = [req EXCEPT ![r] = [op |-> op, file |-> f, name |-> n, listed |-> old,
                                  at |-> at, told |-> told]]
    /\ overlapped' = IF \E s \in Requests : UserOf[s] = UserOf[r] /\ Busy(s)
                       THEN overlapped \cup {UserOf[r]} ELSE overlapped

Goto(r, at) == req' = [req EXCEPT ![r].at = at]

Answer(r, told) ==
    req' = [req EXCEPT ![r].at = "over",
                       ![r].told = IF @ = "nothing" THEN told ELSE @]

(***************************************************************************)
(* Uploads.                                                                *)
(***************************************************************************)

\* DoUploadHandler, once the bytes are on disk.
StartPlain(r) ==
    /\ MayStart(r)
    /\ \E f \in Files, n \in Names : Start(r, "plain", f, n, NoRow, "regfile", "nothing")
    /\ UNCHANGED <<fileTbl, userTbl, faults>>

\* The client's IsUserFileUploaded: a deleted row is none, and an error is a no.
IsUserFileUploaded(u, f, exists) ==
    \/ exists = (f \in Listed(u, 0)) /\ UNCHANGED faults
    \/ ~ exists /\ f \in Listed(u, 0) /\ (Fault("rpc") \/ Fault("sql"))

\* InitialMultipartUploadHandler asks; then the session runs its course.
StartMulti(r) ==
    /\ MayStart(r)
    /\ \E f \in Files, n \in Names, exists \in BOOLEAN :
         /\ IsUserFileUploaded(UserOf[r], f, exists)
         /\ IF exists THEN Start(r, "multi", f, n, NoRow, "over", "exists")
            ELSE Start(r, "multi", f, n, NoRow, "regfile", "nothing")
    /\ UNCHANGED <<fileTbl, userTbl>>

\* TryFastUploadHandler: with a row in tbl_file the user gets one too, under
\* the name of the request.
StartFast(r) ==
    /\ MayStart(r)
    /\ \E f \in Files, n \in Names :
         \/ /\ IF fileTbl[f] # NoRow
                 THEN Start(r, "fast", f, n, NoRow, "reguser", "nothing")
                 ELSE Start(r, "fast", f, n, NoRow, "over", "error")
            /\ UNCHANGED faults
         \/ /\ Start(r, "fast", f, n, NoRow, "over", "error")
            /\ Fault("rpc") \/ Fault("sql")
    /\ UNCHANGED <<fileTbl, userTbl>>

\* OnFileUploadFinished: insert ignore into tbl_file.  After an error a plain
\* upload stops and a multipart one goes on to fail.
RegisterFile(r) ==
    /\ req[r].at = "regfile"
    /\ LET f == req[r].file IN
       \E o \in DbOutcomes :
         /\ DbFault(o)
         /\ fileTbl' = IF RowWritten(o) /\ fileTbl[f] = NoRow
                         THEN [fileTbl EXCEPT ![f] = req[r].name] ELSE fileTbl
         /\ IF ~ RpcError(o) THEN Goto(r, "reguser")
            ELSE IF req[r].op = "plain" THEN Answer(r, "error")
            ELSE Goto(r, "lastuser")
    /\ UNCHANGED <<userTbl, overlapped>>

\* Mutant of RegisterUserFile: replace into tbl_user_file.
ReplaceUserFile(r) ==
    /\ req[r].at \in {"reguser", "lastuser"}
    /\ userTbl' = [userTbl EXCEPT ![UserOf[r]][req[r].file] =
                     [name |-> req[r].name, status |-> 0]]
    /\ Answer(r, IF req[r].at = "lastuser" THEN "error" ELSE "ok")
    /\ UNCHANGED <<fileTbl, overlapped, faults>>

\* Mutant of RegisterUserFile: the user's row gets the name tbl_file has.
RegisterOldName(r) ==
    /\ req[r].at \in {"reguser", "lastuser"}
    /\ fileTbl[req[r].file] # NoRow
    /\ userTbl' = [userTbl EXCEPT ![UserOf[r]][req[r].file] =
                     IF @ = NoRow THEN [name |-> fileTbl[req[r].file], status |-> 0]
                     ELSE @]
    /\ Answer(r, "ok")
    /\ UNCHANGED <<fileTbl, overlapped, faults>>

\* OnUserFileUploadFinished: insert ignore into tbl_user_file.  A multipart
\* upload does not look at Suc.
RegisterUserFile(r) ==
    /\ req[r].at \in {"reguser", "lastuser"}
    /\ \E o \in DbOutcomes :
         /\ DbFault(o)
         /\ userTbl' = IF RowWritten(o) /\ Row(r) = NoRow
                         THEN [userTbl EXCEPT ![UserOf[r]][req[r].file] =
                                 [name |-> req[r].name, status |-> 0]]
                         ELSE userTbl
         /\ Answer(r, IF \/ req[r].at = "lastuser" \/ RpcError(o)
                         \/ (o = "sqlfails" /\ req[r].op # "multi")
                        THEN "error" ELSE "ok")
    /\ UNCHANGED <<fileTbl, overlapped>>

(***************************************************************************)
(* The home page and the recycle bin.                                      *)
(***************************************************************************)

\* FileQueryHandler, for the home page; the user renames or deletes one of the
\* files listed.
ListFiles(r) ==
    /\ MayStart(r)
    /\ \E f \in Listed(UserOf[r], 0) :
         LET name == userTbl[UserOf[r]][f].name IN
           \/ \E n \in Names : Start(r, "rename", f, n, name, "call", "nothing")
           \/ Start(r, "delete", f, name, name, "call", "nothing")
    /\ UNCHANGED <<fileTbl, userTbl, faults>>

\* FileQueryDeletedHandler, for the recycle bin; the user restores a file.
ListDeleted(r) ==
    /\ MayStart(r)
    /\ \E f \in Listed(UserOf[r], 1) :
         LET name == userTbl[UserOf[r]][f].name IN
           Start(r, "recover", f, name, name, "call", "nothing")
    /\ UNCHANGED <<fileTbl, userTbl, faults>>

\* RenameFileName: update ... set file_name=? where ... status=0 and
\* file_name=<the listed name>.
Renamed(r) ==
    LET row == Row(r) IN
      IF row # NoRow /\ row.status = 0 /\ row.name = req[r].listed
        THEN [userTbl EXCEPT ![UserOf[r]][req[r].file].name = req[r].name]
        ELSE userTbl

\* Mutant of Marked: the mark is added to the one that is there.
MarkedByCount(r, status) ==
    LET row == Row(r) IN
      IF row # NoRow /\ row.name = req[r].listed
        THEN [userTbl EXCEPT ![UserOf[r]][req[r].file].status = @ + status]
        ELSE userTbl

\* DeleteUserFile: update ... set status=? where ... file_name=<the listed
\* name>, for a deletion and for a recovery.
Marked(r, status) ==
    LET row == Row(r) IN
      IF row # NoRow /\ row.name = req[r].listed
        THEN [userTbl EXCEPT ![UserOf[r]][req[r].file].status = status]
        ELSE userTbl

\* Mutant of Edited: the two names of a rename are swapped.
EditedSwapped(r) ==
    CASE req[r].op = "rename"  -> IF Row(r) # NoRow /\ Row(r).status = 0
                                       /\ Row(r).name = req[r].name
                                    THEN [userTbl EXCEPT ![UserOf[r]][req[r].file].name =
                                            req[r].listed]
                                    ELSE userTbl
      [] req[r].op = "delete"  -> Marked(r, 1)
      [] OTHER                 -> Marked(r, 0)

\* What the SQL of an edit makes of the table.
Edited(r) ==
    CASE req[r].op = "rename"  -> Renamed(r)
      [] req[r].op = "delete"  -> Marked(r, 1)
      [] OTHER                 -> Marked(r, 0)

\* The edit's handlers.  How many rows the SQL changed is not looked at, and
\* an answer with Suc = FALSE becomes a 200 with a body that the page takes
\* for success; only an error of the call is one for the page.
Edit(r) ==
    /\ req[r].at \in {"call", "adrift"}
    /\ \E o \in DbOutcomes :
         /\ DbFault(o)
         /\ userTbl' = IF RowWritten(o) THEN Edited(r) ELSE userTbl
         /\ Answer(r, IF RpcError(o) THEN "error" ELSE "ok")
    /\ UNCHANGED <<fileTbl, overlapped>>

\* The account service returns the error of its call, and the gateway's
\* client makes its own call again.
EditAgain(r) ==
    /\ req[r].at = "call"
    /\ userTbl' = Edited(r)
    /\ Fault("retry")
    /\ UNCHANGED <<fileTbl, req, overlapped>>

\* The gateway's call times out: the page is told so, the account service and
\* dbproxy know nothing of it.
TimeOut(r) ==
    /\ req[r].at = "call"
    /\ req' = [req EXCEPT ![r].at = "adrift", ![r].told = "error"]
    /\ Fault("timeout")
    /\ UNCHANGED <<fileTbl, userTbl, overlapped>>

-----------------------------------------------------------------------------
Next ==
    \E r \in Requests :
      \/ StartPlain(r) \/ StartMulti(r) \/ StartFast(r)
      \/ RegisterFile(r) \/ RegisterUserFile(r)
      \/ ListFiles(r) \/ ListDeleted(r)
      \/ Edit(r) \/ EditAgain(r) \/ TimeOut(r)

Spec == Init /\ [][Next]_vars

(***************************************************************************)
(* Properties.                                                             *)
(***************************************************************************)

\* A file in a user's list bears a name that this user gave it, by an upload
\* or a rename of the user's own: not the name another user uploaded the same
\* bytes under, nor that of another file, whatever fails.
NamesAreOwn ==
    \A u \in Users, f \in Files : userTbl[u][f] # NoRow =>
      \E r \in Requests :
        /\ UserOf[r] = u /\ req[r].file = f
        /\ req[r].op \in Uploads \cup {"rename"}
        /\ req[r].name = userTbl[u][f].name

\* What is in the recycle bin stays as it is, whatever uploads of the same
\* bytes and stale or late renames and deletions come, until a recovery that
\* was asked for restores it under its name, whatever fails.
BinLeftByRecover ==
    [][\A u \in Users, f \in Files :
         LET old == userTbl[u][f]
             new == userTbl'[u][f]
         IN old # NoRow /\ old.status = 1 /\ new # old =>
              /\ new = [name |-> old.name, status |-> 0]
              /\ \E r \in Requests :
                   /\ UserOf[r] = u /\ req[r].file = f
                   /\ req[r].op = "recover" /\ req[r].listed = old.name]_vars

\* What a request that was answered ok has to have done; an upload, that the
\* file is in the user's list (under the name it has there, if it was already).
Effect(r) ==
    LET row == Row(r) IN
      CASE req[r].op = "rename"  -> row = [name |-> req[r].name, status |-> 0]
        [] req[r].op = "delete"  -> row # NoRow /\ row.status = 1
        [] req[r].op = "recover" -> row # NoRow /\ row.status = 0
        [] OTHER                 -> row # NoRow /\ row.status = 0

\* An upload of a file that is in the user's recycle bin.
OfBinned(r) == req[r].op \in Uploads /\ Row(r) # NoRow /\ Row(r).status = 1

\* The step tells the page of r that its request is done.
ToldOk(r) == req[r].told # "ok" /\ req'[r].told = "ok"

\* A user who does one thing after the other is told the truth: what is
\* answered ok is done, though calls fail, time out and are retried, and other
\* users do several things at once with the same files.  There are two lies: an
\* answer with Suc = FALSE that nobody reads, and the ok for an upload of a file
\* in the user's recycle bin, whose insert ignore changes nothing: the file
\* stays in the bin.  A call that goes on after its page was told of an error
\* still counts as one of the user's requests.
AnswersAreTrue ==
    [][faults'["sql"] = faults["sql"] =>
         \A r \in Requests :
           ToldOk(r) /\ ~ OfBinned(r) /\ UserOf[r] \notin overlapped'
             => Effect(r)']_vars

=============================================================================
