# filestore-hsz: models, checks and proofs

TLA+ modules of the file store in this repository, the TLC configurations that
check them on small instances, and proofs that TLAPS checks for every value of
the constants. Every definition is translated from the source; `PROJECT.json`
names the lines of each.

## 1. The system

Pages call an API gateway or, for bytes, the upload and the download service.
Rows are written by one service, `dbproxy`, that the others call by rpc; bytes
are on a disk the services share until the transfer service has put them on
OSS.

```
 page ──► apiwg ──► account ──┐
   │                          ├──► dbproxy ──► MySQL (tbl_file, tbl_user_file, tbl_user, tbl_user_token)
   ├──► upload ───────────────┤
   │      │  redis (sessions) │
   │      │  disk (chunks, merged files) ◄─────────────┐
   │      └──► RabbitMQ ──► transfer ──► OSS           │
   └──► download ─────────────┴── reads row, then disk or OSS
```

| Part | State | Operations | What is hard about it |
|---|---|---|---|
| multipart upload `service/upload/api/mpupload.go`, `static/view/mpupload.html` | redis `HASH_UPID_<hash>`, `MP_<uploadID>`; chunk directories; merged files; rows | Init, Part, Complete; expiry; crash | three stores and no transaction; two pages of one file; resume after any failure |
| plain and fast upload `upload.go`, transfer `service/transfer`, queue `mq/` | merged file, `tbl_file`, `tbl_user_file`, queue, object store | upload, publish, consume, put, update of the address | task and row race; tasks are acknowledged on delivery; names are object keys |
| download `service/download/api` | none of its own | read row; then the bytes, from the disk, from OSS, or by a signed address | the row changes between the two; a range download takes the local path whatever the row says |
| user files `apiwg/handler/user_file.go`, `account/handler/user_file.go`, `orm/userfile.go`, `home.html` | `tbl_user_file` | list, rename, delete, recover, and the inserts of uploads | edits name rows by a listed name; retries and late calls; insert ignore meets deleted rows |
| dbproxy `service/dbproxy` | a pool of 1000 connections, open results, the server's prepared statements | `ExecuteAction` → one of 16 functions; start; death | results and statements nobody closes; two acquisitions a call; callers that give up |
| RabbitMQ connection `mq/conn.go`, `producer.go`, `consumer.go`, the `main.go` of upload and transfer | per process: the channel, the broker's address, what is registered for its end | Init, dial, publish, consume; start-up of both services | one variable, no lock, many goroutines; lost connections; services that begin before they are ready |
| accounts and tokens `account/handler/user.go`, `apiwg/handler/user.go`, `auth.go`, `orm/user.go`, `signin.html` | `tbl_user`, `tbl_user_token`, a browser's localStorage | sign-up, sign-in, check of a token, a user's info | one token a user, which sign-ins replace; calls retried, lost, late or given up; a clock |

`PROJECT.json` has the full list of components, also those that have no control
of their own (drivers, configuration, generated code), and every hazard at its
line with the properties that watch it.

What makes each part correct, in short. *Multipart upload*: a session is one
file's; what is listed as uploaded is whole; what is merged is complete; what
is registered is whole and handed on; an interrupted upload can be resumed.
*Transfer*: an address that somebody can read leads to the file; no task is
lost; a file moved stays moved. *User files*: a user's list has the names the
user gave; the bin is left by recovery only; an answer is true. *dbproxy*: no
connection is lost on an error path; every call ends. *RabbitMQ connection*: what
is told to be published is with the broker or was delivered; a service goes down
for a cause. *Accounts*: a name has the password whose sign-up was told ok; a
token needs the password; the last sign-in stands.

## 2. Modules

| Module | Models | Checked by | Proved in |
|---|---|---|---|
| `MultipartUpload` | the three handlers of `mpupload.go`, the page, redis, the disk | `mp_*`, `claim_all_chunks` | `MultipartUpload_proof`, `MultipartTurns_proof` |
| `UploadPromise` | what an upload promises to those who read its rows and tasks: the abstract specification | `mp_turns` (refinement) | `MultipartTurns_proof` |
| `TransferPipeline` | plain, fast and the end of a multipart upload, broker, transfer service, the three downloads | `tp_*`, `claim_recorded` | `TransferPipeline_proof`, `TransferBytes_proof` |
| `UserFiles` | `tbl_user_file` under the requests of many pages, from page to SQL | `uf_shared` | `UserFiles_proof` |
| `DbPool` | connections, statements and results of dbproxy, its death and start | `db_pool`, `claim_rows_closed` | `DbPool_proof` |
| `MqConnection` | package `mq` and the start-up of the two services that use it | `mq`, `claim_reconnect` | `MqConnection_proof` |
| `Account` | accounts, tokens and the gateway's check, from page to SQL | `account` | `Account_proof` |

`MC<Module>` gives each its instances: which client uploads which file, and
which faults may happen. A state is what the stores hold and where each request
is; **one action is one call a handler makes** on redis, the disk, dbproxy, the
queue or the object store, so that the calls of different requests interleave
as goroutines and processes do. What a handler computes between two calls is
part of the action. Failing calls are actions too, limited by `FaultBudget`
(how often a kind may happen in a behaviour) and `KindsAtOnce` (how many
kinds). An rpc error leaves open whether the SQL was applied; `Suc = false` says that it was not.

How the state of each module corresponds to the code:

* **MultipartUpload.** `hashUp` is `HASH_UPID_<hash>`, `mp` is `MP_<uploadID>`
  (alive, has an expiry, `chunkcount`, the chunks marked), `made` the sessions
  that have a directory, `dir` and `body` its chunk files, `merged` the merged
  file, unit by unit.
  `pc`, `upid`, `found`, `part`, `left`, `off`, `ferr` are the local variables
  of page and handlers. A chunk is written in `PieceCount` pieces;
  `os.Create` truncates; `xargs cat` reads chunk files piece by piece, in
  the order of `sort -n`, from whatever files `ls` named when it started, and
  writes each piece behind what it has written; `off` is how far it is in both.
  The shell may fail at any of these steps (code -3), and a crash takes it along:
  the service is the process of its container.
  Bytes are "good" (the right ones at this place), "bad" or missing. A client
  is one run of the page; a user who comes back is another client, and a new
  `uploadID` (user name and nanoseconds) is named after the client that made it.
* **TransferPipeline.** `local` is the merged file (absent, part, all), `oss`
  the objects under their names, `row` the address in `tbl_file`, `owns` the
  table of user files, `queue`, `inbox` (delivered and so acknowledged) and
  `errq` the messages, `job` the one message `ProcessTransfer` is at. Store
  and mode are the ones `config/store.go` sets: OSS, asynchronous. `down` is a
  download: where it reads from ("local" for a range download whatever the row
  says, "guess" when there is no row), and what its page got; a read that fails
  gives it an error.
* **UserFiles.** `userTbl` has for user and hash no row, or name and status;
  `req` has for each request what it asks, the name its page had listed, where
  its handler is and what the page was told. `overlapped` is history: the users
  two of whose requests ran at once. `TimeOut` is the gateway's call
  running out of time while the SQL is still to come; `EditAgain` is the retry
  of the gateway's rpc client after a 500 (external: go-micro).
* **DbPool.** `free` counts connections that can be taken, `open` the calls
  whose result nobody closed, `stmts` the calls whose statement the server still
  has, `up` whether dbproxy runs. The six kinds of calls are the shapes the 16
  functions of `mapper.go` have: execute or scan a row; the same and leave the
  statement (`UpdateFileLocation`); read all rows; loop over all rows; call
  `rows.Next` once; and the same without a look at the error of `Prepare`, and
  without `stmt.Close` (`IsUserFileUploaded`).
* **MqConnection.** `channel` is the package's variable, per process: nil, or a
  channel with its broker that is live, lost (nobody knows yet) or closed, and
  `told` if `notifyClose` is registered with it. `url` is `config.RabbitURL`,
  which `ParseFlags` sets after the other goroutines were started; `dbCli`
  whether `dbproxy.Init` has run. `pc` has the two main goroutines, the consumer
  and one goroutine per upload request. `notifyClose` is a nil channel: the
  reconnecting goroutine that receives from it has no step, and the library,
  which sends to it before it marks its channel closed, holds the channel's
  lock for ever ("hung"; external: streadway/amqp, read from its use).
* **Account.** `userTbl` has a user's password, `tokenTbl` the token, which for
  one user is the second it was made in; `storage` is what a browser keeps,
  with the request that brought it. `Limited` and `TimeOut` are the gateway's
  rate limiter and circuit breaker, `SigninAgain` its client's retry. `last` and
  `overlapped` are history, for what "the last sign-in" means.

## 3. Runs

All runs are complete explorations within their constants. A **pass** run finds
its properties true and each property has a mutant of the code that breaks it.

| Run | Question | Instance | States |
|---|---|---|---|
| `mp_shared` | what two users' pages that post one file at once do to chunks, merge, session record and message | 2 clients, 1 file of 2 chunks of 2 pieces; every kind of fault, one kind at a time | 1,290,000 |
| `mp_turns` | do the handlers implement `UploadPromise`; are listed chunks whole, and registered files unless a merge was cut short; sessions of two files apart; does a resume succeed | the same, in turns, and a third client with an empty file that comes between; any two kinds of faults; fairness | 410,000 |
| `tp_kinds` | do addresses resolve, have owners rows, is a task lost, does a multipart file end on OSS | a plain, a multipart, a fast upload of one file, a download; any two kinds of faults; fairness | 460,000 |
| `tp_names` | do moved rows stay, is a half object put right, does a download get the whole file, or an error only when its read failed | two plain uploads of one file, a multipart upload of another under the same name, a download; any two kinds of faults | 4,310,000 |
| `uf_shared` | are the names in a list the user's; is the bin left by recovery only; is "ok" true, but for uploads of binned files | 3 requests of one user, 1 of another, one file, two names; all faults; symmetry | 960,000 |
| `db_pool` | is a connection or a statement lost; does every call end | 3 calls, 2 connections, 2 statements, 2 results left open, 1 fault; fairness | 540,000 |
| `mq` | is a published task kept and delivered; what brings a service down; do requests end | 2 uploads, both services, both brokers; any two kinds of faults; fairness | 440,000 |
| `account` | is a sign-up told the truth; does a token need the password; does the last sign-in stand; why is a request refused | 4 requests of 1 user, 2 passwords, 2 browsers, a clock from 0 to 2 and tokens that live for 1; any two kinds of faults; symmetry | 1,290,000 |

Each **violation** run checks one sentence of the repository's own words and
TLC refutes it; `PROJECT.json` ("findings") quotes the sentence and its line.

| Run | Refutes |
|---|---|
| `claim_all_chunks` | a completion checks that all chunks are there: after expiry 0 = 0 |
| `claim_recorded` | the address of a moved file is updated: the task may overtake the row |
| `claim_rows_closed` | results are closed by hand |
| `claim_reconnect` | a lost connection is made again by itself: one cut and the process never dials again |

### Properties and faults

Many properties hold only as long as some faults have not happened. They say
so themselves: `Never({"cut", "crash"}) => ...` is about the behaviour so far,
so that one run with every fault checks the property wherever it should hold,
and the proofs need no assumption on the constants. `TakeTurns` restricts a run
to clients that start when no other is at the file; what holds only then has it
as a hypothesis: `TakeTurns` is a constant of the instance, `overlapped` in
`UserFiles` and `Account` notes the users whose requests did overlap, so that
one run explores the races and checks what is promised to those who had none.

### Bounds

`FaultBudget` is 0 or 1 of each kind in every run: the same failure does not
happen twice. `KindsAtOnce` bounds how many kinds meet in one behaviour: two,
so that a second failure can meet what the first one left; one in `mp_shared`,
whose clients overlap (8.9 million states with two, explored once and found
true); all of them in `uf_shared`, whose kinds are few. Two clients suffice for
every race of two handlers; three requests of one user make an upload, a
deletion, and a recovery or a second upload. Two chunks have an order and a
gap; two pieces make a half-written chunk. `ChunkSize = 2` with sizes of 3 and
0 bytes has a full and a short chunk and the empty file. Names: two, so that a
stale name differs from the current one. `MaxOpenConns` is 2 and not 1000: a
pool is exhausted when the calls outnumber it; `FindBudget` is as large, so
that the pool can be used up, and so is `MaxStatements`. Two uploads in `mq`
dial over each other's channel, and one can be lost while the other is
delivered. Four requests in `account` are two sign-ups and a sign-in with a
request behind it, or a sign-up and three sign-ins, the third to follow two
that race; `TTL` is 1 and `MaxClock` 2, so that a token can be fresh, on its
last second, and old. Requests are used once, so that behaviours end: deadlock
is not checked for that reason. What would be a deadlock of the program is the
subject of the liveness properties.

### Fairness

`MultipartUpload` has weak fairness of a client's handlers, requests and merge
call, and of leaving a page whose request was never answered: goroutines run,
and an open page goes on. No failure, expiry or voluntary leaving is ever
forced. `TransferPipeline` has it for the delivery of messages and for the
consumer's work, one goroutine in a loop. `DbPool` has it for the work of each
call: `database/sql` hands a free connection to those who wait. It does not
force calls to come or callers to give up. `MqConnection` has it for the
goroutines of both services taken together (`Running`): each of them works for
a bounded number of steps and then waits, so that no one of them can run for
ever beside another that could; and for the library's noticing of a lost
connection, which heartbeats ensure. No request, failure, restart or start of a
broker is forced. `UserFiles` and `Account` have no liveness property: each of
their requests is one chain of calls, and what can be held up in it is in
`DbPool`.

## 4. Proofs

For every value of the constants that the `ASSUME` of the module allows (any
clients, files, users and fault budgets; `DbPool` wants its calls finite):

* `MultipartUpload_proof`: `TypeCorrect`; `SessionsSafe` (a session is one
  file's; inductive with the types alone); `MarkedSafe`, from `StoreInv`, which
  adds that a request past `os.Create` has its chunk file;
  `ChunkIntegritySafe`, from `PiecesAreOwed`, which holds until a body is cut
  or the service crashes: each piece missing from a chunk's file is owed by a
  request that still writes it (that a marked chunk is whole is not inductive);
  `DiscardSafe`, from `RowsBeforeDelete`, which holds until an SQL fails
  unheard: a completion that has come to the deletions has written both rows;
  `PublicationSafe` from `Handed`: a session that is gone leaves its file handed
  on, to a client about to publish or to the queue.
* `MultipartTurns_proof`, on the lemmas of the former: `ListedSafe`, from
  `TurnInv`: while clients take turns one is busy at most, a chunk that redis
  marks is whole, and the busy client rewrites unmarked chunks only (`TakeTurns`
  is a constant, and a property that needs it has it as its premise).
  `MergeSafe`, to the end of the merge's cat, from two invariants for its two cases. For overlapping clients
  `CountInv`, which holds while redis keeps what it was told: a session that
  redis or a client names has its `chunkcount`, or all chunks have their files
  already; that as many marks as chunks are all the chunks rests on `FitInv`
  (marks are of the file's chunks) and a lemma on cardinalities. For clients in
  turns `TurnCountInv`, which drops the second alternative. `RegisteredSafe`,
  from `WholeInv`: a merge that runs has copied a prefix of the file whole, who is
  past it leaves the file whole, and of a registered file that is not whole there
  is a merge that runs or ended with chunks left to copy. `PromiseKept`, the refinement: under
  those invariants and `RowsInv` (a Complete past a row's call has its row, until
  dbproxy fails) each step is one of `UploadPromise` or changes nothing that
  it speaks of; a step that is the first to break the promise's premise
  sets `void`, after which nothing is promised.
* `TransferPipeline_proof`: `PipelineTypes`; `AddressesSafe` from `AddressInv`
  (a request past its file write has a file, a job past its put has an object);
  `MovedRowsStay`; `OwnersSafe` from `OwnerInv`, which holds until an SQL fails
  unheard (a request about to write the user's row has the file's, or is a
  multipart upload on its way to an error, and such an upload stays one);
  `JobsSafe`, directly: no step of a broker or consumer that neither crashes
  nor fails to publish takes a message out of the places where it counts.
* `TransferBytes_proof`, on the lemmas of the former: `SourceInv` (each file on
  disk, message, object and address comes from an upload that has started, of
  that hash and name); `DownloadsSafe`, from `OnceInv` (a file that one upload
  wrote is whole from then on, on disk until the row names its object, which
  is whole), so that a download that reads the row before and the bytes after a
  transfer has them, unless the read itself fails, which gives an error and
  nothing else; `ObjectsSafe`, from `HealInv`: a file
  truncated on disk is being written, and a half-read or half-put object has an
  upload still to come, or a job at work, that puts it right.
* `UserFiles_proof`: `UserFilesTypes`; `NamesSafe`, from `StepsFit` (a request
  that inserts is an upload, one that changes rows is an edit) and the lemma
  that a started request's name never changes; `BinSafe`, an action property
  from `StepsFit`: of the edits only a recovery changes a row with status 1;
  `AnswersSafe`, from `AnswersInv`: two busy requests of a user are in
  `overlapped` (`OneBusy`), so that of a user who is not there nothing but the
  edit's own first try comes between the listing and the SQL, which finds the row
  under the listed name or, renamed by that first try, under the new one
  (`CallsReach`). No fault has to be excluded for that, and of the last step only
  that its own call is not answered with `Suc = false`. For an upload "done" means
  that the file is in the user's list, and the upload of a file in the bin, which
  `insert ignore` leaves there, is the exception the property names.
* `DbPool_proof`: `PoolTypes`; `AccountedSafe`: free, held and left-open
  connections add up to `MaxOpenConns`. Every step of a call is one of three
  moves (take, return, leave behind) and each keeps the sum. `StatementsSafe`
  follows the same calls for the statements of the server.
* `MqConnection_proof`: `MqTypes`, with `PlacesFit` (where each goroutine can
  be); `PublishedSafe` and `DownSafe` from one invariant of parts: `InOrder`
  (the upload service starts up in order), `Dialed` (whoever started in order
  dials the broker the flag names, which runs unless it stopped), `Lives` (a
  channel is live until its connection is lost), `HasChannel` (who goes on with
  a channel has one, unless a failing `conn.Channel()` took it), `Kept` and
  `Down`. Each part is weak enough to hold under the faults it names, and the
  parts are preserved together: `Kept` needs `Dialed`, which needs `InOrder`.
* `Account_proof`: `AccountTypes`, with `StepsFit` (what a request is fits
  where it is); `SignupSafe`, since a password in `tbl_user` is never replaced;
  `TokensSafe` from `TokensInv`, which carries "had the password" from the
  check to the row and to the browser, across retries and late answers;
  `InfoSafe` from `InfoInv` (a token that is looked up belongs to a user with a
  row); `SigninsSafe` from `SigninsInv`: without overlap one sign-in at most is
  past the check, and the table has its token or that of the last one that was
  answered. `RefusalsSafe`, from `CauseInv`: while a user has a single sign-in
  with the right password, its token is the one in the table, in the browsers and
  in the requests for pages; a second one makes the set that the property counts
  larger than one, and that set is finite because a behaviour has begun finitely
  many requests (`BegunFinite`).

Where a property depends on what never happened, `FaultCounts` and
`NeverBefore` carry it: a fault is counted in the step it happens in and counts
never go down, so that the induction step may assume that neither the step nor
the past has the fault. Each proof has one step per action or group of actions,
and the lemmas they share are stated before them.

Every invariant, action property and refinement that a passing run checks is
proved. Only model-checked is liveness: `ResumeSucceeds`, `MultipartMoves`,
`CallsEnd`, `TasksTaken`, `RequestsEnd`. The proof system has no rules for fairness
and `ENABLED`.

## 5. Not modelled

* The Ceph and the synchronous OSS branch of `DoUploadHandler`: dead under
  `config/store.go`. Which bytes a range download asks for, and how an OSS address is
  signed: no state.
* The limit of 15 rows of a list; sizes and times of rows.
* The redis pool (30 connections, an error when exhausted): its error is the
  fault "redis".
* `StopConsume` (nothing calls it), and `ExecuteAction`'s loop over several
  actions (the client sends one), with the reflection of `mapper.go`.
* The data race on the gateway's dbproxy client, which every request sets anew:
  all values it can have are equal, so that no answer depends on it.
* What `cat` writes after a chunk file it cannot read: it goes on with the next
  one and fails in the end. In the model the merge ends there. The answer is code
  -3 and the merged file not whole either way.
* Retries that overlap: a retry of an rpc is made while the request is pending,
  and one after the other. In `UserFiles` its first try has been applied by then;
  in `Account` `SigninAgain` gives the first try up at the step it has come to. A
  first try that runs on beside its retry is not modelled.
* The closing of idle connections by `database/sql`: one that is closed can be
  opened again, and counts as free.
* How a name, password or file is hashed: two that differ have different hashes.
* Drivers, routes, configuration, generated and embedded code, deployment: no
  control of their own.

## 6. Where the repository's words and the code part, besides the runs

Read off the code and the model, without a run of their own:

* `mpupload.go:25` calls the uploadID the common mark of all chunks of a file;
  two pages that look the session up (line 89) before either stores it (137-143)
  have one each.
* `mpupload.go:142` gives a session half a day; a chunk marked after that
  (line 206) makes the key anew without an expiry.
* `mpupload.go:274` updates both tables; `Suc` is not looked at, and a page is
  answered with success without the rows. For the same reason `mpupload.go:74`
  says "file exists" for a user's row without a row in `tbl_file`.
* `mpupload.go:303` says that the chunk files are deleted; none is.
* `mpupload.go:262` redirects into the merged file itself: a second completion of
  a registered file whose shell fails leaves it truncated, and the row as it is.
  `RegisteredIsWhole` says so.
* `README.md:134` promises that a file once uploaded need not be uploaded again:
  a second page of a session may truncate a chunk (line 169) while the first
  one's merge reads it, and an upload of any kind of a file in the user's bin
  changes nothing (`doc/table.sql:53`, insert ignore) and is answered with
  success. `AnswersAreTrue` excepts it.
* A file of no byte cannot be uploaded in parts: no request makes a directory for
  its session, and `cd` fails (`mpupload.go:262`, code -3).
* `upload.go:145` and `mpupload.go:284` drop the `Suc` of the file's row: the
  user's row can be there alone.
* `config/rabbitmq.go:10` has the error queue for failed transfers; it also gets
  those whose object is stored and whose row was not there yet.
* `doc/table.sql:6`: the address is where the file is; files of one name
  overwrite each other's object (`upload.go:110`).
* `home.html:328` reports a deletion that changed no row as done.
* `apiwg/handler/user_file.go:86` answers "修改文件名成功" (file name changed) to a
  rename whose row had another name by then, so that nothing changed.
* `apiwg/handler/user.go:138` logs an error of the upload or the download
  service's entry and goes on with the nil response: the token row has been
  replaced by then, and the page keeps an outdated one.
* `dbproxy/orm/file.go:153` and `orm/userfile.go:153` prepare statements that are
  not closed: `StatementsAccounted` says that there are no others, and each
  transfer and each start of a multipart upload leaves one.

## 7. Plan

Done, in this order because the loss of uploaded bytes comes first:
`MultipartUpload`, `UploadPromise`, `TransferPipeline`, `UserFiles`, `DbPool`,
`MqConnection`, `Account`, with proofs of all that is safety in each.

What could come next:

1. `FileStore`, composing the end of `MultipartUpload`, `TransferPipeline` and
   `UserFiles` on their shared tables: what a user lists can be downloaded.
2. An abstract queue, put, lost by name or delivered, that `MqConnection`
   implements for `TransferPipeline`, which takes it as given; and a bounded
   abstract pool that `DbPool` implements.
3. Proofs: of the properties of 1 and 2, on the lemmas of the components.
