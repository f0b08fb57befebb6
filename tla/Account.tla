-------------------------------- MODULE Account --------------------------------
(***************************************************************************)
(* Accounts and tokens: sign-up, sign-in, and the check of a token that    *)
(* the gateway makes before each other request.                            *)
(*                                                                         *)
(*   page -> apiwg/handler/user.go, auth.go -> account/handler/user.go     *)
(*        -> dbproxy -> orm/user.go                                        *)
(*                                                                         *)
(* A token is MD5(user, second) and the second: for one user it is the     *)
(* time of its making.  A user has one row in tbl_user_token, so that a    *)
(* sign-in takes the place of the one before.  A browser keeps user and    *)
(* token in its localStorage.  A request is used once.                     *)
(***************************************************************************)
EXTENDS Naturals, FiniteSets

CONSTANTS
    Users,
    Passwords,
    Browsers,
    Requests,
    NoRow,        \* no row in a table, nothing in the localStorage
    TTL,          \* a day in the code
    MaxClock,     \* the clock stops there
    FaultBudget,  \* [FaultKinds -> Nat], how often each fault may happen
    KindsAtOnce   \* how many kinds of faults meet in one behaviour

FaultKinds == {
    "limit",      \* the rate limiter or the circuit breaker refuses the call
    "rpc",        \* a call of dbproxy returns an error, its SQL applied or not
    "sql",        \* dbproxy answers with Suc = false
    "retry",      \* the answer of the account service is lost, the call made again
    "timeout",    \* the gateway gives up a call that goes on
    "entry"}      \* UploadEntry or DownloadEntry fails

ASSUME AccountAssumption ==
    /\ NoRow \notin Passwords \cup Nat
    /\ NoRow \notin [user : Users, token : Nat, by : Requests]
    /\ TTL \in Nat /\ MaxClock \in Nat
    /\ FaultBudget \in [FaultKinds -> Nat]
    /\ KindsAtOnce \in Nat

VARIABLES
    userTbl,     \* tbl_user: the (salted, hashed) password
    tokenTbl,    \* tbl_user_token: the token
    clock,       \* in seconds
    storage,     \* what a browser keeps: user, token, and who brought it
    req,         \* the requests
    overlapped,  \* history: the users of whom two sign-ins ran at once
    last,        \* history: a user's last sign-in that was answered ok
    faults       \* the faults so far

vars == <<userTbl, tokenTbl, clock, storage, req, overlapped, last, faults>>

\* A request: what it is, from which browser, for which user, the password or
\* the token it has, where its handlers are, and what the page was told.
Request == [op : {"none", "signup", "signin", "info"},
            browser : Browsers \cup {NoRow},
            user : Users \cup {NoRow},
            pwd : Passwords \cup {NoRow},
            token : Nat \cup {NoRow},
            at : {"idle", "insert", "verify", "gentoken", "update", "entry",
                  "lookup", "userinfo", "over"},
            told : {"nothing", "ok", "error", "refused", "empty"}]

NotYet == [op |-> "none", browser |-> NoRow, user |-> NoRow, pwd |-> NoRow,
           token |-> NoRow, at |-> "idle", told |-> "nothing"]

TypeOK ==
    /\ userTbl \in [Users -> Passwords \cup {NoRow}]
    /\ tokenTbl \in [Users -> Nat \cup {NoRow}]
    /\ clock \in Nat
    /\ storage \in [Browsers -> [user : Users, token : Nat, by : Requests] \cup {NoRow}]
    /\ req \in [Requests -> Request]
    /\ \A r \in Requests : req[r].at # "idle" => req[r].user \in Users
    /\ overlapped \subseteq Users
    /\ last \in [Users -> Requests \cup {NoRow}]
    /\ faults \in [FaultKinds -> Nat]

Init ==
    /\ userTbl = [u \in Users |-> NoRow]
    /\ tokenTbl = [u \in Users |-> NoRow]
    /\ clock = 0
    /\ storage = [b \in Browsers |-> NoRow]
    /\ req = [r \in Requests |-> NotYet]
    /\ overlapped = {}
    /\ last = [u \in Users |-> NoRow]
    /\ faults = [k \in FaultKinds |-> 0]

-----------------------------------------------------------------------------
Fault(k) ==
    /\ faults[k] < FaultBudget[k]
    /\ Cardinality({j \in FaultKinds : faults[j] > 0} \cup {k}) <= KindsAtOnce
    /\ faults' = [faults EXCEPT ![k] = @ + 1]

\* The outcomes of a dbproxy call, as in the other modules.
DbOutcomes    == {"done", "sqlfails", "lost", "late"}
RowWritten(o) == o \in {"done", "late"}
DbFault(o)    == CASE o = "done"     -> UNCHANGED faults
                   [] o = "sqlfails" -> Fault("sql")
                   [] OTHER          -> Fault("rpc")

User(r) == req[r].user

Start(r, op, b, u, pwd, token, at) ==
    req' = [req EXCEPT ![r] = [op |-> op, browser |-> b, user |-> u, pwd |-> pwd,
                               token |-> token, at |-> at, told |-> "nothing"]]

Goto(r, at) == req' = [req EXCEPT ![r].at = at]

\* A page that has given up is told nothing more.
Answer(r, told) ==
    req' = [req EXCEPT ![r].at = "over",
                       ![r].told = IF @ = "nothing" THEN told ELSE @]

SigningIn(r) == req[r].op = "signin" /\ req[r].at # "over"

Tick ==
    /\ clock < MaxClock
    /\ clock' = clock + 1
    /\ UNCHANGED <<userTbl, tokenTbl, storage, req, overlapped, last, faults>>

(***************************************************************************)
(* Sign-up.                                                                *)
(***************************************************************************)

\* DoSignupHandler; User.Signup passes names and passwords that are long
\* enough on.
StartSignup(r) ==
    /\ req[r].at = "idle"
    /\ \E b \in Browsers, u \in Users, pwd \in Passwords :
         Start(r, "signup", b, u, pwd, NoRow, "insert")
    /\ UNCHANGED <<userTbl, tokenTbl, clock, storage, overlapped, last, faults>>

\* Mutant of InsertUser: how many rows the SQL changed is not looked at.
InsertUnchecked(r) ==
    /\ req[r].at = "insert"
    /\ userTbl' = IF userTbl[User(r)] = NoRow
                    THEN [userTbl EXCEPT ![User(r)] = req[r].pwd] ELSE userTbl
    /\ Answer(r, "ok")
    /\ UNCHANGED <<tokenTbl, clock, storage, overlapped, last, faults>>

\* Mutant of InsertUser: replace into tbl_user.
ReplaceUser(r) ==
    /\ req[r].at = "insert"
    /\ userTbl' = [userTbl EXCEPT ![User(r)] = req[r].pwd]
    /\ Answer(r, "ok")
    /\ UNCHANGED <<tokenTbl, clock, storage, overlapped, last, faults>>

\* orm.UserSignup: insert ignore; without a row changed it is a failure, so
\* that a call made again after its row was written fails, as "late" does.
UserSignup(u, pwd, o) ==
    userTbl' = IF RowWritten(o) /\ userTbl[u] = NoRow
                 THEN [userTbl EXCEPT ![u] = pwd] ELSE userTbl

\* User.Signup.
InsertUser(r) ==
    /\ req[r].at = "insert"
    /\ \E o \in DbOutcomes :
         /\ DbFault(o)
         /\ UserSignup(User(r), req[r].pwd, o)
         /\ Answer(r, IF o = "done" /\ userTbl[User(r)] = NoRow THEN "ok" ELSE "error")
    /\ UNCHANGED <<tokenTbl, clock, storage, overlapped, last>>

(***************************************************************************)
(* Sign-in.                                                                *)
(***************************************************************************)
StartSignin(r) ==
    /\ req[r].at = "idle"
    /\ \E b \in Browsers, u \in Users, pwd \in Passwords :
         /\ Start(r, "signin", b, u, pwd, NoRow, "verify")
         /\ overlapped' = IF \E s \in Requests : SigningIn(s) /\ User(s) = u
                            THEN overlapped \cup {u} ELSE overlapped
    /\ UNCHANGED <<userTbl, tokenTbl, clock, storage, last, faults>>

\* Mutant of VerifyPassword: the password is compared when there is a row.
VerifyIfThere(r) ==
    /\ req[r].at = "verify"
    /\ IF userTbl[User(r)] \in {req[r].pwd, NoRow}
         THEN Goto(r, "gentoken") ELSE Answer(r, "error")
    /\ UNCHANGED <<userTbl, tokenTbl, clock, storage, overlapped, last, faults>>

\* Mutant of VerifyPassword: the token is written before it is made.
VerifyThenUpdate(r) ==
    /\ req[r].at = "verify"
    /\ IF userTbl[User(r)] = req[r].pwd THEN Goto(r, "update") ELSE Answer(r, "error")
    /\ UNCHANGED <<userTbl, tokenTbl, clock, storage, overlapped, last, faults>>

\* orm.UserSignin: the row is there and has this password.
UserSignin(u, pwd) == userTbl[u] = pwd

\* User.Signin; any failure is told as a failed sign-in.
VerifyPassword(r) ==
    /\ req[r].at = "verify"
    /\ \/ /\ IF UserSignin(User(r), req[r].pwd) THEN Goto(r, "gentoken")
             ELSE Answer(r, "error")
          /\ UNCHANGED faults
       \/ /\ Answer(r, "error")
          /\ Fault("rpc") \/ Fault("sql")
    /\ UNCHANGED <<userTbl, tokenTbl, clock, storage, overlapped, last>>

GenToken(r) ==
    /\ req[r].at = "gentoken"
    /\ req' = [req EXCEPT ![r].token = clock, ![r].at = "update"]
    /\ UNCHANGED <<userTbl, tokenTbl, clock, storage, overlapped, last, faults>>

\* orm.UpdateToken: replace into.
ReplaceToken(u, token, o) ==
    tokenTbl' = IF RowWritten(o) THEN [tokenTbl EXCEPT ![u] = token] ELSE tokenTbl

\* Mutant of UpdateToken: Suc is not looked at.
UpdateUnchecked(r) ==
    /\ req[r].at = "update"
    /\ \E o \in DbOutcomes :
         /\ DbFault(o)
         /\ ReplaceToken(User(r), req[r].token, o)
         /\ IF o \in {"done", "sqlfails"} /\ req[r].told = "nothing" THEN Goto(r, "entry")
            ELSE Answer(r, "error")
    /\ UNCHANGED <<userTbl, clock, storage, overlapped, last>>

\* The account service answers, and the gateway goes on if it still waits.
UpdateToken(r) ==
    /\ req[r].at = "update"
    /\ \E o \in DbOutcomes :
         /\ DbFault(o)
         /\ ReplaceToken(User(r), req[r].token, o)
         /\ IF o = "done" /\ req[r].told = "nothing" THEN Goto(r, "entry")
            ELSE Answer(r, "error")
    /\ UNCHANGED <<userTbl, clock, storage, overlapped, last>>

\* Mutant of AnswerSignin: the token is made once more for the answer.
AnswerNewToken(r) ==
    /\ req[r].at = "entry"
    /\ Answer(r, "ok")
    /\ storage' = [storage EXCEPT ![req[r].browser] =
                     [user |-> User(r), token |-> clock, by |-> r]]
    /\ last' = [last EXCEPT ![User(r)] = r]
    /\ UNCHANGED <<userTbl, tokenTbl, clock, overlapped, faults>>

\* The entries of the upload and the download service, then the answer, from
\* which the page sets its localStorage.  An entry that fails is a nil
\* response: a panic, answered 500, which leaves the page as it was.
AnswerSignin(r) ==
    /\ req[r].at = "entry"
    /\ \/ /\ Answer(r, "ok")
          /\ storage' = [storage EXCEPT ![req[r].browser] =
                           [user |-> User(r), token |-> req[r].token, by |-> r]]
          /\ last' = [last EXCEPT ![User(r)] = r]
          /\ UNCHANGED faults
       \/ /\ Answer(r, "error")
          /\ Fault("entry")
          /\ UNCHANGED <<storage, last>>
    /\ UNCHANGED <<userTbl, tokenTbl, clock, overlapped>>

\* The answer of User.Signin is lost: the gateway's client calls it again.
SigninAgain(r) ==
    /\ req[r].at \in {"gentoken", "update", "entry"}
    /\ req[r].told = "nothing"
    /\ Goto(r, "verify")
    /\ Fault("retry")
    /\ UNCHANGED <<userTbl, tokenTbl, clock, storage, overlapped, last>>

\* The circuit breaker gives up a call of the account service (after a
\* second, where the call has thirty), which goes on.
TimeOut(r) ==
    /\ req[r].at \in {"insert", "verify", "gentoken", "update"}
    /\ req[r].told = "nothing"
    /\ req' = [req EXCEPT ![r].told = "error"]
    /\ Fault("timeout")
    /\ UNCHANGED <<userTbl, tokenTbl, clock, storage, overlapped, last>>

\* A call of the account service is refused at once.
Limited(r) ==
    /\ req[r].at \in {"insert", "verify"} /\ req[r].told = "nothing"
    /\ Answer(r, "error")
    /\ Fault("limit")
    /\ UNCHANGED <<userTbl, tokenTbl, clock, storage, overlapped, last>>

(***************************************************************************)
(* The interceptor, and the home page's first request behind it.           *)
(***************************************************************************)
Expired(token) == token + TTL < clock

\* IsTokenValid looks at the token's time first: an old one is refused.
StartInfo(r) ==
    /\ req[r].at = "idle"
    /\ \E b \in Browsers :
         /\ storage[b] # NoRow
         /\ req' = [req EXCEPT ![r] =
              LET old == Expired(storage[b].token) IN
                [op |-> "info", browser |-> b, user |-> storage[b].user, pwd |-> NoRow,
                 token |-> storage[b].token,
                 at |-> IF old THEN "over" ELSE "lookup",
                 told |-> IF old THEN "refused" ELSE "nothing"]]
    /\ UNCHANGED <<userTbl, tokenTbl, clock, storage, overlapped, last, faults>>

\* orm.GetUserToken: the token of the user's row; without a row, or when the
\* SQL fails, there is none in the answer.
TokenRow(u, token) ==
    \/ token = tokenTbl[u] /\ UNCHANGED faults
    \/ token = NoRow /\ Fault("sql")

\* The client's GetUserToken: nor is there after an error of the rpc.
GetUserToken(u, token) ==
    \/ TokenRow(u, token)
    \/ token = NoRow /\ Fault("rpc")

\* IsTokenValid then compares.
LookupToken(r) ==
    /\ req[r].at = "lookup"
    /\ \E token \in {tokenTbl[User(r)], NoRow} :
         /\ GetUserToken(User(r), token)
         /\ IF token = req[r].token THEN Goto(r, "userinfo") ELSE Answer(r, "refused")
    /\ UNCHANGED <<userTbl, tokenTbl, clock, storage, overlapped, last>>

\* orm.GetUserInfo finds the user's row.
InfoRow(u, found) ==
    \/ found = (userTbl[u] # NoRow) /\ UNCHANGED faults
    \/ ~ found /\ Fault("sql")

\* User.UserInfo: without a row, or after an error, the fields stay empty.
UserInfo(u, filled) ==
    \/ InfoRow(u, filled)
    \/ ~ filled /\ Fault("rpc")

\* UserInfoHandler shows the fields, and does not look at the code that says
\* why they are empty.
ShowInfo(r) ==
    /\ req[r].at = "userinfo"
    /\ \/ \E filled \in BOOLEAN :
            UserInfo(User(r), filled) /\ Answer(r, IF filled THEN "ok" ELSE "empty")
       \/ Answer(r, "error") /\ Fault("limit")
    /\ UNCHANGED <<userTbl, tokenTbl, clock, storage, overlapped, last>>

-----------------------------------------------------------------------------
Next ==
    \/ Tick
    \/ \E r \in Requests :
         \/ StartSignup(r) \/ InsertUser(r)
         \/ StartSignin(r) \/ VerifyPassword(r) \/ GenToken(r) \/ UpdateToken(r)
         \/ AnswerSignin(r) \/ SigninAgain(r) \/ TimeOut(r) \/ Limited(r)
         \/ StartInfo(r) \/ LookupToken(r) \/ ShowInfo(r)

Spec == Init /\ [][Next]_vars

(***************************************************************************)
(* Properties.                                                             *)
(***************************************************************************)
Never(kinds) == \A k \in kinds : faults[k] = 0

\* Sign-ups are told the truth: of those of one name, at once or not, lost,
\* late or abandoned, one at most is told ok, and it is its password that the
\* name has from then on.
SignupIsTrue ==
    \A r \in Requests : req[r].op = "signup" /\ req[r].told = "ok" =>
      /\ userTbl[User(r)] = req[r].pwd
      /\ \A s \in Requests \ {r} :
           ~ (req[s].op = "signup" /\ User(s) = User(r) /\ req[s].told = "ok")

\* A token leads back to somebody who had the password: it is in the table,
\* or in a browser, because of a sign-in of this user with the password the
\* user has, whatever failed on the way.
TokenNeedsPassword ==
    /\ \A u \in Users : tokenTbl[u] # NoRow =>
         \E r \in Requests :
           /\ req[r].op = "signin" /\ User(r) = u
           /\ userTbl[u] # NoRow /\ req[r].pwd = userTbl[u]
    /\ \A b \in Browsers : storage[b] # NoRow =>
         req[storage[b].by].pwd = userTbl[storage[b].user]

\* The last sign-in that was answered ok stands: unless sign-ins of the user
\* overlap, the table has the token its browser got, though other sign-ins are
\* under way that failed, or will.  One that writes its row and is answered
\* with an error all the same ends this.
LastSigninStands ==
    Never({"rpc", "retry", "timeout", "entry"}) =>
      \A u \in Users \ overlapped : last[u] # NoRow =>
        \/ tokenTbl[u] = req[last[u]].token
        \/ \E r \in Requests : SigningIn(r) /\ User(r) = u /\ req[r].at = "entry"

\* A request that is refused has an old token, meets a failure, or comes from
\* a browser whose sign-in was followed, or raced, by another one of the same
\* user with the right password.
RefusedForCause ==
    Never({"rpc", "sql", "retry"}) =>
      \A r \in Requests : req[r].told = "refused" =>
        \/ Expired(req[r].token)
        \/ Cardinality({s \in Requests : req[s].op = "signin" /\ User(s) = User(r)
                                         /\ req[s].pwd = userTbl[User(r)]}) > 1

\* Who is let in exists: the page shows the fields of a row, unless dbproxy
\* failed.
InfoHasRow ==
    Never({"rpc", "sql"}) => \A r \in Requests : req[r].told # "empty"

===============================================================================
