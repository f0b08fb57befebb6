---------------------------- MODULE Account_proof ----------------------------
(***************************************************************************)
(* Proofs about Account: its types, that sign-ups are told the truth, that *)
(* a token leads back to a password, that who is let in has a row, that    *)
(* the last sign-in of a user stands, and what a page is refused for.      *)
(***************************************************************************)
EXTENDS Account, FiniteSetTheorems, TLAPS

(***************************************************************************)
(* Requests: a started one keeps what it asks for, and one that is over    *)
(* stays as it is.                                                         *)
(***************************************************************************)
Places == {"insert", "verify", "gentoken", "update", "entry", "lookup", "userinfo", "over"}
Words  == {"nothing", "ok", "error", "refused", "empty"}

Same(r) == /\ req'[r].op = req[r].op /\ req'[r].browser = req[r].browser
           /\ req'[r].user = req[r].user /\ req'[r].pwd = req[r].pwd

Others(r) == /\ req' \in [Requests -> Request]
             /\ \A s \in Requests \ {r} : req'[s] = req[s]

\* What a request is fits where it is.
Fits(r) ==
    /\ req[r].at = "idle" => req[r].op = "none"
    /\ req[r].at = "insert" => req[r].op = "signup"
    /\ req[r].at \in {"verify", "gentoken", "update", "entry"} => req[r].op = "signin"
    /\ req[r].at \in {"lookup", "userinfo"} => req[r].op = "info"
    /\ req[r].op \in {"signup", "signin"} => req[r].pwd \in Passwords
    /\ req[r].told \in {"ok", "refused", "empty"} => req[r].at = "over"
    /\ req[r].at \in {"update", "entry"} => req[r].token \in Nat
    /\ req[r].op = "info" => req[r].token \in Nat
    /\ req[r].at # "idle" => req[r].user \in Users
    /\ req[r].op \in {"signup", "signin"} => req[r].browser \in Browsers

StepsFit == \A r \in Requests : Fits(r)

TypeInv == TypeOK /\ StepsFit

LEMMA FaultType ==
  ASSUME NEW k \in FaultKinds, TypeOK, Fault(k)
  PROVE  /\ faults' \in [FaultKinds -> Nat]
         /\ faults'[k] # 0
         /\ \A j \in FaultKinds : faults'[j] = 0 => faults[j] = 0
BY DEF Fault, TypeOK

LEMMA Kinds ==
  "rpc" \in FaultKinds /\ "sql" \in FaultKinds /\ "retry" \in FaultKinds
    /\ "timeout" \in FaultKinds /\ "limit" \in FaultKinds /\ "entry" \in FaultKinds
BY DEF FaultKinds

\* Faults are counted, and stay counted.
FaultsGrow == /\ faults' \in [FaultKinds -> Nat]
              /\ \A j \in FaultKinds : faults'[j] = 0 => faults[j] = 0

LEMMA DbFaultType ==
  ASSUME NEW o \in DbOutcomes, TypeOK, DbFault(o)
  PROVE  /\ FaultsGrow
         /\ o = "sqlfails" => faults'["sql"] # 0
         /\ o \in {"lost", "late"} => faults'["rpc"] # 0
<1>1. CASE o = "done"
  BY <1>1 DEF DbFault, FaultsGrow, TypeOK
<1>2. CASE o = "sqlfails"
  BY <1>2, FaultType, Kinds DEF DbFault, FaultsGrow
<1>3. CASE o \notin {"done", "sqlfails"}
  BY <1>3, FaultType, Kinds DEF DbFault, FaultsGrow, DbOutcomes
<1> QED BY <1>1, <1>2, <1>3

LEMMA GotoMakes ==
  ASSUME TypeOK, NEW r \in Requests, NEW at \in Places, Goto(r, at)
  PROVE  /\ Others(r) /\ Same(r)
         /\ req'[r].at = at /\ req'[r].told = req[r].told /\ req'[r].token = req[r].token
<1>1. req[r] \in Request
  BY DEF TypeOK
<1>2. /\ req'[r] = [req[r] EXCEPT !.at = at]
      /\ \A s \in Requests \ {r} : req'[s] = req[s]
      /\ DOMAIN req' = Requests /\ req' = [s \in Requests |-> req'[s]]
  BY DEF Goto, TypeOK
<1>3. req'[r] \in Request
  BY <1>1, <1>2 DEF Request, Places
<1>4. req' \in [Requests -> Request]
  BY <1>2, <1>3 DEF TypeOK
<1> QED BY <1>1, <1>2, <1>4 DEF Others, Same, Request

LEMMA AnswerMakes ==
  ASSUME TypeOK, NEW r \in Requests, NEW told \in Words, Answer(r, told)
  PROVE  /\ Others(r) /\ Same(r)
         /\ req'[r].at = "over" /\ req'[r].token = req[r].token
         /\ req'[r].told = IF req[r].told = "nothing" THEN told ELSE req[r].told
<1>1. req[r] \in Request
  BY DEF TypeOK
<1>2. /\ req'[r] = [req[r] EXCEPT !.at = "over",
                                  !.told = IF @ = "nothing" THEN told ELSE @]
      /\ \A s \in Requests \ {r} : req'[s] = req[s]
      /\ DOMAIN req' = Requests /\ req' = [s \in Requests |-> req'[s]]
  BY DEF Answer, TypeOK
<1>3. req'[r] \in Request
  <2>1. PICK word \in Words : word = IF req[r].told = "nothing" THEN told ELSE req[r].told
    BY <1>1 DEF Request, Words
  <2>2. req'[r] = [req[r] EXCEPT !.at = "over", !.told = word]
    BY <1>2, <2>1
  <2>3. ASSUME NEW q \in Request, NEW w \in Words
        PROVE  [q EXCEPT !.at = "over", !.told = w] \in Request
    BY DEF Request, Words
  <2> QED BY <1>1, <2>2, <2>3
<1>4. req' \in [Requests -> Request]
  BY <1>2, <1>3 DEF TypeOK
<1> QED BY <1>1, <1>2, <1>4 DEF Others, Same, Request

LEMMA StartMakes ==
  ASSUME TypeOK, NEW r \in Requests, NEW op \in {"signup", "signin"}, NEW b \in Browsers,
         NEW u \in Users, NEW pwd \in Passwords, NEW at \in Places,
         Start(r, op, b, u, pwd, NoRow, at)
  PROVE  /\ Others(r)
         /\ req'[r] = [op |-> op, browser |-> b, user |-> u, pwd |-> pwd,
                       token |-> NoRow, at |-> at, told |-> "nothing"]
<1>1. /\ req'[r] = [op |-> op, browser |-> b, user |-> u, pwd |-> pwd,
                    token |-> NoRow, at |-> at, told |-> "nothing"]
      /\ \A s \in Requests \ {r} : req'[s] = req[s]
      /\ DOMAIN req' = Requests /\ req' = [s \in Requests |-> req'[s]]
  BY DEF Start, TypeOK
<1>2. req'[r] \in Request
  BY <1>1 DEF Request, Places
<1>3. req' \in [Requests -> Request]
  BY <1>1, <1>2 DEF TypeOK
<1> QED BY <1>1, <1>3 DEF Others

LEMMA SignupMakes ==
  ASSUME TypeOK, NEW r \in Requests, StartSignup(r)
  PROVE  req'[r].op = "signup"
<1>1. PICK b \in Browsers, u \in Users, pwd \in Passwords :
        Start(r, "signup", b, u, pwd, NoRow, "insert")
  BY DEF StartSignup
<1>2. req'[r] = [op |-> "signup", browser |-> b, user |-> u, pwd |-> pwd,
                 token |-> NoRow, at |-> "insert", told |-> "nothing"]
  BY <1>1, StartMakes DEF Places
<1> QED BY <1>2

LEMMA SigninMakes ==
  ASSUME TypeOK, NEW r \in Requests, StartSignin(r)
  PROVE  /\ req'[r].op = "signin" /\ req'[r].told = "nothing"
         /\ overlapped' = IF \E t \in Requests : SigningIn(t) /\ User(t) = req'[r].user
                            THEN overlapped \cup {req'[r].user} ELSE overlapped
<1>1. PICK b \in Browsers, u \in Users, pwd \in Passwords :
        /\ Start(r, "signin", b, u, pwd, NoRow, "verify")
        /\ overlapped' = IF \E t \in Requests : SigningIn(t) /\ User(t) = u
                           THEN overlapped \cup {u} ELSE overlapped
  BY DEF StartSignin
<1>2. req'[r] = [op |-> "signin", browser |-> b, user |-> u, pwd |-> pwd,
                 token |-> NoRow, at |-> "verify", told |-> "nothing"]
  BY <1>1, StartMakes DEF Places
<1>3. req'[r].op = "signin" /\ req'[r].told = "nothing" /\ req'[r].user = u
  BY <1>2
<1> QED BY <1>1, <1>3

LEMMA InfoMakes ==
  ASSUME TypeOK, NEW r \in Requests, StartInfo(r)
  PROVE  \E b \in Browsers :
           /\ storage[b] # NoRow
           /\ Others(r)
           /\ req'[r].op = "info" /\ req'[r].user = storage[b].user
           /\ req'[r].user \in Users
           /\ req'[r].pwd = NoRow /\ req'[r].token = storage[b].token
           /\ req'[r].token \in Nat
           /\ req'[r].at \in {"over", "lookup"}
           /\ req'[r].told \in {"refused", "nothing"}
           /\ req'[r].told = "refused" => req'[r].at = "over"
<1>1. PICK b \in Browsers :
        /\ storage[b] # NoRow
        /\ req' = [req EXCEPT ![r] =
             LET old == Expired(storage[b].token) IN
               [op |-> "info", browser |-> b, user |-> storage[b].user, pwd |-> NoRow,
                token |-> storage[b].token,
                at |-> IF old THEN "over" ELSE "lookup",
                told |-> IF old THEN "refused" ELSE "nothing"]]
  BY DEF StartInfo
<1>2. storage[b] \in [user : Users, token : Nat, by : Requests]
  BY <1>1 DEF TypeOK
<1>3. PICK old \in BOOLEAN :
        req'[r] = [op |-> "info", browser |-> b, user |-> storage[b].user, pwd |-> NoRow,
                   token |-> storage[b].token,
                   at |-> IF old THEN "over" ELSE "lookup",
                   told |-> IF old THEN "refused" ELSE "nothing"]
  <2>1. CASE Expired(storage[b].token)
    BY <1>1, <2>1 DEF TypeOK
  <2>2. CASE ~ Expired(storage[b].token)
    BY <1>1, <2>2 DEF TypeOK
  <2> QED BY <2>1, <2>2
<1>4. /\ \A s \in Requests \ {r} : req'[s] = req[s]
      /\ DOMAIN req' = Requests /\ req' = [s \in Requests |-> req'[s]]
  BY <1>1 DEF TypeOK
<1>5. req'[r] \in Request
  BY <1>2, <1>3 DEF Request
<1>6. req' \in [Requests -> Request]
  BY <1>4, <1>5 DEF TypeOK
<1> QED BY <1>1, <1>2, <1>3, <1>4, <1>6 DEF Others

LEMMA GenMakes ==
  ASSUME TypeOK, NEW r \in Requests, GenToken(r)
  PROVE  /\ Others(r) /\ Same(r)
         /\ req'[r].at = "update" /\ req'[r].told = req[r].told /\ req'[r].token \in Nat
<1>1. req[r] \in Request /\ clock \in Nat
  BY DEF TypeOK
<1>2. /\ req'[r] = [req[r] EXCEPT !.token = clock, !.at = "update"]
      /\ \A s \in Requests \ {r} : req'[s] = req[s]
      /\ DOMAIN req' = Requests /\ req' = [s \in Requests |-> req'[s]]
  BY DEF GenToken, TypeOK
<1>3. req'[r] \in Request
  BY <1>1, <1>2 DEF Request
<1>4. req' \in [Requests -> Request]
  BY <1>2, <1>3 DEF TypeOK
<1> QED BY <1>1, <1>2, <1>4 DEF Others, Same, Request

LEMMA TimeOutMakes ==
  ASSUME TypeOK, NEW r \in Requests, TimeOut(r)
  PROVE  /\ Others(r) /\ Same(r)
         /\ req'[r].at = req[r].at /\ req'[r].told = "error"
         /\ req'[r].token = req[r].token
<1>1. req[r] \in Request
  BY DEF TypeOK
<1>2. /\ req'[r] = [req[r] EXCEPT !.told = "error"]
      /\ \A s \in Requests \ {r} : req'[s] = req[s]
      /\ DOMAIN req' = Requests /\ req' = [s \in Requests |-> req'[s]]
  BY DEF TimeOut, TypeOK
<1>3. req'[r] \in Request
  BY <1>1, <1>2 DEF Request
<1>4. req' \in [Requests -> Request]
  BY <1>2, <1>3 DEF TypeOK
<1> QED BY <1>1, <1>2, <1>4 DEF Others, Same, Request

(***************************************************************************)
(* The steps: a request starts, or its handlers go on.                     *)
(***************************************************************************)
Starts(r)  == StartSignup(r) \/ StartSignin(r) \/ StartInfo(r)
Handles(r) == \/ InsertUser(r) \/ VerifyPassword(r) \/ GenToken(r) \/ UpdateToken(r)
              \/ AnswerSignin(r) \/ SigninAgain(r) \/ TimeOut(r) \/ Limited(r)
              \/ LookupToken(r) \/ ShowInfo(r)

LEMMA StartFits ==
  ASSUME TypeInv, NEW r \in Requests, Starts(r)
  PROVE  /\ Others(r) /\ Fits(r)' /\ req[r].at = "idle" /\ req'[r].at # "idle"
         /\ UNCHANGED <<userTbl, tokenTbl, clock, storage, last, faults>>
         /\ overlapped' \subseteq Users
         /\ req'[r].told \notin {"ok", "empty"}
         /\ req'[r].at \notin {"gentoken", "update", "entry", "userinfo"}
<1> USE DEF TypeInv
<1>1. CASE StartSignup(r)
  <2>1. PICK b \in Browsers, u \in Users, pwd \in Passwords :
          Start(r, "signup", b, u, pwd, NoRow, "insert")
    BY <1>1 DEF StartSignup
  <2>2. /\ Others(r)
        /\ req'[r] = [op |-> "signup", browser |-> b, user |-> u, pwd |-> pwd,
                      token |-> NoRow, at |-> "insert", told |-> "nothing"]
    BY <2>1, StartMakes DEF Places
  <2> QED BY <1>1, <2>2 DEF StartSignup, Fits, TypeOK
<1>2. CASE StartSignin(r)
  <2>1. PICK b \in Browsers, u \in Users, pwd \in Passwords :
          /\ Start(r, "signin", b, u, pwd, NoRow, "verify")
          /\ overlapped' = IF \E s \in Requests : SigningIn(s) /\ User(s) = u
                             THEN overlapped \cup {u} ELSE overlapped
    BY <1>2 DEF StartSignin
  <2>2. /\ Others(r)
        /\ req'[r] = [op |-> "signin", browser |-> b, user |-> u, pwd |-> pwd,
                      token |-> NoRow, at |-> "verify", told |-> "nothing"]
    BY <2>1, StartMakes DEF Places
  <2>3. overlapped' \subseteq Users
    BY <2>1 DEF TypeOK
  <2> QED BY <1>2, <2>2, <2>3 DEF StartSignin, Fits
<1>3. CASE StartInfo(r)
  BY <1>3, InfoMakes DEF StartInfo, Fits, TypeOK
<1> QED BY <1>1, <1>2, <1>3 DEF Starts

LEMMA HandlerFits ==
  ASSUME TypeInv, NEW r \in Requests, Handles(r)
  PROVE  /\ Others(r) /\ Same(r) /\ Fits(r)' /\ FaultsGrow
         /\ req[r].at \notin {"idle", "over"} /\ req'[r].at # "idle"
         /\ UNCHANGED <<clock, overlapped>>
<1> USE DEF TypeInv
<1>1. Fits(r) /\ req[r] \in Request
  BY DEF StepsFit, TypeOK
<1>2. CASE InsertUser(r)
  <2>1. PICK o \in DbOutcomes, told \in {"ok", "error"} : DbFault(o) /\ Answer(r, told)
    BY <1>2 DEF InsertUser
  <2> QED BY <1>1, <1>2, <2>1, DbFaultType, AnswerMakes DEF InsertUser, Fits, Same, Words
<1>3. CASE VerifyPassword(r)
  <2>1. FaultsGrow
    BY <1>3, FaultType, Kinds DEF VerifyPassword, FaultsGrow, TypeOK
  <2>2. Goto(r, "gentoken") \/ Answer(r, "error")
    BY <1>3 DEF VerifyPassword
  <2> QED BY <1>1, <1>3, <2>1, <2>2, GotoMakes, AnswerMakes
          DEF VerifyPassword, Fits, Same, Words, Places
<1>4. CASE GenToken(r)
  BY <1>1, <1>4, GenMakes DEF GenToken, Fits, Same, FaultsGrow, TypeOK
<1>5. CASE UpdateToken(r)
  <2>1. PICK o \in DbOutcomes : DbFault(o) /\ (Goto(r, "entry") \/ Answer(r, "error"))
    BY <1>5 DEF UpdateToken
  <2> QED BY <1>1, <1>5, <2>1, DbFaultType, GotoMakes, AnswerMakes
          DEF UpdateToken, Fits, Same, Words, Places
<1>6. CASE AnswerSignin(r)
  <2>1. FaultsGrow
    BY <1>6, FaultType, Kinds DEF AnswerSignin, FaultsGrow, TypeOK
  <2>2. Answer(r, "ok") \/ Answer(r, "error")
    BY <1>6 DEF AnswerSignin
  <2> QED BY <1>1, <1>6, <2>1, <2>2, AnswerMakes DEF AnswerSignin, Fits, Same, Words
<1>7. CASE SigninAgain(r)
  <2>1. FaultsGrow
    BY <1>7, FaultType, Kinds DEF SigninAgain, FaultsGrow
  <2> QED BY <1>1, <1>7, <2>1, GotoMakes DEF SigninAgain, Fits, Same, Places
<1>8. CASE TimeOut(r)
  <2>1. FaultsGrow
    BY <1>8, FaultType, Kinds DEF TimeOut, FaultsGrow
  <2> QED BY <1>1, <1>8, <2>1, TimeOutMakes DEF TimeOut, Fits, Same
<1>9. CASE Limited(r)
  <2>1. FaultsGrow
    BY <1>9, FaultType, Kinds DEF Limited, FaultsGrow
  <2> QED BY <1>1, <1>9, <2>1, AnswerMakes DEF Limited, Fits, Same, Words
<1>10. CASE LookupToken(r)
  <2>1. FaultsGrow
    BY <1>10, FaultType, Kinds
       DEF LookupToken, GetUserToken, TokenRow, FaultsGrow, TypeOK
  <2>2. Goto(r, "userinfo") \/ Answer(r, "refused")
    BY <1>10 DEF LookupToken
  <2> QED BY <1>1, <1>10, <2>1, <2>2, GotoMakes, AnswerMakes
          DEF LookupToken, Fits, Same, Words, Places
<1>11. CASE ShowInfo(r)
  <2>1. FaultsGrow
    BY <1>11, FaultType, Kinds DEF ShowInfo, UserInfo, InfoRow, FaultsGrow, TypeOK
  <2>2. \E told \in {"ok", "empty", "error"} : Answer(r, told)
    BY <1>11 DEF ShowInfo
  <2> QED BY <1>1, <1>11, <2>1, <2>2, AnswerMakes DEF ShowInfo, Fits, Same, Words
<1> QED BY <1>2, <1>3, <1>4, <1>5, <1>6, <1>7, <1>8, <1>9, <1>10, <1>11 DEF Handles

\* What a step is: the clock, a request that starts or goes on, or nothing.
LEMMA StepIs ==
  ASSUME [Next]_vars
  PROVE  \/ UNCHANGED vars \/ Tick
         \/ \E r \in Requests : Starts(r) \/ Handles(r)
BY DEF Next, Starts, Handles

\* A started request keeps what it asks for; one that is over does not change.
LEMMA RequestsStay ==
  ASSUME TypeInv, [Next]_vars, NEW s \in Requests, req[s].at # "idle"
  PROVE  /\ Same(s) /\ req'[s].at # "idle"
         /\ req[s].at = "over" => req'[s] = req[s]
<1>1. CASE UNCHANGED req
  BY <1>1 DEF Same
<1>2. ASSUME NEW r \in Requests, Starts(r)
      PROVE  req'[s] = req[s]
  BY <1>2, StartFits DEF Others
<1>3. ASSUME NEW r \in Requests, Handles(r)
      PROVE  /\ Same(s) /\ req'[s].at # "idle"
             /\ req[s].at = "over" => req'[s] = req[s]
  BY <1>3, HandlerFits DEF Others, Same
<1> QED BY <1>1, <1>2, <1>3, StepIs DEF Same, vars, Tick

(***************************************************************************)
(* Types.                                                                  *)
(***************************************************************************)
LEMMA TablesTyped ==
  ASSUME TypeInv, NEW r \in Requests, Handles(r)
  PROVE  /\ userTbl' \in [Users -> Passwords \cup {NoRow}]
         /\ tokenTbl' \in [Users -> Nat \cup {NoRow}]
         /\ storage' \in [Browsers -> [user : Users, token : Nat, by : Requests] \cup {NoRow}]
         /\ last' \in [Users -> Requests \cup {NoRow}]
<1> USE DEF TypeInv
<1>1. Fits(r) /\ req[r] \in Request
  BY DEF StepsFit, TypeOK
<1>2. CASE InsertUser(r)
  BY <1>1, <1>2 DEF InsertUser, UserSignup, User, Fits, TypeOK
<1>3. CASE UpdateToken(r)
  BY <1>1, <1>3 DEF UpdateToken, ReplaceToken, User, Fits, TypeOK
<1>4. CASE AnswerSignin(r)
  <2>1. [user |-> User(r), token |-> req[r].token, by |-> r]
          \in [user : Users, token : Nat, by : Requests]
    BY <1>1, <1>4 DEF AnswerSignin, User, Fits
  <2>2. UNCHANGED <<userTbl, tokenTbl>>
    BY <1>4 DEF AnswerSignin
  <2>3. storage' \in [Browsers -> [user : Users, token : Nat, by : Requests] \cup {NoRow}]
    BY <1>4, <2>1 DEF AnswerSignin, TypeOK
  <2>4. last' \in [Users -> Requests \cup {NoRow}]
    BY <1>4 DEF AnswerSignin, TypeOK
  <2> QED BY <2>2, <2>3, <2>4 DEF TypeOK
<1>5. CASE VerifyPassword(r) \/ GenToken(r) \/ SigninAgain(r) \/ TimeOut(r)
           \/ Limited(r) \/ LookupToken(r) \/ ShowInfo(r)
  <2>1. UNCHANGED <<userTbl, tokenTbl, storage, last>>
    BY <1>5 DEF VerifyPassword, GenToken, SigninAgain, TimeOut, Limited, LookupToken,
       ShowInfo
  <2> QED BY <2>1 DEF TypeOK
<1> QED BY <1>2, <1>3, <1>4, <1>5 DEF Handles

LEMMA TypesStay ==
  ASSUME TypeInv, [Next]_vars
  PROVE  TypeInv'
<1> USE DEF TypeInv
<1>1. CASE UNCHANGED vars
  BY <1>1 DEF vars, TypeOK, StepsFit, Fits
<1>2. CASE Tick
  BY <1>2 DEF Tick, TypeOK, StepsFit, Fits
<1>3. ASSUME NEW r \in Requests, Starts(r) PROVE TypeInv'
  <2>1. \A s \in Requests : Fits(s)'
    BY <1>3, StartFits DEF Others, StepsFit, Fits
  <2> QED BY <1>3, <2>1, StartFits DEF TypeOK, StepsFit, Others, Fits
<1>4. ASSUME NEW r \in Requests, Handles(r) PROVE TypeInv'
  <2>1. \A s \in Requests : Fits(s)'
    BY <1>4, HandlerFits DEF Others, StepsFit, Fits
  <2> QED BY <1>4, <2>1, HandlerFits, TablesTyped
          DEF TypeOK, StepsFit, Others, FaultsGrow, Fits
<1> QED BY <1>1, <1>2, <1>3, <1>4, StepIs

LEMMA TypesHold == Spec => []TypeInv
<1>1. Init => TypeInv
  BY DEF Init, TypeInv, TypeOK, StepsFit, Fits, NotYet, Request
<1>2. TypeInv /\ [Next]_vars => TypeInv'
  BY TypesStay
<1> QED BY <1>1, <1>2, PTL DEF Spec

\* The types of accounts and tokens; a token is made before it is written.
THEOREM AccountTypes == Spec => []TypeOK
<1>1. TypeInv => TypeOK
  BY DEF TypeInv
<1> QED BY <1>1, TypesHold, PTL

(***************************************************************************)
(* Sign-ups.                                                               *)
(***************************************************************************)

\* A row of tbl_user is written once.
LEMMA UserRowsStay ==
  ASSUME TypeInv, [Next]_vars, NEW u \in Users, userTbl[u] # NoRow
  PROVE  userTbl'[u] = userTbl[u]
<1>1. ASSUME NEW r \in Requests, InsertUser(r) PROVE userTbl'[u] = userTbl[u]
  BY <1>1 DEF InsertUser, UserSignup, TypeInv, TypeOK
<1>2. \/ userTbl' = userTbl
      \/ \E r \in Requests : InsertUser(r)
  BY DEF Next, vars, Tick, StartSignup, StartSignin, VerifyPassword, GenToken, UpdateToken,
     AnswerSignin, SigninAgain, TimeOut, Limited, StartInfo, LookupToken, ShowInfo
<1> QED BY <1>1, <1>2

SignedUp(r) == req[r].op = "signup" /\ req[r].told = "ok"

\* Who is told ok now found no row, and wrote it.
LEMMA SignupWrites ==
  ASSUME TypeInv, [Next]_vars, NEW r \in Requests, SignedUp(r)', ~ SignedUp(r)
  PROVE  /\ userTbl[User(r)] = NoRow /\ userTbl'[User(r)] = req'[r].pwd
         /\ req'[r].user = req[r].user /\ req[r].user \in Users
         /\ \A s \in Requests \ {r} : req'[s] = req[s]
<1> USE DEF TypeInv
<1>1. ~ UNCHANGED req
  BY DEF SignedUp
<1>2. PICK q \in Requests : Starts(q) \/ Handles(q)
  BY <1>1, StepIs DEF vars, Tick
<1>3. q = r
  BY <1>2, StartFits, HandlerFits DEF SignedUp, Others
<1>4. Handles(r) /\ Same(r) /\ Others(r) /\ Fits(r)
  BY <1>2, <1>3, StartFits, HandlerFits DEF SignedUp, StepsFit
<1>5. req[r].op = "signup" /\ req[r].told # "ok"
  BY <1>4 DEF SignedUp, Same
<1>6. InsertUser(r) \/ TimeOut(r) \/ Limited(r)
  BY <1>4, <1>5 DEF Handles, Fits, VerifyPassword, GenToken, UpdateToken, AnswerSignin,
     SigninAgain, LookupToken, ShowInfo
<1>7. InsertUser(r)
  <2>1. ~ TimeOut(r)
    BY TimeOutMakes DEF SignedUp
  <2>2. ~ Limited(r)
    BY <1>5, AnswerMakes DEF Limited, Words, SignedUp
  <2> QED BY <1>6, <2>1, <2>2
<1>8. PICK o \in DbOutcomes :
        /\ UserSignup(User(r), req[r].pwd, o)
        /\ Answer(r, IF o = "done" /\ userTbl[User(r)] = NoRow THEN "ok" ELSE "error")
  BY <1>7 DEF InsertUser
<1>9. o = "done" /\ userTbl[User(r)] = NoRow
  BY <1>5, <1>8, AnswerMakes DEF Words, SignedUp
<1>10. req[r].user \in Users
  BY <1>7 DEF InsertUser, TypeOK
<1> QED BY <1>4, <1>8, <1>9, <1>10 DEF UserSignup, RowWritten, User, Same, Others, TypeOK

\* Of the sign-ups of one name one at most is told ok, and its password is the
\* name's from then on.
THEOREM SignupSafe == Spec => []SignupIsTrue
<1>1. Init => SignupIsTrue
  BY DEF Init, SignupIsTrue, NotYet
<1>2. TypeInv /\ SignupIsTrue /\ [Next]_vars => SignupIsTrue'
  <2> SUFFICES ASSUME TypeInv, SignupIsTrue, [Next]_vars, NEW r \in Requests, SignedUp(r)'
               PROVE  /\ userTbl'[req'[r].user] = req'[r].pwd
                      /\ \A s \in Requests \ {r} :
                           ~ (SignedUp(s)' /\ req'[s].user = req'[r].user)
    BY DEF SignupIsTrue, SignedUp, User
  <2> USE AccountAssumption
  \* One that was told ok before stays so, and its row was there.
  <2>1. ASSUME NEW s \in Requests, SignedUp(s)
        PROVE  /\ req'[s] = req[s] /\ userTbl[req[s].user] = req[s].pwd
               /\ userTbl[req[s].user] # NoRow /\ req[s].user \in Users
    <3>1. Fits(s) /\ req[s].at = "over" /\ req[s].pwd \in Passwords /\ req[s].user \in Users
      BY <2>1 DEF SignedUp, TypeInv, StepsFit, Fits
    <3>2. userTbl[req[s].user] = req[s].pwd
      BY <2>1 DEF SignupIsTrue, SignedUp, User
    <3> QED BY <3>1, <3>2, RequestsStay
  <2>2. CASE SignedUp(r)
    <3>1. userTbl'[req'[r].user] = req'[r].pwd
      BY <2>1, <2>2, UserRowsStay
    <3>2. ASSUME NEW s \in Requests \ {r}, SignedUp(s)', req'[s].user = req'[r].user
          PROVE  FALSE
      <4>1. CASE SignedUp(s)
        BY <2>1, <2>2, <3>2, <4>1 DEF SignupIsTrue, SignedUp, User
      <4>2. CASE ~ SignedUp(s)
        <5>1. userTbl[req[s].user] = NoRow /\ req'[s].user = req[s].user
          BY <3>2, <4>2, SignupWrites DEF User
        <5> QED BY <2>1, <2>2, <3>2, <5>1
      <4> QED BY <4>1, <4>2
    <3> QED BY <3>1, <3>2
  <2>3. CASE ~ SignedUp(r)
    <3>1. /\ userTbl[req[r].user] = NoRow /\ userTbl'[req[r].user] = req'[r].pwd
          /\ req'[r].user = req[r].user
          /\ \A s \in Requests \ {r} : req'[s] = req[s]
      BY <2>3, SignupWrites DEF User
    <3>2. ASSUME NEW s \in Requests \ {r}, SignedUp(s)', req'[s].user = req'[r].user
          PROVE  FALSE
      BY <2>1, <3>1, <3>2 DEF SignedUp
    <3> QED BY <3>1, <3>2
  <2> QED BY <2>2, <2>3
<1> QED BY <1>1, <1>2, TypesHold, PTL DEF Spec

(***************************************************************************)
(* Tokens.                                                                 *)
(***************************************************************************)
Backed(r) == /\ req[r].op = "signin" /\ req[r].user \in Users
             /\ userTbl[req[r].user] # NoRow /\ req[r].pwd = userTbl[req[r].user]

\* Past the check of the password a sign-in has it; so has the one that made
\* the token of a row or of a browser.
TokensInv ==
    /\ \A r \in Requests : req[r].at \in {"gentoken", "update", "entry"} => Backed(r)
    /\ \A u \in Users : tokenTbl[u] # NoRow =>
         \E r \in Requests : req[r].user = u /\ Backed(r)
    /\ \A b \in Browsers : storage[b] # NoRow =>
         /\ storage[b].by \in Requests
         /\ Backed(storage[b].by) /\ req[storage[b].by].user = storage[b].user

LEMMA BackedStays ==
  ASSUME TypeInv, [Next]_vars, NEW r \in Requests, Backed(r)
  PROVE  Backed(r)' /\ req'[r].user = req[r].user
<1>1. req[r].at # "idle"
  BY DEF Backed, TypeInv, StepsFit, Fits
<1>2. Same(r)
  BY <1>1, RequestsStay
<1> QED BY <1>2, UserRowsStay DEF Backed, Same

\* The password is checked before any of the later steps.
LEMMA CheckedFirst ==
  ASSUME TypeInv, TokensInv, [Next]_vars, NEW r \in Requests,
         req'[r].at \in {"gentoken", "update", "entry"}
  PROVE  Backed(r)'
<1> USE DEF TypeInv
<1>1. CASE req[r].at \in {"gentoken", "update", "entry"}
  BY <1>1, BackedStays DEF TokensInv
<1>2. CASE req[r].at \notin {"gentoken", "update", "entry"}
  <2>1. PICK q \in Requests : Starts(q) \/ Handles(q)
    BY <1>2, StepIs DEF vars, Tick
  <2>2. q = r
    BY <1>2, <2>1, StartFits, HandlerFits DEF Others
  <2>3. Handles(r)
    BY <2>1, <2>2, StartFits
  <2>4. VerifyPassword(r)
    <3>1. ~ InsertUser(r)
      BY AnswerMakes DEF InsertUser, Words
    <3>2. ~ TimeOut(r)
      BY <1>2, TimeOutMakes
    <3>3. ~ Limited(r)
      BY AnswerMakes DEF Limited, Words
    <3>4. ~ LookupToken(r)
      BY GotoMakes, AnswerMakes DEF LookupToken, Words, Places
    <3>5. ~ ShowInfo(r)
      BY AnswerMakes DEF ShowInfo, Words
    <3> QED BY <1>2, <2>3, <3>1, <3>2, <3>3, <3>4, <3>5
            DEF Handles, GenToken, UpdateToken, AnswerSignin, SigninAgain
  <2>5. UserSignin(User(r), req[r].pwd)
    BY <2>4, AnswerMakes DEF VerifyPassword, Words
  <2>6. Fits(r) /\ req[r].at = "verify"
    BY <2>4 DEF VerifyPassword, StepsFit
  <2>7. Backed(r)
    BY <2>5, <2>6, AccountAssumption DEF UserSignin, User, Fits, Backed
  <2> QED BY <2>7, BackedStays
<1> QED BY <1>1, <1>2

LEMMA TokensStay ==
  ASSUME TypeInv, TokensInv, [Next]_vars
  PROVE  TokensInv'
<1> USE DEF TypeInv
<1>1. \A r \in Requests : req'[r].at \in {"gentoken", "update", "entry"} => Backed(r)'
  BY CheckedFirst
<1>2. ASSUME NEW u \in Users, tokenTbl'[u] # NoRow
      PROVE  \E r \in Requests : req'[r].user = u /\ Backed(r)'
  <2>1. CASE tokenTbl'[u] = tokenTbl[u]
    BY <1>2, <2>1, BackedStays DEF TokensInv
  <2>2. CASE tokenTbl'[u] # tokenTbl[u]
    <3>1. PICK r \in Requests : UpdateToken(r)
      BY <2>2 DEF Next, vars, Tick, StartSignup, StartSignin, InsertUser, VerifyPassword,
         GenToken, AnswerSignin, SigninAgain, TimeOut, Limited, StartInfo, LookupToken,
         ShowInfo
    <3>2. User(r) = u /\ req[r].at = "update"
      BY <2>2, <3>1 DEF UpdateToken, ReplaceToken, TypeOK
    <3> QED BY <3>2, BackedStays DEF TokensInv, User
  <2> QED BY <2>1, <2>2
<1>3. ASSUME NEW b \in Browsers, storage'[b] # NoRow
      PROVE  /\ storage'[b].by \in Requests
             /\ Backed(storage[b].by)' /\ req'[storage'[b].by].user = storage'[b].user
  <2>1. CASE storage'[b] = storage[b]
    <3>1. storage[b].by \in Requests /\ Backed(storage[b].by)
      BY <1>3, <2>1 DEF TokensInv
    <3>2. PICK s \in Requests : s = storage[b].by
      BY <3>1
    <3>3. Backed(s)' /\ req'[s].user = req[s].user
      BY <3>1, <3>2, BackedStays
    <3>4. s = storage'[b].by /\ req[s].user = storage[b].user
      BY <1>3, <2>1, <3>2 DEF TokensInv
    <3> QED BY <2>1, <3>3, <3>4 DEF Backed
  <2>2. CASE storage'[b] # storage[b]
    <3>1. PICK r \in Requests : AnswerSignin(r)
      BY <2>2 DEF Next, vars, Tick, StartSignup, StartSignin, InsertUser, VerifyPassword,
         GenToken, UpdateToken, SigninAgain, TimeOut, Limited, StartInfo, LookupToken,
         ShowInfo
    <3>2. /\ req[r].at = "entry"
          /\ storage'[b] = [user |-> User(r), token |-> req[r].token, by |-> r]
      BY <2>2, <3>1 DEF AnswerSignin, TypeOK
    <3>3. Backed(r)' /\ req'[r].user = req[r].user
      BY <3>2, BackedStays DEF TokensInv
    <3> QED BY <3>2, <3>3 DEF User, Backed
  <2> QED BY <2>1, <2>2
<1> QED BY <1>1, <1>2, <1>3 DEF TokensInv, Backed

LEMMA TokensHold == Spec => []TokensInv
<1>1. Init => TokensInv
  BY DEF Init, TokensInv, NotYet
<1>2. TypeInv /\ TokensInv /\ [Next]_vars => TokensInv'
  BY TokensStay
<1> QED BY <1>1, <1>2, TypesHold, PTL DEF Spec

\* A token, in the table or in a browser, leads back to a sign-in with the
\* password of its user.
THEOREM TokensSafe == Spec => []TokenNeedsPassword
<1>1. TypeInv /\ TokensInv => TokenNeedsPassword
  BY DEF TokensInv, TokenNeedsPassword, Backed, User
<1> QED BY <1>1, TypesHold, TokensHold, PTL

(***************************************************************************)
(* The page behind the interceptor.                                        *)
(***************************************************************************)
InfoInv == /\ \A r \in Requests : req[r].at = "userinfo" => userTbl[req[r].user] # NoRow
           /\ InfoHasRow

\* Who passes the interceptor has a token in the table, so somebody had the
\* password, so there is a row.
LEMMA PassHasRow ==
  ASSUME TypeInv, TokensInv, NEW r \in Requests, LookupToken(r), req'[r].at = "userinfo"
  PROVE  userTbl[req[r].user] # NoRow
<1> USE AccountAssumption DEF TypeInv
<1>1. Fits(r) /\ req[r].at = "lookup"
  BY DEF LookupToken, StepsFit
<1>2. req[r].token \in Nat /\ req[r].user \in Users
  BY <1>1 DEF Fits
<1>3. PICK token \in {tokenTbl[User(r)], NoRow} : token = req[r].token
  BY AnswerMakes DEF LookupToken, Words
<1>4. tokenTbl[req[r].user] # NoRow
  BY <1>2, <1>3 DEF User
<1> QED BY <1>2, <1>4 DEF TokensInv, Backed

LEMMA InfoStays ==
  ASSUME TypeInv, TokensInv, InfoInv, [Next]_vars
  PROVE  InfoInv'
<1> USE DEF TypeInv
<1>1. ASSUME NEW r \in Requests, req'[r].at = "userinfo"
      PROVE  userTbl'[req'[r].user] # NoRow
  <2>1. CASE req[r].at = "userinfo"
    <3>1. req[r].user \in Users /\ userTbl[req[r].user] # NoRow
      BY <2>1 DEF InfoInv, StepsFit, Fits
    <3> QED BY <2>1, <3>1, UserRowsStay, RequestsStay DEF Same
  <2>2. CASE req[r].at # "userinfo"
    <3>1. PICK q \in Requests : Starts(q) \/ Handles(q)
      BY <1>1, <2>2, StepIs DEF vars, Tick
    <3>2. q = r
      BY <1>1, <2>2, <3>1, StartFits, HandlerFits DEF Others
    <3>3. Handles(r)
      BY <1>1, <3>1, <3>2, StartFits
    <3>4. LookupToken(r)
      <4>1. ~ InsertUser(r)
        BY <1>1, AnswerMakes DEF InsertUser, Words
      <4>2. ~ VerifyPassword(r)
        BY <1>1, GotoMakes, AnswerMakes DEF VerifyPassword, Words, Places
      <4>3. ~ UpdateToken(r)
        BY <1>1, GotoMakes, AnswerMakes DEF UpdateToken, Words, Places
      <4>4. ~ AnswerSignin(r)
        BY <1>1, AnswerMakes DEF AnswerSignin, Words
      <4>5. ~ SigninAgain(r)
        BY <1>1, GotoMakes DEF SigninAgain, Places
      <4>6. ~ Limited(r)
        BY <1>1, AnswerMakes DEF Limited, Words
      <4>7. ~ GenToken(r) /\ ~ TimeOut(r)
        BY <1>1, <2>2, GenMakes, TimeOutMakes
      <4> QED BY <2>2, <3>3, <4>1, <4>2, <4>3, <4>4, <4>5, <4>6, <4>7 DEF Handles, ShowInfo
    <3>5. userTbl[req[r].user] # NoRow
      BY <1>1, <3>4, PassHasRow
    <3>6. UNCHANGED userTbl /\ Same(r)
      BY <3>3, <3>4, HandlerFits DEF LookupToken
    <3> QED BY <3>5, <3>6 DEF Same
  <2> QED BY <2>1, <2>2
<1>2. ASSUME NEW r \in Requests, req'[r].told = "empty", Never({"rpc", "sql"})'
      PROVE  FALSE
  <2>1. FaultsGrow
    <3>1. CASE UNCHANGED faults
      BY <3>1 DEF FaultsGrow, TypeOK
    <3>2. ASSUME NEW q \in Requests, Handles(q) PROVE FaultsGrow
      BY <3>2, HandlerFits
    <3> QED BY <3>1, <3>2, StepIs, StartFits DEF vars, Tick
  <2>2. Never({"rpc", "sql"})
    BY <1>2, <2>1, Kinds DEF Never, FaultsGrow
  <2>3. req[r].told # "empty"
    BY <2>2 DEF InfoInv, InfoHasRow
  <2>4. PICK q \in Requests : Starts(q) \/ Handles(q)
    BY <1>2, <2>3, StepIs DEF vars, Tick
  <2>5. q = r /\ Handles(r)
    BY <1>2, <2>3, <2>4, StartFits, HandlerFits DEF Others
  <2>6. ShowInfo(r)
    <3>1. ~ InsertUser(r)
      BY <1>2, <2>3, AnswerMakes DEF InsertUser, Words
    <3>2. ~ VerifyPassword(r)
      BY <1>2, <2>3, GotoMakes, AnswerMakes DEF VerifyPassword, Words, Places
    <3>3. ~ UpdateToken(r)
      BY <1>2, <2>3, GotoMakes, AnswerMakes DEF UpdateToken, Words, Places
    <3>4. ~ AnswerSignin(r)
      BY <1>2, <2>3, AnswerMakes DEF AnswerSignin, Words
    <3>5. ~ SigninAgain(r)
      BY <1>2, <2>3, GotoMakes DEF SigninAgain, Places
    <3>6. ~ Limited(r)
      BY <1>2, <2>3, AnswerMakes DEF Limited, Words
    <3>7. ~ LookupToken(r)
      BY <1>2, <2>3, GotoMakes, AnswerMakes DEF LookupToken, Words, Places
    <3>8. ~ GenToken(r) /\ ~ TimeOut(r)
      BY <1>2, <2>3, GenMakes, TimeOutMakes
    <3> QED BY <2>5, <3>1, <3>2, <3>3, <3>4, <3>5, <3>6, <3>7, <3>8 DEF Handles
  <2>7. userTbl[User(r)] # NoRow
    BY <2>6 DEF ShowInfo, InfoInv, User
  <2>8. UserInfo(User(r), FALSE)
    BY <1>2, <2>3, <2>6, AnswerMakes DEF ShowInfo, Words
  <2>9. Fault("rpc") \/ Fault("sql")
    BY <2>7, <2>8 DEF UserInfo, InfoRow
  <2> QED BY <1>2, <2>9, FaultType, Kinds DEF Never
<1> QED BY <1>1, <1>2 DEF InfoInv, InfoHasRow

\* Who is let in has a row in tbl_user: the page's fields are empty only
\* when dbproxy failed.
THEOREM InfoSafe == Spec => []InfoHasRow
<1>1. Init => InfoInv
  BY DEF Init, InfoInv, InfoHasRow, NotYet
<1>2. TypeInv /\ TokensInv /\ InfoInv /\ [Next]_vars => InfoInv'
  BY InfoStays
<1>3. InfoInv => InfoHasRow
  BY DEF InfoInv
<1> QED BY <1>1, <1>2, <1>3, TypesHold, TokensHold, PTL DEF Spec

(***************************************************************************)
(* The last sign-in.                                                       *)
(***************************************************************************)
Orderly == Never({"rpc", "retry", "timeout", "entry"})

\* Sign-ins of a user that run at once are noted; in an orderly behaviour no
\* page has given up, and who is about to be answered has its token in the
\* table.
SigninsInv ==
    /\ \A r, s \in Requests :
         r # s /\ SigningIn(r) /\ SigningIn(s) /\ User(r) = User(s) => User(r) \in overlapped
    /\ Orderly => \A r \in Requests : SigningIn(r) => req[r].told = "nothing"
    /\ Orderly => \A r \in Requests :
         req[r].at = "entry" /\ User(r) \notin overlapped => tokenTbl[User(r)] = req[r].token
    /\ \A u \in Users : last[u] # NoRow =>
         last[u] \in Requests /\ req[last[u]].at = "over" /\ User(last[u]) = u
    /\ LastSigninStands

LEMMA OrderStays ==
  ASSUME TypeInv, [Next]_vars, Orderly'
  PROVE  Orderly
<1>1. FaultsGrow
  <2>1. CASE UNCHANGED faults
    BY <2>1 DEF FaultsGrow, TypeInv, TypeOK
  <2>2. ASSUME NEW q \in Requests, Handles(q) PROVE FaultsGrow
    BY <2>2, HandlerFits
  <2> QED BY <2>1, <2>2, StepIs, StartFits DEF vars, Tick
<1> QED BY <1>1, Kinds DEF Orderly, Never, FaultsGrow

\* Sign-ins of a user that run at once are noted when the second one starts.
LEMMA OverlapsNoted ==
  ASSUME TypeInv, SigninsInv, [Next]_vars,
         NEW r \in Requests, NEW s \in Requests, r # s,
         SigningIn(r)', SigningIn(s)', req'[r].user = req'[s].user
  PROVE  req'[r].user \in overlapped'
<1> USE DEF TypeInv
\* A request that is signing in was so before, or has just started.
<1>1. ASSUME NEW q \in Requests, SigningIn(q)', req[q].at # "idle"
      PROVE  SigningIn(q) /\ req'[q].user = req[q].user
  BY <1>1, RequestsStay DEF SigningIn, Same
<1>2. overlapped \subseteq overlapped'
  BY StepIs, HandlerFits DEF vars, Tick, Starts, StartSignup, StartSignin, StartInfo
<1>3. CASE req[r].at # "idle" /\ req[s].at # "idle"
  BY <1>1, <1>2, <1>3 DEF SigninsInv, User
<1>4. ASSUME NEW q \in Requests, NEW o \in Requests, q # o, SigningIn(q)', SigningIn(o)',
             req'[q].user = req'[o].user, req[q].at = "idle"
      PROVE  req'[q].user \in overlapped'
  <2>1. req'[q] # req[q]
    BY <1>4 DEF StepsFit, Fits, SigningIn
  <2>2. Starts(q) /\ Others(q)
    BY <2>1, <1>4, StepIs, StartFits, HandlerFits DEF vars, Tick, Others
  <2>3. SigningIn(o) /\ req'[o] = req[o]
    BY <1>4, <2>2 DEF Others, SigningIn
  <2>4. StartSignin(q)
    <3>1. ~ StartInfo(q)
      BY <1>4, InfoMakes DEF SigningIn
    <3>2. ~ StartSignup(q)
      BY <1>4, SignupMakes DEF SigningIn
    <3> QED BY <2>2, <3>1, <3>2 DEF Starts
  <2> QED BY <1>4, <2>3, <2>4, SigninMakes DEF User
<1> QED BY <1>3, <1>4

\* The steps that touch neither the tokens, nor the last answers, nor a
\* sign-in that is about to be answered.
Quiet(r) == Starts(r) \/ InsertUser(r) \/ VerifyPassword(r) \/ GenToken(r) \/ Limited(r)
            \/ LookupToken(r) \/ ShowInfo(r)

LEMMA QuietKeeps ==
  ASSUME TypeInv, NEW r \in Requests, Quiet(r)
  PROVE  /\ UNCHANGED <<tokenTbl, last>> /\ Others(r) /\ overlapped \subseteq overlapped'
         /\ req[r].at \notin {"entry", "over"} /\ req'[r].at # "entry"
<1> USE DEF TypeInv
<1>1. CASE Starts(r)
  BY <1>1, StartFits DEF Starts, StartSignup, StartSignin, StartInfo
<1>2. CASE ~ Starts(r)
  <2>1. Handles(r)
    BY <1>2 DEF Quiet, Handles
  <2>2. UNCHANGED <<tokenTbl, last>>
    BY <1>2 DEF Quiet, InsertUser, VerifyPassword, GenToken, Limited, LookupToken, ShowInfo
  <2>3. req[r].at # "entry" /\ req'[r].at # "entry"
    <3>1. CASE InsertUser(r)
      BY <3>1, AnswerMakes DEF InsertUser, Words
    <3>2. CASE VerifyPassword(r)
      BY <3>2, GotoMakes, AnswerMakes DEF VerifyPassword, Words, Places
    <3>3. CASE GenToken(r)
      BY <3>3, GenMakes DEF GenToken
    <3>4. CASE Limited(r)
      BY <3>4, AnswerMakes DEF Limited, Words
    <3>5. CASE LookupToken(r)
      BY <3>5, GotoMakes, AnswerMakes DEF LookupToken, Words, Places
    <3>6. CASE ShowInfo(r)
      BY <3>6, AnswerMakes DEF ShowInfo, Words
    <3> QED BY <1>2, <3>1, <3>2, <3>3, <3>4, <3>5, <3>6 DEF Quiet
  <2> QED BY <2>1, <2>2, <2>3, HandlerFits
<1> QED BY <1>1, <1>2

\* What an orderly step is.
LEMMA OrderlyStep ==
  ASSUME TypeInv, [Next]_vars, Orderly'
  PROVE  \/ UNCHANGED <<tokenTbl, last, req, overlapped>>
         \/ \E r \in Requests : Quiet(r) \/ UpdateToken(r) \/ AnswerSignin(r)
<1>1. ~ \E r \in Requests : SigninAgain(r) \/ TimeOut(r)
  BY FaultType, Kinds DEF SigninAgain, TimeOut, TypeInv, Orderly, Never
<1> QED BY <1>1, StepIs DEF vars, Tick, Handles, Quiet

LEMMA NobodyGaveUp ==
  ASSUME TypeInv, SigninsInv, [Next]_vars, Orderly', NEW s \in Requests, SigningIn(s)'
  PROVE  req'[s].told = "nothing"
<1> USE DEF TypeInv
<1>1. Orderly
  BY OrderStays
<1>2. CASE req[s].at = "idle"
  <2>1. req'[s] # req[s]
    BY <1>2 DEF StepsFit, Fits, SigningIn
  <2>2. Starts(s)
    BY <1>2, <2>1, StepIs, StartFits, HandlerFits DEF vars, Tick, Others
  <2>3. StartSignin(s)
    <3>1. ~ StartInfo(s)
      BY InfoMakes DEF SigningIn
    <3>2. ~ StartSignup(s)
      BY SignupMakes DEF SigningIn
    <3> QED BY <2>2, <3>1, <3>2 DEF Starts
  <2> QED BY <2>3, SigninMakes
<1>3. CASE req[s].at # "idle"
  <2>1. SigningIn(s)
    BY <1>3, RequestsStay DEF SigningIn, Same
  <2>2. req[s].told = "nothing"
    BY <1>1, <2>1 DEF SigninsInv
  <2>3. ASSUME NEW r \in Requests, Handles(r), r = s PROVE req'[s].told = "nothing"
    <3>1. Fits(s) /\ req'[s].at # "over" /\ ~ TimeOut(s) /\ ~ SigninAgain(s)
      BY FaultType, Kinds DEF SigninAgain, TimeOut, Orderly, Never, StepsFit, SigningIn
    <3>2. ~ (InsertUser(s) \/ AnswerSignin(s) \/ Limited(s) \/ ShowInfo(s))
      BY <3>1, AnswerMakes DEF InsertUser, AnswerSignin, Limited, ShowInfo, Words
    <3>3. CASE VerifyPassword(s) \/ UpdateToken(s) \/ LookupToken(s)
      BY <2>2, <3>1, <3>3, GotoMakes, AnswerMakes
         DEF VerifyPassword, UpdateToken, LookupToken, Words, Places
    <3>4. CASE GenToken(s)
      BY <2>2, <3>4, GenMakes
    <3> QED BY <2>3, <3>1, <3>2, <3>3, <3>4 DEF Handles
  <2>4. CASE req'[s] = req[s]
    BY <2>2, <2>4
  <2>5. \/ req'[s] = req[s]
        \/ Handles(s)
    BY <1>3, StepIs, StartFits, HandlerFits DEF vars, Tick, Others
  <2> QED BY <2>3, <2>4, <2>5
<1> QED BY <1>2, <1>3

\* The row of a user: what an orderly sign-in writes before it is answered.
LEMMA UpdateWrites ==
  ASSUME TypeInv, SigninsInv, [Next]_vars, Orderly', NEW r \in Requests, UpdateToken(r)
  PROVE  /\ Others(r) /\ Same(r) /\ req'[r].token = req[r].token
         /\ UNCHANGED <<last, overlapped>> /\ req[r].at = "update" /\ req[r].user \in Users
         /\ \/ tokenTbl' = tokenTbl /\ req'[r].at = "over"
            \/ /\ tokenTbl' = [tokenTbl EXCEPT ![User(r)] = req[r].token]
               /\ req'[r].at = "entry"
<1> USE DEF TypeInv
<1>1. Orderly /\ Fits(r) /\ req[r].at = "update"
  BY OrderStays DEF UpdateToken, StepsFit
<1>2. req[r].told = "nothing" /\ req[r].user \in Users
  BY <1>1 DEF SigninsInv, SigningIn, Fits
<1>3. PICK o \in DbOutcomes :
        /\ DbFault(o)
        /\ ReplaceToken(User(r), req[r].token, o)
        /\ IF o = "done" /\ req[r].told = "nothing" THEN Goto(r, "entry")
           ELSE Answer(r, "error")
  BY DEF UpdateToken
<1>4. o \in {"done", "sqlfails"}
  BY <1>3, DbFaultType, Kinds DEF Orderly, Never, DbOutcomes
<1>5. CASE o = "done"
  BY <1>1, <1>2, <1>3, <1>5, GotoMakes DEF ReplaceToken, RowWritten, UpdateToken, Places
<1>6. CASE o = "sqlfails"
  BY <1>1, <1>2, <1>3, <1>6, AnswerMakes DEF ReplaceToken, RowWritten, UpdateToken, Words
<1> QED BY <1>4, <1>5, <1>6

\* An orderly answer brings the token to the browser.
LEMMA AnswerBrings ==
  ASSUME TypeInv, [Next]_vars, Orderly', NEW r \in Requests, AnswerSignin(r)
  PROVE  /\ Others(r) /\ Same(r) /\ req'[r].token = req[r].token
         /\ UNCHANGED <<tokenTbl, overlapped>> /\ req[r].at = "entry"
         /\ req'[r].at = "over" /\ req[r].user \in Users
         /\ last' = [last EXCEPT ![User(r)] = r]
<1> USE DEF TypeInv
<1>1. ~ Fault("entry")
  BY FaultType, Kinds DEF Orderly, Never
<1>2. Answer(r, "ok") /\ last' = [last EXCEPT ![User(r)] = r]
  BY <1>1 DEF AnswerSignin
<1> QED BY <1>2, AnswerMakes DEF AnswerSignin, Words, StepsFit, Fits

\* What an orderly behaviour keeps: SigninsInv's part on those about to be
\* answered, and the property itself.
Stand ==
    /\ \A q \in Requests : req[q].at = "entry" /\ req[q].user \notin overlapped
         => tokenTbl[req[q].user] = req[q].token
    /\ \A u \in Users \ overlapped : last[u] # NoRow =>
         \/ tokenTbl[u] = req[last[u]].token
         \/ \E q \in Requests : SigningIn(q) /\ req[q].user = u /\ req[q].at = "entry"

LEMMA SigninsStay ==
  ASSUME TypeInv, SigninsInv, [Next]_vars
  PROVE  SigninsInv'
<1> USE DEF TypeInv
<1>1. \A r, s \in Requests :
        r # s /\ SigningIn(r)' /\ SigningIn(s)' /\ req'[r].user = req'[s].user
          => req'[r].user \in overlapped'
  BY OverlapsNoted
<1>2. Orderly' => \A r \in Requests : SigningIn(r)' => req'[r].told = "nothing"
  BY NobodyGaveUp
<1>3. ASSUME NEW u \in Users, last'[u] # NoRow
      PROVE  last'[u] \in Requests /\ req'[last'[u]].at = "over" /\ req'[last'[u]].user = u
  <2>1. CASE last'[u] = last[u]
    <3>1. last[u] \in Requests /\ req[last[u]].at = "over" /\ req[last[u]].user = u
      BY <1>3, <2>1 DEF SigninsInv, User
    <3> QED BY <2>1, <3>1, RequestsStay
  <2>2. CASE last'[u] # last[u]
    <3>1. PICK r \in Requests : AnswerSignin(r)
      BY <2>2 DEF Next, vars, Tick, StartSignup, StartSignin, InsertUser, VerifyPassword,
         GenToken, UpdateToken, SigninAgain, TimeOut, Limited, StartInfo, LookupToken,
         ShowInfo
    <3>2. Answer(r, "ok") /\ last' = [last EXCEPT ![User(r)] = r]
      BY <2>2, <3>1 DEF AnswerSignin
    <3>3. User(r) = u /\ last'[u] = r
      BY <2>2, <3>2 DEF TypeOK
    <3> QED BY <3>2, <3>3, AnswerMakes DEF Words, User, Same
  <2> QED BY <2>1, <2>2
<1>4. ASSUME Orderly'
      PROVE  Stand'
  <2>1. Orderly
    BY <1>4, OrderStays
  <2>2. /\ Stand
        /\ \A u \in Users : last[u] # NoRow =>
              last[u] \in Requests /\ req[last[u]].at = "over" /\ req[last[u]].user = u
    BY <2>1 DEF SigninsInv, LastSigninStands, User, Orderly, Stand
  <2>3. CASE UNCHANGED <<tokenTbl, last, req, overlapped>>
    BY <2>2, <2>3 DEF Stand, SigningIn
  <2>4. ASSUME NEW r \in Requests, Quiet(r)
        PROVE  Stand'
    <3>1. /\ UNCHANGED <<tokenTbl, last>> /\ Others(r) /\ overlapped \subseteq overlapped'
          /\ req[r].at \notin {"entry", "over"} /\ req'[r].at # "entry"
      BY <2>4, QuietKeeps
    <3>2. \A q \in Requests : req[q].at \in {"entry", "over"} => req'[q] = req[q]
      BY <3>1 DEF Others
    <3>3. \A q \in Requests : req'[q].at = "entry" => req'[q] = req[q]
      BY <3>1 DEF Others
    <3> QED BY <2>2, <3>1, <3>2, <3>3 DEF Stand, SigningIn
  <2>5. ASSUME NEW r \in Requests, UpdateToken(r)
        PROVE  Stand'
    <3>1. /\ Others(r) /\ Same(r) /\ req'[r].token = req[r].token
          /\ UNCHANGED <<last, overlapped>> /\ req[r].at = "update" /\ req[r].user \in Users
          /\ \/ tokenTbl' = tokenTbl /\ req'[r].at = "over"
             \/ /\ tokenTbl' = [tokenTbl EXCEPT ![req[r].user] = req[r].token]
                /\ req'[r].at = "entry"
      BY <1>4, <2>5, UpdateWrites DEF User
    <3>2. \A q \in Requests : req[q].at \in {"entry", "over"} => req'[q] = req[q]
      BY <3>1 DEF Others
    <3>3. CASE tokenTbl' = tokenTbl /\ req'[r].at = "over"
      <4>1. \A q \in Requests : req'[q].at = "entry" => req'[q] = req[q]
        BY <3>1, <3>3 DEF Others
      <4> QED BY <2>2, <3>1, <3>2, <3>3, <4>1 DEF Stand, SigningIn
    <3>4. CASE /\ tokenTbl' = [tokenTbl EXCEPT ![req[r].user] = req[r].token]
               /\ req'[r].at = "entry"
      <4>1. SigningIn(r)' /\ req'[r].user = req[r].user
        BY <3>1, <3>4 DEF SigningIn, StepsFit, Fits, Same
      <4>2. tokenTbl'[req[r].user] = req[r].token
        BY <3>1, <3>4 DEF TypeOK
      <4>3. ASSUME NEW q \in Requests, req'[q].at = "entry", req'[q].user \notin overlapped'
            PROVE  tokenTbl'[req'[q].user] = req'[q].token
        <5>1. CASE q = r
          BY <3>1, <4>1, <4>2, <5>1
        <5>2. CASE q # r
          <6>1. req'[q] = req[q]
            BY <3>1, <5>2 DEF Others
          <6>2. SigningIn(q)' /\ req[q].user \in Users
            BY <4>3, <6>1 DEF SigningIn, StepsFit, Fits
          <6>3. req[q].user # req[r].user
            BY <1>1, <4>1, <4>3, <5>2, <6>1, <6>2
          <6>4. tokenTbl'[req[q].user] = tokenTbl[req[q].user]
            BY <3>4, <6>2, <6>3 DEF TypeOK
          <6> QED BY <2>2, <3>1, <4>3, <6>1, <6>4 DEF Stand
        <5> QED BY <5>1, <5>2
      <4>4. ASSUME NEW u \in Users \ overlapped', last'[u] # NoRow
            PROVE  \/ tokenTbl'[u] = req'[last'[u]].token
                   \/ \E q \in Requests : /\ SigningIn(q)' /\ req'[q].user = u
                                           /\ req'[q].at = "entry"
        <5>1. CASE u = req[r].user
          BY <3>4, <4>1, <5>1
        <5>2. CASE u # req[r].user
          <6>1. tokenTbl'[u] = tokenTbl[u]
            BY <3>4, <5>2 DEF TypeOK
          <6> QED BY <2>2, <3>1, <3>2, <4>4, <6>1 DEF Stand, SigningIn
        <5> QED BY <5>1, <5>2
      <4> QED BY <4>3, <4>4 DEF Stand
    <3> QED BY <3>1, <3>3, <3>4
  <2>6. ASSUME NEW r \in Requests, AnswerSignin(r)
        PROVE  Stand'
    <3>1. /\ Others(r) /\ Same(r) /\ req'[r].token = req[r].token
          /\ UNCHANGED <<tokenTbl, overlapped>> /\ req[r].at = "entry"
          /\ req'[r].at = "over" /\ req[r].user \in Users
          /\ last' = [last EXCEPT ![req[r].user] = r]
      BY <1>4, <2>6, AnswerBrings DEF User
    <3>2. \A q \in Requests \ {r} : req'[q] = req[q]
      BY <3>1 DEF Others
    <3>3. ASSUME NEW u \in Users \ overlapped', last'[u] # NoRow
          PROVE  \/ tokenTbl'[u] = req'[last'[u]].token
                 \/ \E q \in Requests : /\ SigningIn(q)' /\ req'[q].user = u
                                         /\ req'[q].at = "entry"
      <4>1. CASE u = req[r].user
        <5>1. last'[u] = r
          BY <3>1, <4>1 DEF TypeOK
        <5> QED BY <2>2, <3>1, <4>1, <5>1 DEF Stand
      <4>2. CASE u # req[r].user
        <5>1. last'[u] = last[u]
          BY <3>1, <4>2 DEF TypeOK
        <5>2. last[u] \in Requests \ {r}
          BY <2>2, <3>1, <3>3, <5>1
        <5> QED BY <2>2, <3>1, <3>2, <3>3, <4>2, <5>1, <5>2 DEF Stand, SigningIn
      <4> QED BY <4>1, <4>2
    <3> QED BY <2>2, <3>1, <3>2, <3>3 DEF Stand
  <2> QED BY <1>4, <2>3, <2>4, <2>5, <2>6, OrderlyStep
<1> QED BY <1>1, <1>2, <1>3, <1>4 DEF SigninsInv, LastSigninStands, User, Orderly, SigningIn, Stand

\* Unless sign-ins of a user overlap, the table has the token that the last
\* one answered ok brought to its browser.
THEOREM SigninsSafe == Spec => []LastSigninStands
<1>1. Init => SigninsInv
  BY DEF Init, SigninsInv, LastSigninStands, SigningIn, NotYet
<1>2. TypeInv /\ SigninsInv /\ [Next]_vars => SigninsInv'
  BY SigninsStay
<1>3. SigninsInv => LastSigninStands
  BY DEF SigninsInv
<1> QED BY <1>1, <1>2, <1>3, TypesHold, PTL DEF Spec

(***************************************************************************)
(* Refusals.  As long as a user has one sign-in with the right password    *)
(* only, the token it wrote is the one in the table, in the browsers and   *)
(* in the requests of the pages.                                           *)
(***************************************************************************)
Sound == Never({"rpc", "sql", "retry"})

Sole(u) == \A s, t \in Requests :
  Backed(s) /\ Backed(t) /\ req[s].user = u /\ req[t].user = u => s = t

\* A token gets to a browser, and to a request for a page, when the sign-in
\* that made it is over.
BroughtInv ==
    /\ \A b \in Browsers : storage[b] # NoRow => req[storage[b].by].at = "over"
    /\ \A r \in Requests : req[r].at = "lookup" =>
         \E s \in Requests : Backed(s) /\ req[s].user = req[r].user /\ req[s].at = "over"

OneToken(u) ==
    /\ \A r \in Requests :
         req[r].at \in {"entry", "lookup"} /\ req[r].user = u => tokenTbl[u] = req[r].token
    /\ \A b \in Browsers :
         storage[b] # NoRow /\ storage[b].user = u => tokenTbl[u] = storage[b].token

RefusedInv == \A r \in Requests : req[r].told = "refused" =>
  /\ req[r].token \in Nat /\ req[r].user \in Users
  /\ Expired(req[r].token) \/ ~ Sole(req[r].user)

CauseInv == Sound => RefusedInv /\ \A u \in Users : Sole(u) => OneToken(u)

\* However many requests there are, a behaviour has started finitely many.
Begun == {r \in Requests : req[r].at # "idle"}

LEMMA SoleBefore ==
  ASSUME TypeInv, [Next]_vars, NEW u, Sole(u)'
  PROVE  Sole(u)
BY BackedStays DEF Sole

LEMMA SoundBefore ==
  ASSUME TypeInv, [Next]_vars, Sound'
  PROVE  Sound
<1>1. FaultsGrow
  <2>1. CASE UNCHANGED faults
    BY <2>1 DEF FaultsGrow, TypeInv, TypeOK
  <2>2. ASSUME NEW q \in Requests, Handles(q) PROVE FaultsGrow
    BY <2>2, HandlerFits
  <2> QED BY <2>1, <2>2, StepIs, StartFits DEF vars, Tick
<1> QED BY <1>1, Kinds DEF Sound, Never, FaultsGrow

\* Which handler brings a request where.
LEMMA ChangeIs ==
  ASSUME TypeInv, [Next]_vars, NEW r \in Requests, req'[r] # req[r]
  PROVE  \/ Starts(r)
         \/ /\ Handles(r) /\ req'[r].at # "lookup"
            /\ req'[r].at = "entry" => UpdateToken(r)
            /\ req'[r].told = "refused" => LookupToken(r)
<1> USE DEF TypeInv
<1>1. Starts(r) \/ Handles(r)
  BY StepIs, StartFits, HandlerFits DEF vars, Tick, Others
<1>2. ASSUME Handles(r)
      PROVE  /\ req'[r].at # "lookup"
             /\ req'[r].at = "entry" => UpdateToken(r)
             /\ req'[r].told = "refused" => LookupToken(r)
  <2>0. req[r].told # "refused"
    BY <1>2, HandlerFits DEF StepsFit, Fits
  <2>1. CASE InsertUser(r)
    BY <2>0, <2>1, AnswerMakes DEF InsertUser, Words
  <2>2. CASE VerifyPassword(r)
    BY <2>0, <2>2, GotoMakes, AnswerMakes DEF VerifyPassword, Words, Places
  <2>3. CASE GenToken(r)
    BY <2>0, <2>3, GenMakes
  <2>4. CASE UpdateToken(r)
    BY <2>0, <2>4, GotoMakes, AnswerMakes DEF UpdateToken, Words, Places
  <2>5. CASE AnswerSignin(r)
    BY <2>0, <2>5, AnswerMakes DEF AnswerSignin, Words
  <2>6. CASE SigninAgain(r)
    BY <2>0, <2>6, GotoMakes DEF SigninAgain, Places
  <2>7. CASE TimeOut(r)
    BY <2>7, TimeOutMakes DEF TimeOut
  <2>8. CASE Limited(r)
    BY <2>0, <2>8, AnswerMakes DEF Limited, Words
  <2>9. CASE LookupToken(r)
    BY <2>9, GotoMakes, AnswerMakes DEF LookupToken, Words, Places
  <2>10. CASE ShowInfo(r)
    BY <2>0, <2>10, AnswerMakes DEF ShowInfo, Words
  <2> QED BY <1>2, <2>1, <2>2, <2>3, <2>4, <2>5, <2>6, <2>7, <2>8, <2>9, <2>10 DEF Handles
<1> QED BY <1>1, <1>2

\* The one sign-in of a user with the right password has written its token:
\* nobody writes another.
LEMMA TokenStays ==
  ASSUME TypeInv, TokensInv, [Next]_vars, NEW u \in Users, Sole(u),
         NEW s \in Requests, Backed(s), req[s].user = u, req[s].at \in {"entry", "over"}
  PROVE  tokenTbl'[u] = tokenTbl[u]
<1> SUFFICES ASSUME tokenTbl'[u] # tokenTbl[u] PROVE FALSE
  OBVIOUS
<1>1. PICK r \in Requests : UpdateToken(r)
  BY DEF Next, vars, Tick, StartSignup, StartSignin, InsertUser, VerifyPassword,
     GenToken, AnswerSignin, SigninAgain, TimeOut, Limited, StartInfo, LookupToken,
     ShowInfo
<1>2. req[r].user = u /\ req[r].at = "update"
  BY <1>1 DEF UpdateToken, ReplaceToken, TypeInv, TypeOK, User
<1>3. Backed(r)
  BY <1>2 DEF TokensInv
<1> QED BY <1>2, <1>3 DEF Sole

\* A sign-in that goes on to the entries has written its token.
LEMMA TokenWritten ==
  ASSUME TypeInv, NEW r \in Requests, UpdateToken(r), req'[r].at = "entry"
  PROVE  /\ req[r].user \in Users /\ req'[r].user = req[r].user
         /\ req'[r].token = req[r].token /\ tokenTbl'[req[r].user] = req[r].token
<1> USE DEF TypeInv
<1>1. PICK o \in DbOutcomes :
        /\ ReplaceToken(User(r), req[r].token, o)
        /\ IF o = "done" /\ req[r].told = "nothing" THEN Goto(r, "entry")
           ELSE Answer(r, "error")
  BY DEF UpdateToken
<1>2. ~ Answer(r, "error")
  BY AnswerMakes DEF Words
<1>3. o = "done" /\ Goto(r, "entry")
  BY <1>1, <1>2
<1>4. tokenTbl' = [tokenTbl EXCEPT ![req[r].user] = req[r].token]
  BY <1>1, <1>3 DEF ReplaceToken, RowWritten, User
<1>5. req[r].user \in Users
  BY DEF UpdateToken, StepsFit, Fits
<1> QED BY <1>3, <1>4, <1>5, GotoMakes DEF Places, Same, TypeOK

\* Only the answer of a sign-in brings a token to a browser.
LEMMA StorageFrom ==
  ASSUME TypeInv, [Next]_vars, NEW b \in Browsers, storage'[b] # storage[b]
  PROVE  \E r \in Requests :
           /\ req[r].at = "entry" /\ req'[r].at = "over" /\ UNCHANGED tokenTbl
           /\ storage'[b] = [user |-> req[r].user, token |-> req[r].token, by |-> r]
<1>1. PICK r \in Requests : AnswerSignin(r)
  BY DEF Next, vars, Tick, StartSignup, StartSignin, InsertUser, VerifyPassword,
     GenToken, UpdateToken, SigninAgain, TimeOut, Limited, StartInfo, LookupToken,
     ShowInfo
<1>2. /\ req[r].at = "entry" /\ Answer(r, "ok") /\ UNCHANGED tokenTbl
      /\ storage'[b] = [user |-> req[r].user, token |-> req[r].token, by |-> r]
  BY <1>1 DEF AnswerSignin, TypeInv, TypeOK, User
<1> QED BY <1>2, AnswerMakes DEF Words, TypeInv

\* Only a new request for a page is sent to have its token looked up.
LEMMA LookupFrom ==
  ASSUME TypeInv, [Next]_vars, NEW r \in Requests, req'[r].at = "lookup", req'[r] # req[r]
  PROVE  StartInfo(r)
<1>1. Starts(r)
  BY ChangeIs
<1>2. Fits(r)'
  BY <1>1, StartFits
<1>3. req'[r].op = "info"
  BY <1>2 DEF Fits
<1>4. ~ StartSignup(r) /\ ~ StartSignin(r)
  BY <1>3, SignupMakes, SigninMakes DEF TypeInv
<1> QED BY <1>1, <1>4 DEF Starts

\* What the page is told when a request starts.
LEMMA SignupTold ==
  ASSUME TypeOK, NEW r \in Requests, StartSignup(r)
  PROVE  req'[r].told = "nothing"
<1>1. PICK b \in Browsers, u \in Users, pwd \in Passwords :
        Start(r, "signup", b, u, pwd, NoRow, "insert")
  BY DEF StartSignup
<1>2. req'[r] = [op |-> "signup", browser |-> b, user |-> u, pwd |-> pwd,
                 token |-> NoRow, at |-> "insert", told |-> "nothing"]
  BY <1>1, StartMakes DEF Places
<1> QED BY <1>2

LEMMA InfoRefuses ==
  ASSUME TypeOK, NEW r \in Requests, StartInfo(r), req'[r].told = "refused"
  PROVE  Expired(req[r].token)'
<1>1. PICK b \in Browsers :
        req' = [req EXCEPT ![r] =
             LET old == Expired(storage[b].token) IN
               [op |-> "info", browser |-> b, user |-> storage[b].user, pwd |-> NoRow,
                token |-> storage[b].token,
                at |-> IF old THEN "over" ELSE "lookup",
                told |-> IF old THEN "refused" ELSE "nothing"]]
  BY DEF StartInfo
<1>2. Expired(storage[b].token) /\ req'[r].token = storage[b].token
  BY <1>1 DEF TypeOK
<1>3. clock' = clock
  BY DEF StartInfo
<1> QED BY <1>2, <1>3 DEF Expired

LEMMA BroughtStays ==
  ASSUME TypeInv, TokensInv, BroughtInv, [Next]_vars
  PROVE  BroughtInv'
<1>1. ASSUME NEW b \in Browsers, storage'[b] # NoRow
      PROVE  req'[storage'[b].by].at = "over"
  <2>1. CASE storage'[b] = storage[b]
    <3>1. PICK s \in Requests : s = storage[b].by
      BY <1>1, <2>1 DEF TokensInv
    <3>2. req[s].at = "over"
      BY <1>1, <2>1, <3>1 DEF BroughtInv
    <3> QED BY <2>1, <3>1, <3>2, RequestsStay
  <2>2. CASE storage'[b] # storage[b]
    <3>1. PICK r \in Requests :
            /\ req'[r].at = "over"
            /\ storage'[b] = [user |-> req[r].user, token |-> req[r].token, by |-> r]
      BY <2>2, StorageFrom
    <3> QED BY <3>1
  <2> QED BY <2>1, <2>2
<1>2. ASSUME NEW r \in Requests, req'[r].at = "lookup"
      PROVE  \E s \in Requests : Backed(s)' /\ req'[s].user = req'[r].user /\ req'[s].at = "over"
  <2>1. \E s \in Requests : Backed(s) /\ req[s].user = req'[r].user /\ req[s].at = "over"
    <3>1. CASE req'[r] = req[r]
      BY <1>2, <3>1 DEF BroughtInv
    <3>2. CASE req'[r] # req[r]
      <4>1. StartInfo(r)
        BY <1>2, <3>2, LookupFrom
      <4>2. PICK b \in Browsers : storage[b] # NoRow /\ req'[r].user = storage[b].user
        BY <4>1, InfoMakes DEF TypeInv
      <4> QED BY <4>2 DEF BroughtInv, TokensInv
    <3> QED BY <3>1, <3>2
  <2> QED BY <2>1, BackedStays, RequestsStay
<1> QED BY <1>1, <1>2 DEF BroughtInv

LEMMA OneTokenStays ==
  ASSUME TypeInv, TokensInv, BroughtInv, [Next]_vars,
         NEW u \in Users, Sole(u), OneToken(u)
  PROVE  OneToken(u)'
<1> USE DEF TypeInv
<1>1. ASSUME NEW r \in Requests, req'[r].at \in {"entry", "lookup"}, req'[r].user = u
      PROVE  tokenTbl'[u] = req'[r].token
  <2>1. CASE req'[r] = req[r] /\ req[r].at = "entry"
    BY <1>1, <2>1, TokenStays DEF OneToken, TokensInv
  <2>2. CASE req'[r] = req[r] /\ req[r].at = "lookup"
    BY <1>1, <2>2, TokenStays DEF OneToken, BroughtInv
  <2>3. CASE req'[r] # req[r] /\ req'[r].at = "entry"
    <3>1. UpdateToken(r)
      BY <2>3, ChangeIs, StartFits
    <3> QED BY <1>1, <2>3, <3>1, TokenWritten
  <2>4. CASE req'[r] # req[r] /\ req'[r].at = "lookup"
    <3>1. StartInfo(r)
      BY <2>4, LookupFrom
    <3>2. PICK b \in Browsers : /\ storage[b] # NoRow /\ req'[r].user = storage[b].user
                                /\ req'[r].token = storage[b].token
      BY <3>1, InfoMakes
    <3>3. UNCHANGED tokenTbl
      BY <3>1 DEF StartInfo
    <3> QED BY <1>1, <3>2, <3>3 DEF OneToken
  <2> QED BY <1>1, <2>1, <2>2, <2>3, <2>4
<1>2. ASSUME NEW b \in Browsers, storage'[b] # NoRow, storage'[b].user = u
      PROVE  tokenTbl'[u] = storage'[b].token
  <2>1. CASE storage'[b] = storage[b]
    <3>1. PICK s \in Requests : s = storage[b].by
      BY <1>2, <2>1 DEF TokensInv
    <3>2. Backed(s) /\ req[s].user = u /\ req[s].at = "over"
      BY <1>2, <2>1, <3>1 DEF TokensInv, BroughtInv
    <3> QED BY <1>2, <2>1, <3>2, TokenStays DEF OneToken
  <2>2. CASE storage'[b] # storage[b]
    <3>1. PICK r \in Requests :
            /\ req[r].at = "entry" /\ UNCHANGED tokenTbl
            /\ storage'[b] = [user |-> req[r].user, token |-> req[r].token, by |-> r]
      BY <2>2, StorageFrom
    <3> QED BY <1>2, <3>1 DEF OneToken
  <2> QED BY <2>1, <2>2
<1> QED BY <1>1, <1>2 DEF OneToken

\* A request is refused for an old token, or for one that is not in the table.
LEMMA RefusedStays ==
  ASSUME TypeInv, CauseInv, [Next]_vars, Sound'
  PROVE  RefusedInv'
<1> USE DEF TypeInv
<1> SUFFICES ASSUME NEW r \in Requests, req'[r].told = "refused"
             PROVE  /\ req'[r].token \in Nat /\ req'[r].user \in Users
                    /\ Expired(req[r].token)' \/ ~ Sole(req[r].user)'
  BY DEF RefusedInv
<1>1. Sound /\ RefusedInv /\ \A u \in Users : Sole(u) => OneToken(u)
  BY SoundBefore DEF CauseInv
<1>2. CASE req'[r] = req[r]
  <2>1. /\ req[r].token \in Nat /\ req[r].user \in Users
        /\ Expired(req[r].token) \/ ~ Sole(req[r].user)
    BY <1>1, <1>2 DEF RefusedInv
  <2>2. clock \in Nat /\ (clock' = clock \/ clock' = clock + 1)
    BY StepIs, StartFits, HandlerFits DEF vars, Tick, TypeOK
  <2>3. Expired(req[r].token) => Expired(req[r].token)'
    <3>1. TTL \in Nat
      BY AccountAssumption
    <3> QED BY <1>2, <2>1, <2>2, <3>1 DEF Expired
  <2>4. Sole(req[r].user)' => Sole(req[r].user)
    <3>1. PICK u \in Users : u = req[r].user
      BY <2>1
    <3>2. Sole(u)' => Sole(u)
      BY SoleBefore
    <3> QED BY <1>2, <3>1, <3>2 DEF Sole
  <2> QED BY <1>2, <2>1, <2>3, <2>4
<1>3. CASE Starts(r)
  <2>1. StartInfo(r)
    <3>1. Fits(r)' /\ req'[r].at # "idle"
      BY <1>3, StartFits
    <3>2. ~ StartSignin(r)
      BY SigninMakes
    <3>3. ~ StartSignup(r)
      BY SignupTold
    <3> QED BY <1>3, <3>2, <3>3 DEF Starts
  <2>2. req'[r].token \in Nat /\ req'[r].user \in Users
    BY <2>1, InfoMakes
  <2>3. Expired(req[r].token)'
    BY <2>1, InfoRefuses
  <2> QED BY <2>2, <2>3
<1>4. CASE LookupToken(r)
  <2> DEFINE u == req[r].user
  <2>1. u \in Users /\ req[r].token \in Nat /\ req[r].at = "lookup" /\ req[r].told # "refused"
    BY <1>4 DEF LookupToken, StepsFit, Fits
  <2>2. PICK token \in {tokenTbl[u], NoRow} :
          /\ GetUserToken(u, token)
          /\ IF token = req[r].token THEN Goto(r, "userinfo") ELSE Answer(r, "refused")
    BY <1>4 DEF LookupToken, User
  <2>3. ~ Goto(r, "userinfo")
    BY <2>1, GotoMakes DEF Places
  <2>4. token # req[r].token /\ Answer(r, "refused")
    BY <2>2, <2>3
  <2>5. ~ Fault("sql") /\ ~ Fault("rpc")
    BY FaultType, Kinds DEF Sound, Never
  <2>6. token = tokenTbl[u]
    BY <2>2, <2>5 DEF GetUserToken, TokenRow
  <2>7. ~ Sole(u)
    BY <1>1, <2>1, <2>4, <2>6 DEF OneToken
  <2>8. req'[r].user = u /\ req'[r].token = req[r].token
    BY <2>4, AnswerMakes DEF Words, Same
  <2>9. ~ Sole(req[r].user)'
    <3>1. PICK w \in Users : w = u
      BY <2>1
    <3>2. Sole(w)' => Sole(w)
      BY SoleBefore
    <3> QED BY <2>7, <2>8, <3>1, <3>2 DEF Sole
  <2> QED BY <2>1, <2>8, <2>9
<1> QED BY <1>2, <1>3, <1>4, ChangeIs

LEMMA CausesHold == Spec => [](BroughtInv /\ CauseInv)
<1>1. Init => BroughtInv /\ CauseInv
  BY DEF Init, BroughtInv, CauseInv, RefusedInv, OneToken, NotYet
<1>2. TypeInv /\ TokensInv /\ BroughtInv /\ CauseInv /\ [Next]_vars
        => (BroughtInv /\ CauseInv)'
  <2> SUFFICES ASSUME TypeInv, TokensInv, BroughtInv, CauseInv, [Next]_vars, Sound'
               PROVE  RefusedInv' /\ \A u \in Users : Sole(u)' => OneToken(u)'
    BY BroughtStays DEF CauseInv
  <2>1. ASSUME NEW u \in Users, Sole(u)' PROVE OneToken(u)'
    <3>1. Sole(u) /\ OneToken(u)
      BY <2>1, SoundBefore, SoleBefore DEF CauseInv
    <3> QED BY <3>1, OneTokenStays
  <2> QED BY <2>1, RefusedStays
<1> QED BY <1>1, <1>2, TypesHold, TokensHold, PTL DEF Spec

LEMMA BegunFinite == Spec => []IsFiniteSet(Begun)
<1>1. Init => IsFiniteSet(Begun)
  <2> SUFFICES ASSUME Init PROVE IsFiniteSet(Begun)
    OBVIOUS
  <2>1. Begun = {}
    BY DEF Init, Begun, NotYet
  <2> QED BY <2>1, FS_EmptySet
<1>2. TypeInv /\ IsFiniteSet(Begun) /\ [Next]_vars => IsFiniteSet(Begun)'
  <2> SUFFICES ASSUME TypeInv, IsFiniteSet(Begun), [Next]_vars PROVE IsFiniteSet(Begun')
    OBVIOUS
  <2>1. CASE UNCHANGED req
    BY <2>1 DEF Begun
  <2>2. ASSUME NEW r \in Requests, Starts(r) \/ Handles(r) PROVE IsFiniteSet(Begun')
    <3>1. Begun' \subseteq Begun \cup {r}
      BY <2>2, StartFits, HandlerFits DEF Begun, Others
    <3>2. IsFiniteSet(Begun \cup {r})
      BY FS_AddElement
    <3> QED BY <3>1, <3>2, FS_Subset
  <2> QED BY <2>1, <2>2, StepIs DEF vars, Tick
<1> QED BY <1>1, <1>2, TypesHold, PTL DEF Spec

LEMMA TwoAreMore ==
  ASSUME NEW S, IsFiniteSet(S), NEW a \in S, NEW b \in S, a # b
  PROVE  Cardinality(S) > 1
<1>1. IsFiniteSet(S \ {a}) /\ Cardinality(S \ {a}) = Cardinality(S) - 1
  BY FS_RemoveElement
<1>2. Cardinality(S \ {a}) # 0
  BY <1>1, FS_EmptySet
<1>3. Cardinality(S \ {a}) \in Nat /\ Cardinality(S) \in Nat
  BY <1>1, FS_CardinalityType
<1> QED BY <1>1, <1>2, <1>3

\* Unless dbproxy fails or a sign-in is carried out twice, a page is refused
\* only with an old token, or when the user signed in with the right password
\* more than once: no sign-in with a wrong one takes a session away.
THEOREM RefusalsSafe == Spec => []RefusedForCause
<1>1. TypeInv /\ CauseInv /\ IsFiniteSet(Begun) => RefusedForCause
  <2> SUFFICES ASSUME TypeInv, CauseInv, IsFiniteSet(Begun), Sound,
                      NEW r \in Requests, req[r].told = "refused",
                      ~ Expired(req[r].token)
               PROVE  Cardinality({s \in Requests : req[s].op = "signin" /\ User(s) = User(r)
                                         /\ req[s].pwd = userTbl[User(r)]}) > 1
    BY DEF RefusedForCause, Sound
  <2> DEFINE S == {s \in Requests : req[s].op = "signin" /\ User(s) = User(r)
                                         /\ req[s].pwd = userTbl[User(r)]}
  <2>1. ~ Sole(req[r].user)
    BY DEF CauseInv, RefusedInv
  <2>2. PICK s \in Requests, t \in Requests :
          /\ s # t /\ Backed(s) /\ Backed(t)
          /\ req[s].user = req[r].user /\ req[t].user = req[r].user
    BY <2>1 DEF Sole
  <2>3. s \in S /\ t \in S
    BY <2>2 DEF Backed, User
  <2>4. IsFiniteSet(S)
    <3>1. S \subseteq Begun
      BY DEF Begun, TypeInv, StepsFit, Fits
    <3> QED BY <3>1, FS_Subset
  <2> QED BY <2>2, <2>3, <2>4, TwoAreMore
<1> QED BY <1>1, TypesHold, CausesHold, BegunFinite, PTL

=============================================================================
