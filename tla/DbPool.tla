-------------------------------- MODULE DbPool --------------------------------
(***************************************************************************)
(* dbproxy: every call of ExecuteAction runs one function of package orm,  *)
(* and all of them share the pool of MaxOpenConns connections that package *)
(* conn sets up.  A function prepares a statement, which needs a           *)
(* connection for a moment, and executes it, which needs one until its     *)
(* result is closed.  What closes the result depends on the function:      *)
(*                                                                         *)
(*   exec   inserts and updates have none, QueryRow(..).Scan closes it;    *)
(*   move   UpdateFileLocation: there is none;                             *)
(*   parse  ParseRows closes it by reading all rows;                       *)
(*   all    rows.Next in a loop closes it at the end, or not at all when   *)
(*          a row cannot be scanned and the loop breaks off;               *)
(*   first  one rows.Next closes it when there is no row; when there is    *)
(*          one, nobody does, and the connection is gone for good.         *)
(*                                                                         *)
(* The server keeps a statement until stmt.Close, which the functions      *)
(* defer, but for UpdateFileLocation and IsUserFileUploaded; and while a   *)
(* result of it is open.  It keeps so many statements and no more.         *)
(*                                                                         *)
(* A caller gives up after 30 seconds.  Its call does not: no context      *)
(* reaches database/sql.                                                   *)
(***************************************************************************)
EXTENDS Naturals, FiniteSets

CONSTANTS
    Calls,         \* the calls of ExecuteAction
    MaxOpenConns,  \* 1000 in the code
    MaxStatements, \* max_prepared_stmt_count of the server
    FindBudget,    \* how often a row that nobody closes is found
    FaultBudget    \* how often a statement fails, or dbproxy dies

Kinds == {"exec", "move", "all", "parse", "first", "uploaded"}

\* IsUserFileUploaded is a "first" that does not look at Prepare's error.
OneNext == {"first", "uploaded"}

\* The functions without stmt.Close.
NoClose == {"move", "uploaded"}

ASSUME PoolAssumption ==
    /\ IsFiniteSet(Calls)
    /\ MaxOpenConns \in Nat \ {0}
    /\ MaxStatements \in Nat \ {0}
    /\ FindBudget \in Nat
    /\ FaultBudget \in Nat

VARIABLES
    free,      \* the connections that could be taken, open or not yet opened
    call,      \* the calls: what function, and where it is
    open,      \* the calls that left a result open
    stmts,     \* the calls whose statement the server keeps
    up,        \* whether dbproxy runs
    caller,    \* what the caller of a call knows
    faults     \* the faults so far

vars == <<free, call, open, stmts, up, caller, faults>>

\* The places where a call has a connection.
Holding == {"preparing", "running"}

TypeOK ==
    /\ free \in Nat
    /\ call \in [Calls -> [kind : Kinds \cup {"none"},
                           at : {"idle", "prepare", "query", "over"} \cup Holding]]
    /\ open \subseteq Calls /\ stmts \subseteq Calls
    /\ up \in BOOLEAN
    /\ caller \in [Calls -> {"waits", "answered", "gaveup"}]
    /\ faults \in Nat

Init ==
    /\ free = MaxOpenConns
    /\ call = [c \in Calls |-> [kind |-> "none", at |-> "idle"]]
    /\ open = {} /\ stmts = {}
    /\ up = TRUE
    /\ caller = [c \in Calls |-> "waits"]
    /\ faults = 0

-----------------------------------------------------------------------------
Goto(c, step) == call' = [call EXCEPT ![c].at = step]

\* The answer of a call finds a caller who still waits, or nobody.
Answer(c) ==
    /\ Goto(c, "over")
    /\ caller' = [caller EXCEPT ![c] = IF @ = "waits" THEN "answered" ELSE @]

\* What the end of a function does with its statement when no result of it
\* is open.
CloseStatement(c) == stmts' = IF call[c].kind \in NoClose THEN stmts ELSE stmts \ {c}

\* The function is looked up by name and called; parameters that do not fit
\* never get so far.
ExecuteAction(c) ==
    /\ up
    /\ call[c].at = "idle"
    /\ \E k \in Kinds : call' = [call EXCEPT ![c] = [kind |-> k, at |-> "prepare"]]
    /\ UNCHANGED <<free, open, stmts, up, caller, faults>>

\* DBConn().Prepare waits for a connection and asks the server.
Prepare(c) ==
    /\ call[c].at = "prepare" /\ free > 0
    /\ free' = free - 1
    /\ Goto(c, "preparing")
    /\ UNCHANGED <<open, stmts, up, caller, faults>>

\* Mutant of Prepared: the statement keeps its connection.
PreparedKeeps(c) ==
    /\ call[c].at = "preparing"
    /\ Cardinality(stmts) < MaxStatements
    /\ stmts' = stmts \cup {c}
    /\ Goto(c, "query")
    /\ UNCHANGED <<free, open, up, caller, faults>>

\* The connection goes back, the statement can be used on any.
Prepared(c) ==
    /\ call[c].at = "preparing"
    /\ Cardinality(stmts) < MaxStatements
    /\ free' = free + 1
    /\ stmts' = stmts \cup {c}
    /\ Goto(c, "query")
    /\ UNCHANGED <<open, up, caller, faults>>

\* The server refuses the statement, always so when it has too many.  The
\* function answers with Suc = FALSE, IsUserFileUploaded runs into the nil
\* statement and panics, which fails the call; both end it.
PrepareFails(c) ==
    /\ call[c].at = "preparing"
    /\ \/ Cardinality(stmts) >= MaxStatements /\ UNCHANGED faults
       \/ faults < FaultBudget /\ faults' = faults + 1
    /\ free' = free + 1
    /\ Answer(c)
    /\ UNCHANGED <<open, stmts, up>>

\* Mutant of Query: the pool has no limit.
QueryUnbounded(c) ==
    /\ call[c].at = "query"
    /\ free' = free - 1
    /\ Goto(c, "running")
    /\ UNCHANGED <<open, stmts, up, caller, faults>>

\* stmt.Exec, stmt.Query or stmt.QueryRow waits for a connection.
Query(c) ==
    /\ call[c].at = "query" /\ free > 0
    /\ free' = free - 1
    /\ Goto(c, "running")
    /\ UNCHANGED <<open, stmts, up, caller, faults>>

\* Mutant of Finish: no function closes its statement.
FinishKeepsStatement(c) ==
    /\ call[c].at = "running" /\ call[c].kind # "parse"
    /\ free' = free + 1
    /\ Answer(c)
    /\ UNCHANGED <<open, stmts, up, faults>>

\* The result is closed: exec, move, all; first when it finds no row;
\* any of them when the server fails it.
Finish(c) ==
    /\ call[c].at = "running" /\ call[c].kind # "parse"
    /\ free' = free + 1
    /\ CloseStatement(c)
    /\ Answer(c)
    /\ UNCHANGED <<open, up, faults>>

\* UserSignin has ParseRows read all rows, of which one is the one it asked
\* for.
ParseRows(c) ==
    /\ call[c].at = "running" /\ call[c].kind = "parse"
    /\ free' = free + 1
    /\ CloseStatement(c)
    /\ Answer(c)
    /\ UNCHANGED <<open, up, faults>>

\* Mutant of FinishOpen: a QueryRow leaves its result open, too.
FinishAnyOpen(c) ==
    /\ call[c].at = "running" /\ call[c].kind \in OneNext \cup {"exec"}
    /\ open' = open \cup {c}
    /\ Answer(c)
    /\ UNCHANGED <<free, stmts, up, faults>>

\* QueryUserFileMeta, IsUserFileUploaded and UserExist find a row and return
\* without rows.Close, which leaves the connection to nobody.
FinishOpen(c) ==
    /\ call[c].at = "running" /\ call[c].kind \in OneNext
    /\ Cardinality(open) < FindBudget
    /\ open' = open \cup {c}
    /\ Answer(c)
    /\ UNCHANGED <<free, stmts, up, faults>>

\* rows.Scan fails in the loop of QueryUserFileMetas or GetFileMetaList: the
\* loop breaks off and the rows that are left stay unread.
BreakOff(c) ==
    /\ call[c].at = "running" /\ call[c].kind = "all"
    /\ Cardinality(open) < FindBudget
    /\ faults < FaultBudget
    /\ faults' = faults + 1
    /\ open' = open \cup {c}
    /\ Answer(c)
    /\ UNCHANGED <<free, stmts, up>>

Running(c) == call[c].at \notin {"idle", "over"}

\* dbproxy ends: log.Fatal, or whatever ends a process.  Its connections are
\* cut, and with them go their results and statements; its callers get errors.
Die ==
    /\ up
    /\ faults < FaultBudget
    /\ faults' = faults + 1
    /\ up' = FALSE
    /\ free' = MaxOpenConns
    /\ open' = {} /\ stmts' = {}
    /\ call' = [c \in Calls |-> IF Running(c) THEN [call[c] EXCEPT !.at = "over"]
                                ELSE call[c]]
    /\ caller' = [c \in Calls |-> IF Running(c) /\ caller[c] = "waits" THEN "answered"
                                  ELSE caller[c]]

\* Somebody starts it again.  InitDBConn opens a new pool and ends the process
\* when the server does not answer, which leaves it as it was.
StartRPCService ==
    /\ ~ up
    /\ up' = TRUE
    /\ UNCHANGED <<free, call, open, stmts, caller, faults>>

\* RpcOpts.RequestTimeout: the caller's context ends; the call goes on.
GiveUp(c) ==
    /\ Running(c)
    /\ caller[c] = "waits"
    /\ caller' = [caller EXCEPT ![c] = "gaveup"]
    /\ UNCHANGED <<free, call, open, stmts, up, faults>>

-----------------------------------------------------------------------------
Work(c) ==
    \/ Prepare(c) \/ Prepared(c) \/ PrepareFails(c) \/ Query(c)
    \/ Finish(c) \/ ParseRows(c) \/ FinishOpen(c) \/ BreakOff(c)

Next ==
    \/ \E c \in Calls : ExecuteAction(c) \/ Work(c) \/ GiveUp(c)
    \/ Die \/ StartRPCService

Spec == Init /\ [][Next]_vars

\* A goroutine that can go on does; database/sql hands a free connection to
\* whoever asks.  No call has to come, and no caller to give up.
FairSpec == Spec /\ \A c \in Calls : WF_vars(Work(c))

(***************************************************************************)
(* Properties.                                                             *)
(***************************************************************************)
Held == {c \in Calls : call[c].at \in Holding}

\* Every connection is free, with a call that runs, or with a result that one
\* of the functions named in FinishOpen and BreakOff left open: an error path
\* or a caller who gave up loses none.
ConnectionsAccounted ==
    /\ free + Cardinality(Held) + Cardinality(open) = MaxOpenConns
    /\ \A c \in open : call[c].kind \in OneNext \cup {"all"} /\ call[c].at = "over"

\* The server keeps no statement but those of calls that run, those a result
\* left open holds, and those of the two functions without stmt.Close: so many
\* transfers and multipart uploads there are until it takes no more.
StatementsAccounted ==
    \A c \in stmts : call[c].at \in {"query", "running"} \/ c \in open
                       \/ (call[c].at = "over" /\ call[c].kind \in NoClose)

\* As long as fewer results are left open than there are connections, every
\* call comes to its end: two phases that each need a connection do not make
\* calls wait on each other, since none keeps one while it waits for another.
CallsEnd ==
    \A c \in Calls :
      call[c].at = "prepare"
        ~> call[c].at = "over" \/ Cardinality(open) >= MaxOpenConns

\* README.md:40 says that the result of a Query is to be closed by hand, which
\* three functions do not do.
ResultsAreClosed == \A c \in Calls : call[c].at = "over" => c \notin open

=============================================================================
