----------------------------- MODULE DbPool_proof -----------------------------
(***************************************************************************)
(* Proofs about DbPool: its types, and that no path through a call, with   *)
(* whatever failures, loses a connection other than to a result that one   *)
(* of the functions named leaves open, nor a statement other than to such  *)
(* a result and to the functions that never close theirs.                  *)
(***************************************************************************)
EXTENDS DbPool, FiniteSetTheorems, TLAPS

CallRecord == [kind : Kinds \cup {"none"},
               at : {"idle", "prepare", "query", "over"} \cup Holding]

USE DEF Holding

\* A step that moves a call says nothing of the others.
LEMMA GotoType ==
  ASSUME TypeOK, NEW c \in Calls,
         NEW step \in {"query", "over", "preparing", "running"}, Goto(c, step)
  PROVE  /\ call' \in [Calls -> CallRecord]
         /\ call'[c].at = step /\ call'[c].kind = call[c].kind
         /\ \A d \in Calls \ {c} : call'[d] = call[d]
<1>1. call[c] \in CallRecord
  BY DEF TypeOK, CallRecord
<1>2. call'[c] = [call[c] EXCEPT !.at = step] /\ DOMAIN call' = Calls
  BY DEF Goto, TypeOK
<1>3. [call[c] EXCEPT !.at = step] = [kind |-> call[c].kind, at |-> step]
  BY <1>1 DEF CallRecord
<1>4. call'[c] \in CallRecord
  BY <1>1, <1>2, <1>3 DEF CallRecord
<1>5. \A d \in Calls \ {c} : call'[d] = call[d]
  BY DEF Goto, TypeOK
<1>6. call' \in [Calls -> CallRecord]
  BY <1>2, <1>4, <1>5 DEF Goto, TypeOK, CallRecord
<1> QED BY <1>2, <1>3, <1>5, <1>6

\* The kinds of moves a step makes with the connections.
Takes(c)  == /\ call[c].at \notin Holding /\ call'[c].at \in Holding
             /\ free > 0 /\ free' = free - 1 /\ open' = open
Returns(c) == /\ call[c].at \in Holding /\ call'[c].at \notin Holding
              /\ free' = free + 1 /\ open' = open
Leaves(c) == /\ call[c].at = "running" /\ call'[c].at = "over"
             /\ call[c].kind \in OneNext \cup {"all"}
             /\ free' = free /\ open' = open \cup {c}

\* And those it makes with the statements.
Keeps(c)  == \/ /\ stmts' = stmts
                /\ \/ call[c].at \in {"prepare", "preparing"}
                   \/ call[c].at = "query" /\ call'[c].at = "running"
                   \/ c \in open'
             \/ stmts' = stmts \cup {c} /\ call'[c].at = "query"
Closes(c) == CloseStatement(c) /\ call'[c].at = "over" /\ call[c].at = "running"

\* A step of a call's work takes a connection, returns it or leaves it behind.
LEMMA WorkMoves ==
  ASSUME TypeOK, NEW c \in Calls, Work(c)
  PROVE  /\ TypeOK'
         /\ call[c].at # "over" /\ call'[c].kind = call[c].kind
         /\ \A d \in Calls \ {c} : call'[d] = call[d]
         /\ Takes(c) \/ Returns(c) \/ Leaves(c)
         /\ Keeps(c) \/ Closes(c)
<1> USE PoolAssumption
<1>1. CASE Prepare(c)
  BY <1>1, GotoType DEF Prepare, Takes, Keeps, TypeOK, CallRecord
<1>2. CASE Prepared(c)
  BY <1>2, GotoType DEF Prepared, Returns, Keeps, TypeOK, CallRecord
<1>3. CASE PrepareFails(c)
  BY <1>3, GotoType DEF PrepareFails, Answer, Returns, Keeps, TypeOK, CallRecord
<1>4. CASE Query(c)
  BY <1>4, GotoType DEF Query, Takes, Keeps, TypeOK, CallRecord
<1>5. CASE Finish(c)
  BY <1>5, GotoType DEF Finish, Answer, Returns, Closes, CloseStatement, TypeOK, CallRecord
<1>6. CASE FinishOpen(c)
  BY <1>6, GotoType DEF FinishOpen, Answer, Leaves, Keeps, TypeOK, CallRecord
<1>7. CASE BreakOff(c)
  BY <1>7, GotoType DEF BreakOff, Answer, Leaves, Keeps, TypeOK, CallRecord
<1>8. CASE ParseRows(c)
  BY <1>8, GotoType DEF ParseRows, Answer, Returns, Closes, CloseStatement, TypeOK, CallRecord
<1> QED BY <1>1, <1>2, <1>3, <1>4, <1>5, <1>6, <1>7, <1>8 DEF Work

\* A call that starts, or a caller who gives up, moves no connection.
LEMMA OthersMoveNothing ==
  ASSUME TypeOK, NEW c \in Calls, ExecuteAction(c) \/ GiveUp(c)
  PROVE  /\ TypeOK'
         /\ free' = free /\ open' = open /\ stmts' = stmts
         /\ \A d \in Calls : call[d].at \in Holding <=> call'[d].at \in Holding
         /\ \A d \in Calls : call[d].at # "idle" => call'[d] = call[d]
<1>1. CASE ExecuteAction(c)
  <2>1. PICK k \in Kinds : call' = [call EXCEPT ![c] = [kind |-> k, at |-> "prepare"]]
    BY <1>1 DEF ExecuteAction
  <2>2. call[c].at = "idle" /\ UNCHANGED <<free, open, stmts, up, caller, faults>>
    BY <1>1 DEF ExecuteAction
  <2> QED BY <2>1, <2>2 DEF TypeOK
<1>2. CASE GiveUp(c)
  BY <1>2 DEF GiveUp, TypeOK
<1> QED BY <1>1, <1>2

\* When dbproxy ends, no call has a connection, a result or a statement left.
LEMMA DieCleans ==
  ASSUME TypeOK, Die
  PROVE  /\ TypeOK'
         /\ free' = MaxOpenConns /\ open' = {} /\ stmts' = {}
         /\ \A d \in Calls : call'[d].at \notin Holding
<1>1. ASSUME NEW d \in Calls
      PROVE  call'[d] \in CallRecord /\ call'[d].at \in {"idle", "over"}
  <2>1. call[d] \in CallRecord
    BY DEF TypeOK, CallRecord
  <2>2. [call[d] EXCEPT !.at = "over"] = [kind |-> call[d].kind, at |-> "over"]
    BY <2>1 DEF CallRecord
  <2>3. CASE Running(d)
    BY <2>1, <2>2, <2>3 DEF Die, CallRecord
  <2>4. CASE ~ Running(d)
    BY <2>1, <2>4 DEF Die, CallRecord, Running
  <2> QED BY <2>3, <2>4
<1>2. call' \in [Calls -> CallRecord]
  BY <1>1 DEF Die
<1>3. caller' \in [Calls -> {"waits", "answered", "gaveup"}]
  BY DEF Die, TypeOK
<1>4. /\ free' = MaxOpenConns /\ open' = {} /\ stmts' = {} /\ up' = FALSE
      /\ faults' = faults + 1
  BY DEF Die
<1>5. TypeOK'
  <2>1. faults' \in Nat
    BY <1>4 DEF TypeOK
  <2>2. free' \in Nat /\ open' \subseteq Calls /\ stmts' \subseteq Calls /\ up' \in BOOLEAN
    BY <1>4, PoolAssumption
  <2> QED BY <1>2, <1>3, <2>1, <2>2 DEF TypeOK, CallRecord
<1>6. \A d \in Calls : call'[d].at \notin Holding
  BY <1>1
<1> QED BY <1>4, <1>5, <1>6

LEMMA TypesStay == ASSUME TypeOK, [Next]_vars PROVE TypeOK'
<1>1. CASE UNCHANGED vars
  BY <1>1 DEF vars, TypeOK
<1>2. CASE StartRPCService
  BY <1>2 DEF StartRPCService, TypeOK
<1> QED BY <1>1, <1>2, WorkMoves, OthersMoveNothing, DieCleans DEF Next

\* Type correctness; above all, no more connections are taken than there are.
THEOREM PoolTypes == Spec => []TypeOK
<1>1. Init => TypeOK
  BY PoolAssumption DEF Init, TypeOK
<1> QED BY <1>1, TypesStay, PTL DEF Spec

-----------------------------------------------------------------------------
LEMMA InitAccounted == Init => ConnectionsAccounted
<1> SUFFICES ASSUME Init PROVE ConnectionsAccounted
  OBVIOUS
<1>1. Held = {} /\ open = {} /\ free = MaxOpenConns
  BY DEF Init, Held
<1> QED BY <1>1, FS_EmptySet, PoolAssumption DEF ConnectionsAccounted

\* The sum of the connections is kept by each of the three moves.
LEMMA MovesKeepCount ==
  ASSUME TypeOK, ConnectionsAccounted, NEW c \in Calls, Work(c)
  PROVE  ConnectionsAccounted'
<1>1. TypeOK' /\ \A d \in Calls \ {c} : call'[d] = call[d]
  BY WorkMoves
<1>2. IsFiniteSet(Held) /\ IsFiniteSet(open) /\ IsFiniteSet(Held')
  BY <1>1, PoolAssumption, FS_Subset DEF Held, TypeOK
<1>3. /\ Cardinality(Held) \in Nat /\ Cardinality(open) \in Nat
      /\ Cardinality(Held') \in Nat /\ free \in Nat /\ MaxOpenConns \in Nat
  BY <1>2, FS_CardinalityType, PoolAssumption DEF TypeOK
<1>4. c \notin open
  BY WorkMoves DEF ConnectionsAccounted
<1>5. \A d \in open' : call'[d].kind \in OneNext \cup {"all"} /\ call'[d].at = "over"
  BY <1>1, <1>4, WorkMoves DEF ConnectionsAccounted, Takes, Returns, Leaves, TypeOK
<1>6. CASE Takes(c)
  <2>1. Held' = Held \cup {c} /\ c \notin Held
    BY <1>1, <1>6 DEF Takes, Held
  <2>2. Cardinality(Held') = Cardinality(Held) + 1
    BY <1>2, <2>1, FS_AddElement
  <2> QED BY <1>3, <1>5, <1>6, <2>2 DEF Takes, ConnectionsAccounted
<1>7. CASE Returns(c)
  <2>1. Held' = Held \ {c} /\ c \in Held
    BY <1>1, <1>7 DEF Returns, Held
  <2>2. Cardinality(Held') = Cardinality(Held) - 1
    BY <1>2, <2>1, FS_RemoveElement
  <2> QED BY <1>3, <1>5, <1>7, <2>2 DEF Returns, ConnectionsAccounted
<1>8. CASE Leaves(c)
  <2>1. Held' = Held \ {c} /\ c \in Held
    BY <1>1, <1>8 DEF Leaves, Held
  <2>2. Cardinality(Held') = Cardinality(Held) - 1
    BY <1>2, <2>1, FS_RemoveElement
  <2>3. Cardinality(open') = Cardinality(open) + 1
    BY <1>2, <1>4, <1>8, FS_AddElement DEF Leaves
  <2> QED BY <1>3, <1>5, <1>8, <2>2, <2>3 DEF Leaves, ConnectionsAccounted
<1> QED BY <1>6, <1>7, <1>8, WorkMoves

\* Every connection is free, with a call that runs, or with a result that one
\* of the functions leaves open.
THEOREM AccountedSafe == Spec => []ConnectionsAccounted
<1>1. TypeOK /\ ConnectionsAccounted /\ [Next]_vars => ConnectionsAccounted'
  <2> SUFFICES ASSUME TypeOK, ConnectionsAccounted, [Next]_vars
               PROVE  ConnectionsAccounted'
    OBVIOUS
  <2>1. ASSUME NEW c \in Calls, ExecuteAction(c) \/ GiveUp(c)
        PROVE  ConnectionsAccounted'
    <3>1. Held' = Held /\ free' = free /\ open' = open
      BY <2>1, OthersMoveNothing DEF Held
    <3>2. \A d \in open' : call'[d] = call[d]
      BY <2>1, OthersMoveNothing DEF ConnectionsAccounted, TypeOK
    <3> QED BY <3>1, <3>2 DEF ConnectionsAccounted
  <2>2. CASE UNCHANGED vars
    BY <2>2 DEF vars, ConnectionsAccounted, Held
  <2>3. CASE Die
    <3>1. Held' = {} /\ open' = {} /\ free' = MaxOpenConns
      BY <2>3, DieCleans DEF Held
    <3> QED BY <3>1, FS_EmptySet, PoolAssumption DEF ConnectionsAccounted
  <2>4. CASE StartRPCService
    BY <2>4 DEF StartRPCService, ConnectionsAccounted, Held
  <2> QED BY <2>1, <2>2, <2>3, <2>4, MovesKeepCount DEF Next
<1> QED BY <1>1, InitAccounted, PoolTypes, PTL DEF Spec

-----------------------------------------------------------------------------
\* A step of a call's work changes nothing for the other statements.
LEMMA WorkKeepsStatements ==
  ASSUME TypeOK, ConnectionsAccounted, StatementsAccounted, NEW c \in Calls, Work(c)
  PROVE  StatementsAccounted'
<1>1. \A d \in Calls \ {c} : call'[d] = call[d]
  BY WorkMoves
<1>2. open \subseteq open' /\ stmts \subseteq Calls /\ stmts' \subseteq stmts \cup {c}
  BY WorkMoves DEF Takes, Returns, Leaves, Keeps, Closes, CloseStatement, TypeOK
<1>3. \A d \in stmts' \ {c} : call'[d].at \in {"query", "running"} \/ d \in open'
          \/ (call'[d].at = "over" /\ call'[d].kind \in NoClose)
  BY <1>1, <1>2 DEF StatementsAccounted
<1>4. c \in stmts' => call'[c].at \in {"query", "running"} \/ c \in open'
          \/ (call'[c].at = "over" /\ call'[c].kind \in NoClose)
  <2>1. CASE Closes(c)
    BY <2>1, WorkMoves DEF Closes, CloseStatement
  <2>2. CASE Keeps(c)
    <3>1. call[c].at \in {"prepare", "preparing"} => c \notin stmts
      BY DEF ConnectionsAccounted, StatementsAccounted
    <3> QED BY <2>2, <3>1, <1>2, WorkMoves DEF Keeps
  <2> QED BY <2>1, <2>2, WorkMoves
<1> QED BY <1>3, <1>4 DEF StatementsAccounted

\* The server keeps no statement but those of calls that run, of results left
\* open, and of the two functions without stmt.Close.
THEOREM StatementsSafe == Spec => []StatementsAccounted
<1>1. Init => StatementsAccounted
  BY DEF Init, StatementsAccounted
<1>2. TypeOK /\ ConnectionsAccounted /\ StatementsAccounted /\ [Next]_vars
        => StatementsAccounted'
  <2> SUFFICES ASSUME TypeOK, ConnectionsAccounted, StatementsAccounted, [Next]_vars
               PROVE  StatementsAccounted'
    OBVIOUS
  <2>1. ASSUME NEW c \in Calls, ExecuteAction(c) \/ GiveUp(c)
        PROVE  StatementsAccounted'
    <3>1. stmts' = stmts /\ open' = open /\ stmts \subseteq Calls
      BY <2>1, OthersMoveNothing DEF TypeOK
    <3>2. \A d \in Calls : call[d].at # "idle" => call'[d] = call[d]
      BY <2>1, OthersMoveNothing
    <3> QED BY <3>1, <3>2 DEF StatementsAccounted
  <2>2. CASE UNCHANGED vars
    BY <2>2 DEF vars, StatementsAccounted
  <2>3. CASE Die
    BY <2>3 DEF Die, StatementsAccounted
  <2>4. CASE StartRPCService
    BY <2>4 DEF StartRPCService, StatementsAccounted
  <2>5. ASSUME NEW c \in Calls, Work(c)
        PROVE  StatementsAccounted'
    BY <2>5, WorkKeepsStatements
  <2> QED BY <2>1, <2>2, <2>3, <2>4, <2>5 DEF Next
<1> QED BY <1>1, <1>2, PoolTypes, AccountedSafe, PTL DEF Spec

=============================================================================
