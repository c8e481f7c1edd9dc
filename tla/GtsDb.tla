------------------------------- MODULE GtsDb --------------------------------
(***************************************************************************)
(* The database handle of GTS scripts (stdlib/modules/db.rs) on one SQLite *)
(* file.  The objects begin and prepare give out hold the connection of    *)
(* the handle and nothing of a transaction, so that whatever is called     *)
(* acts on the transaction open at that time; closing puts an empty        *)
(* database in memory in the connection's place.                           *)
(***************************************************************************)
EXTENDS Integers, Sequences, FiniteSets

CONSTANTS DbValues,     \* values of a script, as [kind, n]
          MaxDbCalls    \* calls (a bound)

VARIABLES target,   \* what the connection is to: "file" or "memory"
          stored,   \* rows committed there, for "file" and "memory"
          openTx,   \* 0, or the transaction that is open on the connection
          pending,  \* rows written in it
          facades,  \* transactions begun: their objects live on
          history,  \* every row written: [row, in (the transaction, or 0), to]
          dbAnswer, \* what the last call returned
          dbCalls

dbVars == <<target, stored, openTx, pending, facades, history, dbAnswer, dbCalls>>

\* object_to_sql_param and to_sql, then row_to_hash: what a value is when it
\* comes back.  Booleans become numbers, undefined null, other objects text.
SqlParam(v) ==
    CASE v.kind \in {"null", "undefined"} -> [kind |-> "NULL", n |-> 0]
      [] v.kind = "boolean" -> [kind |-> "INTEGER", n |-> v.n]
      [] v.kind = "integer" -> [kind |-> "INTEGER", n |-> v.n]
      [] v.kind = "fraction" -> [kind |-> "REAL", n |-> v.n]
      [] OTHER -> [kind |-> "TEXT", n |-> v.n]
FromSql(c) ==
    CASE c.kind = "NULL" -> [kind |-> "null", n |-> 0]
      [] c.kind = "INTEGER" -> [kind |-> "integer", n |-> c.n]
      [] c.kind = "REAL" -> [kind |-> "fraction", n |-> c.n]
      [] c.kind = "TEXT" -> [kind |-> "string", n |-> c.n]

DbInit ==
    /\ target = "file"
    /\ stored = [t \in {"file", "memory"} |-> {}]
    /\ openTx = 0
    /\ pending = {}
    /\ facades = 0
    /\ history = {}
    /\ dbAnswer = {}
    /\ dbCalls = 0

DbCalled == dbCalls < MaxDbCalls /\ dbCalls' = dbCalls + 1

\* db_exec of an insert, by the handle or any tx.  A
\* script that goes on after close makes its tables anew.
DbExec(v) ==
    LET row == [value |-> SqlParam(v), nr |-> dbCalls] IN
    /\ DbCalled
    /\ IF openTx = 0 THEN stored' = [stored EXCEPT ![target] = @ \cup {row}] /\ UNCHANGED pending
                     ELSE pending' = pending \cup {row} /\ UNCHANGED stored
    /\ history' = history \cup {[row |-> row, in |-> openTx, to |-> target]}
    /\ UNCHANGED <<target, openTx, facades, dbAnswer>>

\* db_query, queryOne: committed rows and those of the open transaction
DbQuery ==
    /\ DbCalled
    /\ dbAnswer' = {FromSql(r.value) : r \in stored[target] \cup pending}
    /\ UNCHANGED <<target, stored, openTx, pending, facades, history>>

\* db_prepare: a statement keeps its text and is read anew at every call.
DbPrepared(v) == DbExec(v) \/ DbQuery

\* db_begin: an error inside a transaction
DbBegin ==
    /\ DbCalled
    /\ IF openTx = 0 THEN facades' = facades + 1 /\ openTx' = facades + 1 ELSE UNCHANGED <<facades, openTx>>
    /\ UNCHANGED <<target, stored, pending, history, dbAnswer>>

\* tx.commit of any object begin has given out: an error unless a
\* transaction is open, whosever it is.
TxCommit(f) ==
    /\ DbCalled
    /\ f <= facades
    /\ stored' = [stored EXCEPT ![target] = @ \cup pending]
    /\ pending' = {}
    /\ openTx' = 0
    /\ UNCHANGED <<target, facades, history, dbAnswer>>

TxRollback(f) ==
    /\ DbCalled
    /\ f <= facades
    /\ pending' = {}
    /\ openTx' = 0
    /\ UNCHANGED <<target, stored, facades, history, dbAnswer>>

\* db_close: the connection is dropped, and with it the open transaction
DbClose ==
    /\ DbCalled
    /\ target' = "memory"
    /\ stored' = [stored EXCEPT !["memory"] = {}]
    /\ pending' = {}
    /\ openTx' = 0
    /\ UNCHANGED <<facades, history, dbAnswer>>

DbNext ==
    \/ \E v \in DbValues : DbExec(v) \/ DbPrepared(v)
    \/ DbQuery \/ DbBegin \/ DbClose
    \/ \E f \in 1..facades : TxCommit(f) \/ TxRollback(f)

---------------------------------------------------------------------------
\* A transaction is stored as a whole or not at all, whichever objects ended
\* it and whatever was closed in between; nothing written after close gets
\* into the file; and a value that is read and written again stays the same.
TransactionsWhole ==
    /\ \A t \in 1..facades :
          LET wrote == {h.row : h \in {h \in history : h.in = t /\ h.to = "file"}}
          IN  wrote \subseteq stored["file"] \/ wrote \cap stored["file"] = {}
    /\ stored["file"] \subseteq {h.row : h \in {h \in history : h.to = "file"}}
    /\ \A v \in dbAnswer : FromSql(SqlParam(v)) = v
=============================================================================
