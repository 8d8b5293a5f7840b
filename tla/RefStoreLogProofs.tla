-------------------------- MODULE RefStoreLogProofs --------------------------
(***************************************************************************)
(* Proof of ReflogAtomic: a reflog row written by pg_refdb_write or by     *)
(* pg_refdb_unlock becomes visible in the same step as the ref update it   *)
(* logs.  It holds when a git_transaction locks one ref at a time          *)
(* (MaxTokens = 1); with two payloads, run multi_token_unlock shows the    *)
(* second unlock writing its ref and its reflog row in two autocommits.   *)
(***************************************************************************)
EXTENDS RefStoreProofs, FiniteSetTheorems

\* Write steps that run inside the transaction opened by BEGIN.
WriteTxSteps == {"w_select", "w_upsert", "w_reflog", "l_lock"}

(***************************************************************************)
(* What each session's state says about its lock payloads, its            *)
(* transaction and its pending reflog rows:                                *)
(*  - it holds at most one payload, and while it holds one its             *)
(*    transaction (opened by pg_refdb_lock) is open;                       *)
(*  - unlock runs on the payload it holds, every other call holds none;    *)
(*  - write and lock run inside their transaction;                         *)
(*  - when the reflog row is inserted the pending ref holds the new value; *)
(*  - a pending reflog row exists only before COMMIT, and the pending row  *)
(*    of its ref holds the row's new oid.                                  *)
(***************************************************************************)
LogSessionInv(s) ==
    /\ tokens[s] = {} \/ \E n \in Names : tokens[s] = {n}
    /\ tokens[s] # {} => inTx[s]
    /\ pc[s] \in UnlockLabels => tokens[s] = {op[s].name}
    /\ pc[s] \notin UnlockLabels \cup {"idle"} => tokens[s] = {}
    /\ pc[s] \in WriteTxSteps => inTx[s]
    /\ pc[s] \in {"w_reflog", "u_reflog"} => txRefs[s][op[s].name] = op[s].val
    /\ txIns[s] # {} => pc[s] \in {"w_commit", "u_commit"}
    /\ \A e \in txIns[s] : /\ txRefs[s][e.name] \in RefVal
                           /\ txRefs[s][e.name].oid = e.new

LogInv == TypeInv /\ \A s \in Sessions : LogSessionInv(s)

\* What ReflogAtomic asks of one step.
LogStep ==
    \A e \in NewLogRows : refs'[e.name] # NoRef /\ refs'[e.name].oid = e.new

\* Every row of the reflog after the step carries the id of a row before.
OldRows == \A e \in reflog' : \E f \in reflog : f.id = e.id

-----------------------------------------------------------------------------
(***************************************************************************)
(* A step of session t leaves the other sessions' calls, transactions and *)
(* payloads alone; Good says that, that t's own part of the invariant is   *)
(* kept, and that the rows the step makes visible are logged correctly.    *)
(***************************************************************************)
LogLocal(t) ==
    \A s \in Sessions \ {t} :
        /\ pc'[s] = pc[s] /\ op'[s] = op[s] /\ inTx'[s] = inTx[s]
        /\ txRefs'[s] = txRefs[s] /\ txIns'[s] = txIns[s] /\ tokens'[s] = tokens[s]

LGood(t) == LogLocal(t) /\ LogSessionInv(t)' /\ LogStep

USE ConstantsAssumption

LEMMA FrameLogInv ==
    ASSUME NEW t \in Sessions, NEW s \in Sessions, s # t,
           LogLocal(t), LogSessionInv(s)
    PROVE  LogSessionInv(s)'
<1>1. /\ pc'[s] = pc[s] /\ op'[s] = op[s] /\ inTx'[s] = inTx[s]
      /\ txRefs'[s] = txRefs[s] /\ txIns'[s] = txIns[s] /\ tokens'[s] = tokens[s]
  BY DEF LogLocal
<1> QED
  BY <1>1 DEF LogSessionInv

\* A step that makes no new reflog row visible satisfies LogStep.
LEMMA OldRowsStep ==
    ASSUME OldRows PROVE LogStep
BY DEF OldRows, LogStep, NewLogRows

LEMMA SentinelsNotRef ==
    NoRef \notin RefVal /\ Untouched \notin RefVal
BY DEF Sentinels

(***************************************************************************)
(* COMMIT or ROLLBACK, and the call returns holding no payload.  COMMIT   *)
(* makes the transaction's pending reflog rows visible together with its  *)
(* pending ref rows, which hold the rows' new oids.                        *)
(***************************************************************************)
LEMMA EndLGood ==
    ASSUME LogInv, NEW t \in Sessions, NEW a \in BOOLEAN, NEW r,
           EndTx(t, a), Return(t, r),
           tokens'[t] = {}, \A s \in Sessions \ {t} : tokens'[s] = tokens[s]
    PROVE  LGood(t)
<1>1. LogLocal(t)
  BY DEF EndTx, Return, LogLocal, LogInv, TypeInv, TypeOK
<1>2. pc'[t] = "idle" /\ ~inTx'[t] /\ txIns'[t] = {}
  BY DEF EndTx, Return, LogInv, TypeInv, TypeOK
<1>3. LogSessionInv(t)'
  BY <1>2 DEF LogSessionInv, UnlockLabels, WriteTxSteps
<1>4. LogStep
  <2>1. CASE ~a
    <3>1. reflog' = reflog
      BY <2>1 DEF EndTx
    <3>2. OldRows
      BY <3>1 DEF OldRows
    <3> QED
      BY <3>2, OldRowsStep
  <2>2. CASE a
    <3> SUFFICES ASSUME NEW e \in NewLogRows
                 PROVE  refs'[e.name] # NoRef /\ refs'[e.name].oid = e.new
      BY DEF LogStep
    <3>1. reflog' = VisibleLog(t) /\ refs' = [n \in Names |-> View(t, n)]
      BY <2>2 DEF EndTx
    <3>2. reflog \subseteq LogEntry /\ txIns[t] \subseteq LogEntry
      BY DEF LogInv, TypeInv, TypeOK
    <3>3. e \in txIns[t]
      <4>1. e \in reflog' /\ \A f \in reflog : f.id # e.id
        BY DEF NewLogRows
      <4>2. ASSUME NEW f \in reflog PROVE [f EXCEPT !.name = LogName(t, f)].id = f.id
        BY <3>2 DEF LogEntry
      <4> QED
        BY <3>1, <4>1, <4>2 DEF VisibleLog
    <3>4. txRefs[t][e.name] \in RefVal /\ txRefs[t][e.name].oid = e.new
      BY <3>3 DEF LogInv, LogSessionInv
    <3>5. e.name \in Names
      BY <3>2, <3>3 DEF LogEntry
    <3>6. refs'[e.name] = txRefs[t][e.name]
      BY <3>1, <3>4, <3>5, SentinelsNotRef DEF View
    <3> QED
      BY <3>4, <3>6, SentinelsNotRef
  <2> QED
    BY <2>1, <2>2
<1> QED
  BY <1>1, <1>3, <1>4 DEF LGood

\* A checked statement of a call other than unlock fails: ROLLBACK.
LEMMA FailLGood ==
    ASSUME LogInv, NEW t \in Sessions, FailCall(t), UNCHANGED tokens,
           pc[t] \notin UnlockLabels \cup {"idle"}
    PROVE  LGood(t)
<1>1. tokens[t] = {}
  BY DEF LogInv, LogSessionInv
<1> QED
  BY <1>1, EndLGood DEF FailCall, Rollback

(***************************************************************************)
(* A round trip that moves the call on to l and inserts no reflog row,    *)
(* given what l needs of the session's state.                              *)
(***************************************************************************)
LEMMA GotoLGood ==
    ASSUME LogInv, NEW t \in Sessions, NEW l, Goto(t, l),
           UNCHANGED <<inTx, tokens>>, OldRows, txIns'[t] = {},
           \A s \in Sessions \ {t} : txIns'[s] = txIns[s] /\ txRefs'[s] = txRefs[s],
           l \in UnlockLabels => tokens[t] = {op[t].name},
           l \notin UnlockLabels \cup {"idle"} => tokens[t] = {},
           l \in WriteTxSteps => inTx[t],
           l \in {"w_reflog", "u_reflog"} => txRefs'[t][op[t].name] = op[t].val
    PROVE  LGood(t)
<1>1. LogLocal(t)
  BY DEF Goto, LogLocal, LogInv, TypeInv, TypeOK
<1>2. pc'[t] = l /\ op'[t] = op[t]
  BY DEF Goto, LogInv, TypeInv, TypeOK
<1>3. LogSessionInv(t)'
  BY <1>2 DEF LogSessionInv, LogInv
<1> QED
  BY <1>1, <1>3, OldRowsStep DEF LGood

(***************************************************************************)
(* An idle session holding no payload starts a call at first, opening its *)
(* transaction, or BEGIN fails and the call returns.                       *)
(***************************************************************************)
LEMMA StartLGood ==
    ASSUME LogInv, NEW t \in Sessions, NEW o, NEW first,
           pc[t] = "idle", tokens[t] = {}, Begin(t, o, first),
           first \notin UnlockLabels \cup {"idle", "w_reflog", "u_reflog"},
           UNCHANGED <<reflog, txRefs, txIns, tokens>>
    PROVE  LGood(t)
<1>1. txIns[t] = {}
  BY DEF LogInv, LogSessionInv
<1>2. OldRows
  BY DEF OldRows
<1>3. CASE inTx' = [inTx EXCEPT ![t] = TRUE] /\ pc' = [pc EXCEPT ![t] = first]
           /\ op' = [op EXCEPT ![t] = o]
  <2>1. LogLocal(t)
    BY <1>3 DEF LogLocal, LogInv, TypeInv, TypeOK
  <2>2. inTx'[t] /\ pc'[t] = first
    BY <1>3 DEF LogInv, TypeInv, TypeOK
  <2>4. tokens'[t] = {} /\ txIns'[t] = {}
    BY <1>1
  <2>3. LogSessionInv(t)'
    BY <2>2, <2>4 DEF LogSessionInv
  <2> QED
    BY <1>2, <2>1, <2>3, OldRowsStep DEF LGood
<1>4. CASE Return(t, "error") /\ UNCHANGED inTx
  <2>1. LogLocal(t)
    BY <1>4 DEF Return, LogLocal, LogInv, TypeInv, TypeOK
  <2>2. pc'[t] = "idle"
    BY <1>4 DEF Return, LogInv, TypeInv, TypeOK
  <2>4. tokens'[t] = {} /\ txIns'[t] = {}
    BY <1>1
  <2>3. LogSessionInv(t)'
    BY <2>2, <2>4 DEF LogSessionInv, UnlockLabels, WriteTxSteps
  <2> QED
    BY <1>2, <2>1, <2>3, OldRowsStep DEF LGood
<1> QED
  BY <1>3, <1>4 DEF Begin

(***************************************************************************)
(* The UPDATE and the DELETE of reflog rows make no new row: in           *)
(* autocommit the rows keep their ids, inside a transaction they only      *)
(* record pending renames and deletions, and a transaction with no        *)
(* pending inserted row still has none.                                   *)
(***************************************************************************)
LEMMA LogRowsKept ==
    ASSUME TypeOK, NEW t \in Sessions, NEW f, NEW m, txIns[t] = {},
           RenameLogRows(t, f, m) \/ DeleteLogRows(t, m)
    PROVE  /\ OldRows /\ txIns'[t] = {}
           /\ \A s \in Sessions \ {t} : txIns'[s] = txIns[s]
<1>1. CASE inTx[t]
  <2>1. reflog' = reflog
    BY <1>1 DEF RenameLogRows, DeleteLogRows
  <2>2. txIns' = [txIns EXCEPT ![t] = {}]
    BY <1>1 DEF RenameLogRows, DeleteLogRows, TypeOK
  <2> QED
    BY <2>1, <2>2 DEF OldRows, TypeOK
<1>2. CASE ~inTx[t]
  <2>1. txIns' = txIns
    BY <1>2 DEF RenameLogRows, DeleteLogRows
  <2>2. ASSUME NEW e \in reflog
        PROVE  (IF e.name = f THEN [e EXCEPT !.name = m] ELSE e).id = e.id
    BY DEF TypeOK, LogEntry
  <2>3. OldRows
    BY <1>2, <2>2 DEF RenameLogRows, DeleteLogRows, OldRows
  <2> QED
    BY <2>1, <2>3
<1> QED
  BY <1>1, <1>2

\* An upsert or delete of a ref writes only the session's pending rows,
\* and inside the transaction it is pending there.
LEMMA SetRefFrame ==
    ASSUME TypeOK, NEW t \in Sessions, NEW n \in Names, NEW v, SetRef(t, n, v)
    PROVE  /\ \A s \in Sessions \ {t} : txRefs'[s] = txRefs[s]
           /\ inTx[t] => txRefs'[t][n] = v
BY DEF SetRef, TypeOK

(***************************************************************************)
(* write_reflog_entry inside the transaction of write or unlock: the row  *)
(* is pending, and the pending ref row already holds the value it logs.   *)
(***************************************************************************)
LEMMA InsertLGood ==
    ASSUME LogInv, NEW t \in Sessions, NEW o, NEW l,
           pc[t] \in {"w_reflog", "u_reflog"},
           InsertLog(t, op[t].name, o, op[t].val.oid), Goto(t, l),
           l \in {"w_commit", "u_commit"}, l = "u_commit" <=> pc[t] = "u_reflog",
           UNCHANGED <<inTx, txRefs, tokens>>
    PROVE  LGood(t)
<1> DEFINE e == [id |-> nextId, name |-> op[t].name, old |-> o, new |-> op[t].val.oid]
<1>1. LogSessionInv(t)
  BY DEF LogInv
<1>2. inTx[t]
  BY <1>1 DEF LogSessionInv, WriteTxSteps, UnlockLabels
<1>3. txIns[t] = {}
  BY <1>1 DEF LogSessionInv
<1>4. txIns' = [txIns EXCEPT ![t] = txIns[t] \cup {e}] /\ reflog' = reflog
  BY <1>2 DEF InsertLog
<1>5. txIns'[t] = {e} /\ \A s \in Sessions \ {t} : txIns'[s] = txIns[s]
  BY <1>3, <1>4 DEF LogInv, TypeInv, TypeOK
<1>6. txRefs[t][op[t].name] = op[t].val /\ op[t].val \in RefVal
  BY <1>1 DEF LogSessionInv, LogInv, TypeInv, ArgsTyped, WritesVal
<1>7. LogLocal(t)
  BY <1>5 DEF Goto, LogLocal, LogInv, TypeInv, TypeOK
<1>8. pc'[t] = l /\ op'[t] = op[t]
  BY DEF Goto, LogInv, TypeInv, TypeOK
<1>9. l \in UnlockLabels => tokens[t] = {op[t].name}
  BY <1>1 DEF LogSessionInv, UnlockLabels
<1>10. l \notin UnlockLabels => tokens[t] = {}
  BY <1>1 DEF LogSessionInv, UnlockLabels
<1>11. \A x \in txIns'[t] : /\ txRefs'[t][x.name] \in RefVal
                            /\ txRefs'[t][x.name].oid = x.new
  BY <1>5, <1>6
<1>12. LogSessionInv(t)'
  BY <1>1, <1>8, <1>9, <1>10, <1>11 DEF LogSessionInv, WriteTxSteps, UnlockLabels
<1>13. OldRows
  BY <1>4 DEF OldRows
<1> QED
  BY <1>7, <1>12, <1>13, OldRowsStep DEF LGood

\* COMMIT at the end of write, del or rename, or ROLLBACK if it fails.
LEMMA CommitCallLGood ==
    ASSUME LogInv, NEW t \in Sessions, CommitCall(t), UNCHANGED tokens,
           pc[t] \notin UnlockLabels \cup {"idle"}
    PROVE  LGood(t)
<1>1. tokens[t] = {} /\ aborted[t] \in BOOLEAN
  BY DEF LogInv, LogSessionInv, TypeInv, TypeOK
<1>2. CASE Commit(t) /\ Return(t, "ok")
  BY <1>1, <1>2, EndLGood DEF Commit
<1>3. CASE FailCall(t)
  BY <1>3, FailLGood
<1> QED
  BY <1>2, <1>3 DEF CommitCall

-----------------------------------------------------------------------------
(***************************************************************************)
(* The calls that start a transaction.  pg_refdb_lock may start only       *)
(* while the session holds no payload: its guard allows fewer than         *)
(* MaxTokens = 1.                                                          *)
(***************************************************************************)
LEMMA WriteStartLGood ==
    ASSUME LogInv, NEW t \in Sessions, pg_refdb_write(t)
    PROVE  LGood(t)
<1>1. PICK n \in Names, v \in RefVal, f \in BOOLEAN,
           o \in Oids \cup {None}, ot \in Names \cup {None} :
          /\ StartCall(t)
          /\ Begin(t, Op("write", n, None, v, o, ot, f, 0, TRUE),
                   IF f THEN "w_upsert" ELSE "w_select")
  BY DEF pg_refdb_write
<1> QED
  BY <1>1, StartLGood DEF pg_refdb_write, StartCall, UnlockLabels, dbVars

LEMMA DelStartLGood ==
    ASSUME LogInv, NEW t \in Sessions, pg_refdb_del(t)
    PROVE  LGood(t)
<1>1. PICK n \in Names, o \in Oids \cup {None}, ot \in Names \cup {None} :
          /\ StartCall(t)
          /\ Begin(t, Op("del", n, None, None, o, ot, FALSE, 0, FALSE),
                   IF o = None /\ ot = None THEN "d_delete" ELSE "d_select")
  BY DEF pg_refdb_del
<1> QED
  BY <1>1, StartLGood DEF pg_refdb_del, StartCall, UnlockLabels, dbVars

LEMMA RenameStartLGood ==
    ASSUME LogInv, NEW t \in Sessions, pg_refdb_rename(t)
    PROVE  LGood(t)
<1>1. PICK n \in Names, m \in Names, f \in BOOLEAN :
          /\ StartCall(t)
          /\ Begin(t, Op("rename", n, m, None, None, None, f, 0, FALSE),
                   IF f THEN "r_delnew" ELSE "r_check")
  BY DEF pg_refdb_rename
<1> QED
  BY <1>1, StartLGood DEF pg_refdb_rename, StartCall, UnlockLabels, dbVars

\* With one payload allowed, a session that holds one cannot lock again.
LEMMA TokensEmpty ==
    ASSUME MaxTokens = 1, NEW t \in Sessions, LogSessionInv(t),
           Cardinality(tokens[t]) < MaxTokens
    PROVE  tokens[t] = {}
<1>1. ASSUME NEW n, tokens[t] = {n} PROVE FALSE
  <2>1. Cardinality({n}) = 1
    BY FS_Singleton
  <2>2. Cardinality(tokens[t]) = 1
    BY <1>1, <2>1
  <2> QED
    BY <2>2
<1> QED
  BY <1>1 DEF LogSessionInv

LEMMA LockStartLGood ==
    ASSUME MaxTokens = 1, LogInv, NEW t \in Sessions, pg_refdb_lock(t)
    PROVE  LGood(t)
<1>1. tokens[t] = {}
  BY TokensEmpty DEF pg_refdb_lock, LogInv
<1>2. PICK n \in Names \ tokens[t] :
          /\ StartCall(t)
          /\ Begin(t, Op("lock", n, None, None, None, None, FALSE, 0, FALSE), "l_lock")
  BY DEF pg_refdb_lock
<1> QED
  BY <1>1, <1>2, StartLGood DEF pg_refdb_lock, StartCall, UnlockLabels, dbVars

\* pg_refdb_reflog_rename and pg_refdb_reflog_delete: one autocommit
\* statement, which keeps the ids of the rows.
LEMMA ReflogCallLGood ==
    ASSUME LogInv, NEW t \in Sessions,
           pg_refdb_reflog_rename(t) \/ pg_refdb_reflog_delete(t)
    PROVE  LGood(t)
<1>1. /\ pc[t] = "idle" /\ tokens[t] = {}
      /\ Return(t, "ok") \/ Return(t, "error")
      /\ UNCHANGED <<inTx, txRefs, tokens>>
  BY DEF pg_refdb_reflog_rename, pg_refdb_reflog_delete, StartCall
<1>2. txIns[t] = {}
  BY <1>1 DEF LogInv, LogSessionInv
<1>3. /\ OldRows /\ txIns'[t] = {}
      /\ \A s \in Sessions \ {t} : txIns'[s] = txIns[s]
  <2>1. CASE \E n, m \in Names : RenameLogRows(t, n, m)
    BY <1>2, <2>1, LogRowsKept DEF LogInv, TypeInv
  <2>2. CASE \E n \in Names : DeleteLogRows(t, n)
    BY <1>2, <2>1, <2>2, LogRowsKept DEF LogInv, TypeInv
  <2>3. CASE UNCHANGED <<reflog, txIns>>
    BY <1>2, <2>3 DEF OldRows
  <2> QED
    BY <2>1, <2>2, <2>3 DEF pg_refdb_reflog_rename, pg_refdb_reflog_delete
<1>4. LogLocal(t) /\ pc'[t] = "idle"
  BY <1>1, <1>3 DEF Return, LogLocal, LogInv, TypeInv, TypeOK
<1>5. LogSessionInv(t)'
  BY <1>1, <1>3, <1>4 DEF LogSessionInv, UnlockLabels, WriteTxSteps
<1> QED
  BY <1>3, <1>4, <1>5, OldRowsStep DEF LGood

\* libgit2 hands back the payload it holds: the unlock call starts on it,
\* inside the transaction pg_refdb_lock opened.
LEMMA UnlockStartLGood ==
    ASSUME LogInv, NEW t \in Sessions, pg_refdb_unlock(t)
    PROVE  LGood(t)
<1>1. PICK n \in tokens[t], d \in 0..2 :
        \E v \in (IF d = 1 THEN RefVal ELSE {None}),
           g \in (IF d = 1 THEN BOOLEAN ELSE {FALSE}) :
          /\ op' = [op EXCEPT ![t] = Op("unlock", n, None, v, None, None, FALSE, d, g)]
          /\ pc' = [pc EXCEPT ![t] = CASE d = 1 -> "u_write" [] d = 2 -> "u_delete"
                                       [] OTHER -> "u_commit"]
  BY DEF pg_refdb_unlock
<1>2. tokens[t] = {n} /\ inTx[t] /\ txIns[t] = {}
  BY DEF pg_refdb_unlock, LogInv, LogSessionInv
<1>3. /\ op'[t].name = n
      /\ pc'[t] \in {"u_write", "u_delete", "u_commit"}
  BY <1>1 DEF LogInv, TypeInv, TypeOK, Op
<1>4. UNCHANGED <<inTx, txRefs, txIns, tokens, reflog>>
  BY DEF pg_refdb_unlock, txVars, dbVars
<1>5. LogLocal(t)
  BY <1>1, <1>4 DEF LogLocal, LogInv, TypeInv, TypeOK
<1>8. tokens'[t] = {n} /\ inTx'[t] /\ txIns'[t] = {}
  BY <1>2, <1>4
<1>9. n \in Names
  BY DEF LogInv, TypeInv, TypeOK
<1>6. LogSessionInv(t)'
  BY <1>3, <1>8, <1>9 DEF LogSessionInv, UnlockLabels, WriteTxSteps
<1>7. OldRows
  BY <1>4 DEF OldRows
<1> QED
  BY <1>5, <1>6, <1>7, OldRowsStep DEF LGood

-----------------------------------------------------------------------------
(***************************************************************************)
(* The round trips of pg_refdb_write and pg_refdb_del.                     *)
(***************************************************************************)
\* What a session at label l of a call other than unlock knows.
LEMMA InCall ==
    ASSUME LogInv, NEW t \in Sessions, pc[t] \notin UnlockLabels \cup {"idle"}
    PROVE  /\ tokens[t] = {}
           /\ pc[t] \notin {"w_commit", "u_commit"} => txIns[t] = {}
           /\ pc[t] \in WriteTxSteps => inTx[t]
           /\ op[t].name \in Names
BY DEF LogInv, LogSessionInv, TypeInv, ArgsTyped

LEMMA WriteSelectLGood ==
    ASSUME LogInv, NEW t \in Sessions, WriteSelect(t)
    PROVE  LGood(t)
<1> DEFINE r == WriteCheck(op[t], View(t, op[t].name))
<1>1. /\ pc[t] = "w_select" /\ UNCHANGED tokens
      /\ tokens[t] = {} /\ inTx[t] /\ txIns[t] = {}
  BY InCall DEF WriteSelect, UnlockLabels, WriteTxSteps
<1>2. CASE FailCall(t)
  BY <1>1, <1>2, FailLGood DEF UnlockLabels
<1>3. CASE ~FailCall(t) /\ r # "ok"
  BY <1>1, <1>3, EndLGood DEF WriteSelect, Rollback
<1>4. CASE ~FailCall(t) /\ r = "ok"
  <2>1. Goto(t, "w_upsert") /\ UNCHANGED <<reflog, inTx, txRefs, txIns>>
    BY <1>4 DEF WriteSelect, txVars
  <2> QED
    BY <1>1, <2>1, GotoLGood DEF OldRows, UnlockLabels, WriteTxSteps
<1> QED
  BY <1>2, <1>3, <1>4

LEMMA WriteUpsertLGood ==
    ASSUME LogInv, NEW t \in Sessions, WriteUpsert(t)
    PROVE  LGood(t)
<1>1. /\ pc[t] = "w_upsert" /\ UNCHANGED tokens
      /\ tokens[t] = {} /\ inTx[t] /\ txIns[t] = {} /\ op[t].name \in Names
  BY InCall DEF WriteUpsert, UnlockLabels, WriteTxSteps
<1>2. CASE FailCall(t)
  BY <1>1, <1>2, FailLGood DEF UnlockLabels
<1>3. CASE /\ SetRef(t, op[t].name, op[t].val)
           /\ Goto(t, "w_reflog")
           /\ UNCHANGED <<reflog, inTx, txIns>>
  <2>1. /\ \A s \in Sessions \ {t} : txRefs'[s] = txRefs[s]
        /\ txRefs'[t][op[t].name] = op[t].val
    BY <1>1, <1>3, SetRefFrame DEF LogInv, TypeInv
  <2> QED
    BY <1>1, <1>3, <2>1, GotoLGood DEF OldRows, UnlockLabels, WriteTxSteps
<1> QED
  BY <1>2, <1>3 DEF WriteUpsert

LEMMA WriteReflogLGood ==
    ASSUME LogInv, NEW t \in Sessions, WriteReflog(t)
    PROVE  LGood(t)
<1>1. pc[t] = "w_reflog" /\ UNCHANGED tokens
  BY DEF WriteReflog
<1>2. CASE FailCall(t)
  BY <1>1, <1>2, FailLGood DEF UnlockLabels
<1>3. CASE /\ InsertLog(t, op[t].name, op[t].old, op[t].val.oid)
           /\ Goto(t, "w_commit")
           /\ UNCHANGED <<inTx, txRefs>>
  BY <1>1, <1>3, InsertLGood
<1> QED
  BY <1>2, <1>3 DEF WriteReflog

LEMMA WriteCommitLGood ==
    ASSUME LogInv, NEW t \in Sessions, WriteCommit(t)
    PROVE  LGood(t)
BY CommitCallLGood DEF WriteCommit, UnlockLabels

LEMMA DelSelectLGood ==
    ASSUME LogInv, NEW t \in Sessions, DelSelect(t)
    PROVE  LGood(t)
<1> DEFINE r == DelCheck(op[t], View(t, op[t].name))
<1>1. /\ pc[t] = "d_select" /\ UNCHANGED tokens
      /\ tokens[t] = {} /\ txIns[t] = {}
  BY InCall DEF DelSelect, UnlockLabels
<1>2. CASE FailCall(t)
  BY <1>1, <1>2, FailLGood DEF UnlockLabels
<1>3. CASE ~FailCall(t) /\ r # "ok"
  BY <1>1, <1>3, EndLGood DEF DelSelect, Rollback
<1>4. CASE ~FailCall(t) /\ r = "ok"
  <2>1. Goto(t, "d_delete") /\ UNCHANGED <<reflog, inTx, txRefs, txIns>>
    BY <1>4 DEF DelSelect, txVars
  <2> QED
    BY <1>1, <2>1, GotoLGood DEF OldRows, UnlockLabels, WriteTxSteps
<1> QED
  BY <1>2, <1>3, <1>4

(***************************************************************************)
(* A DELETE of a ref row by del, by rename with force or by unlock: the   *)
(* session's pending rows change only at that name.                        *)
(***************************************************************************)
LEMMA DeleteRefFrame ==
    ASSUME LogInv, NEW t \in Sessions, NEW n \in Names,
           IF Visible(t, n) THEN SetRef(t, n, NoRef) ELSE UNCHANGED <<refs, txRefs, rowLock>>
    PROVE  \A s \in Sessions \ {t} : txRefs'[s] = txRefs[s]
<1>1. CASE Visible(t, n)
  BY <1>1, SetRefFrame DEF LogInv, TypeInv
<1>2. CASE ~Visible(t, n)
  BY <1>2
<1> QED
  BY <1>1, <1>2

LEMMA DelDeleteLGood ==
    ASSUME LogInv, NEW t \in Sessions, DelDelete(t)
    PROVE  LGood(t)
<1>1. /\ pc[t] = "d_delete" /\ UNCHANGED tokens
      /\ tokens[t] = {} /\ txIns[t] = {} /\ op[t].name \in Names
  BY InCall DEF DelDelete, UnlockLabels
<1>2. CASE FailCall(t)
  BY <1>1, <1>2, FailLGood DEF UnlockLabels
<1>3. CASE /\ IF Visible(t, op[t].name) THEN SetRef(t, op[t].name, NoRef)
                                       ELSE UNCHANGED <<refs, txRefs, rowLock>>
           /\ Goto(t, "d_reflog")
           /\ UNCHANGED <<reflog, inTx, txIns>>
  <2>1. \A s \in Sessions \ {t} : txRefs'[s] = txRefs[s]
    BY <1>1, <1>3, DeleteRefFrame
  <2> QED
    BY <1>1, <1>3, <2>1, GotoLGood DEF OldRows, UnlockLabels, WriteTxSteps
<1> QED
  BY <1>2, <1>3 DEF DelDelete

(***************************************************************************)
(* The unchecked statement on the reflog of del, rename and unlock: it    *)
(* runs or fails, and the call goes on to l.                               *)
(***************************************************************************)
LEMMA LogStmtLGood ==
    ASSUME LogInv, NEW t \in Sessions, NEW l, NEW f, NEW m,
           \/ RenameLogRows(t, f, m) \/ DeleteLogRows(t, m)
           \/ UNCHANGED <<reflog, txIns>>,
           Goto(t, l), UNCHANGED <<inTx, txRefs, tokens>>,
           txIns[t] = {},
           l \in UnlockLabels => tokens[t] = {op[t].name},
           l \notin UnlockLabels \cup {"idle"} => tokens[t] = {},
           l \notin WriteTxSteps \cup {"w_reflog", "u_reflog"}
    PROVE  LGood(t)
<1>1. /\ OldRows /\ txIns'[t] = {}
      /\ \A s \in Sessions \ {t} : txIns'[s] = txIns[s]
  <2>1. CASE RenameLogRows(t, f, m) \/ DeleteLogRows(t, m)
    BY <2>1, LogRowsKept DEF LogInv, TypeInv
  <2>2. CASE UNCHANGED <<reflog, txIns>>
    BY <2>2 DEF OldRows
  <2> QED
    BY <2>1, <2>2
<1> QED
  BY <1>1, GotoLGood

LEMMA DelReflogLGood ==
    ASSUME LogInv, NEW t \in Sessions, DelReflog(t)
    PROVE  LGood(t)
<1>1. /\ pc[t] = "d_reflog" /\ tokens[t] = {} /\ txIns[t] = {}
  BY InCall DEF DelReflog, UnlockLabels
<1>2. /\ \/ DeleteLogRows(t, op[t].name)
         \/ UNCHANGED <<reflog, txIns>>
      /\ Goto(t, "d_commit") /\ UNCHANGED <<inTx, txRefs, tokens>>
  BY DEF DelReflog
<1> QED
  BY <1>1, <1>2, LogStmtLGood DEF UnlockLabels, WriteTxSteps

LEMMA DelCommitLGood ==
    ASSUME LogInv, NEW t \in Sessions, DelCommit(t)
    PROVE  LGood(t)
BY CommitCallLGood DEF DelCommit, UnlockLabels

-----------------------------------------------------------------------------
(***************************************************************************)
(* The round trips of pg_refdb_rename and pg_refdb_lock.                  *)
(***************************************************************************)
LEMMA RenameCheckLGood ==
    ASSUME LogInv, NEW t \in Sessions, RenameCheck(t)
    PROVE  LGood(t)
<1>1. /\ pc[t] = "r_check" /\ UNCHANGED tokens
      /\ tokens[t] = {} /\ txIns[t] = {}
  BY InCall DEF RenameCheck, UnlockLabels
<1>2. CASE FailCall(t)
  BY <1>1, <1>2, FailLGood DEF UnlockLabels
<1>3. CASE Rollback(t) /\ Return(t, "exists")
  BY <1>1, <1>3, EndLGood DEF Rollback
<1>4. CASE Goto(t, "r_update") /\ UNCHANGED <<reflog, txVars>>
  BY <1>1, <1>4, GotoLGood DEF OldRows, UnlockLabels, WriteTxSteps, txVars
<1> QED
  BY <1>2, <1>3, <1>4 DEF RenameCheck

LEMMA RenameDelNewLGood ==
    ASSUME LogInv, NEW t \in Sessions, RenameDelNew(t)
    PROVE  LGood(t)
<1>1. /\ pc[t] = "r_delnew" /\ tokens[t] = {} /\ txIns[t] = {}
      /\ op[t].to \in Names
  BY InCall DEF RenameDelNew, UnlockLabels, LogInv, TypeInv, ArgsTyped, RenameSteps
<1>2. /\ Goto(t, "r_update") /\ UNCHANGED <<reflog, inTx, txIns, tokens>>
  BY DEF RenameDelNew
<1>3. \A s \in Sessions \ {t} : txRefs'[s] = txRefs[s]
  <2>1. CASE IF Visible(t, op[t].to) THEN SetRef(t, op[t].to, NoRef)
                                     ELSE UNCHANGED <<refs, txRefs, rowLock>>
    BY <1>1, <2>1, DeleteRefFrame
  <2>2. CASE UNCHANGED <<refs, txRefs, rowLock>>
    BY <2>2
  <2> QED
    BY <2>1, <2>2 DEF RenameDelNew
<1> QED
  BY <1>1, <1>2, <1>3, GotoLGood DEF OldRows, UnlockLabels, WriteTxSteps

LEMMA RenameUpdateLGood ==
    ASSUME LogInv, NEW t \in Sessions, RenameUpdate(t)
    PROVE  LGood(t)
<1>1. /\ pc[t] = "r_update" /\ UNCHANGED tokens
      /\ tokens[t] = {} /\ txIns[t] = {}
  BY InCall DEF RenameUpdate, UnlockLabels
<1>2. CASE FailCall(t)
  BY <1>1, <1>2, FailLGood DEF UnlockLabels
<1>3. CASE Rollback(t) /\ (Return(t, "error") \/ Return(t, "notfound"))
  BY <1>1, <1>3, EndLGood DEF Rollback
<1>4. CASE /\ txRefs' = [txRefs EXCEPT ![t][op[t].to] = View(t, op[t].name),
                                       ![t][op[t].name] = NoRef]
           /\ Goto(t, "r_reflog")
           /\ UNCHANGED <<reflog, inTx, txIns>>
  <2>1. \A s \in Sessions \ {t} : txRefs'[s] = txRefs[s]
    BY <1>4 DEF LogInv, TypeInv, TypeOK
  <2> QED
    BY <1>1, <1>4, <2>1, GotoLGood DEF OldRows, UnlockLabels, WriteTxSteps
<1> QED
  BY <1>2, <1>3, <1>4 DEF RenameUpdate

LEMMA RenameReflogLGood ==
    ASSUME LogInv, NEW t \in Sessions, RenameReflog(t)
    PROVE  LGood(t)
<1>1. /\ pc[t] = "r_reflog" /\ tokens[t] = {} /\ txIns[t] = {}
  BY InCall DEF RenameReflog, UnlockLabels
<1>2. /\ \/ RenameLogRows(t, op[t].name, op[t].to)
         \/ UNCHANGED <<reflog, txIns>>
      /\ Goto(t, "r_finish") /\ UNCHANGED <<inTx, txRefs, tokens>>
  BY DEF RenameReflog
<1> QED
  BY <1>1, <1>2, LogStmtLGood DEF UnlockLabels, WriteTxSteps

LEMMA RenameFinishLGood ==
    ASSUME LogInv, NEW t \in Sessions, RenameFinish(t)
    PROVE  LGood(t)
<1>1. /\ pc[t] = "r_finish" /\ UNCHANGED tokens /\ tokens[t] = {}
  BY InCall DEF RenameFinish, UnlockLabels
<1>2. CASE Rollback(t) /\ Return(t, "error")
  BY <1>1, <1>2, EndLGood DEF Rollback
<1>3. CASE CommitCall(t)
  BY <1>1, <1>3, CommitCallLGood DEF UnlockLabels
<1> QED
  BY <1>2, <1>3 DEF RenameFinish

\* pg_advisory_xact_lock succeeds: the session holds the payload, inside
\* the transaction pg_refdb_lock opened.
LEMMA LockAcquireLGood ==
    ASSUME LogInv, NEW t \in Sessions, LockAcquire(t)
    PROVE  LGood(t)
<1>1. /\ pc[t] = "l_lock" /\ tokens[t] = {} /\ inTx[t] /\ txIns[t] = {}
      /\ op[t].name \in Names
  BY InCall DEF LockAcquire, UnlockLabels, WriteTxSteps
<1>2. CASE FailCall(t) /\ UNCHANGED tokens
  BY <1>1, <1>2, FailLGood DEF UnlockLabels
<1>3. CASE /\ tokens' = [tokens EXCEPT ![t] = @ \cup {op[t].name}]
           /\ Return(t, "ok")
           /\ UNCHANGED <<dbVars, txVars>>
  <2>1. tokens'[t] = {op[t].name} /\ pc'[t] = "idle"
        /\ inTx'[t] /\ txIns'[t] = {}
    BY <1>1, <1>3 DEF Return, LogInv, TypeInv, TypeOK, txVars
  <2>2. LogLocal(t)
    BY <1>3 DEF Return, LogLocal, LogInv, TypeInv, TypeOK, txVars
  <2>3. LogSessionInv(t)'
    BY <1>1, <2>1 DEF LogSessionInv, UnlockLabels, WriteTxSteps
  <2>4. OldRows
    BY <1>3 DEF OldRows, dbVars
  <2> QED
    BY <2>2, <2>3, <2>4, OldRowsStep DEF LGood
<1> QED
  BY <1>2, <1>3 DEF LockAcquire

-----------------------------------------------------------------------------
(***************************************************************************)
(* The round trips of pg_refdb_unlock, inside the transaction of the lock *)
(* whose payload the call frees.                                           *)
(***************************************************************************)
LEMMA InUnlock ==
    ASSUME LogInv, NEW t \in Sessions, pc[t] \in UnlockLabels
    PROVE  /\ tokens[t] = {op[t].name} /\ inTx[t]
           /\ pc[t] # "u_commit" => txIns[t] = {}
           /\ op[t].name \in Names
BY DEF LogInv, LogSessionInv, TypeInv, ArgsTyped, UnlockLabels

\* A checked statement of unlock fails: the call goes on to its ROLLBACK.
LEMMA UnlockFailLGood ==
    ASSUME LogInv, NEW t \in Sessions, pc[t] \in UnlockLabels \ {"u_commit"},
           Goto(t, "u_rollback"), UNCHANGED <<reflog, inTx, txRefs, txIns, tokens>>
    PROVE  LGood(t)
<1>1. tokens[t] = {op[t].name} /\ txIns[t] = {}
  BY InUnlock
<1> QED
  BY <1>1, GotoLGood DEF OldRows, UnlockLabels, WriteTxSteps

LEMMA UnlockWriteLGood ==
    ASSUME LogInv, NEW t \in Sessions, UnlockWrite(t)
    PROVE  LGood(t)
<1>1. /\ pc[t] = "u_write" /\ UNCHANGED tokens
      /\ tokens[t] = {op[t].name} /\ inTx[t] /\ txIns[t] = {} /\ op[t].name \in Names
  BY InUnlock DEF UnlockWrite, UnlockLabels
<1>2. CASE Goto(t, "u_rollback") /\ UNCHANGED <<reflog, inTx, txRefs, txIns>>
  BY <1>1, <1>2, UnlockFailLGood DEF UnlockLabels
<1>3. CASE /\ SetRef(t, op[t].name, op[t].val)
           /\ Goto(t, IF op[t].log THEN "u_reflog" ELSE "u_commit")
           /\ UNCHANGED <<reflog, inTx, txIns>>
  <2>1. /\ \A s \in Sessions \ {t} : txRefs'[s] = txRefs[s]
        /\ txRefs'[t][op[t].name] = op[t].val
    BY <1>1, <1>3, SetRefFrame DEF LogInv, TypeInv
  <2>2. (IF op[t].log THEN "u_reflog" ELSE "u_commit") \in {"u_reflog", "u_commit"}
    OBVIOUS
  <2> QED
    BY <1>1, <1>3, <2>1, <2>2, GotoLGood DEF OldRows, UnlockLabels, WriteTxSteps
<1> QED
  BY <1>2, <1>3 DEF UnlockWrite

LEMMA UnlockReflogLGood ==
    ASSUME LogInv, NEW t \in Sessions, UnlockReflog(t)
    PROVE  LGood(t)
<1>1. pc[t] = "u_reflog" /\ UNCHANGED tokens
  BY DEF UnlockReflog
<1>2. CASE Goto(t, "u_rollback") /\ UNCHANGED <<reflog, inTx, txRefs, txIns>>
  BY <1>1, <1>2, UnlockFailLGood DEF UnlockLabels
<1>3. CASE /\ InsertLog(t, op[t].name, None, op[t].val.oid)
           /\ Goto(t, "u_commit")
           /\ UNCHANGED <<inTx, txRefs>>
  BY <1>1, <1>3, InsertLGood
<1> QED
  BY <1>2, <1>3 DEF UnlockReflog

LEMMA UnlockDeleteLGood ==
    ASSUME LogInv, NEW t \in Sessions, UnlockDelete(t)
    PROVE  LGood(t)
<1>1. /\ pc[t] = "u_delete" /\ UNCHANGED tokens
      /\ tokens[t] = {op[t].name} /\ txIns[t] = {} /\ op[t].name \in Names
  BY InUnlock DEF UnlockDelete, UnlockLabels
<1>2. CASE Goto(t, "u_rollback") /\ UNCHANGED <<reflog, inTx, txRefs, txIns>>
  BY <1>1, <1>2, UnlockFailLGood DEF UnlockLabels
<1>3. CASE /\ IF Visible(t, op[t].name) THEN SetRef(t, op[t].name, NoRef)
                                       ELSE UNCHANGED <<refs, txRefs, rowLock>>
           /\ Goto(t, "u_dreflog")
           /\ UNCHANGED <<reflog, inTx, txIns>>
  <2>1. \A s \in Sessions \ {t} : txRefs'[s] = txRefs[s]
    BY <1>1, <1>3, DeleteRefFrame
  <2> QED
    BY <1>1, <1>3, <2>1, GotoLGood DEF OldRows, UnlockLabels, WriteTxSteps
<1> QED
  BY <1>2, <1>3 DEF UnlockDelete

LEMMA UnlockDelReflogLGood ==
    ASSUME LogInv, NEW t \in Sessions, UnlockDelReflog(t)
    PROVE  LGood(t)
<1>1. /\ pc[t] = "u_dreflog" /\ tokens[t] = {op[t].name} /\ txIns[t] = {}
  BY InUnlock DEF UnlockDelReflog, UnlockLabels
<1>2. /\ \/ DeleteLogRows(t, op[t].name)
         \/ UNCHANGED <<reflog, txIns>>
      /\ Goto(t, "u_commit") /\ UNCHANGED <<inTx, txRefs, tokens>>
  BY DEF UnlockDelReflog
<1> QED
  BY <1>1, <1>2, LogStmtLGood DEF UnlockLabels, WriteTxSteps

\* COMMIT or ROLLBACK ends the lock's transaction and frees its payload.
LEMMA UnlockEndLGood ==
    ASSUME LogInv, NEW t \in Sessions, UnlockEnd(t)
    PROVE  LGood(t)
<1>1. /\ pc[t] \in UnlockLabels /\ tokens[t] = {op[t].name}
      /\ aborted[t] \in BOOLEAN
  BY InUnlock DEF UnlockEnd, UnlockLabels, LogInv, TypeInv, TypeOK
<1>2. /\ tokens'[t] = {}
      /\ \A s \in Sessions \ {t} : tokens'[s] = tokens[s]
      /\ \E r : Return(t, r)
  BY <1>1 DEF UnlockEnd, LogInv, TypeInv, TypeOK
<1>3. \E a \in BOOLEAN : EndTx(t, a)
  BY <1>1 DEF UnlockEnd, Commit, Rollback
<1> QED
  BY <1>2, <1>3, EndLGood

-----------------------------------------------------------------------------
LEMMA SessionStepLGood ==
    ASSUME MaxTokens = 1, LogInv, NEW t \in Sessions, Start(t) \/ Step(t)
    PROVE  LGood(t)
<1>1. CASE Start(t)
  BY <1>1, WriteStartLGood, DelStartLGood, RenameStartLGood, LockStartLGood,
     ReflogCallLGood DEF Start
<1>2. CASE Step(t)
  BY <1>2, WriteSelectLGood, WriteUpsertLGood, WriteReflogLGood, WriteCommitLGood,
     DelSelectLGood, DelDeleteLGood, DelReflogLGood, DelCommitLGood,
     RenameCheckLGood, RenameDelNewLGood, RenameUpdateLGood, RenameReflogLGood,
     RenameFinishLGood, LockAcquireLGood, UnlockStartLGood, UnlockWriteLGood,
     UnlockReflogLGood, UnlockDeleteLGood, UnlockDelReflogLGood, UnlockEndLGood
  DEF Step
<1> QED
  BY <1>1, <1>2

LEMMA InitLogInv == Init => LogInv
<1> SUFFICES ASSUME Init PROVE LogInv
  OBVIOUS
<1>1. TypeInv
  BY InitTypeInv
<1>2. \A s \in Sessions : LogSessionInv(s)
  BY DEF Init, LogSessionInv, UnlockLabels, WriteTxSteps
<1> QED
  BY <1>1, <1>2 DEF LogInv

\* A step of a session keeps the invariant and logs what it makes visible;
\* a stutter makes nothing visible.
LEMMA NextLogInv ==
    ASSUME MaxTokens = 1
    PROVE  LogInv /\ [Next]_vars => LogInv' /\ [LogStep]_vars
<1> SUFFICES ASSUME LogInv, [Next]_vars PROVE LogInv' /\ [LogStep]_vars
  OBVIOUS
<1>1. TypeInv'
  BY NextTypeInv DEF LogInv
<1>2. CASE UNCHANGED vars
  <2>1. \A s \in Sessions : LogSessionInv(s)'
    BY <1>2 DEF vars, dbVars, lockVars, txVars, sessVars, LogInv, LogSessionInv
  <2> QED
    BY <1>1, <1>2, <2>1 DEF LogInv
<1>3. ASSUME NEW t \in Sessions, Start(t) \/ Step(t)
      PROVE  LogInv' /\ [LogStep]_vars
  <2>1. LGood(t)
    BY <1>3, SessionStepLGood
  <2>2. ASSUME NEW s \in Sessions PROVE LogSessionInv(s)'
    <3>1. CASE s = t
      BY <2>1, <3>1 DEF LGood
    <3>2. CASE s # t
      BY <2>1, <3>2, FrameLogInv DEF LGood, LogInv
    <3> QED
      BY <3>1, <3>2
  <2> QED
    BY <1>1, <2>1, <2>2 DEF LogInv, LGood
<1> QED
  BY <1>2, <1>3 DEF Next

LEMMA LogInvariant ==
    ASSUME MaxTokens = 1 PROVE Spec => []LogInv
<1>1. LogInv /\ [Next]_vars => LogInv'
  BY NextLogInv
<1> QED
  BY <1>1, InitLogInv, PTL DEF Spec

(***************************************************************************)
(* Reflog atomicity (ReflogAtomic of run refstore_safety) for every       *)
(* number of sessions, ref names and object ids and every bound on calls  *)
(* and database failures, when a git_transaction locks one ref at a time: *)
(* the reflog row that pg_refdb_write or pg_refdb_unlock writes becomes    *)
(* visible only in the COMMIT that makes its ref update visible, and the   *)
(* ref then holds the row's new oid.  Both statements run in the          *)
(* transaction BEGIN or pg_refdb_lock opened, and nothing between the      *)
(* upsert and COMMIT writes the ref again.                                 *)
(***************************************************************************)
THEOREM ReflogAtomicOneToken ==
    ASSUME MaxTokens = 1 PROVE Spec => ReflogAtomic
<1>1. LogInv /\ [Next]_vars => [LogStep]_vars
  BY NextLogInv
<1> QED
  BY <1>1, LogInvariant, PTL DEF Spec, ReflogAtomic, LogStep
====
