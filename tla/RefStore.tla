------------------------------ MODULE RefStore ------------------------------
(***************************************************************************)
(* The Postgres ref database of gitgres (src/backend/refdb_postgres.c):    *)
(* the refs and reflog tables of one repository, shared by several         *)
(* sessions.  A session is a libpq connection driving one                  *)
(* git_refdb_backend; every SQL round trip of a backend call is one step.  *)
(*                                                                         *)
(* The database is modelled at READ COMMITTED: a statement reads the       *)
(* committed rows and the session's own pending writes; INSERT ... ON      *)
(* CONFLICT, UPDATE, DELETE and SELECT ... FOR UPDATE take a row lock that *)
(* is held until COMMIT or ROLLBACK and make other writers of the row      *)
(* wait; pg_advisory_xact_lock takes a lock released at the end of the     *)
(* transaction; a statement issued outside BEGIN runs in autocommit; a     *)
(* failed statement aborts the transaction, after which every statement    *)
(* fails and COMMIT rolls back while still answering "command ok"; a wait  *)
(* cycle is broken by the deadlock detector failing one waiting statement. *)
(***************************************************************************)
EXTENDS Naturals, FiniteSets, Relation

CONSTANTS
    Sessions,   \* libpq connections, each owning a refdb backend
    Names,      \* ref names of the repository
    Oids,       \* object ids a direct ref may point to
    NoRef,      \* no row for a name
    Untouched,  \* a transaction has not written a name / reflog row
    None,       \* SQL NULL, or a parameter the caller did not pass
    NoOne,      \* holder of a free lock
    Gone,       \* a reflog row a pending transaction deleted
    MaxOps,     \* backend calls the sessions start, unlock not counted
    MaxTokens,  \* refs one git_transaction may hold locked at once
    MaxFaults   \* statements that may fail by a database error

Sentinels == {NoRef, Untouched, None, NoOne, Gone}

(***************************************************************************)
(* A row of the refs table: exactly one of oid and symbolic is set (the    *)
(* CHECK constraint of the schema).                                        *)
(***************************************************************************)
Direct(o)   == [oid |-> o, symbolic |-> None]
Symbolic(t) == [oid |-> None, symbolic |-> t]
RefVal == {Direct(o) : o \in Oids} \cup {Symbolic(t) : t \in Names}

ASSUME ConstantsAssumption ==
    /\ Sessions # {} /\ Names # {} /\ Oids # {}
    /\ MaxOps \in Nat /\ MaxTokens \in Nat \ {0} /\ MaxFaults \in Nat
    /\ NoRef # Untouched /\ NoRef # None /\ NoRef # NoOne /\ NoRef # Gone
    /\ Untouched # None /\ Untouched # NoOne /\ Untouched # Gone
    /\ None # NoOne /\ None # Gone /\ NoOne # Gone
    /\ Sentinels \cap (Sessions \cup Names \cup Oids \cup RefVal) = {}

(***************************************************************************)
(* A reflog row.  Ids come from the bigserial when the row is inserted;    *)
(* every counted call inserts at most one row, so MaxOps ids suffice.      *)
(***************************************************************************)
Ids == 1..MaxOps
LogEntry == [id : Ids, name : Names, old : Oids \cup {None},
             new : Oids \cup {None}]

OpKinds == {"none", "write", "del", "rename", "lock", "unlock",
            "reflog_rename", "reflog_delete"}
OpRec == [kind : OpKinds, name : Names \cup {None}, to : Names \cup {None},
          val : RefVal \cup {None}, old : Oids \cup {None},
          oldTarget : Names \cup {None}, force : BOOLEAN, disp : 0..2,
          log : BOOLEAN]
Op(k, n, t, v, o, ot, f, d, l) ==
    [kind |-> k, name |-> n, to |-> t, val |-> v, old |-> o,
     oldTarget |-> ot, force |-> f, disp |-> d, log |-> l]
NoOp == Op("none", None, None, None, None, None, FALSE, 0, FALSE)

Labels == {"idle",
           "w_select", "w_upsert", "w_reflog", "w_commit",
           "d_select", "d_delete", "d_reflog", "d_commit",
           "r_check", "r_delnew", "r_update", "r_reflog", "r_finish",
           "l_lock",
           "u_write", "u_reflog", "u_delete", "u_dreflog",
           "u_commit", "u_rollback"}
Results == {"none", "ok", "error", "notfound", "exists"}

VARIABLES
    refs,      \* committed refs table: name -> row or NoRef
    reflog,    \* committed reflog rows
    nextId,    \* next value of the reflog id sequence
    rowLock,   \* row (or unique-key) lock on each name
    advLock,   \* transaction-scoped advisory lock on each name's key
    inTx,      \* the session is inside BEGIN ... COMMIT
    aborted,   \* the session's transaction has had a failed statement
    txRefs,    \* pending ref writes of the session's transaction
    txIns,     \* reflog rows the session's transaction inserted
    txUpd,     \* pending rename/delete of committed reflog rows
    pc,        \* next round trip of the session's current call
    op,        \* arguments of the session's current call
    ret,       \* what the session's last call returned
    tokens,    \* names of the pg_ref_lock payloads the session holds
    opsDone,   \* calls started
    faults     \* statement failures injected so far

dbVars   == <<refs, reflog, nextId>>
lockVars == <<rowLock, advLock>>
txVars   == <<inTx, aborted, txRefs, txIns, txUpd>>
sessVars == <<pc, op, ret, tokens>>
vars == <<dbVars, lockVars, txVars, sessVars, opsDone, faults>>

NoWrites == [n \in Names |-> Untouched]
NoLogWrites == [i \in Ids |-> Untouched]

Init ==
    /\ refs \in [Names -> RefVal \cup {NoRef}]
    /\ reflog = {}
    /\ nextId = 1
    /\ rowLock = [n \in Names |-> NoOne]
    /\ advLock = [n \in Names |-> NoOne]
    /\ inTx = [s \in Sessions |-> FALSE]
    /\ aborted = [s \in Sessions |-> FALSE]
    /\ txRefs = [s \in Sessions |-> NoWrites]
    /\ txIns = [s \in Sessions |-> {}]
    /\ txUpd = [s \in Sessions |-> NoLogWrites]
    /\ pc = [s \in Sessions |-> "idle"]
    /\ op = [s \in Sessions |-> NoOp]
    /\ ret = [s \in Sessions |-> "none"]
    /\ tokens = [s \in Sessions |-> {}]
    /\ opsDone = 0
    /\ faults = 0

-----------------------------------------------------------------------------
(***************************************************************************)
(* What a session's statements see: its own pending writes over the       *)
(* committed rows.                                                         *)
(***************************************************************************)
View(s, n) == IF txRefs[s][n] = Untouched THEN refs[n] ELSE txRefs[s][n]
Visible(s, n) == View(s, n) # NoRef

LogName(s, e) == IF txUpd[s][e.id] = Untouched THEN e.name ELSE txUpd[s][e.id]
VisibleLog(s) ==
    {[e EXCEPT !.name = LogName(s, e)] : e \in {f \in reflog : LogName(s, f) # Gone}}
        \cup txIns[s]

(***************************************************************************)
(* The locks the session's next statement must hold before it runs: the   *)
(* rows it locks or writes (a row it cannot see is not waited for), and    *)
(* the advisory key of pg_refdb_lock.  A statement of an aborted           *)
(* transaction fails at once and waits for nothing.                        *)
(***************************************************************************)
RowsNeeded(s) ==
    LET n == op[s].name
        t == op[s].to
    IN  IF aborted[s] THEN {}
        ELSE CASE pc[s] \in {"w_upsert", "u_write"} -> {n}
               [] pc[s] \in {"w_select", "d_select", "d_delete", "u_delete"} ->
                      IF Visible(s, n) THEN {n} ELSE {}
               [] pc[s] = "r_delnew" -> IF Visible(s, t) THEN {t} ELSE {}
               [] pc[s] = "r_update" -> IF Visible(s, n) THEN {n, t} ELSE {}
               [] OTHER -> {}
AdvNeeded(s) == IF pc[s] = "l_lock" THEN {op[s].name} ELSE {}

Blockers(s) ==
    ({rowLock[n] : n \in RowsNeeded(s)} \cup {advLock[n] : n \in AdvNeeded(s)})
        \ {NoOne, s}
Free(s) == Blockers(s) = {}
WaitsFor == [p \in Sessions \X Sessions |-> p[2] \in Blockers(p[1])]
Deadlocked(s) == TransitiveClosure(WaitsFor, Sessions)[s, s]

(***************************************************************************)
(* The statement fails: a database error (bounded by MaxFaults) or the     *)
(* deadlock detector choosing this waiting statement.                      *)
(***************************************************************************)
Failed(s) ==
    /\ faults < MaxFaults \/ Deadlocked(s)
    /\ faults' = IF Deadlocked(s) THEN faults ELSE faults + 1

(***************************************************************************)
(* Statements on the refs table: an upsert or delete of row n, pending in *)
(* a transaction or committed at once in autocommit.                       *)
(***************************************************************************)
\* Mutation: the symbolic upsert sets symbolic but does not clear oid.
SetRefKeepOid(s, n, v) ==
    LET w == IF v # NoRef /\ v.oid = None /\ View(s, n) # NoRef
             THEN [v EXCEPT !.oid = View(s, n).oid] ELSE v
    IN  IF inTx[s]
        THEN /\ txRefs' = [txRefs EXCEPT ![s][n] = w]
             /\ rowLock' = [rowLock EXCEPT ![n] = s]
             /\ UNCHANGED refs
        ELSE /\ refs' = [refs EXCEPT ![n] = w]
             /\ UNCHANGED <<txRefs, rowLock>>

SetRef(s, n, v) ==
    IF inTx[s]
    THEN /\ txRefs' = [txRefs EXCEPT ![s][n] = v]
         /\ rowLock' = [rowLock EXCEPT ![n] = s]
         /\ UNCHANGED refs
    ELSE /\ refs' = [refs EXCEPT ![n] = v]
         /\ UNCHANGED <<txRefs, rowLock>>

LockRow(s, n) == rowLock' = [rowLock EXCEPT ![n] = s]

(***************************************************************************)
(* Statements on the reflog table.                                         *)
(***************************************************************************)
\* Mutation: the reflog row is written outside the ref's transaction.
InsertLogAutocommit(s, n, old, new) ==
    /\ nextId <= MaxOps
    /\ nextId' = nextId + 1
    /\ reflog' = reflog \cup {[id |-> nextId, name |-> n, old |-> old, new |-> new]}
    /\ UNCHANGED txIns

InsertLog(s, n, old, new) ==
    LET e == [id |-> nextId, name |-> n, old |-> old, new |-> new]
    IN  /\ nextId <= MaxOps
        /\ nextId' = nextId + 1
        /\ IF inTx[s]
           THEN /\ txIns' = [txIns EXCEPT ![s] = @ \cup {e}]
                /\ UNCHANGED reflog
           ELSE /\ reflog' = reflog \cup {e}
                /\ UNCHANGED txIns

\* UPDATE reflog SET ref_name = to WHERE ref_name = from
RenameLogRows(s, from, to) ==
    IF inTx[s]
    THEN /\ txUpd' = [txUpd EXCEPT ![s] =
                [i \in Ids |-> IF \E e \in reflog : e.id = i /\ LogName(s, e) = from
                               THEN to ELSE txUpd[s][i]]]
         /\ txIns' = [txIns EXCEPT ![s] =
                {IF e.name = from THEN [e EXCEPT !.name = to] ELSE e : e \in txIns[s]}]
         /\ UNCHANGED reflog
    ELSE /\ reflog' = {IF e.name = from THEN [e EXCEPT !.name = to] ELSE e : e \in reflog}
         /\ UNCHANGED <<txUpd, txIns>>

\* DELETE FROM reflog WHERE ref_name = n
DeleteLogRows(s, n) ==
    IF inTx[s]
    THEN /\ txUpd' = [txUpd EXCEPT ![s] =
                [i \in Ids |-> IF \E e \in reflog : e.id = i /\ LogName(s, e) = n
                               THEN Gone ELSE txUpd[s][i]]]
         /\ txIns' = [txIns EXCEPT ![s] = {e \in txIns[s] : e.name # n}]
         /\ UNCHANGED reflog
    ELSE /\ reflog' = {e \in reflog : e.name # n}
         /\ UNCHANGED <<txUpd, txIns>>

(***************************************************************************)
(* End of a transaction.  COMMIT of an aborted transaction rolls back.     *)
(***************************************************************************)
EndTx(s, apply) ==
    /\ refs' = IF apply THEN [n \in Names |-> View(s, n)] ELSE refs
    /\ reflog' = IF apply THEN VisibleLog(s) ELSE reflog
    /\ rowLock' = [n \in Names |-> IF rowLock[n] = s THEN NoOne ELSE rowLock[n]]
    /\ advLock' = [n \in Names |-> IF advLock[n] = s THEN NoOne ELSE advLock[n]]
    /\ inTx' = [inTx EXCEPT ![s] = FALSE]
    /\ aborted' = [aborted EXCEPT ![s] = FALSE]
    /\ txRefs' = [txRefs EXCEPT ![s] = NoWrites]
    /\ txIns' = [txIns EXCEPT ![s] = {}]
    /\ txUpd' = [txUpd EXCEPT ![s] = NoLogWrites]
Commit(s) == EndTx(s, ~aborted[s])
Rollback(s) == EndTx(s, FALSE)

\* An unchecked statement failed: the transaction (if any) is aborted.
Abort(s) == aborted' = [aborted EXCEPT ![s] = inTx[s]]

\* The call moves to its next round trip, or returns r (its arguments are
\* then forgotten).
Goto(s, l) == pc' = [pc EXCEPT ![s] = l] /\ UNCHANGED op
Return(s, r) ==
    /\ pc' = [pc EXCEPT ![s] = "idle"]
    /\ ret' = [ret EXCEPT ![s] = r]
    /\ op' = [op EXCEPT ![s] = NoOp]

\* A checked statement failed: the call issues ROLLBACK and returns -1.
FailCall(s) == Failed(s) /\ Rollback(s) /\ Return(s, "error")

(***************************************************************************)
(* A backend call starts: the session records its arguments and, for the  *)
(* calls that open a transaction, issues BEGIN, which fails only by a      *)
(* database error.  BEGIN inside an open transaction is a no-op.           *)
(***************************************************************************)
StartCall(s) ==
    /\ pc[s] = "idle" /\ opsDone < MaxOps
    /\ opsDone' = opsDone + 1

Begin(s, o, first) ==
    \/ /\ inTx' = [inTx EXCEPT ![s] = TRUE]
       /\ pc' = [pc EXCEPT ![s] = first]
       /\ op' = [op EXCEPT ![s] = o]
       /\ UNCHANGED <<faults, ret>>
    \/ /\ faults < MaxFaults
       /\ faults' = faults + 1
       /\ Return(s, "error")
       /\ UNCHANGED inTx

-----------------------------------------------------------------------------
(***************************************************************************)
(* pg_refdb_write.  Without force, SELECT ... FOR UPDATE and the           *)
(* compare-and-swap checks; then the upsert, the reflog row and COMMIT.    *)
(* Every failure issues ROLLBACK and returns.                              *)
(***************************************************************************)
WriteCheck(o, cur) ==
    IF o.old = None /\ o.oldTarget = None
    THEN IF cur = NoRef THEN "ok" ELSE "exists"
    ELSE CASE cur = NoRef                                   -> "notfound"
           [] o.old # None /\ cur.oid = None                -> "error"
           [] o.old # None /\ cur.oid # o.old               -> "exists"
           [] o.oldTarget # None /\ cur.symbolic = None     -> "error"
           [] o.oldTarget # None /\ cur.symbolic # o.oldTarget -> "exists"
           [] OTHER                                         -> "ok"

pg_refdb_write(s) ==
    /\ tokens[s] = {}
    /\ \E n \in Names, v \in RefVal, f \in BOOLEAN,
          o \in Oids \cup {None}, ot \in Names \cup {None} :
          /\ o = None \/ ot = None
          /\ StartCall(s)
          /\ Begin(s, Op("write", n, None, v, o, ot, f, 0, TRUE),
                   IF f THEN "w_upsert" ELSE "w_select")
    /\ UNCHANGED <<dbVars, lockVars, aborted, txRefs, txIns, txUpd, tokens>>

\* Mutation: the compare-and-swap SELECT without FOR UPDATE.
WriteSelectNoLock(s) ==
    /\ pc[s] = "w_select"
    /\ \/ /\ Free(s)
          /\ LET r == WriteCheck(op[s], View(s, op[s].name))
             IN  IF r = "ok"
                 THEN /\ Goto(s, "w_upsert")
                      /\ UNCHANGED <<refs, reflog, lockVars, txVars, ret>>
                 ELSE Rollback(s) /\ Return(s, r)
          /\ UNCHANGED faults
       \/ FailCall(s)
    /\ UNCHANGED <<nextId, tokens, opsDone>>

WriteSelect(s) ==
    /\ pc[s] = "w_select"
    /\ \/ /\ Free(s)
          /\ LET r == WriteCheck(op[s], View(s, op[s].name))
             IN  IF r = "ok"
                 THEN /\ IF Visible(s, op[s].name) THEN LockRow(s, op[s].name)
                                                   ELSE UNCHANGED rowLock
                      /\ Goto(s, "w_upsert")
                      /\ UNCHANGED <<refs, reflog, advLock, txVars, ret>>
                 ELSE Rollback(s) /\ Return(s, r)
          /\ UNCHANGED faults
       \/ FailCall(s)
    /\ UNCHANGED <<nextId, tokens, opsDone>>

WriteUpsert(s) ==
    /\ pc[s] = "w_upsert"
    /\ \/ /\ Free(s)
          /\ SetRef(s, op[s].name, op[s].val)
          /\ Goto(s, "w_reflog")
          /\ UNCHANGED <<reflog, advLock, inTx, aborted, txIns, txUpd, ret, faults>>
       \/ FailCall(s)
    /\ UNCHANGED <<nextId, tokens, opsDone>>

\* write_reflog_entry(backend, name, old, new_oid): new is NULL for a
\* symbolic ref, which is the oid column of its row.
WriteReflog(s) ==
    /\ pc[s] = "w_reflog"
    /\ \/ /\ InsertLog(s, op[s].name, op[s].old, op[s].val.oid)
          /\ Goto(s, "w_commit")
          /\ UNCHANGED <<refs, lockVars, inTx, aborted, txRefs, txUpd, ret, faults>>
       \/ /\ FailCall(s)
          /\ UNCHANGED nextId
    /\ UNCHANGED <<tokens, opsDone>>

\* COMMIT, or ROLLBACK after a failed COMMIT.
CommitCall(s) ==
    \/ Commit(s) /\ Return(s, "ok") /\ UNCHANGED faults
    \/ FailCall(s)

WriteCommit(s) ==
    /\ pc[s] = "w_commit"
    /\ CommitCall(s)
    /\ UNCHANGED <<nextId, tokens, opsDone>>

-----------------------------------------------------------------------------
(***************************************************************************)
(* pg_refdb_del.  With an expected value, SELECT ... FOR UPDATE and the    *)
(* check; then DELETE of the ref, DELETE of its reflog (result not         *)
(* checked) and COMMIT, whose answer is all that is checked.               *)
(***************************************************************************)
DelCheck(o, cur) ==
    CASE cur = NoRef                                        -> "notfound"
      [] o.old # None /\ cur.oid # o.old                    -> "exists"
      [] o.oldTarget # None /\ cur.symbolic # o.oldTarget   -> "exists"
      [] OTHER                                              -> "ok"

pg_refdb_del(s) ==
    /\ tokens[s] = {}
    /\ \E n \in Names, o \in Oids \cup {None}, ot \in Names \cup {None} :
          /\ o = None \/ ot = None
          /\ StartCall(s)
          /\ Begin(s, Op("del", n, None, None, o, ot, FALSE, 0, FALSE),
                   IF o = None /\ ot = None THEN "d_delete" ELSE "d_select")
    /\ UNCHANGED <<dbVars, lockVars, aborted, txRefs, txIns, txUpd, tokens>>

DelSelect(s) ==
    /\ pc[s] = "d_select"
    /\ \/ /\ Free(s)
          /\ LET r == DelCheck(op[s], View(s, op[s].name))
             IN  IF r = "ok"
                 THEN /\ LockRow(s, op[s].name)
                      /\ Goto(s, "d_delete")
                      /\ UNCHANGED <<refs, reflog, advLock, txVars, ret>>
                 ELSE Rollback(s) /\ Return(s, r)
          /\ UNCHANGED faults
       \/ FailCall(s)
    /\ UNCHANGED <<nextId, tokens, opsDone>>

DelDelete(s) ==
    /\ pc[s] = "d_delete"
    /\ \/ /\ Free(s)
          /\ IF Visible(s, op[s].name) THEN SetRef(s, op[s].name, NoRef)
                                       ELSE UNCHANGED <<refs, txRefs, rowLock>>
          /\ Goto(s, "d_reflog")
          /\ UNCHANGED <<reflog, advLock, inTx, aborted, txIns, txUpd, ret, faults>>
       \/ FailCall(s)
    /\ UNCHANGED <<nextId, tokens, opsDone>>

DelReflog(s) ==
    /\ pc[s] = "d_reflog"
    /\ \/ DeleteLogRows(s, op[s].name) /\ UNCHANGED <<aborted, faults>>
       \/ Failed(s) /\ Abort(s) /\ UNCHANGED <<reflog, txIns, txUpd>>
    /\ Goto(s, "d_commit")
    /\ UNCHANGED <<refs, nextId, lockVars, inTx, txRefs, ret, tokens, opsDone>>

DelCommit(s) ==
    /\ pc[s] = "d_commit"
    /\ CommitCall(s)
    /\ UNCHANGED <<nextId, tokens, opsDone>>

-----------------------------------------------------------------------------
(***************************************************************************)
(* pg_refdb_rename (old name n, new name t; the caller's signature and    *)
(* message are ignored).  Without force, a plain SELECT (no lock) checks   *)
(* that t is free; with force, t is deleted and the result not checked.    *)
(* Then the UPDATE of the name, the UPDATE of the reflog (not checked),    *)
(* the SELECT of the renamed row and COMMIT.                               *)
(***************************************************************************)
pg_refdb_rename(s) ==
    /\ tokens[s] = {}
    /\ \E n, t \in Names, f \in BOOLEAN :
          /\ n # t
          /\ StartCall(s)
          /\ Begin(s, Op("rename", n, t, None, None, None, f, 0, FALSE),
                   IF f THEN "r_delnew" ELSE "r_check")
    /\ UNCHANGED <<dbVars, lockVars, aborted, txRefs, txIns, txUpd, tokens>>

RenameCheck(s) ==
    /\ pc[s] = "r_check"
    /\ \/ /\ Visible(s, op[s].to)
          /\ Rollback(s) /\ Return(s, "exists")
          /\ UNCHANGED faults
       \/ /\ ~Visible(s, op[s].to)
          /\ Goto(s, "r_update")
          /\ UNCHANGED <<refs, reflog, lockVars, txVars, ret, faults>>
       \/ FailCall(s)
    /\ UNCHANGED <<nextId, tokens, opsDone>>

RenameDelNew(s) ==
    /\ pc[s] = "r_delnew"
    /\ \/ /\ Free(s)
          /\ IF Visible(s, op[s].to) THEN SetRef(s, op[s].to, NoRef)
                                     ELSE UNCHANGED <<refs, txRefs, rowLock>>
          /\ UNCHANGED <<aborted, faults>>
       \/ Failed(s) /\ Abort(s) /\ UNCHANGED <<refs, txRefs, rowLock>>
    /\ Goto(s, "r_update")
    /\ UNCHANGED <<reflog, nextId, advLock, inTx, txIns, txUpd, ret, tokens, opsDone>>

\* Mutation: the UPDATE meets no unique key on the new name and overwrites it.
RenameUpdateNoUnique(s) ==
    /\ pc[s] = "r_update"
    /\ LET n == op[s].name
           t == op[s].to
       IN  \/ /\ aborted[s]
              /\ Rollback(s) /\ Return(s, "error")
              /\ UNCHANGED faults
           \/ /\ ~aborted[s] /\ Free(s) /\ ~Visible(s, n)
              /\ Rollback(s) /\ Return(s, "notfound")
              /\ UNCHANGED faults
           \/ /\ ~aborted[s] /\ Free(s) /\ Visible(s, n)
              /\ txRefs' = [txRefs EXCEPT ![s][t] = View(s, n), ![s][n] = NoRef]
              /\ rowLock' = [rowLock EXCEPT ![n] = s, ![t] = s]
              /\ Goto(s, "r_reflog")
              /\ UNCHANGED <<refs, reflog, advLock, inTx, aborted, txIns, txUpd,
                             ret, faults>>
           \/ FailCall(s)
    /\ UNCHANGED <<nextId, tokens, opsDone>>

\* UPDATE refs SET name = t WHERE name = n: no row is ENOTFOUND, a row
\* already named t is a unique violation; both roll back.
RenameUpdate(s) ==
    /\ pc[s] = "r_update"
    /\ LET n == op[s].name
           t == op[s].to
       IN  \/ /\ aborted[s]
              /\ Rollback(s) /\ Return(s, "error")
              /\ UNCHANGED faults
           \/ /\ ~aborted[s] /\ Free(s) /\ ~Visible(s, n)
              /\ Rollback(s) /\ Return(s, "notfound")
              /\ UNCHANGED faults
           \/ /\ ~aborted[s] /\ Free(s) /\ Visible(s, n) /\ Visible(s, t)
              /\ Rollback(s) /\ Return(s, "error")
              /\ UNCHANGED faults
           \/ /\ ~aborted[s] /\ Free(s) /\ Visible(s, n) /\ ~Visible(s, t)
              /\ txRefs' = [txRefs EXCEPT ![s][t] = View(s, n), ![s][n] = NoRef]
              /\ rowLock' = [rowLock EXCEPT ![n] = s, ![t] = s]
              /\ Goto(s, "r_reflog")
              /\ UNCHANGED <<refs, reflog, advLock, inTx, aborted, txIns, txUpd,
                             ret, faults>>
           \/ FailCall(s)
    /\ UNCHANGED <<nextId, tokens, opsDone>>

RenameReflog(s) ==
    /\ pc[s] = "r_reflog"
    /\ \/ RenameLogRows(s, op[s].name, op[s].to) /\ UNCHANGED <<aborted, faults>>
       \/ Failed(s) /\ Abort(s) /\ UNCHANGED <<reflog, txIns, txUpd>>
    /\ Goto(s, "r_finish")
    /\ UNCHANGED <<refs, nextId, lockVars, inTx, txRefs, ret, tokens, opsDone>>

\* The SELECT of the renamed row (it fails in an aborted transaction),
\* then COMMIT.
RenameFinish(s) ==
    /\ pc[s] = "r_finish"
    /\ \/ /\ aborted[s]
          /\ Rollback(s) /\ Return(s, "error")
          /\ UNCHANGED faults
       \/ ~aborted[s] /\ CommitCall(s)
    /\ UNCHANGED <<nextId, tokens, opsDone>>

-----------------------------------------------------------------------------
(***************************************************************************)
(* pg_refdb_lock: BEGIN (a no-op when the session's transaction is        *)
(* already open) and pg_advisory_xact_lock on the name's key; a failure    *)
(* rolls the session's whole transaction back.  The payload handed back    *)
(* to libgit2 is recorded in tokens.  hash_refname is taken injective on   *)
(* names.                                                                  *)
(***************************************************************************)
pg_refdb_lock(s) ==
    /\ Cardinality(tokens[s]) < MaxTokens
    /\ \E n \in Names \ tokens[s] :
          /\ StartCall(s)
          /\ Begin(s, Op("lock", n, None, None, None, None, FALSE, 0, FALSE),
                   "l_lock")
    /\ UNCHANGED <<dbVars, lockVars, aborted, txRefs, txIns, txUpd, tokens>>

LockAcquire(s) ==
    /\ pc[s] = "l_lock"
    /\ \/ /\ Free(s)
          /\ advLock' = [advLock EXCEPT ![op[s].name] = s]
          /\ tokens' = [tokens EXCEPT ![s] = @ \cup {op[s].name}]
          /\ Return(s, "ok")
          /\ UNCHANGED <<dbVars, rowLock, txVars, faults>>
       \/ /\ FailCall(s)
          /\ UNCHANGED <<nextId, tokens>>
    /\ UNCHANGED <<opsDone>>

(***************************************************************************)
(* pg_refdb_unlock(payload, success, update_reflog, ref, sig): success 1  *)
(* upserts the ref and, if update_reflog and sig, logs it with a NULL old  *)
(* oid; success 2 deletes the ref and then its reflog (that result not     *)
(* checked); success 0 does nothing.  It ends with COMMIT if no checked    *)
(* statement failed, else ROLLBACK, and ignores the answer.  libgit2       *)
(* unlocks every payload it holds, so the call is not counted in MaxOps.   *)
(***************************************************************************)
pg_refdb_unlock(s) ==
    /\ pc[s] = "idle"
    /\ \E n \in tokens[s], d \in 0..2 :
       \E v \in (IF d = 1 THEN RefVal ELSE {None}),
          l \in (IF d = 1 THEN BOOLEAN ELSE {FALSE}) :
          /\ op' = [op EXCEPT ![s] = Op("unlock", n, None, v, None, None, FALSE, d, l)]
          /\ pc' = [pc EXCEPT ![s] = CASE d = 1 -> "u_write" [] d = 2 -> "u_delete"
                                       [] OTHER -> "u_commit"]
    /\ UNCHANGED <<dbVars, lockVars, txVars, ret, tokens, opsDone, faults>>

UnlockWrite(s) ==
    /\ pc[s] = "u_write"
    /\ \/ /\ Free(s)
          /\ SetRef(s, op[s].name, op[s].val)
          /\ Goto(s, IF op[s].log THEN "u_reflog" ELSE "u_commit")
          /\ UNCHANGED <<reflog, advLock, inTx, aborted, txIns, txUpd, faults>>
       \/ /\ Failed(s) /\ Abort(s) /\ Goto(s, "u_rollback")
          /\ UNCHANGED <<refs, reflog, lockVars, inTx, txRefs, txIns, txUpd>>
    /\ UNCHANGED <<nextId, ret, tokens, opsDone>>

UnlockReflog(s) ==
    /\ pc[s] = "u_reflog"
    /\ \/ /\ InsertLog(s, op[s].name, None, op[s].val.oid)
          /\ Goto(s, "u_commit")
          /\ UNCHANGED <<refs, lockVars, inTx, aborted, txRefs, txUpd, faults>>
       \/ /\ Failed(s) /\ Abort(s) /\ Goto(s, "u_rollback")
          /\ UNCHANGED <<refs, reflog, nextId, lockVars, inTx, txRefs, txIns, txUpd>>
    /\ UNCHANGED <<ret, tokens, opsDone>>

UnlockDelete(s) ==
    /\ pc[s] = "u_delete"
    /\ \/ /\ Free(s)
          /\ IF Visible(s, op[s].name) THEN SetRef(s, op[s].name, NoRef)
                                       ELSE UNCHANGED <<refs, txRefs, rowLock>>
          /\ Goto(s, "u_dreflog")
          /\ UNCHANGED <<reflog, advLock, inTx, aborted, txIns, txUpd, faults>>
       \/ /\ Failed(s) /\ Abort(s) /\ Goto(s, "u_rollback")
          /\ UNCHANGED <<refs, reflog, lockVars, inTx, txRefs, txIns, txUpd>>
    /\ UNCHANGED <<nextId, ret, tokens, opsDone>>

UnlockDelReflog(s) ==
    /\ pc[s] = "u_dreflog"
    /\ \/ DeleteLogRows(s, op[s].name) /\ UNCHANGED <<aborted, faults>>
       \/ Failed(s) /\ Abort(s) /\ UNCHANGED <<reflog, txIns, txUpd>>
    /\ Goto(s, "u_commit")
    /\ UNCHANGED <<refs, nextId, lockVars, inTx, txRefs, ret, tokens, opsDone>>

\* Mutation: a discarded payload (success 0) ends nothing.
UnlockEndDiscardOpen(s) ==
    /\ pc[s] \in {"u_commit", "u_rollback"}
    /\ \/ pc[s] = "u_commit" /\ op[s].disp = 0 /\ UNCHANGED <<dbVars, lockVars, txVars, faults>>
       \/ pc[s] = "u_commit" /\ op[s].disp # 0 /\ Commit(s) /\ UNCHANGED faults
       \/ pc[s] = "u_commit" /\ Failed(s) /\ Rollback(s)
       \/ pc[s] = "u_rollback" /\ Rollback(s) /\ UNCHANGED faults
    /\ tokens' = [tokens EXCEPT ![s] = @ \ {op[s].name}]
    /\ Return(s, IF pc[s] = "u_commit" THEN "ok" ELSE "error")
    /\ UNCHANGED <<nextId, opsDone>>

\* COMMIT (a rollback if the transaction is aborted or COMMIT fails, and
\* still success) or ROLLBACK; the payload is freed.
UnlockEnd(s) ==
    /\ pc[s] \in {"u_commit", "u_rollback"}
    /\ \/ pc[s] = "u_commit" /\ Commit(s) /\ UNCHANGED faults
       \/ pc[s] = "u_commit" /\ Failed(s) /\ Rollback(s)
       \/ pc[s] = "u_rollback" /\ Rollback(s) /\ UNCHANGED faults
    /\ tokens' = [tokens EXCEPT ![s] = @ \ {op[s].name}]
    /\ Return(s, IF pc[s] = "u_commit" THEN "ok" ELSE "error")
    /\ UNCHANGED <<nextId, opsDone>>

-----------------------------------------------------------------------------
(***************************************************************************)
(* pg_refdb_reflog_rename and pg_refdb_reflog_delete: one statement each, *)
(* in autocommit.                                                          *)
(***************************************************************************)
pg_refdb_reflog_rename(s) ==
    /\ tokens[s] = {}
    /\ \E n, t \in Names :
          /\ n # t
          /\ StartCall(s)
          /\ \/ RenameLogRows(s, n, t) /\ Return(s, "ok") /\ UNCHANGED faults
             \/ /\ faults < MaxFaults /\ faults' = faults + 1
                /\ Return(s, "error") /\ UNCHANGED <<reflog, txIns, txUpd>>
    /\ UNCHANGED <<refs, nextId, lockVars, inTx, aborted, txRefs, tokens>>

pg_refdb_reflog_delete(s) ==
    /\ tokens[s] = {}
    /\ \E n \in Names :
          /\ StartCall(s)
          /\ \/ DeleteLogRows(s, n) /\ Return(s, "ok") /\ UNCHANGED faults
             \/ /\ faults < MaxFaults /\ faults' = faults + 1
                /\ Return(s, "error") /\ UNCHANGED <<reflog, txIns, txUpd>>
    /\ UNCHANGED <<refs, nextId, lockVars, inTx, aborted, txRefs, tokens>>

-----------------------------------------------------------------------------
\* A session starts a call (bounded by MaxOps) ...
Start(s) ==
    \/ pg_refdb_write(s) \/ pg_refdb_del(s) \/ pg_refdb_rename(s)
    \/ pg_refdb_lock(s) \/ pg_refdb_reflog_rename(s) \/ pg_refdb_reflog_delete(s)

\* ... or takes the next round trip of the call it is in, or hands a
\* locked ref back to the backend.
Step(s) ==
    \/ WriteSelect(s) \/ WriteUpsert(s) \/ WriteReflog(s) \/ WriteCommit(s)
    \/ DelSelect(s) \/ DelDelete(s) \/ DelReflog(s) \/ DelCommit(s)
    \/ RenameCheck(s) \/ RenameDelNew(s) \/ RenameUpdate(s)
    \/ RenameReflog(s) \/ RenameFinish(s)
    \/ LockAcquire(s)
    \/ pg_refdb_unlock(s) \/ UnlockWrite(s) \/ UnlockReflog(s)
    \/ UnlockDelete(s) \/ UnlockDelReflog(s) \/ UnlockEnd(s)

Next == \E s \in Sessions : Start(s) \/ Step(s)

Spec == Init /\ [][Next]_vars

(***************************************************************************)
(* A session whose call can take its next round trip eventually takes it: *)
(* a libpq call returns once the server answers, and libgit2 always       *)
(* unlocks (commit or free of the git_transaction) what it has locked.    *)
(***************************************************************************)
FairSpec == Spec /\ \A s \in Sessions : WF_vars(Step(s))

-----------------------------------------------------------------------------
(***************************************************************************)
(* Properties.                                                             *)
(***************************************************************************)
UnlockLabels == {"u_write", "u_reflog", "u_delete", "u_dreflog",
                 "u_commit", "u_rollback"}

\* The type invariant; the refs rows satisfy the schema's CHECK that
\* exactly one of oid and symbolic is set.
TypeOK ==
    /\ refs \in [Names -> RefVal \cup {NoRef}]
    /\ reflog \subseteq LogEntry
    /\ nextId \in 1..(MaxOps + 1)
    /\ rowLock \in [Names -> Sessions \cup {NoOne}]
    /\ advLock \in [Names -> Sessions \cup {NoOne}]
    /\ inTx \in [Sessions -> BOOLEAN]
    /\ aborted \in [Sessions -> BOOLEAN]
    /\ txRefs \in [Sessions -> [Names -> RefVal \cup {NoRef, Untouched}]]
    /\ txIns \in [Sessions -> SUBSET LogEntry]
    /\ txUpd \in [Sessions -> [Ids -> Names \cup {Gone, Untouched}]]
    /\ pc \in [Sessions -> Labels]
    /\ op \in [Sessions -> OpRec]
    /\ ret \in [Sessions -> Results]
    /\ tokens \in [Sessions -> SUBSET Names]
    /\ opsDone \in 0..MaxOps
    /\ faults \in 0..MaxFaults

\* The session's call reports success in this step, at round trip l.
Succeeds(s, l) == pc[s] = l /\ pc'[s] = "idle" /\ ret'[s] = "ok"

Expects(o) == o.old # None \/ o.oldTarget # None
Expected(o) == IF o.old # None THEN Direct(o.old) ELSE Symbolic(o.oldTarget)

(***************************************************************************)
(* CAS linearisability (spec section 8) of pg_refdb_write and             *)
(* pg_refdb_del: a call that is not forced and names an expected value,   *)
(* and reports success, commits while the committed ref still holds that  *)
(* value.  So of two calls that expect the same value and change it, at   *)
(* most one succeeds.  It rests on the FOR UPDATE lock taken by the check  *)
(* being held to COMMIT.                                                   *)
(***************************************************************************)
CasExclusive ==
    [][\A s \in Sessions :
          (/\ Succeeds(s, "w_commit") \/ Succeeds(s, "d_commit")
           /\ ~op[s].force /\ Expects(op[s]))
          => refs[op[s].name] = Expected(op[s])]_vars

(***************************************************************************)
(* pg_refdb_write without force and without an expected value must create *)
(* the ref and fail with GIT_EEXISTS if it exists (spec 4.7): a creation   *)
(* that reports success commits over no row.                               *)
(***************************************************************************)
CreateExclusive ==
    [][\A s \in Sessions :
          (Succeeds(s, "w_commit") /\ ~op[s].force /\ ~Expects(op[s]))
          => refs[op[s].name] = NoRef]_vars

NewLogRows == {e \in reflog' : \A f \in reflog : f.id # e.id}

(***************************************************************************)
(* A reflog row is visible iff its enclosing ref update is (spec section  *)
(* 5): in the step where a new reflog row of write or unlock becomes       *)
(* visible, the ref it names holds the row's new oid.                      *)
(***************************************************************************)
ReflogAtomic ==
    [][\A e \in NewLogRows :
          refs'[e.name] # NoRef /\ refs'[e.name].oid = e.new]_vars

(***************************************************************************)
(* old_oid of a reflog row is the value the ref had before the change,    *)
(* NULL only for a creation (spec section 3): a new visible row's old is   *)
(* the oid the ref held just before.                                       *)
(***************************************************************************)
ReflogOldIsPrevious ==
    [][\A e \in NewLogRows :
          e.old = IF refs[e.name] = NoRef THEN None ELSE refs[e.name].oid]_vars

(***************************************************************************)
(* A call that reports success has made its changes durable (spec 7:      *)
(* transactions are rolled back on every error path): when write, del,    *)
(* rename or unlock returns 0 from its COMMIT, every ref row its          *)
(* transaction wrote is committed with that value.                         *)
(***************************************************************************)
ReportedWritesDurable ==
    [][\A s \in Sessions :
          (\E l \in {"w_commit", "d_commit", "r_finish", "u_commit"} : Succeeds(s, l))
          => \A n \in Names : txRefs[s][n] # Untouched => refs'[n] = txRefs[s][n]]_vars

(***************************************************************************)
(* Updates of one ref are linearised by the advisory lock of              *)
(* pg_refdb_lock (spec section 5): while a session holds the lock payload  *)
(* of a ref, no step other than its own unlock changes the ref.            *)
(***************************************************************************)
LockedRefStable ==
    [][\A s \in Sessions, n \in Names :
          (n \in tokens[s] /\ ~(pc[s] \in UnlockLabels /\ op[s].name = n))
          => refs'[n] = refs[n]]_vars

(***************************************************************************)
(* A rename without force never replaces a ref (spec 4.7): when it        *)
(* reports success, no committed ref had the new name just before its     *)
(* COMMIT.  The check of line 614 is a plain SELECT and may be stale by    *)
(* the UPDATE; what keeps a ref created in between from being overwritten  *)
(* is the unique key the UPDATE meets and the row lock it then holds.      *)
(***************************************************************************)
RenameNoClobber ==
    [][\A s \in Sessions :
          (Succeeds(s, "r_finish") /\ ~op[s].force) => refs[op[s].to] = NoRef]_vars

(***************************************************************************)
(* Every transaction a backend call opens is eventually ended, so every   *)
(* row and advisory lock is released and no call waits forever: the       *)
(* waits end when the holder commits, and wait cycles are broken by the    *)
(* deadlock detector.                                                      *)
(***************************************************************************)
TransactionsEnd ==
    \A s \in Sessions : (pc[s] # "idle" \/ inTx[s]) ~> (pc[s] = "idle" /\ ~inTx[s])
====
