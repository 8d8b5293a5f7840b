-------------------------- MODULE RefStoreCasProofs --------------------------
(***************************************************************************)
(* Proof that the compare-and-swap of pg_refdb_write and pg_refdb_del is  *)
(* linearisable (CasExclusive), for every number of sessions, ref names    *)
(* and object ids and every bound.  The argument is the row lock: the      *)
(* SELECT ... FOR UPDATE of the check locks the row it found with the      *)
(* expected value, only its holder may change the committed row or take    *)
(* the lock, and the lock is released only by the end of the holder's      *)
(* transaction, which is where the call reports its answer.                *)
(***************************************************************************)
EXTENDS RefStoreProofs

\* Round trips of write and del: they run inside the call's transaction.
TxSteps == {"w_select", "w_upsert", "w_reflog", "w_commit",
            "d_select", "d_delete", "d_reflog", "d_commit"}

\* Round trips after a successful compare-and-swap check.
CasSteps == {"w_upsert", "w_reflog", "w_commit", "d_delete", "d_reflog", "d_commit"}

\* Round trips that start with no pending ref write in the transaction.
FreshSteps == {"idle", "w_select", "d_select", "l_lock"}

\* Round trips an aborted transaction may be at: each one ends it.
AbortSteps == {"d_commit", "r_update", "r_finish", "u_commit", "u_rollback"}

\* The session's call has passed its compare-and-swap check.
Cas(s) == pc[s] \in CasSteps /\ ~op[s].force /\ Expects(op[s])

\* The session's rename without force has renamed the row: the new name is
\* claimed by it.
Claim(s) == pc[s] \in {"r_reflog", "r_finish"} /\ ~op[s].force

(***************************************************************************)
(* What each session's state says about the shared tables and locks:      *)
(*  - a ref its transaction has written is row-locked by it;               *)
(*  - a call starts with no pending ref write;                             *)
(*  - an aborted transaction is on its way to ROLLBACK;                    *)
(*  - write and del run inside their transaction;                          *)
(*  - after the check, the session holds the row lock of the ref and the   *)
(*    committed row still has the value the call expects;                  *)
(*  - a rename without force writes nothing before its UPDATE, and after   *)
(*    it holds the lock of the new name, which has no committed row.       *)
(***************************************************************************)
SessionInv(s) ==
    /\ \A n \in Names : txRefs[s][n] # Untouched => rowLock[n] = s
    /\ pc[s] \in FreshSteps => txRefs[s] = NoWrites
    /\ aborted[s] => pc[s] \in AbortSteps
    /\ pc[s] \in TxSteps => inTx[s]
    /\ Cas(s) => /\ rowLock[op[s].name] = s
                 /\ refs[op[s].name] = Expected(op[s])
    /\ pc[s] = "r_delnew" => op[s].force
    /\ pc[s] \in {"r_check", "r_update"} /\ ~op[s].force => txRefs[s] = NoWrites
    /\ Claim(s) => rowLock[op[s].to] = s /\ refs[op[s].to] = NoRef

CasInv == TypeInv /\ \A s \in Sessions : SessionInv(s)

-----------------------------------------------------------------------------
(***************************************************************************)
(* A step of session t leaves the other sessions' calls and transactions  *)
(* alone, and touches a row lock or a committed row only when the lock is *)
(* free or its own.                                                        *)
(***************************************************************************)
Local(t) ==
    \A s \in Sessions \ {t} :
        /\ pc'[s] = pc[s] /\ op'[s] = op[s] /\ inTx'[s] = inTx[s]
        /\ aborted'[s] = aborted[s] /\ txRefs'[s] = txRefs[s]

Respects(t) ==
    \A m \in Names :
        /\ rowLock'[m] # rowLock[m] =>
               rowLock[m] \in {NoOne, t} /\ rowLock'[m] \in {NoOne, t}
        /\ refs'[m] # refs[m] => rowLock[m] \in {NoOne, t}

Good(t) == Local(t) /\ Respects(t) /\ SessionInv(t)'

USE ConstantsAssumption

LEMMA NoOneNotSession == NoOne \notin Sessions
BY DEF Sentinels

\* A step of t keeps what the other sessions' states say.
LEMMA FrameSessionInv ==
    ASSUME TypeInv, NEW t \in Sessions, NEW s \in Sessions, s # t,
           Local(t), Respects(t), SessionInv(s)
    PROVE  SessionInv(s)'
<1>1. ASSUME NEW m \in Names, rowLock[m] = s
      PROVE  rowLock'[m] = s /\ refs'[m] = refs[m]
  BY <1>1, NoOneNotSession DEF Respects
<1>2. /\ pc'[s] = pc[s] /\ op'[s] = op[s] /\ inTx'[s] = inTx[s]
      /\ aborted'[s] = aborted[s] /\ txRefs'[s] = txRefs[s]
  BY DEF Local
<1>3. Cas(s)' = Cas(s)
  BY <1>2 DEF Cas
<1>4. Cas(s) => op[s].name \in Names
  BY DEF Cas, CasSteps, TypeInv, ArgsTyped
<1>5. (\A n \in Names : txRefs[s][n] # Untouched => rowLock[n] = s)'
  BY <1>1, <1>2 DEF SessionInv
<1>6. (Cas(s) => /\ rowLock[op[s].name] = s
                 /\ refs[op[s].name] = Expected(op[s]))'
  BY <1>1, <1>2, <1>3, <1>4 DEF SessionInv
<1>7. Claim(s)' = Claim(s) /\ (Claim(s) => op[s].to \in Names)
  BY <1>2 DEF Claim, TypeInv, ArgsTyped, RenameSteps
<1>8. (Claim(s) => rowLock[op[s].to] = s /\ refs[op[s].to] = NoRef)'
  BY <1>1, <1>2, <1>7 DEF SessionInv
<1> QED
  BY <1>2, <1>5, <1>6, <1>8 DEF SessionInv

\* A statement that needs no lock held by another session finds each row
\* it needs free or its own.
LEMMA FreeRow ==
    ASSUME NEW t \in Sessions, Free(t), NEW n \in RowsNeeded(t)
    PROVE  rowLock[n] \in {NoOne, t}
BY DEF Free, Blockers

(***************************************************************************)
(* COMMIT or ROLLBACK, and the call returns: the session's pending writes *)
(* and locks go, and what COMMIT writes to the refs table is exactly the  *)
(* rows the transaction had locked.                                        *)
(***************************************************************************)
LEMMA EndGood ==
    ASSUME CasInv, NEW t \in Sessions, NEW a \in BOOLEAN, NEW r,
           EndTx(t, a), Return(t, r)
    PROVE  Good(t)
<1>1. Local(t)
  BY DEF EndTx, Return, Local, CasInv, TypeInv, TypeOK
<1>2. ASSUME NEW m \in Names, refs'[m] # refs[m] PROVE rowLock[m] = t
  <2>1. txRefs[t][m] # Untouched
    BY <1>2 DEF EndTx, View
  <2> QED
    BY <2>1 DEF CasInv, SessionInv
<1>3. Respects(t)
  BY <1>2 DEF Respects, EndTx, CasInv, TypeInv, TypeOK
<1>4. /\ txRefs'[t] = NoWrites /\ ~aborted'[t] /\ pc'[t] = "idle"
  BY DEF EndTx, Return, CasInv, TypeInv, TypeOK
<1>5. SessionInv(t)'
  BY <1>4 DEF SessionInv, NoWrites, FreshSteps, TxSteps, Cas, CasSteps, Claim
<1> QED
  BY <1>1, <1>3, <1>5 DEF Good

\* A checked statement fails: ROLLBACK and return.
LEMMA FailCallGood ==
    ASSUME CasInv, NEW t \in Sessions, FailCall(t)
    PROVE  Good(t)
BY EndGood DEF FailCall, Rollback

(***************************************************************************)
(* A round trip that writes no ref and takes no row lock and moves the    *)
(* call on to l, given what l needs of the session's state.                *)
(***************************************************************************)
LEMMA GotoGood ==
    ASSUME CasInv, NEW t \in Sessions, NEW l, Goto(t, l),
           UNCHANGED <<refs, rowLock, inTx, txRefs>>,
           aborted' = aborted \/ aborted' = [aborted EXCEPT ![t] = inTx[t]],
           l \in FreshSteps => txRefs[t] = NoWrites,
           aborted'[t] => l \in AbortSteps,
           l \in TxSteps => inTx[t],
           l \in CasSteps => pc[t] \in CasSteps,
           l # "r_delnew",
           l \in {"r_check", "r_update"} /\ ~op[t].force => txRefs[t] = NoWrites,
           l \in {"r_reflog", "r_finish"} => pc[t] \in {"r_reflog", "r_finish"}
    PROVE  Good(t)
<1>1. Local(t)
  BY DEF Goto, Local, CasInv, TypeInv, TypeOK
<1>2. Respects(t)
  BY DEF Respects
<1>3. (Cas(t)' => Cas(t)) /\ (Claim(t)' => Claim(t))
  BY DEF Goto, Cas, Claim, CasInv, TypeInv, TypeOK
<1>4. SessionInv(t)'
  BY <1>3 DEF Goto, SessionInv, CasInv, TypeInv, TypeOK
<1> QED
  BY <1>1, <1>2, <1>4 DEF Good

(***************************************************************************)
(* An idle session starts a call at l with arguments o, opening its        *)
(* transaction or not, or the call returns at once.                        *)
(***************************************************************************)
LEMMA StartGood ==
    ASSUME CasInv, NEW t \in Sessions, NEW l, NEW o, pc[t] = "idle",
           pc' = [pc EXCEPT ![t] = l], op' = [op EXCEPT ![t] = o],
           UNCHANGED <<refs, rowLock, txRefs, aborted>>,
           inTx' = inTx \/ inTx' = [inTx EXCEPT ![t] = TRUE],
           l \in TxSteps => inTx'[t],
           l \in CasSteps => o.force \/ ~Expects(o),
           l = "r_delnew" => o.force,
           l \notin {"r_reflog", "r_finish"}
    PROVE  Good(t)
<1>1. Local(t)
  BY DEF Local, CasInv, TypeInv, TypeOK
<1>2. Respects(t)
  BY DEF Respects
<1>3. txRefs[t] = NoWrites /\ ~aborted[t]
  BY DEF CasInv, SessionInv, FreshSteps, AbortSteps
<1>4. ~Cas(t)' /\ ~Claim(t)'
  BY DEF Cas, Claim, CasInv, TypeInv, TypeOK
<1>5. SessionInv(t)'
  <2>1. \A n \in Names : txRefs'[t][n] = Untouched
    BY <1>3 DEF NoWrites
  <2> QED
    BY <1>3, <1>4, <2>1 DEF SessionInv, CasInv, TypeInv, TypeOK
<1> QED
  BY <1>1, <1>2, <1>5 DEF Good

\* The calls that open a transaction: BEGIN, or its failure.
LEMMA BeginGood ==
    ASSUME CasInv, NEW t \in Sessions, NEW o, NEW first,
           pc[t] = "idle", Begin(t, o, first),
           UNCHANGED <<refs, rowLock, txRefs, aborted>>,
           first \in CasSteps => o.force \/ ~Expects(o),
           first = "r_delnew" => o.force,
           first \notin {"r_reflog", "r_finish"}
    PROVE  Good(t)
<1>1. CASE /\ inTx' = [inTx EXCEPT ![t] = TRUE]
           /\ pc' = [pc EXCEPT ![t] = first]
           /\ op' = [op EXCEPT ![t] = o]
  BY <1>1, StartGood DEF CasInv, TypeInv, TypeOK
<1>2. CASE Return(t, "error") /\ UNCHANGED inTx
  BY <1>2, StartGood DEF Return, CasSteps, TxSteps
<1> QED
  BY <1>1, <1>2 DEF Begin

(***************************************************************************)
(* The backend calls start.                                                *)
(***************************************************************************)
LEMMA WriteStartGood ==
    ASSUME CasInv, NEW t \in Sessions, pg_refdb_write(t)
    PROVE  Good(t)
<1>1. PICK n \in Names, v \in RefVal, f \in BOOLEAN,
           o \in Oids \cup {None}, ot \in Names \cup {None} :
          /\ StartCall(t)
          /\ Begin(t, Op("write", n, None, v, o, ot, f, 0, TRUE),
                   IF f THEN "w_upsert" ELSE "w_select")
  BY DEF pg_refdb_write
<1>2. (IF f THEN "w_upsert" ELSE "w_select") \in CasSteps =>
          Op("write", n, None, v, o, ot, f, 0, TRUE).force
  BY DEF CasSteps, Op
<1>3. (IF f THEN "w_upsert" ELSE "w_select") \notin {"r_delnew", "r_reflog", "r_finish"}
  OBVIOUS
<1> QED
  BY <1>1, <1>2, <1>3, BeginGood DEF pg_refdb_write, StartCall, dbVars, lockVars

LEMMA DelStartGood ==
    ASSUME CasInv, NEW t \in Sessions, pg_refdb_del(t)
    PROVE  Good(t)
<1>1. PICK n \in Names, o \in Oids \cup {None}, ot \in Names \cup {None} :
          /\ StartCall(t)
          /\ Begin(t, Op("del", n, None, None, o, ot, FALSE, 0, FALSE),
                   IF o = None /\ ot = None THEN "d_delete" ELSE "d_select")
  BY DEF pg_refdb_del
<1>2. (IF o = None /\ ot = None THEN "d_delete" ELSE "d_select") \in CasSteps =>
          ~Expects(Op("del", n, None, None, o, ot, FALSE, 0, FALSE))
  BY DEF CasSteps, Op, Expects
<1>3. (IF o = None /\ ot = None THEN "d_delete" ELSE "d_select")
        \notin {"r_delnew", "r_reflog", "r_finish"}
  OBVIOUS
<1> QED
  BY <1>1, <1>2, <1>3, BeginGood DEF pg_refdb_del, StartCall, dbVars, lockVars

LEMMA RenameStartGood ==
    ASSUME CasInv, NEW t \in Sessions, pg_refdb_rename(t)
    PROVE  Good(t)
<1>1. PICK n, u \in Names, f \in BOOLEAN :
          /\ StartCall(t)
          /\ Begin(t, Op("rename", n, u, None, None, None, f, 0, FALSE),
                   IF f THEN "r_delnew" ELSE "r_check")
  BY DEF pg_refdb_rename
<1>2. (IF f THEN "r_delnew" ELSE "r_check") \notin CasSteps
  BY DEF CasSteps
<1>3. /\ (IF f THEN "r_delnew" ELSE "r_check") \notin {"r_reflog", "r_finish"}
      /\ (IF f THEN "r_delnew" ELSE "r_check") = "r_delnew" =>
            Op("rename", n, u, None, None, None, f, 0, FALSE).force
  BY DEF Op
<1> QED
  BY <1>1, <1>2, <1>3, BeginGood DEF pg_refdb_rename, StartCall, dbVars, lockVars

LEMMA LockStartGood ==
    ASSUME CasInv, NEW t \in Sessions, pg_refdb_lock(t)
    PROVE  Good(t)
<1>1. PICK n \in Names \ tokens[t] :
          /\ StartCall(t)
          /\ Begin(t, Op("lock", n, None, None, None, None, FALSE, 0, FALSE),
                   "l_lock")
  BY DEF pg_refdb_lock
<1>2. "l_lock" \notin CasSteps \cup {"r_delnew", "r_reflog", "r_finish"}
  BY DEF CasSteps
<1> QED
  BY <1>1, <1>2, BeginGood DEF pg_refdb_lock, StartCall, dbVars, lockVars

LEMMA UnlockStartGood ==
    ASSUME CasInv, NEW t \in Sessions, pg_refdb_unlock(t)
    PROVE  Good(t)
<1>1. PICK n \in tokens[t], d \in 0..2 :
        \E v \in (IF d = 1 THEN RefVal ELSE {None}),
           g \in (IF d = 1 THEN BOOLEAN ELSE {FALSE}) :
          /\ op' = [op EXCEPT ![t] = Op("unlock", n, None, v, None, None, FALSE, d, g)]
          /\ pc' = [pc EXCEPT ![t] = CASE d = 1 -> "u_write" [] d = 2 -> "u_delete"
                                       [] OTHER -> "u_commit"]
  BY DEF pg_refdb_unlock
<1>2. (CASE d = 1 -> "u_write" [] d = 2 -> "u_delete" [] OTHER -> "u_commit")
        \in {"u_write", "u_delete", "u_commit"}
  OBVIOUS
<1>3. {"u_write", "u_delete", "u_commit"} \cap (TxSteps \cup CasSteps) = {}
  BY DEF TxSteps, CasSteps
<1> QED
  BY <1>1, <1>2, <1>3, StartGood
  DEF pg_refdb_unlock, dbVars, lockVars, txVars

\* pg_refdb_reflog_rename and pg_refdb_reflog_delete touch only the reflog.
LEMMA ReflogCallGood ==
    ASSUME CasInv, NEW t \in Sessions,
           pg_refdb_reflog_rename(t) \/ pg_refdb_reflog_delete(t)
    PROVE  Good(t)
<1>1. /\ pc[t] = "idle"
      /\ Return(t, "ok") \/ Return(t, "error")
      /\ UNCHANGED <<refs, rowLock, txRefs, aborted, inTx>>
  BY DEF pg_refdb_reflog_rename, pg_refdb_reflog_delete, StartCall, lockVars
<1> QED
  BY <1>1, StartGood DEF Return, TxSteps, CasSteps

(***************************************************************************)
(* The checks of write and del: with an expected value, "ok" means the    *)
(* row found is exactly the expected one.                                  *)
(***************************************************************************)
LEMMA DirectOrSymbolic ==
    ASSUME NEW cur \in RefVal
    PROVE  /\ cur.oid \in Oids => cur = Direct(cur.oid)
           /\ cur.symbolic \in Names => cur = Symbolic(cur.symbolic)
BY DEF RefVal, Direct, Symbolic, Sentinels

LEMMA WriteCheckExpected ==
    ASSUME NEW o \in OpRec, NEW cur \in RefVal \cup {NoRef}, Expects(o),
           WriteCheck(o, cur) = "ok"
    PROVE  cur = Expected(o) /\ cur # NoRef
<1>1. ~(o.old = None /\ o.oldTarget = None)
  BY DEF Expects
<1>2. cur # NoRef
  BY <1>1 DEF WriteCheck
<1>3. CASE o.old # None
  <2>1. cur.oid = o.old
    BY <1>1, <1>2, <1>3 DEF WriteCheck
  <2>2. o.old \in Oids
    BY <1>3 DEF OpRec
  <2> QED
    BY <1>2, <1>3, <2>1, <2>2, DirectOrSymbolic DEF Expected
<1>4. CASE o.old = None
  <2>1. cur.symbolic = o.oldTarget
    BY <1>1, <1>2, <1>4 DEF WriteCheck
  <2>2. o.oldTarget \in Names
    BY <1>1, <1>4 DEF OpRec
  <2> QED
    BY <1>2, <1>4, <2>1, <2>2, DirectOrSymbolic DEF Expected
<1> QED
  BY <1>3, <1>4

LEMMA DelCheckExpected ==
    ASSUME NEW o \in OpRec, NEW cur \in RefVal \cup {NoRef}, Expects(o),
           DelCheck(o, cur) = "ok"
    PROVE  cur = Expected(o) /\ cur # NoRef
<1>2. cur # NoRef
  BY DEF DelCheck
<1>3. CASE o.old # None
  <2>1. cur.oid = o.old
    BY <1>2, <1>3 DEF DelCheck
  <2>2. o.old \in Oids
    BY <1>3 DEF OpRec
  <2> QED
    BY <1>2, <1>3, <2>1, <2>2, DirectOrSymbolic DEF Expected
<1>4. CASE o.old = None
  <2>1. cur.symbolic = o.oldTarget
    BY <1>2, <1>4 DEF DelCheck, Expects
  <2>2. o.oldTarget \in Names
    BY <1>4 DEF OpRec, Expects
  <2> QED
    BY <1>2, <1>4, <2>1, <2>2, DirectOrSymbolic DEF Expected
<1> QED
  BY <1>3, <1>4

(***************************************************************************)
(* A statement that upserts or deletes row n, which it needs and finds    *)
(* free or its own, and moves the call on to l.                            *)
(***************************************************************************)
LEMMA SetRefGood ==
    ASSUME CasInv, NEW t \in Sessions, NEW n \in Names, NEW v, NEW l,
           Free(t), n \in RowsNeeded(t), SetRef(t, n, v), Goto(t, l),
           UNCHANGED <<inTx, aborted>>, ~aborted[t], l \notin FreshSteps,
           l \in TxSteps => inTx[t],
           l \in CasSteps => pc[t] \in CasSteps /\ n = op[t].name,
           l # "r_delnew", l \in {"r_check", "r_update"} => op[t].force,
           l \notin {"r_reflog", "r_finish"}
    PROVE  Good(t)
<1>1. rowLock[n] \in {NoOne, t}
  BY FreeRow
<1>2. Local(t)
  BY DEF SetRef, Goto, Local, CasInv, TypeInv, TypeOK
<1>3. Respects(t)
  BY <1>1 DEF SetRef, Respects, CasInv, TypeInv, TypeOK
<1>4. (\A m \in Names : txRefs[t][m] # Untouched => rowLock[m] = t)'
  <2>1. CASE inTx[t]
    <3>1. /\ txRefs'[t] = [txRefs[t] EXCEPT ![n] = v]
          /\ rowLock' = [rowLock EXCEPT ![n] = t]
      BY <2>1 DEF SetRef, CasInv, TypeInv, TypeOK
    <3> QED
      BY <3>1 DEF CasInv, SessionInv, TypeInv, TypeOK
  <2>2. CASE ~inTx[t]
    BY <2>2 DEF SetRef, CasInv, SessionInv
  <2> QED
    BY <2>1, <2>2
<1>5. ASSUME Cas(t)' PROVE rowLock'[op'[t].name] = t /\ refs'[op'[t].name] = Expected(op'[t])
  <2>1. Cas(t) /\ n = op[t].name /\ op'[t] = op[t]
    BY <1>5 DEF Cas, Goto, CasInv, TypeInv, TypeOK
  <2>2. inTx[t] /\ rowLock[n] = t /\ refs[n] = Expected(op[t])
    BY <2>1 DEF CasInv, SessionInv, Cas, CasSteps, TxSteps
  <2> QED
    BY <2>1, <2>2 DEF SetRef, CasInv, TypeInv, TypeOK
<1>6. SessionInv(t)'
  BY <1>4, <1>5 DEF SessionInv, Goto, Claim, CasInv, TypeInv, TypeOK
<1> QED
  BY <1>2, <1>3, <1>6 DEF Good

(***************************************************************************)
(* pg_refdb_write.                                                         *)
(***************************************************************************)
LEMMA WriteSelectGood ==
    ASSUME CasInv, NEW t \in Sessions, WriteSelect(t)
    PROVE  Good(t)
<1> DEFINE n == op[t].name
           r == WriteCheck(op[t], View(t, n))
<1>1. /\ n \in Names /\ op[t] \in OpRec
      /\ txRefs[t] = NoWrites /\ ~aborted[t] /\ inTx[t]
  <2>1. pc[t] = "w_select" /\ n \in Names /\ op[t] \in OpRec
    BY DEF WriteSelect, CasInv, TypeInv, ArgsTyped, TypeOK
  <2>2. SessionInv(t)
    BY DEF CasInv
  <2>3. txRefs[t] = NoWrites
    BY <2>1, <2>2 DEF SessionInv, FreshSteps
  <2>4. ~aborted[t]
    BY <2>1, <2>2 DEF SessionInv, AbortSteps
  <2>5. inTx[t]
    BY <2>1, <2>2 DEF SessionInv, TxSteps
  <2> QED
    BY <2>1, <2>3, <2>4, <2>5
<1>2. CASE FailCall(t)
  BY <1>2, FailCallGood
<1>3. CASE ~FailCall(t) /\ r # "ok"
  BY <1>3, EndGood DEF WriteSelect, Rollback
<1>4. CASE ~FailCall(t) /\ r = "ok"
  <2>1. /\ IF Visible(t, n) THEN LockRow(t, n) ELSE UNCHANGED rowLock
        /\ Goto(t, "w_upsert")
        /\ UNCHANGED <<refs, inTx, aborted, txRefs>>
        /\ Free(t)
    BY <1>4 DEF WriteSelect, txVars
  <2>2. View(t, n) = refs[n]
    BY <1>1 DEF View, NoWrites
  <2>3. Visible(t, n) => n \in RowsNeeded(t)
    BY <1>1 DEF WriteSelect, RowsNeeded
  <2>4. Local(t)
    BY <2>1 DEF LockRow, Goto, Local, CasInv, TypeInv, TypeOK
  <2>5. Respects(t)
    BY <2>1, <2>3, FreeRow DEF LockRow, Respects, CasInv, TypeInv, TypeOK
  <2>6. ASSUME Cas(t)'
        PROVE  rowLock'[n] = t /\ refs'[n] = Expected(op'[t])
    <3>1. Expects(op[t]) /\ op'[t] = op[t]
      BY <2>1, <2>6 DEF Cas, Goto
    <3>2. refs[n] \in RefVal \cup {NoRef}
      BY <1>1 DEF CasInv, TypeInv, TypeOK
    <3>3. refs[n] = Expected(op[t])
      BY <1>1, <1>4, <2>2, <3>1, <3>2, WriteCheckExpected
    <3>4. Visible(t, n)
      BY <1>1, <1>4, <2>2, <3>1, <3>2, WriteCheckExpected DEF Visible
    <3> QED
      BY <1>1, <2>1, <3>1, <3>3, <3>4 DEF LockRow, CasInv, TypeInv, TypeOK
  <2>7. SessionInv(t)'
    <3>1. /\ pc'[t] = "w_upsert" /\ op'[t] = op[t] /\ txRefs'[t] = NoWrites
          /\ ~aborted'[t] /\ inTx'[t]
      BY <1>1, <2>1 DEF Goto, CasInv, TypeInv, TypeOK
    <3>2. (\A m \in Names : txRefs[t][m] # Untouched => rowLock[m] = t)'
      BY <3>1 DEF NoWrites
    <3>3. /\ pc'[t] \notin FreshSteps \cup {"r_delnew", "r_check", "r_update"}
          /\ ~Claim(t)'
      BY <3>1 DEF FreshSteps, Claim
    <3>4. (Cas(t) => /\ rowLock[op[t].name] = t
                     /\ refs[op[t].name] = Expected(op[t]))'
      BY <3>1, <2>6
    <3> QED
      BY <3>1, <3>2, <3>3, <3>4 DEF SessionInv, TxSteps
  <2> QED
    BY <2>4, <2>5, <2>7 DEF Good
<1> QED
  BY <1>2, <1>3, <1>4

LEMMA WriteUpsertGood ==
    ASSUME CasInv, NEW t \in Sessions, WriteUpsert(t)
    PROVE  Good(t)
<1>1. /\ op[t].name \in Names /\ ~aborted[t] /\ inTx[t]
  BY DEF WriteUpsert, CasInv, TypeInv, ArgsTyped, SessionInv, AbortSteps, TxSteps
<1>2. CASE FailCall(t)
  BY <1>2, FailCallGood
<1>3. CASE /\ Free(t)
           /\ SetRef(t, op[t].name, op[t].val)
           /\ Goto(t, "w_reflog")
           /\ UNCHANGED <<inTx, aborted>>
  <2>1. op[t].name \in RowsNeeded(t)
    BY <1>1 DEF WriteUpsert, RowsNeeded
  <2> QED
    BY <1>1, <1>3, <2>1, SetRefGood
    DEF WriteUpsert, FreshSteps, TxSteps, CasSteps
<1> QED
  BY <1>2, <1>3 DEF WriteUpsert

LEMMA WriteReflogGood ==
    ASSUME CasInv, NEW t \in Sessions, WriteReflog(t)
    PROVE  Good(t)
<1>1. CASE FailCall(t)
  BY <1>1, FailCallGood
<1>2. CASE InsertLog(t, op[t].name, op[t].old, op[t].val.oid)
           /\ Goto(t, "w_commit")
           /\ UNCHANGED <<refs, lockVars, inTx, aborted, txRefs>>
  <2>1. inTx[t] /\ ~aborted[t]
    BY DEF WriteReflog, CasInv, SessionInv, TxSteps, AbortSteps
  <2> QED
    BY <1>2, <2>1, GotoGood DEF WriteReflog, lockVars, FreshSteps, TxSteps,
                                CasSteps
<1> QED
  BY <1>1, <1>2 DEF WriteReflog

\* COMMIT of a call, or ROLLBACK after COMMIT failed.
LEMMA CommitCallGood ==
    ASSUME CasInv, NEW t \in Sessions, CommitCall(t)
    PROVE  Good(t)
BY FailCallGood, EndGood DEF CommitCall, Commit

LEMMA WriteCommitGood ==
    ASSUME CasInv, NEW t \in Sessions, WriteCommit(t)
    PROVE  Good(t)
BY CommitCallGood DEF WriteCommit

(***************************************************************************)
(* pg_refdb_del.                                                           *)
(***************************************************************************)
LEMMA DelSelectGood ==
    ASSUME CasInv, NEW t \in Sessions, DelSelect(t)
    PROVE  Good(t)
<1> DEFINE n == op[t].name
           r == DelCheck(op[t], View(t, n))
<1>1. /\ n \in Names /\ op[t] \in OpRec
      /\ txRefs[t] = NoWrites /\ ~aborted[t] /\ inTx[t]
  <2>1. pc[t] = "d_select" /\ n \in Names /\ op[t] \in OpRec
    BY DEF DelSelect, CasInv, TypeInv, ArgsTyped, TypeOK
  <2>2. SessionInv(t)
    BY DEF CasInv
  <2>3. txRefs[t] = NoWrites
    BY <2>1, <2>2 DEF SessionInv, FreshSteps
  <2>4. ~aborted[t]
    BY <2>1, <2>2 DEF SessionInv, AbortSteps
  <2>5. inTx[t]
    BY <2>1, <2>2 DEF SessionInv, TxSteps
  <2> QED
    BY <2>1, <2>3, <2>4, <2>5
<1>2. CASE FailCall(t)
  BY <1>2, FailCallGood
<1>3. CASE ~FailCall(t) /\ r # "ok"
  BY <1>3, EndGood DEF DelSelect, Rollback
<1>4. CASE ~FailCall(t) /\ r = "ok"
  <2>1. /\ LockRow(t, n)
        /\ Goto(t, "d_delete")
        /\ UNCHANGED <<refs, inTx, aborted, txRefs>>
        /\ Free(t)
    BY <1>4 DEF DelSelect, txVars
  <2>2. View(t, n) = refs[n] /\ refs[n] \in RefVal \cup {NoRef}
    BY <1>1 DEF View, NoWrites, CasInv, TypeInv, TypeOK
  <2>3. refs[n] # NoRef
    BY <1>4, <2>2 DEF DelCheck
  <2>4. n \in RowsNeeded(t)
    BY <1>1, <2>2, <2>3 DEF DelSelect, RowsNeeded, Visible
  <2>5. Local(t)
    BY <2>1 DEF LockRow, Goto, Local, CasInv, TypeInv, TypeOK
  <2>6. Respects(t)
    BY <2>1, <2>4, FreeRow DEF LockRow, Respects, CasInv, TypeInv, TypeOK
  <2>7. ASSUME Cas(t)'
        PROVE  rowLock'[n] = t /\ refs'[n] = Expected(op'[t])
    <3>1. Expects(op[t]) /\ op'[t] = op[t]
      BY <2>1, <2>7 DEF Cas, Goto
    <3>2. refs[n] = Expected(op[t])
      BY <1>1, <1>4, <2>2, <3>1, DelCheckExpected
    <3> QED
      BY <1>1, <2>1, <3>1, <3>2 DEF LockRow, CasInv, TypeInv, TypeOK
  <2>8. SessionInv(t)'
    <3>1. /\ pc'[t] = "d_delete" /\ op'[t] = op[t] /\ txRefs'[t] = NoWrites
          /\ ~aborted'[t] /\ inTx'[t]
      BY <1>1, <2>1 DEF Goto, CasInv, TypeInv, TypeOK
    <3>2. (\A m \in Names : txRefs[t][m] # Untouched => rowLock[m] = t)'
      BY <3>1 DEF NoWrites
    <3>3. /\ pc'[t] \notin FreshSteps \cup {"r_delnew", "r_check", "r_update"}
          /\ ~Claim(t)'
      BY <3>1 DEF FreshSteps, Claim
    <3>4. (Cas(t) => /\ rowLock[op[t].name] = t
                     /\ refs[op[t].name] = Expected(op[t]))'
      BY <3>1, <2>7
    <3> QED
      BY <3>1, <3>2, <3>3, <3>4 DEF SessionInv, TxSteps
  <2> QED
    BY <2>5, <2>6, <2>8 DEF Good
<1> QED
  BY <1>2, <1>3, <1>4

LEMMA DelDeleteGood ==
    ASSUME CasInv, NEW t \in Sessions, DelDelete(t)
    PROVE  Good(t)
<1> DEFINE n == op[t].name
<1>1. /\ n \in Names /\ ~aborted[t] /\ inTx[t]
      /\ (Cas(t)' => pc[t] \in CasSteps)
  BY DEF DelDelete, CasInv, TypeInv, ArgsTyped, SessionInv, AbortSteps,
         TxSteps, Cas, CasSteps
<1>2. CASE FailCall(t)
  BY <1>2, FailCallGood
<1>3. CASE /\ Free(t) /\ Visible(t, n) /\ SetRef(t, n, NoRef)
           /\ Goto(t, "d_reflog") /\ UNCHANGED <<inTx, aborted>>
  <2>1. n \in RowsNeeded(t)
    BY <1>1, <1>3 DEF DelDelete, RowsNeeded
  <2> QED
    BY <1>1, <1>3, <2>1, SetRefGood
    DEF DelDelete, FreshSteps, TxSteps, CasSteps
<1>4. CASE /\ ~Visible(t, n) /\ UNCHANGED <<refs, txRefs, rowLock>>
           /\ Goto(t, "d_reflog") /\ UNCHANGED <<inTx, aborted>>
  BY <1>1, <1>4, GotoGood DEF DelDelete, FreshSteps, TxSteps, CasSteps
<1> QED
  BY <1>2, <1>3, <1>4 DEF DelDelete

LEMMA DelReflogGood ==
    ASSUME CasInv, NEW t \in Sessions, DelReflog(t)
    PROVE  Good(t)
<1>1. inTx[t] /\ ~aborted[t]
  BY DEF DelReflog, CasInv, SessionInv, TxSteps, AbortSteps
<1>2. /\ Goto(t, "d_commit")
      /\ UNCHANGED <<refs, rowLock, inTx, txRefs>>
      /\ aborted' = aborted \/ aborted' = [aborted EXCEPT ![t] = inTx[t]]
  BY DEF DelReflog, Abort, lockVars
<1> QED
  BY <1>1, <1>2, GotoGood DEF DelReflog, FreshSteps, AbortSteps, TxSteps,
                              CasSteps

LEMMA DelCommitGood ==
    ASSUME CasInv, NEW t \in Sessions, DelCommit(t)
    PROVE  Good(t)
BY CommitCallGood DEF DelCommit

(***************************************************************************)
(* pg_refdb_rename.  No step of it is a compare-and-swap step; what must  *)
(* be shown is that the rows it writes are the rows it locks.              *)
(***************************************************************************)
LEMMA RenameCheckGood ==
    ASSUME CasInv, NEW t \in Sessions, RenameCheck(t)
    PROVE  Good(t)
<1>1. CASE FailCall(t)
  BY <1>1, FailCallGood
<1>2. CASE Rollback(t) /\ Return(t, "exists")
  BY <1>2, EndGood DEF Rollback
<1>3. CASE Goto(t, "r_update") /\ UNCHANGED <<refs, lockVars, txVars>>
  <2>1. ~op[t].force => txRefs[t] = NoWrites
    BY DEF RenameCheck, CasInv, SessionInv
  <2> QED
    BY <1>3, <2>1, GotoGood DEF txVars, lockVars, FreshSteps, TxSteps, CasSteps,
                                AbortSteps
<1> QED
  BY <1>1, <1>2, <1>3 DEF RenameCheck

LEMMA RenameDelNewGood ==
    ASSUME CasInv, NEW t \in Sessions, RenameDelNew(t)
    PROVE  Good(t)
<1> DEFINE u == op[t].to
<1>1. u \in Names /\ ~aborted[t] /\ op[t].force
  BY DEF RenameDelNew, CasInv, TypeInv, ArgsTyped, RenameSteps, SessionInv,
         AbortSteps
<1>2. Goto(t, "r_update") /\ UNCHANGED inTx
  BY DEF RenameDelNew
<1>3. CASE Free(t) /\ Visible(t, u) /\ SetRef(t, u, NoRef) /\ UNCHANGED aborted
  <2>1. u \in RowsNeeded(t)
    BY <1>1, <1>3 DEF RenameDelNew, RowsNeeded
  <2> QED
    BY <1>1, <1>2, <1>3, <2>1, SetRefGood DEF FreshSteps, TxSteps, CasSteps
<1>4. CASE /\ UNCHANGED <<refs, txRefs, rowLock>>
           /\ aborted' = aborted \/ aborted' = [aborted EXCEPT ![t] = inTx[t]]
  BY <1>1, <1>2, <1>4, GotoGood DEF FreshSteps, TxSteps, CasSteps, AbortSteps
<1> QED
  BY <1>3, <1>4 DEF RenameDelNew, Abort

\* The UPDATE of the name writes and locks both rows.
LEMMA RenameRowsGood ==
    ASSUME CasInv, NEW t \in Sessions, pc[t] = "r_update", ~aborted[t],
           Free(t), Visible(t, op[t].name), ~Visible(t, op[t].to),
           txRefs' = [txRefs EXCEPT ![t][op[t].to] = View(t, op[t].name),
                                    ![t][op[t].name] = NoRef],
           rowLock' = [rowLock EXCEPT ![op[t].name] = t, ![op[t].to] = t],
           Goto(t, "r_reflog"),
           UNCHANGED <<refs, inTx, aborted>>
    PROVE  Good(t)
<1> DEFINE n == op[t].name
           u == op[t].to
<1>1. n \in Names /\ u \in Names
  BY DEF CasInv, TypeInv, ArgsTyped, RenameSteps
<1>2. n \in RowsNeeded(t) /\ u \in RowsNeeded(t)
  BY DEF RowsNeeded
<1>3. txRefs' = [txRefs EXCEPT ![t] =
                   [[txRefs[t] EXCEPT ![u] = View(t, n)] EXCEPT ![n] = NoRef]]
  BY <1>1 DEF CasInv, TypeInv, TypeOK
<1>4. Local(t)
  BY <1>3 DEF Goto, Local, CasInv, TypeInv, TypeOK
<1>0. /\ rowLock \in [Names -> Sessions \cup {NoOne}]
      /\ txRefs[t] \in [Names -> RefVal \cup {NoRef, Untouched}]
  BY DEF CasInv, TypeInv, TypeOK
<1>5. Respects(t)
  <2>1. ASSUME NEW m \in Names, rowLock'[m] # rowLock[m] PROVE m \in {n, u}
    BY <1>0, <1>1, <2>1
  <2>2. rowLock[n] \in {NoOne, t} /\ rowLock[u] \in {NoOne, t}
    BY <1>2, FreeRow
  <2>3. rowLock'[n] = t /\ rowLock'[u] = t
    BY <1>0, <1>1
  <2> QED
    BY <2>1, <2>2, <2>3 DEF Respects
<1>6. ASSUME NEW m \in Names, txRefs'[t][m] # Untouched PROVE rowLock'[m] = t
  <2>1. CASE m \in {n, u}
    BY <1>1, <2>1 DEF CasInv, TypeInv, TypeOK
  <2>2. CASE m \notin {n, u}
    <3>4. m # n /\ m # u
      BY <2>2
    <3>5. txRefs'[t] = [[txRefs[t] EXCEPT ![u] = View(t, n)] EXCEPT ![n] = NoRef]
      BY <1>3, <1>0 DEF CasInv, TypeInv, TypeOK
    <3>6. txRefs'[t][m] = txRefs[t][m]
      BY <1>0, <3>4, <3>5
    <3>1. txRefs[t][m] # Untouched
      BY <1>6, <3>6
    <3>2. rowLock'[m] = rowLock[m]
      BY <1>0, <1>1, <2>2
    <3>3. rowLock[m] = t
      BY <3>1 DEF CasInv, SessionInv
    <3> QED
      BY <3>2, <3>3
  <2> QED
    BY <2>1, <2>2
<1>7. ~op[t].force => refs[u] = NoRef
  <2>1. ~op[t].force => txRefs[t] = NoWrites
    BY DEF CasInv, SessionInv
  <2>2. ~op[t].force => View(t, u) = refs[u]
    BY <1>1, <2>1 DEF View, NoWrites
  <2> QED
    BY <2>2 DEF Visible
<1>8. rowLock'[u] = t /\ op'[t] = op[t]
  BY <1>1 DEF Goto, CasInv, TypeInv, TypeOK
<1>9. SessionInv(t)'
  <2>1. /\ pc'[t] = "r_reflog" /\ ~aborted'[t] /\ refs' = refs
    BY <1>1 DEF Goto, CasInv, TypeInv, TypeOK
  <2>2. /\ pc'[t] \notin FreshSteps \cup TxSteps \cup {"r_delnew", "r_check", "r_update"}
        /\ ~Cas(t)'
    BY <2>1 DEF FreshSteps, TxSteps, Cas, CasSteps
  <2>3. (Claim(t) => rowLock[op[t].to] = t /\ refs[op[t].to] = NoRef)'
    BY <1>7, <1>8, <2>1 DEF Claim
  <2> QED
    BY <1>6, <2>1, <2>2, <2>3 DEF SessionInv
<1> QED
  BY <1>4, <1>5, <1>9 DEF Good

LEMMA RenameUpdateGood ==
    ASSUME CasInv, NEW t \in Sessions, RenameUpdate(t)
    PROVE  Good(t)
<1>1. CASE FailCall(t)
  BY <1>1, FailCallGood
<1>2. CASE Rollback(t) /\ (Return(t, "error") \/ Return(t, "notfound"))
  BY <1>2, EndGood DEF Rollback
<1>3. CASE /\ ~aborted[t] /\ Free(t) /\ Visible(t, op[t].name)
           /\ ~Visible(t, op[t].to)
           /\ txRefs' = [txRefs EXCEPT ![t][op[t].to] = View(t, op[t].name),
                                       ![t][op[t].name] = NoRef]
           /\ rowLock' = [rowLock EXCEPT ![op[t].name] = t, ![op[t].to] = t]
           /\ Goto(t, "r_reflog")
           /\ UNCHANGED <<refs, inTx, aborted>>
  BY <1>3, RenameRowsGood DEF RenameUpdate
<1> QED
  BY <1>1, <1>2, <1>3 DEF RenameUpdate

LEMMA RenameReflogGood ==
    ASSUME CasInv, NEW t \in Sessions, RenameReflog(t)
    PROVE  Good(t)
<1>1. /\ pc[t] = "r_reflog" /\ Goto(t, "r_finish")
      /\ UNCHANGED <<refs, rowLock, inTx, txRefs>>
      /\ aborted' = aborted \/ aborted' = [aborted EXCEPT ![t] = inTx[t]]
  BY DEF RenameReflog, Abort, lockVars
<1> QED
  BY <1>1, GotoGood DEF FreshSteps, AbortSteps, TxSteps, CasSteps

LEMMA RenameFinishGood ==
    ASSUME CasInv, NEW t \in Sessions, RenameFinish(t)
    PROVE  Good(t)
BY CommitCallGood, EndGood DEF RenameFinish, Rollback

(***************************************************************************)
(* pg_refdb_lock and pg_refdb_unlock.                                      *)
(***************************************************************************)
LEMMA LockAcquireGood ==
    ASSUME CasInv, NEW t \in Sessions, LockAcquire(t)
    PROVE  Good(t)
<1>1. CASE FailCall(t)
  BY <1>1, FailCallGood
<1>2. CASE Return(t, "ok") /\ UNCHANGED <<dbVars, rowLock, txVars>>
  <2>1. txRefs[t] = NoWrites /\ ~aborted[t]
    BY DEF LockAcquire, CasInv, SessionInv, FreshSteps, AbortSteps
  <2>2. Local(t) /\ Respects(t)
    BY <1>2 DEF Return, Local, Respects, dbVars, txVars, CasInv, TypeInv, TypeOK
  <2>3. pc'[t] = "idle" /\ txRefs'[t] = NoWrites /\ ~aborted'[t]
    BY <1>2, <2>1 DEF Return, txVars, CasInv, TypeInv, TypeOK
  <2>4. SessionInv(t)'
    BY <2>3 DEF SessionInv, NoWrites, FreshSteps, TxSteps, Cas, CasSteps, Claim
  <2> QED
    BY <2>2, <2>4 DEF Good
<1> QED
  BY <1>1, <1>2 DEF LockAcquire

\* A statement of unlock failed: the call goes on to its ROLLBACK.
LEMMA UnlockAbortGood ==
    ASSUME CasInv, NEW t \in Sessions, Abort(t), Goto(t, "u_rollback"),
           UNCHANGED <<refs, rowLock, inTx, txRefs>>
    PROVE  Good(t)
BY GotoGood DEF Abort, FreshSteps, AbortSteps, TxSteps, CasSteps

LEMMA UnlockWriteGood ==
    ASSUME CasInv, NEW t \in Sessions, UnlockWrite(t)
    PROVE  Good(t)
<1>1. op[t].name \in Names /\ ~aborted[t]
  BY DEF UnlockWrite, CasInv, TypeInv, ArgsTyped, SessionInv, AbortSteps
<1>2. CASE /\ Free(t) /\ SetRef(t, op[t].name, op[t].val)
           /\ Goto(t, IF op[t].log THEN "u_reflog" ELSE "u_commit")
           /\ UNCHANGED <<inTx, aborted>>
  <2>1. op[t].name \in RowsNeeded(t)
    BY <1>1 DEF UnlockWrite, RowsNeeded
  <2>2. (IF op[t].log THEN "u_reflog" ELSE "u_commit")
          \notin FreshSteps \cup TxSteps \cup CasSteps
    BY DEF FreshSteps, TxSteps, CasSteps
  <2> QED
    BY <1>1, <1>2, <2>1, <2>2, SetRefGood
<1>3. CASE Abort(t) /\ Goto(t, "u_rollback")
           /\ UNCHANGED <<refs, rowLock, inTx, txRefs>>
  BY <1>3, UnlockAbortGood
<1> QED
  BY <1>2, <1>3 DEF UnlockWrite, lockVars

LEMMA UnlockReflogGood ==
    ASSUME CasInv, NEW t \in Sessions, UnlockReflog(t)
    PROVE  Good(t)
<1>1. ~aborted[t]
  BY DEF UnlockReflog, CasInv, SessionInv, AbortSteps
<1>2. CASE Goto(t, "u_commit") /\ UNCHANGED <<refs, rowLock, inTx, aborted, txRefs>>
  BY <1>1, <1>2, GotoGood DEF FreshSteps, TxSteps, CasSteps
<1>3. CASE Abort(t) /\ Goto(t, "u_rollback")
           /\ UNCHANGED <<refs, rowLock, inTx, txRefs>>
  BY <1>3, UnlockAbortGood
<1> QED
  BY <1>2, <1>3 DEF UnlockReflog, lockVars

LEMMA UnlockDeleteGood ==
    ASSUME CasInv, NEW t \in Sessions, UnlockDelete(t)
    PROVE  Good(t)
<1> DEFINE n == op[t].name
<1>1. n \in Names /\ ~aborted[t]
  BY DEF UnlockDelete, CasInv, TypeInv, ArgsTyped, SessionInv, AbortSteps
<1>2. CASE /\ Free(t) /\ Visible(t, n) /\ SetRef(t, n, NoRef)
           /\ Goto(t, "u_dreflog") /\ UNCHANGED <<inTx, aborted>>
  <2>1. n \in RowsNeeded(t)
    BY <1>1, <1>2 DEF UnlockDelete, RowsNeeded
  <2> QED
    BY <1>1, <1>2, <2>1, SetRefGood DEF FreshSteps, TxSteps, CasSteps
<1>3. CASE /\ UNCHANGED <<refs, txRefs, rowLock>>
           /\ Goto(t, "u_dreflog") /\ UNCHANGED <<inTx, aborted>>
  BY <1>1, <1>3, GotoGood DEF FreshSteps, TxSteps, CasSteps
<1>4. CASE Abort(t) /\ Goto(t, "u_rollback")
           /\ UNCHANGED <<refs, rowLock, inTx, txRefs>>
  BY <1>4, UnlockAbortGood
<1> QED
  BY <1>2, <1>3, <1>4 DEF UnlockDelete, lockVars

LEMMA UnlockDelReflogGood ==
    ASSUME CasInv, NEW t \in Sessions, UnlockDelReflog(t)
    PROVE  Good(t)
<1>1. /\ Goto(t, "u_commit")
      /\ UNCHANGED <<refs, rowLock, inTx, txRefs>>
      /\ aborted' = aborted \/ aborted' = [aborted EXCEPT ![t] = inTx[t]]
  BY DEF UnlockDelReflog, Abort, lockVars
<1> QED
  BY <1>1, GotoGood DEF FreshSteps, AbortSteps, TxSteps, CasSteps

LEMMA UnlockEndGood ==
    ASSUME CasInv, NEW t \in Sessions, UnlockEnd(t)
    PROVE  Good(t)
<1>1. aborted[t] \in BOOLEAN
  BY DEF CasInv, TypeInv, TypeOK
<1> QED
  BY <1>1, EndGood DEF UnlockEnd, Commit, Rollback, FailCall

-----------------------------------------------------------------------------
\* Every step of a session keeps its own invariant and respects the others'.
LEMMA SessionStepGood ==
    ASSUME CasInv, NEW t \in Sessions, Start(t) \/ Step(t)
    PROVE  Good(t)
<1>1. CASE Start(t)
  BY <1>1, WriteStartGood, DelStartGood, RenameStartGood, LockStartGood,
     ReflogCallGood DEF Start
<1>2. CASE Step(t)
  BY <1>2, WriteSelectGood, WriteUpsertGood, WriteReflogGood, WriteCommitGood,
     DelSelectGood, DelDeleteGood, DelReflogGood, DelCommitGood,
     RenameCheckGood, RenameDelNewGood, RenameUpdateGood, RenameReflogGood,
     RenameFinishGood, LockAcquireGood, UnlockStartGood, UnlockWriteGood,
     UnlockReflogGood, UnlockDeleteGood, UnlockDelReflogGood, UnlockEndGood
  DEF Step
<1> QED
  BY <1>1, <1>2

LEMMA InitCasInv == Init => CasInv
<1> SUFFICES ASSUME Init PROVE CasInv
  OBVIOUS
<1>1. TypeInv
  BY InitTypeInv
<1>2. \A s \in Sessions : SessionInv(s)
  BY DEF Init, SessionInv, NoWrites, FreshSteps, TxSteps, Cas, CasSteps, Claim
<1> QED
  BY <1>1, <1>2 DEF CasInv

LEMMA NextCasInv == CasInv /\ [Next]_vars => CasInv'
<1> SUFFICES ASSUME CasInv, [Next]_vars PROVE CasInv'
  OBVIOUS
<1>1. TypeInv'
  BY NextTypeInv DEF CasInv
<1>2. CASE UNCHANGED vars
  BY <1>1, <1>2 DEF vars, dbVars, lockVars, txVars, sessVars, CasInv,
                    SessionInv, Cas, Claim
<1>3. ASSUME NEW t \in Sessions, Start(t) \/ Step(t)
      PROVE  \A s \in Sessions : SessionInv(s)'
  <2>1. Good(t)
    BY <1>3, SessionStepGood
  <2>2. ASSUME NEW s \in Sessions PROVE SessionInv(s)'
    <3>1. CASE s = t
      BY <2>1, <3>1 DEF Good
    <3>2. CASE s # t
      BY <2>1, <3>2, FrameSessionInv DEF Good, CasInv
    <3> QED
      BY <3>1, <3>2
  <2> QED
    BY <2>2
<1> QED
  BY <1>1, <1>2, <1>3 DEF Next, CasInv

\* The invariant holds in every reachable state.
LEMMA CasInvariant == Spec => []CasInv
BY InitCasInv, NextCasInv, PTL DEF Spec

\* What CasExclusive asks of one step, and why it holds in every state of
\* the invariant: a call at w_commit or d_commit that expects a value is
\* past its check, so the committed row still holds that value.
CasStep ==
    \A s \in Sessions :
        (/\ Succeeds(s, "w_commit") \/ Succeeds(s, "d_commit")
         /\ ~op[s].force /\ Expects(op[s]))
        => refs[op[s].name] = Expected(op[s])

LEMMA CasInvStep == CasInv => CasStep
BY DEF CasInv, SessionInv, CasStep, Succeeds, Cas, CasSteps

(***************************************************************************)
(* Compare-and-swap linearisability of pg_refdb_write and pg_refdb_del    *)
(* (CasExclusive of run refstore_safety), for every number of sessions,   *)
(* ref names and object ids and every bound on calls, lock payloads and   *)
(* database failures: a call that names an expected value and reports     *)
(* success commits while the committed ref still holds that value, so of  *)
(* two calls that expect the same value and change it at most one         *)
(* succeeds.  It rests on the row lock taken by SELECT ... FOR UPDATE     *)
(* being held to COMMIT, and on every writer of a row holding its lock.    *)
(***************************************************************************)
THEOREM CasLinearisable == Spec => CasExclusive
<1>1. CasInv => CasStep
  BY CasInvStep
<1> QED
  BY <1>1, CasInvariant, PTL DEF CasExclusive, CasStep

\* What RenameNoClobber asks of one step: a rename without force at its
\* COMMIT has claimed the new name, which has no committed row.
RenameStep ==
    \A s \in Sessions :
        (Succeeds(s, "r_finish") /\ ~op[s].force) => refs[op[s].to] = NoRef

LEMMA CasInvRenameStep == CasInv => RenameStep
BY DEF CasInv, SessionInv, RenameStep, Succeeds, Claim

(***************************************************************************)
(* pg_refdb_rename without force never replaces a ref (RenameNoClobber of *)
(* run refstore_safety), for every number of sessions, names and bounds:   *)
(* when it reports success, no committed ref has the new name just before *)
(* its COMMIT.  The check at refdb_postgres.c:614 is a plain SELECT and  *)
(* may be stale by the UPDATE; the argument is that the UPDATE waits for *)
(* the row lock of the new name, fails on a visible row of that name,     *)
(* and otherwise holds the lock, so no other session can commit a row of *)
(* that name before the rename commits.                                    *)
(***************************************************************************)
THEOREM RenameNeverClobbers == Spec => RenameNoClobber
<1>1. CasInv => RenameStep
  BY CasInvRenameStep
<1> QED
  BY <1>1, CasInvariant, PTL DEF RenameNoClobber, RenameStep

====
