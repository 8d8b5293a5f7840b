--------------------------- MODULE RefStoreProofs ---------------------------
(***************************************************************************)
(* Proofs about RefStore, for every number of sessions, ref names, object *)
(* ids and every bound.                                                    *)
(***************************************************************************)
EXTENDS RefStore, TLAPS

(***************************************************************************)
(* TypeOK is not inductive by itself: the steps of a call read its        *)
(* arguments, so the invariant also says that a call in progress has a     *)
(* ref name, a new value where it writes one and a new name where it       *)
(* renames.                                                                *)
(***************************************************************************)
WritesVal == {"w_select", "w_upsert", "w_reflog", "w_commit", "u_write", "u_reflog"}
RenameSteps == {"r_check", "r_delnew", "r_update", "r_reflog", "r_finish"}

ArgsTyped ==
    \A s \in Sessions :
        /\ pc[s] # "idle" => op[s].name \in Names
        /\ pc[s] \in WritesVal => op[s].val \in RefVal
        /\ pc[s] \in RenameSteps => op[s].to \in Names

TypeInv == TypeOK /\ ArgsTyped

\* What a session's statements see of a ref is a row or no row.
LEMMA ViewType ==
    ASSUME TypeOK, NEW s \in Sessions, NEW n \in Names
    PROVE  View(s, n) \in RefVal \cup {NoRef}
BY ConstantsAssumption DEF TypeOK, View

\* A failed statement keeps the failure count within its bound.
LEMMA FailedType ==
    ASSUME TypeOK, NEW s \in Sessions, Failed(s)
    PROVE  faults' \in 0..MaxFaults
BY ConstantsAssumption DEF TypeOK, Failed

\* The initial states are typed: no call is in progress.
LEMMA InitTypeInv == Init => TypeInv
<1> SUFFICES ASSUME Init PROVE TypeInv
  OBVIOUS
<1>1. NoOp \in OpRec
  BY DEF NoOp, Op, OpRec, OpKinds
<1>2. nextId \in 1..(MaxOps + 1)
  BY ConstantsAssumption DEF Init
<1>3. txUpd \in [Sessions -> [Ids -> Names \cup {Gone, Untouched}]]
  BY DEF Init, NoLogWrites
<1>4. txRefs \in [Sessions -> [Names -> RefVal \cup {NoRef, Untouched}]]
  BY DEF Init, NoWrites
<1>5. ArgsTyped
  BY DEF Init, ArgsTyped, WritesVal, RenameSteps
<1> QED
  BY <1>1, <1>2, <1>3, <1>4, <1>5, ConstantsAssumption
  DEF Init, TypeInv, TypeOK, Labels, Results

(***************************************************************************)
(* The parts of TypeOK that ending a transaction rewrites.                 *)
(***************************************************************************)
StoreTyped ==
    /\ refs \in [Names -> RefVal \cup {NoRef}]
    /\ reflog \subseteq LogEntry
    /\ rowLock \in [Names -> Sessions \cup {NoOne}]
    /\ advLock \in [Names -> Sessions \cup {NoOne}]
    /\ inTx \in [Sessions -> BOOLEAN]
    /\ aborted \in [Sessions -> BOOLEAN]
    /\ txRefs \in [Sessions -> [Names -> RefVal \cup {NoRef, Untouched}]]
    /\ txIns \in [Sessions -> SUBSET LogEntry]
    /\ txUpd \in [Sessions -> [Ids -> Names \cup {Gone, Untouched}]]

\* The reflog a transaction would commit holds typed rows: a row it
\* renamed gets a ref name, and the rows it deleted are left out.
LEMMA VisibleLogType ==
    ASSUME TypeOK, NEW s \in Sessions
    PROVE  VisibleLog(s) \subseteq LogEntry
<1>1. ASSUME NEW e \in reflog, LogName(s, e) # Gone
      PROVE  [e EXCEPT !.name = LogName(s, e)] \in LogEntry
  <2>1. e \in LogEntry
    BY DEF TypeOK
  <2>2. LogName(s, e) \in Names
    BY <2>1, <1>1, ConstantsAssumption DEF TypeOK, LogName, LogEntry
  <2> QED
    BY <2>1, <2>2 DEF LogEntry
<1>2. txIns[s] \subseteq LogEntry
  BY DEF TypeOK
<1> QED
  BY <1>1, <1>2 DEF VisibleLog

\* COMMIT and ROLLBACK leave the store typed.
LEMMA EndTxType ==
    ASSUME TypeOK, NEW s \in Sessions, NEW a \in BOOLEAN, EndTx(s, a)
    PROVE  StoreTyped'
<1>1. [n \in Names |-> View(s, n)] \in [Names -> RefVal \cup {NoRef}]
  BY ViewType
<1>2. VisibleLog(s) \subseteq LogEntry
  BY VisibleLogType
<1> QED
  BY <1>1, <1>2 DEF EndTx, TypeOK, StoreTyped, NoWrites, NoLogWrites

(***************************************************************************)
(* A call that ends its transaction and returns leaves everything typed,  *)
(* whatever it does with its lock payloads.                                *)
(***************************************************************************)
LEMMA EndCallType ==
    ASSUME TypeInv, NEW s \in Sessions, NEW a \in BOOLEAN, NEW r \in Results,
           EndTx(s, a), Return(s, r),
           nextId' = nextId, opsDone' = opsDone,
           tokens' \in [Sessions -> SUBSET Names], faults' \in 0..MaxFaults
    PROVE  TypeInv'
<1>1. StoreTyped'
  BY EndTxType DEF TypeInv
<1>2. op' \in [Sessions -> OpRec]
  BY DEF TypeInv, TypeOK, Return, NoOp, Op, OpRec, OpKinds
<1>3. ArgsTyped'
  BY DEF TypeInv, TypeOK, ArgsTyped, Return, WritesVal, RenameSteps
<1> QED
  BY <1>1, <1>2, <1>3 DEF TypeInv, TypeOK, StoreTyped, Return, Labels, Results

\* A checked statement that fails ends the call typed.
LEMMA FailCallType ==
    ASSUME TypeInv, NEW s \in Sessions, FailCall(s),
           UNCHANGED <<nextId, tokens, opsDone>>
    PROVE  TypeInv'
<1>1. faults' \in 0..MaxFaults
  BY FailedType DEF FailCall, TypeInv
<1>2. EndTx(s, FALSE) /\ Return(s, "error")
  BY DEF FailCall, Rollback
<1>3. tokens' \in [Sessions -> SUBSET Names]
  BY DEF TypeInv, TypeOK
<1> QED
  BY <1>1, <1>2, <1>3, EndCallType DEF Results

(***************************************************************************)
(* A call that moves on to its next round trip stays typed, given that the *)
(* store is typed after the step and the next round trip reads no         *)
(* argument the call does not have.                                        *)
(***************************************************************************)
LEMMA GotoType ==
    ASSUME TypeInv, NEW s \in Sessions, NEW l \in Labels \ {"idle"},
           Goto(s, l), pc[s] # "idle",
           l \in WritesVal => pc[s] \in WritesVal,
           l \in RenameSteps => pc[s] \in RenameSteps,
           StoreTyped', nextId' \in 1..(MaxOps + 1), faults' \in 0..MaxFaults,
           UNCHANGED <<ret, tokens, opsDone>>
    PROVE  TypeInv'
<1>1. ArgsTyped'
  BY DEF TypeInv, TypeOK, ArgsTyped, Goto
<1> QED
  BY <1>1 DEF TypeInv, TypeOK, StoreTyped, Goto

(***************************************************************************)
(* The statements keep what they write typed.                              *)
(***************************************************************************)
LEMMA SetRefType ==
    ASSUME TypeOK, NEW s \in Sessions, NEW n \in Names,
           NEW v \in RefVal \cup {NoRef}, SetRef(s, n, v)
    PROVE  /\ refs' \in [Names -> RefVal \cup {NoRef}]
           /\ txRefs' \in [Sessions -> [Names -> RefVal \cup {NoRef, Untouched}]]
           /\ rowLock' \in [Names -> Sessions \cup {NoOne}]
<1>1. CASE inTx[s]
  <2>1. [txRefs[s] EXCEPT ![n] = v] \in [Names -> RefVal \cup {NoRef, Untouched}]
    BY DEF TypeOK
  <2>2. txRefs' = [txRefs EXCEPT ![s] = [txRefs[s] EXCEPT ![n] = v]]
    BY <1>1 DEF SetRef
  <2>3. rowLock' = [rowLock EXCEPT ![n] = s] /\ refs' = refs
    BY <1>1 DEF SetRef
  <2> QED
    BY <2>1, <2>2, <2>3 DEF TypeOK
<1>2. CASE ~inTx[s]
  <2>1. refs' = [refs EXCEPT ![n] = v] /\ UNCHANGED <<txRefs, rowLock>>
    BY <1>2 DEF SetRef
  <2> QED
    BY <2>1 DEF TypeOK
<1> QED
  BY <1>1, <1>2

LEMMA InsertLogType ==
    ASSUME TypeOK, NEW s \in Sessions, NEW n \in Names,
           NEW o \in Oids \cup {None}, NEW w \in Oids \cup {None},
           InsertLog(s, n, o, w)
    PROVE  /\ nextId' \in 1..(MaxOps + 1)
           /\ reflog' \subseteq LogEntry
           /\ txIns' \in [Sessions -> SUBSET LogEntry]
<1>1. [id |-> nextId, name |-> n, old |-> o, new |-> w] \in LogEntry
  BY ConstantsAssumption DEF TypeOK, InsertLog, LogEntry, Ids
<1>2. nextId' \in 1..(MaxOps + 1)
  BY ConstantsAssumption DEF TypeOK, InsertLog
<1> DEFINE e == [id |-> nextId, name |-> n, old |-> o, new |-> w]
<1>3. CASE inTx[s]
  <2>1. txIns' = [txIns EXCEPT ![s] = txIns[s] \cup {e}] /\ reflog' = reflog
    BY <1>3 DEF InsertLog
  <2> QED
    BY <1>1, <1>2, <2>1 DEF TypeOK
<1>4. CASE ~inTx[s]
  <2>1. reflog' = reflog \cup {e} /\ txIns' = txIns
    BY <1>4 DEF InsertLog
  <2> QED
    BY <1>1, <1>2, <2>1 DEF TypeOK
<1> QED
  BY <1>3, <1>4

LEMMA RenameLogRowsType ==
    ASSUME TypeOK, NEW s \in Sessions, NEW f \in Names, NEW t \in Names,
           RenameLogRows(s, f, t)
    PROVE  /\ reflog' \subseteq LogEntry
           /\ txIns' \in [Sessions -> SUBSET LogEntry]
           /\ txUpd' \in [Sessions -> [Ids -> Names \cup {Gone, Untouched}]]
<1> DEFINE Moved(e) == IF e.name = f THEN [e EXCEPT !.name = t] ELSE e
<1>1. ASSUME NEW e \in LogEntry PROVE Moved(e) \in LogEntry
  BY DEF LogEntry
<1>2. CASE inTx[s]
  <2> DEFINE g == [i \in Ids |-> IF \E e \in reflog : e.id = i /\ LogName(s, e) = f
                                THEN t ELSE txUpd[s][i]]
  <2>1. g \in [Ids -> Names \cup {Gone, Untouched}]
    BY DEF TypeOK
  <2>2. txUpd' = [txUpd EXCEPT ![s] = g]
    BY <1>2 DEF RenameLogRows
  <2>3. {Moved(e) : e \in txIns[s]} \subseteq LogEntry
    BY <1>1 DEF TypeOK
  <2>4. txIns' = [txIns EXCEPT ![s] = {Moved(e) : e \in txIns[s]}]
    BY <1>2 DEF RenameLogRows
  <2> QED
    BY <1>2, <2>1, <2>2, <2>3, <2>4 DEF TypeOK, RenameLogRows
<1>3. CASE ~inTx[s]
  <2>1. reflog' = {Moved(e) : e \in reflog} /\ UNCHANGED <<txUpd, txIns>>
    BY <1>3 DEF RenameLogRows
  <2> QED
    BY <1>1, <2>1 DEF TypeOK
<1> QED
  BY <1>2, <1>3

LEMMA DeleteLogRowsType ==
    ASSUME TypeOK, NEW s \in Sessions, NEW n \in Names, DeleteLogRows(s, n)
    PROVE  /\ reflog' \subseteq LogEntry
           /\ txIns' \in [Sessions -> SUBSET LogEntry]
           /\ txUpd' \in [Sessions -> [Ids -> Names \cup {Gone, Untouched}]]
<1>1. CASE inTx[s]
  <2> DEFINE g == [i \in Ids |-> IF \E e \in reflog : e.id = i /\ LogName(s, e) = n
                                THEN Gone ELSE txUpd[s][i]]
  <2>1. g \in [Ids -> Names \cup {Gone, Untouched}]
    BY DEF TypeOK
  <2>2. txUpd' = [txUpd EXCEPT ![s] = g]
    BY <1>1 DEF DeleteLogRows
  <2> QED
    BY <1>1, <2>1, <2>2 DEF TypeOK, DeleteLogRows
<1>2. CASE ~inTx[s]
  BY <1>2 DEF TypeOK, DeleteLogRows
<1> QED
  BY <1>1, <1>2

(***************************************************************************)
(* Starting a call: the arguments recorded are typed, and BEGIN either    *)
(* opens the transaction or fails the call.                                *)
(***************************************************************************)
LEMMA BeginType ==
    ASSUME TypeInv, NEW s \in Sessions, NEW o \in OpRec,
           NEW first \in Labels \ {"idle"},
           o.name \in Names,
           first \in WritesVal => o.val \in RefVal,
           first \in RenameSteps => o.to \in Names,
           StartCall(s), Begin(s, o, first),
           UNCHANGED <<refs, reflog, nextId, rowLock, advLock, aborted,
                       txRefs, txIns, txUpd, tokens>>
    PROVE  TypeInv'
<1>1. opsDone' \in 0..MaxOps
  BY ConstantsAssumption DEF StartCall, TypeInv, TypeOK
<1>2. CASE /\ inTx' = [inTx EXCEPT ![s] = TRUE]
           /\ pc' = [pc EXCEPT ![s] = first]
           /\ op' = [op EXCEPT ![s] = o]
           /\ UNCHANGED <<faults, ret>>
  BY <1>1, <1>2 DEF TypeInv, TypeOK, ArgsTyped
<1>3. CASE /\ faults < MaxFaults
           /\ faults' = faults + 1
           /\ Return(s, "error")
           /\ UNCHANGED inTx
  <2>1. NoOp \in OpRec
    BY DEF NoOp, Op, OpRec, OpKinds
  <2> QED
    BY <1>1, <1>3, <2>1, ConstantsAssumption
    DEF TypeInv, TypeOK, ArgsTyped, Return, Results, Labels, WritesVal, RenameSteps
<1> QED
  BY <1>2, <1>3 DEF Begin

\* The outcome of the compare-and-swap checks is a result code.
LEMMA CheckRange ==
    ASSUME NEW o, NEW c
    PROVE  /\ WriteCheck(o, c) \in Results
           /\ DelCheck(o, c) \in Results
BY DEF WriteCheck, DelCheck, Results

LEMMA WriteStartType ==
    ASSUME TypeInv, NEW s \in Sessions, pg_refdb_write(s)
    PROVE  TypeInv'
<1>1. PICK n \in Names, v \in RefVal, f \in BOOLEAN,
           o \in Oids \cup {None}, ot \in Names \cup {None} :
          /\ StartCall(s)
          /\ Begin(s, Op("write", n, None, v, o, ot, f, 0, TRUE),
                   IF f THEN "w_upsert" ELSE "w_select")
  BY DEF pg_refdb_write
<1>2. Op("write", n, None, v, o, ot, f, 0, TRUE) \in OpRec
  BY DEF Op, OpRec, OpKinds
<1>3. /\ (IF f THEN "w_upsert" ELSE "w_select") \in Labels \ {"idle"}
      /\ (IF f THEN "w_upsert" ELSE "w_select") \in WritesVal
      /\ (IF f THEN "w_upsert" ELSE "w_select") \notin RenameSteps
  BY DEF Labels, WritesVal, RenameSteps
<1>4. UNCHANGED <<refs, reflog, nextId, rowLock, advLock, aborted,
                  txRefs, txIns, txUpd, tokens>>
  BY DEF pg_refdb_write, dbVars, lockVars
<1> QED
  BY <1>1, <1>2, <1>3, <1>4, BeginType DEF Op

LEMMA WriteSelectType ==
    ASSUME TypeInv, NEW s \in Sessions, WriteSelect(s)
    PROVE  TypeInv'
<1>1. op[s].name \in Names
  BY DEF WriteSelect, TypeInv, ArgsTyped
<1>2. CASE FailCall(s)
  BY <1>2, FailCallType DEF WriteSelect
<1> DEFINE r == WriteCheck(op[s], View(s, op[s].name))
<1>3. CASE ~FailCall(s) /\ r = "ok"
  <2>1. /\ \/ rowLock' = [rowLock EXCEPT ![op[s].name] = s]
            \/ rowLock' = rowLock
        /\ Goto(s, "w_upsert")
        /\ UNCHANGED <<refs, reflog, nextId, advLock, txVars, ret, tokens, opsDone, faults>>
    BY <1>3 DEF WriteSelect, LockRow
  <2>2. StoreTyped'
    BY <1>1, <2>1 DEF TypeInv, TypeOK, StoreTyped, txVars
  <2> QED
    BY <2>1, <2>2, GotoType
    DEF WriteSelect, TypeInv, TypeOK, Labels, WritesVal, RenameSteps
<1>4. CASE ~FailCall(s) /\ r # "ok"
  <2>1. Rollback(s) /\ Return(s, r) /\ faults' = faults
        /\ UNCHANGED <<nextId, tokens, opsDone>>
    BY <1>4 DEF WriteSelect
  <2>2. r \in Results
    BY CheckRange
  <2> QED
    BY <2>1, <2>2, EndCallType DEF Rollback, TypeInv, TypeOK
<1> QED
  BY <1>2, <1>3, <1>4

LEMMA WriteUpsertType ==
    ASSUME TypeInv, NEW s \in Sessions, WriteUpsert(s)
    PROVE  TypeInv'
<1>1. op[s].name \in Names /\ op[s].val \in RefVal
  BY DEF WriteUpsert, TypeInv, ArgsTyped, WritesVal
<1>2. CASE FailCall(s)
  BY <1>2, FailCallType DEF WriteUpsert
<1>3. CASE ~FailCall(s)
  <2>1. /\ SetRef(s, op[s].name, op[s].val)
        /\ Goto(s, "w_reflog")
        /\ UNCHANGED <<reflog, nextId, advLock, inTx, aborted, txIns, txUpd,
                       ret, tokens, opsDone, faults>>
    BY <1>3 DEF WriteUpsert
  <2>2. StoreTyped'
    BY <1>1, <2>1, SetRefType DEF TypeInv, TypeOK, StoreTyped
  <2> QED
    BY <2>1, <2>2, GotoType
    DEF WriteUpsert, TypeInv, TypeOK, Labels, WritesVal, RenameSteps
<1> QED
  BY <1>2, <1>3

LEMMA WriteReflogType ==
    ASSUME TypeInv, NEW s \in Sessions, WriteReflog(s)
    PROVE  TypeInv'
<1>1. /\ op[s].name \in Names
      /\ op[s].old \in Oids \cup {None}
      /\ op[s].val.oid \in Oids \cup {None}
  BY DEF WriteReflog, TypeInv, TypeOK, ArgsTyped, WritesVal, OpRec, RefVal,
     Direct, Symbolic
<1>2. CASE FailCall(s) /\ UNCHANGED nextId
  BY <1>2, FailCallType DEF WriteReflog
<1>3. CASE ~(FailCall(s) /\ UNCHANGED nextId)
  <2>1. /\ InsertLog(s, op[s].name, op[s].old, op[s].val.oid)
        /\ Goto(s, "w_commit")
        /\ UNCHANGED <<refs, lockVars, inTx, aborted, txRefs, txUpd,
                       ret, tokens, opsDone, faults>>
    BY <1>3 DEF WriteReflog
  <2>2. StoreTyped' /\ nextId' \in 1..(MaxOps + 1)
    BY <1>1, <2>1, InsertLogType DEF TypeInv, TypeOK, StoreTyped, lockVars
  <2> QED
    BY <2>1, <2>2, GotoType
    DEF WriteReflog, TypeInv, TypeOK, Labels, WritesVal, RenameSteps
<1> QED
  BY <1>2, <1>3

\* COMMIT, or ROLLBACK after a failed COMMIT, ends the call typed.
LEMMA CommitCallType ==
    ASSUME TypeInv, NEW s \in Sessions, CommitCall(s),
           UNCHANGED <<nextId, tokens, opsDone>>
    PROVE  TypeInv'
<1>1. CASE FailCall(s)
  BY <1>1, FailCallType
<1>2. CASE Commit(s) /\ Return(s, "ok") /\ UNCHANGED faults
  <2>1. EndTx(s, ~aborted[s]) /\ (~aborted[s]) \in BOOLEAN
    <3>1. EndTx(s, ~aborted[s])
      BY <1>2, Zenon DEF Commit
    <3>2. (~aborted[s]) \in BOOLEAN
      OBVIOUS
    <3> QED
      BY <3>1, <3>2
  <2>2. "ok" \in Results
    BY DEF Results
  <2>3. /\ tokens' \in [Sessions -> SUBSET Names]
        /\ faults' \in 0..MaxFaults
    BY <1>2 DEF TypeInv, TypeOK
  <2> QED
    BY <1>2, <2>1, <2>2, <2>3, EndCallType
<1> QED
  BY <1>1, <1>2 DEF CommitCall

LEMMA WriteCommitType ==
    ASSUME TypeInv, NEW s \in Sessions, WriteCommit(s)
    PROVE  TypeInv'
BY CommitCallType DEF WriteCommit

LEMMA DelStartType ==
    ASSUME TypeInv, NEW s \in Sessions, pg_refdb_del(s)
    PROVE  TypeInv'
<1>1. PICK n \in Names, o \in Oids \cup {None}, ot \in Names \cup {None} :
          /\ StartCall(s)
          /\ Begin(s, Op("del", n, None, None, o, ot, FALSE, 0, FALSE),
                   IF o = None /\ ot = None THEN "d_delete" ELSE "d_select")
  BY DEF pg_refdb_del
<1>2. Op("del", n, None, None, o, ot, FALSE, 0, FALSE) \in OpRec
  BY DEF Op, OpRec, OpKinds
<1>3. /\ (IF o = None /\ ot = None THEN "d_delete" ELSE "d_select") \in Labels \ {"idle"}
      /\ (IF o = None /\ ot = None THEN "d_delete" ELSE "d_select") \notin WritesVal
      /\ (IF o = None /\ ot = None THEN "d_delete" ELSE "d_select") \notin RenameSteps
  BY DEF Labels, WritesVal, RenameSteps
<1>4. UNCHANGED <<refs, reflog, nextId, rowLock, advLock, aborted,
                  txRefs, txIns, txUpd, tokens>>
  BY DEF pg_refdb_del, dbVars, lockVars
<1> QED
  BY <1>1, <1>2, <1>3, <1>4, BeginType DEF Op

LEMMA DelSelectType ==
    ASSUME TypeInv, NEW s \in Sessions, DelSelect(s)
    PROVE  TypeInv'
<1>1. op[s].name \in Names
  BY DEF DelSelect, TypeInv, ArgsTyped
<1>2. CASE FailCall(s)
  BY <1>2, FailCallType DEF DelSelect
<1> DEFINE r == DelCheck(op[s], View(s, op[s].name))
<1>3. CASE ~FailCall(s) /\ r = "ok"
  <2>1. /\ rowLock' = [rowLock EXCEPT ![op[s].name] = s]
        /\ Goto(s, "d_delete")
        /\ UNCHANGED <<refs, reflog, nextId, advLock, txVars, ret, tokens, opsDone, faults>>
    BY <1>3 DEF DelSelect, LockRow
  <2>2. StoreTyped'
    BY <1>1, <2>1 DEF TypeInv, TypeOK, StoreTyped, txVars
  <2> QED
    BY <2>1, <2>2, GotoType
    DEF DelSelect, TypeInv, TypeOK, Labels, WritesVal, RenameSteps
<1>4. CASE ~FailCall(s) /\ r # "ok"
  <2>1. Rollback(s) /\ Return(s, r) /\ faults' = faults
        /\ UNCHANGED <<nextId, tokens, opsDone>>
    BY <1>4 DEF DelSelect
  <2>2. r \in Results
    BY CheckRange
  <2> QED
    BY <2>1, <2>2, EndCallType DEF Rollback, TypeInv, TypeOK
<1> QED
  BY <1>2, <1>3, <1>4

LEMMA DelDeleteType ==
    ASSUME TypeInv, NEW s \in Sessions, DelDelete(s)
    PROVE  TypeInv'
<1>1. op[s].name \in Names
  BY DEF DelDelete, TypeInv, ArgsTyped
<1>2. CASE FailCall(s)
  BY <1>2, FailCallType DEF DelDelete
<1>3. CASE ~FailCall(s)
  <2>1. /\ \/ SetRef(s, op[s].name, NoRef)
           \/ UNCHANGED <<refs, txRefs, rowLock>>
        /\ Goto(s, "d_reflog")
        /\ UNCHANGED <<reflog, nextId, advLock, inTx, aborted, txIns, txUpd,
                       ret, tokens, opsDone, faults>>
    BY <1>3 DEF DelDelete
  <2>2. StoreTyped'
    BY <1>1, <2>1, SetRefType DEF TypeInv, TypeOK, StoreTyped
  <2> QED
    BY <2>1, <2>2, GotoType
    DEF DelDelete, TypeInv, TypeOK, Labels, WritesVal, RenameSteps
<1> QED
  BY <1>2, <1>3

\* An unchecked statement: it takes effect, or fails and aborts the
\* transaction; either way the call goes on to round trip l.
LEMMA UncheckedLogType ==
    ASSUME TypeInv, NEW s \in Sessions, NEW l \in Labels \ {"idle"},
           pc[s] # "idle",
           l \notin WritesVal, l \in RenameSteps => pc[s] \in RenameSteps,
           \/ /\ reflog' \subseteq LogEntry
              /\ txIns' \in [Sessions -> SUBSET LogEntry]
              /\ txUpd' \in [Sessions -> [Ids -> Names \cup {Gone, Untouched}]]
              /\ UNCHANGED <<aborted, faults>>
           \/ Failed(s) /\ Abort(s) /\ UNCHANGED <<reflog, txIns, txUpd>>,
           Goto(s, l),
           UNCHANGED <<refs, nextId, lockVars, inTx, txRefs, ret, tokens, opsDone>>
    PROVE  TypeInv'
<1>1. StoreTyped' /\ faults' \in 0..MaxFaults
  BY FailedType DEF TypeInv, TypeOK, StoreTyped, Abort, lockVars
<1> QED
  BY <1>1, GotoType DEF TypeInv, TypeOK

LEMMA DelReflogType ==
    ASSUME TypeInv, NEW s \in Sessions, DelReflog(s)
    PROVE  TypeInv'
<1>1. op[s].name \in Names
  BY DEF DelReflog, TypeInv, ArgsTyped
<1>2. DeleteLogRows(s, op[s].name) =>
        /\ reflog' \subseteq LogEntry
        /\ txIns' \in [Sessions -> SUBSET LogEntry]
        /\ txUpd' \in [Sessions -> [Ids -> Names \cup {Gone, Untouched}]]
  BY <1>1, DeleteLogRowsType DEF TypeInv
<1> QED
  BY <1>2, UncheckedLogType DEF DelReflog, Labels, WritesVal, RenameSteps

LEMMA DelCommitType ==
    ASSUME TypeInv, NEW s \in Sessions, DelCommit(s)
    PROVE  TypeInv'
BY CommitCallType DEF DelCommit

LEMMA RenameStartType ==
    ASSUME TypeInv, NEW s \in Sessions, pg_refdb_rename(s)
    PROVE  TypeInv'
<1>1. PICK n \in Names, t \in Names, f \in BOOLEAN :
          /\ StartCall(s)
          /\ Begin(s, Op("rename", n, t, None, None, None, f, 0, FALSE),
                   IF f THEN "r_delnew" ELSE "r_check")
  BY DEF pg_refdb_rename
<1>2. Op("rename", n, t, None, None, None, f, 0, FALSE) \in OpRec
  BY DEF Op, OpRec, OpKinds
<1>3. /\ (IF f THEN "r_delnew" ELSE "r_check") \in Labels \ {"idle"}
      /\ (IF f THEN "r_delnew" ELSE "r_check") \notin WritesVal
  BY DEF Labels, WritesVal
<1>4. UNCHANGED <<refs, reflog, nextId, rowLock, advLock, aborted,
                  txRefs, txIns, txUpd, tokens>>
  BY DEF pg_refdb_rename, dbVars, lockVars
<1> QED
  BY <1>1, <1>2, <1>3, <1>4, BeginType DEF Op

LEMMA RenameCheckType ==
    ASSUME TypeInv, NEW s \in Sessions, RenameCheck(s)
    PROVE  TypeInv'
<1>1. CASE Visible(s, op[s].to) /\ Rollback(s) /\ Return(s, "exists")
           /\ UNCHANGED faults
  <2>1. "exists" \in Results
    BY DEF Results
  <2> QED
    BY <1>1, <2>1, EndCallType DEF RenameCheck, Rollback, TypeInv, TypeOK
<1>2. CASE ~Visible(s, op[s].to) /\ Goto(s, "r_update")
           /\ UNCHANGED <<refs, reflog, lockVars, txVars, ret, faults>>
  <2>1. StoreTyped'
    BY <1>2 DEF TypeInv, TypeOK, StoreTyped, lockVars, txVars
  <2> QED
    BY <1>2, <2>1, GotoType
    DEF RenameCheck, TypeInv, TypeOK, Labels, WritesVal, RenameSteps
<1>3. CASE FailCall(s)
  BY <1>3, FailCallType DEF RenameCheck
<1> QED
  BY <1>1, <1>2, <1>3 DEF RenameCheck

LEMMA RenameDelNewType ==
    ASSUME TypeInv, NEW s \in Sessions, RenameDelNew(s)
    PROVE  TypeInv'
<1>1. op[s].to \in Names
  BY DEF RenameDelNew, TypeInv, ArgsTyped, RenameSteps
<1>2. UNCHANGED <<reflog, nextId, advLock, inTx, txIns, txUpd>>
  BY DEF RenameDelNew
<1>3. StoreTyped' /\ faults' \in 0..MaxFaults
  <2>1. CASE Free(s) /\ Visible(s, op[s].to) /\ SetRef(s, op[s].to, NoRef)
             /\ UNCHANGED <<aborted, faults>>
    BY <1>1, <1>2, <2>1, SetRefType DEF TypeInv, TypeOK, StoreTyped
  <2>2. CASE UNCHANGED <<refs, txRefs, rowLock, aborted, faults>>
    BY <1>2, <2>2 DEF TypeInv, TypeOK, StoreTyped
  <2>3. CASE Failed(s) /\ Abort(s) /\ UNCHANGED <<refs, txRefs, rowLock>>
    BY <1>2, <2>3, FailedType DEF TypeInv, TypeOK, StoreTyped, Abort
  <2> QED
    BY <2>1, <2>2, <2>3, Zenon DEF RenameDelNew
<1> QED
  BY <1>3, GotoType DEF RenameDelNew, TypeInv, TypeOK, Labels, WritesVal, RenameSteps

LEMMA RenameUpdateType ==
    ASSUME TypeInv, NEW s \in Sessions, RenameUpdate(s)
    PROVE  TypeInv'
<1> DEFINE n == op[s].name
           t == op[s].to
<1>1. n \in Names /\ t \in Names
  BY DEF RenameUpdate, TypeInv, ArgsTyped, RenameSteps
<1>2. "error" \in Results /\ "notfound" \in Results
  BY DEF Results
<1>3. CASE Rollback(s) /\ (Return(s, "error") \/ Return(s, "notfound"))
           /\ UNCHANGED faults
  BY <1>2, <1>3, EndCallType DEF RenameUpdate, Rollback, TypeInv, TypeOK
<1>4. CASE /\ Visible(s, n)
           /\ txRefs' = [txRefs EXCEPT ![s][t] = View(s, n), ![s][n] = NoRef]
           /\ rowLock' = [rowLock EXCEPT ![n] = s, ![t] = s]
           /\ Goto(s, "r_reflog")
           /\ UNCHANGED <<refs, reflog, advLock, inTx, aborted, txIns, txUpd,
                          ret, faults>>
  <2>1. View(s, n) \in RefVal \cup {NoRef}
    BY <1>1, ViewType DEF TypeInv
  <2>2. [[txRefs[s] EXCEPT ![t] = View(s, n)] EXCEPT ![n] = NoRef]
          \in [Names -> RefVal \cup {NoRef, Untouched}]
    BY <1>1, <2>1 DEF TypeInv, TypeOK
  <2> DEFINE T1 == [txRefs EXCEPT ![s] = [txRefs[s] EXCEPT ![t] = View(s, n)]]
  <2>5. txRefs' = [T1 EXCEPT ![s] = [T1[s] EXCEPT ![n] = NoRef]]
    BY <1>4
  <2>6. T1[s] = [txRefs[s] EXCEPT ![t] = View(s, n)]
    BY DEF TypeInv, TypeOK
  <2>3. txRefs' = [txRefs EXCEPT ![s] =
                     [[txRefs[s] EXCEPT ![t] = View(s, n)] EXCEPT ![n] = NoRef]]
    BY <2>5, <2>6 DEF TypeInv, TypeOK
  <2>7. txRefs' \in [Sessions -> [Names -> RefVal \cup {NoRef, Untouched}]]
    BY <2>2, <2>3 DEF TypeInv, TypeOK
  <2>8. rowLock' \in [Names -> Sessions \cup {NoOne}]
    BY <1>1, <1>4 DEF TypeInv, TypeOK
  <2>4. StoreTyped'
    BY <1>4, <2>7, <2>8 DEF TypeInv, TypeOK, StoreTyped
  <2> QED
    BY <1>4, <2>4, GotoType
    DEF RenameUpdate, TypeInv, TypeOK, Labels, WritesVal, RenameSteps
<1>5. CASE FailCall(s)
  BY <1>5, FailCallType DEF RenameUpdate
<1> QED
  BY <1>3, <1>4, <1>5 DEF RenameUpdate

LEMMA RenameReflogType ==
    ASSUME TypeInv, NEW s \in Sessions, RenameReflog(s)
    PROVE  TypeInv'
<1>1. op[s].name \in Names /\ op[s].to \in Names
  BY DEF RenameReflog, TypeInv, ArgsTyped, RenameSteps
<1>2. RenameLogRows(s, op[s].name, op[s].to) =>
        /\ reflog' \subseteq LogEntry
        /\ txIns' \in [Sessions -> SUBSET LogEntry]
        /\ txUpd' \in [Sessions -> [Ids -> Names \cup {Gone, Untouched}]]
  BY <1>1, RenameLogRowsType DEF TypeInv
<1> QED
  BY <1>2, UncheckedLogType DEF RenameReflog, Labels, WritesVal, RenameSteps

LEMMA RenameFinishType ==
    ASSUME TypeInv, NEW s \in Sessions, RenameFinish(s)
    PROVE  TypeInv'
<1>1. CASE aborted[s] /\ Rollback(s) /\ Return(s, "error") /\ UNCHANGED faults
  <2>1. "error" \in Results
    BY DEF Results
  <2> QED
    BY <1>1, <2>1, EndCallType DEF RenameFinish, Rollback, TypeInv, TypeOK
<1>2. CASE CommitCall(s)
  BY <1>2, CommitCallType DEF RenameFinish
<1> QED
  BY <1>1, <1>2 DEF RenameFinish

\* A call returns r without ending a transaction.
LEMMA ReturnType ==
    ASSUME TypeInv, NEW s \in Sessions, NEW r \in Results, Return(s, r),
           StoreTyped', nextId' \in 1..(MaxOps + 1),
           tokens' \in [Sessions -> SUBSET Names], opsDone' \in 0..MaxOps,
           faults' \in 0..MaxFaults
    PROVE  TypeInv'
<1>1. op' \in [Sessions -> OpRec]
  BY DEF TypeInv, TypeOK, Return, NoOp, Op, OpRec, OpKinds
<1>2. ArgsTyped'
  BY DEF TypeInv, TypeOK, ArgsTyped, Return, WritesVal, RenameSteps
<1> QED
  BY <1>1, <1>2 DEF TypeInv, TypeOK, StoreTyped, Return, Labels

LEMMA LockStartType ==
    ASSUME TypeInv, NEW s \in Sessions, pg_refdb_lock(s)
    PROVE  TypeInv'
<1>1. PICK n \in Names \ tokens[s] :
          /\ StartCall(s)
          /\ Begin(s, Op("lock", n, None, None, None, None, FALSE, 0, FALSE),
                   "l_lock")
  BY DEF pg_refdb_lock
<1>2. Op("lock", n, None, None, None, None, FALSE, 0, FALSE) \in OpRec
  BY DEF Op, OpRec, OpKinds
<1>3. "l_lock" \in Labels \ {"idle"} /\ "l_lock" \notin WritesVal \cup RenameSteps
  BY DEF Labels, WritesVal, RenameSteps
<1>4. UNCHANGED <<refs, reflog, nextId, rowLock, advLock, aborted,
                  txRefs, txIns, txUpd, tokens>>
  BY DEF pg_refdb_lock, dbVars, lockVars
<1> QED
  BY <1>1, <1>2, <1>3, <1>4, BeginType DEF Op

LEMMA LockAcquireType ==
    ASSUME TypeInv, NEW s \in Sessions, LockAcquire(s)
    PROVE  TypeInv'
<1>1. op[s].name \in Names
  BY DEF LockAcquire, TypeInv, ArgsTyped
<1>2. CASE /\ advLock' = [advLock EXCEPT ![op[s].name] = s]
           /\ tokens' = [tokens EXCEPT ![s] = @ \cup {op[s].name}]
           /\ Return(s, "ok")
           /\ UNCHANGED <<dbVars, rowLock, txVars, faults, opsDone>>
  <2>1. StoreTyped'
    BY <1>1, <1>2 DEF TypeInv, TypeOK, StoreTyped, dbVars, txVars
  <2>2. tokens' \in [Sessions -> SUBSET Names]
    BY <1>1, <1>2 DEF TypeInv, TypeOK
  <2>3. "ok" \in Results
    BY DEF Results
  <2> QED
    BY <1>2, <2>1, <2>2, <2>3, ReturnType DEF TypeInv, TypeOK, dbVars
<1>3. CASE FailCall(s) /\ UNCHANGED <<nextId, tokens, opsDone>>
  BY <1>3, FailCallType
<1> QED
  BY <1>2, <1>3 DEF LockAcquire

LEMMA UnlockStartType ==
    ASSUME TypeInv, NEW s \in Sessions, pg_refdb_unlock(s)
    PROVE  TypeInv'
<1>1. PICK n \in tokens[s], d \in 0..2 :
        \E v \in (IF d = 1 THEN RefVal ELSE {None}),
           l \in (IF d = 1 THEN BOOLEAN ELSE {FALSE}) :
          /\ op' = [op EXCEPT ![s] = Op("unlock", n, None, v, None, None, FALSE, d, l)]
          /\ pc' = [pc EXCEPT ![s] = CASE d = 1 -> "u_write" [] d = 2 -> "u_delete"
                                       [] OTHER -> "u_commit"]
  BY DEF pg_refdb_unlock
<1>2. PICK v \in (IF d = 1 THEN RefVal ELSE {None}),
           l \in (IF d = 1 THEN BOOLEAN ELSE {FALSE}) :
          /\ op' = [op EXCEPT ![s] = Op("unlock", n, None, v, None, None, FALSE, d, l)]
          /\ pc' = [pc EXCEPT ![s] = CASE d = 1 -> "u_write" [] d = 2 -> "u_delete"
                                       [] OTHER -> "u_commit"]
  BY <1>1
<1>3. n \in Names /\ v \in RefVal \cup {None} /\ l \in BOOLEAN
  BY DEF TypeInv, TypeOK
<1>4. op' \in [Sessions -> OpRec]
  BY <1>2, <1>3 DEF TypeInv, TypeOK, Op, OpRec, OpKinds
<1>5. /\ pc'[s] \in Labels \ {"idle"}
      /\ pc'[s] \in WritesVal => op'[s].val \in RefVal
      /\ pc'[s] \notin RenameSteps
      /\ op'[s].name \in Names
  <2>1. CASE d = 1
    BY <1>2, <1>3, <2>1 DEF TypeInv, TypeOK, Op, Labels, WritesVal, RenameSteps
  <2>2. CASE d = 2
    BY <1>2, <1>3, <2>2 DEF TypeInv, TypeOK, Op, Labels, WritesVal, RenameSteps
  <2>3. CASE d = 0
    BY <1>2, <1>3, <2>3 DEF TypeInv, TypeOK, Op, Labels, WritesVal, RenameSteps
  <2> QED
    BY <2>1, <2>2, <2>3
<1>6. ArgsTyped'
  BY <1>2, <1>5 DEF TypeInv, TypeOK, ArgsTyped
<1> QED
  BY <1>2, <1>4, <1>5, <1>6
  DEF pg_refdb_unlock, TypeInv, TypeOK, dbVars, lockVars, txVars

\* A checked statement of unlock failed: the call goes on to its ROLLBACK.
LEMMA UnlockFailType ==
    ASSUME TypeInv, NEW s \in Sessions, pc[s] # "idle",
           Failed(s), Abort(s), Goto(s, "u_rollback"),
           UNCHANGED <<refs, reflog, nextId, lockVars, inTx, txRefs, txIns, txUpd,
                       ret, tokens, opsDone>>
    PROVE  TypeInv'
<1>1. StoreTyped' /\ faults' \in 0..MaxFaults
  BY FailedType DEF TypeInv, TypeOK, StoreTyped, Abort, lockVars
<1> QED
  BY <1>1, GotoType DEF TypeInv, TypeOK, Labels, WritesVal, RenameSteps

LEMMA UnlockWriteType ==
    ASSUME TypeInv, NEW s \in Sessions, UnlockWrite(s)
    PROVE  TypeInv'
<1>1. op[s].name \in Names /\ op[s].val \in RefVal
  BY DEF UnlockWrite, TypeInv, ArgsTyped, WritesVal
<1>2. CASE Free(s) /\ SetRef(s, op[s].name, op[s].val)
           /\ Goto(s, IF op[s].log THEN "u_reflog" ELSE "u_commit")
           /\ UNCHANGED <<reflog, advLock, inTx, aborted, txIns, txUpd, faults>>
  <2>1. StoreTyped'
    BY <1>1, <1>2, SetRefType DEF TypeInv, TypeOK, StoreTyped
  <2>2. CASE op[s].log
    BY <1>2, <2>1, <2>2, GotoType
    DEF UnlockWrite, TypeInv, TypeOK, Labels, WritesVal, RenameSteps
  <2>3. CASE ~op[s].log
    BY <1>2, <2>1, <2>3, GotoType
    DEF UnlockWrite, TypeInv, TypeOK, Labels, WritesVal, RenameSteps
  <2> QED
    BY <2>2, <2>3
<1>3. CASE Failed(s) /\ Abort(s) /\ Goto(s, "u_rollback")
           /\ UNCHANGED <<refs, reflog, lockVars, inTx, txRefs, txIns, txUpd>>
  BY <1>3, UnlockFailType DEF UnlockWrite
<1> QED
  BY <1>2, <1>3 DEF UnlockWrite

LEMMA UnlockReflogType ==
    ASSUME TypeInv, NEW s \in Sessions, UnlockReflog(s)
    PROVE  TypeInv'
<1>1. op[s].name \in Names /\ op[s].val.oid \in Oids \cup {None}
  BY DEF UnlockReflog, TypeInv, ArgsTyped, WritesVal, RefVal, Direct, Symbolic
<1>2. CASE InsertLog(s, op[s].name, None, op[s].val.oid)
           /\ Goto(s, "u_commit")
           /\ UNCHANGED <<refs, lockVars, inTx, aborted, txRefs, txUpd, faults>>
  <2>1. StoreTyped' /\ nextId' \in 1..(MaxOps + 1)
    BY <1>1, <1>2, InsertLogType DEF TypeInv, TypeOK, StoreTyped, lockVars
  <2> QED
    BY <1>2, <2>1, GotoType
    DEF UnlockReflog, TypeInv, TypeOK, Labels, WritesVal, RenameSteps
<1>3. CASE Failed(s) /\ Abort(s) /\ Goto(s, "u_rollback")
           /\ UNCHANGED <<refs, reflog, nextId, lockVars, inTx, txRefs, txIns, txUpd>>
  BY <1>3, UnlockFailType DEF UnlockReflog
<1> QED
  BY <1>2, <1>3 DEF UnlockReflog

LEMMA UnlockDeleteType ==
    ASSUME TypeInv, NEW s \in Sessions, UnlockDelete(s)
    PROVE  TypeInv'
<1>1. op[s].name \in Names
  BY DEF UnlockDelete, TypeInv, ArgsTyped
<1>2. UNCHANGED <<reflog, nextId, advLock, inTx, txIns, txUpd, ret, tokens, opsDone>>
  BY DEF UnlockDelete, lockVars
<1>3. CASE Free(s) /\ Goto(s, "u_dreflog")
           /\ (SetRef(s, op[s].name, NoRef) \/ UNCHANGED <<refs, txRefs, rowLock>>)
           /\ UNCHANGED <<aborted, faults>>
  <2>1. StoreTyped'
    BY <1>1, <1>2, <1>3, SetRefType DEF TypeInv, TypeOK, StoreTyped
  <2> QED
    BY <1>2, <1>3, <2>1, GotoType
    DEF UnlockDelete, TypeInv, TypeOK, Labels, WritesVal, RenameSteps
<1>4. CASE Failed(s) /\ Abort(s) /\ Goto(s, "u_rollback")
           /\ UNCHANGED <<refs, reflog, lockVars, inTx, txRefs, txIns, txUpd>>
  BY <1>2, <1>4, UnlockFailType DEF UnlockDelete
<1> QED
  BY <1>3, <1>4, Zenon DEF UnlockDelete

LEMMA UnlockDelReflogType ==
    ASSUME TypeInv, NEW s \in Sessions, UnlockDelReflog(s)
    PROVE  TypeInv'
<1>1. op[s].name \in Names
  BY DEF UnlockDelReflog, TypeInv, ArgsTyped
<1>2. DeleteLogRows(s, op[s].name) =>
        /\ reflog' \subseteq LogEntry
        /\ txIns' \in [Sessions -> SUBSET LogEntry]
        /\ txUpd' \in [Sessions -> [Ids -> Names \cup {Gone, Untouched}]]
  BY <1>1, DeleteLogRowsType DEF TypeInv
<1> QED
  BY <1>2, UncheckedLogType DEF UnlockDelReflog, Labels, WritesVal, RenameSteps

LEMMA UnlockEndType ==
    ASSUME TypeInv, NEW s \in Sessions, UnlockEnd(s)
    PROVE  TypeInv'
<1> DEFINE r == IF pc[s] = "u_commit" THEN "ok" ELSE "error"
<1>1. /\ tokens' \in [Sessions -> SUBSET Names]
      /\ r \in Results
      /\ Return(s, r)
      /\ nextId' = nextId /\ opsDone' = opsDone
  BY DEF UnlockEnd, TypeInv, TypeOK, Results
<1>2. CASE Commit(s) /\ UNCHANGED faults
  <2>1. EndTx(s, ~aborted[s]) /\ (~aborted[s]) \in BOOLEAN
    BY <1>2, Zenon DEF Commit
  <2> QED
    BY <1>1, <1>2, <2>1, EndCallType DEF TypeInv, TypeOK
<1>3. CASE Failed(s) /\ Rollback(s)
  BY <1>1, <1>3, FailedType, EndCallType DEF Rollback, TypeInv
<1>4. CASE Rollback(s) /\ UNCHANGED faults
  BY <1>1, <1>4, EndCallType DEF Rollback, TypeInv, TypeOK
<1> QED
  BY <1>2, <1>3, <1>4 DEF UnlockEnd

\* Both reflog calls are one autocommit statement that fails or succeeds.
LEMMA ReflogRenameType ==
    ASSUME TypeInv, NEW s \in Sessions, pg_refdb_reflog_rename(s)
    PROVE  TypeInv'
<1>1. PICK n \in Names, t \in Names :
          /\ StartCall(s)
          /\ \/ RenameLogRows(s, n, t) /\ Return(s, "ok") /\ UNCHANGED faults
             \/ /\ faults < MaxFaults /\ faults' = faults + 1
                /\ Return(s, "error") /\ UNCHANGED <<reflog, txIns, txUpd>>
  BY DEF pg_refdb_reflog_rename
<1>2. /\ UNCHANGED <<refs, nextId, lockVars, inTx, aborted, txRefs, tokens>>
      /\ opsDone' \in 0..MaxOps
  BY <1>1, ConstantsAssumption DEF pg_refdb_reflog_rename, StartCall, TypeInv, TypeOK
<1>3. "ok" \in Results /\ "error" \in Results
  BY DEF Results
<1>4. CASE RenameLogRows(s, n, t) /\ Return(s, "ok") /\ UNCHANGED faults
  <2>1. StoreTyped'
    BY <1>2, <1>4, RenameLogRowsType DEF TypeInv, TypeOK, StoreTyped, lockVars
  <2> QED
    BY <1>2, <1>3, <1>4, <2>1, ReturnType DEF TypeInv, TypeOK, lockVars
<1>5. CASE faults < MaxFaults /\ faults' = faults + 1
           /\ Return(s, "error") /\ UNCHANGED <<reflog, txIns, txUpd>>
  <2>1. StoreTyped' /\ faults' \in 0..MaxFaults
    BY <1>2, <1>5, ConstantsAssumption DEF TypeInv, TypeOK, StoreTyped, lockVars
  <2> QED
    BY <1>2, <1>3, <1>5, <2>1, ReturnType DEF TypeInv, TypeOK, lockVars
<1> QED
  BY <1>1, <1>4, <1>5

LEMMA ReflogDeleteType ==
    ASSUME TypeInv, NEW s \in Sessions, pg_refdb_reflog_delete(s)
    PROVE  TypeInv'
<1>1. PICK n \in Names :
          /\ StartCall(s)
          /\ \/ DeleteLogRows(s, n) /\ Return(s, "ok") /\ UNCHANGED faults
             \/ /\ faults < MaxFaults /\ faults' = faults + 1
                /\ Return(s, "error") /\ UNCHANGED <<reflog, txIns, txUpd>>
  BY DEF pg_refdb_reflog_delete
<1>2. /\ UNCHANGED <<refs, nextId, lockVars, inTx, aborted, txRefs, tokens>>
      /\ opsDone' \in 0..MaxOps
  BY <1>1, ConstantsAssumption DEF pg_refdb_reflog_delete, StartCall, TypeInv, TypeOK
<1>3. "ok" \in Results /\ "error" \in Results
  BY DEF Results
<1>4. CASE DeleteLogRows(s, n) /\ Return(s, "ok") /\ UNCHANGED faults
  <2>1. StoreTyped'
    BY <1>2, <1>4, DeleteLogRowsType DEF TypeInv, TypeOK, StoreTyped, lockVars
  <2> QED
    BY <1>2, <1>3, <1>4, <2>1, ReturnType DEF TypeInv, TypeOK, lockVars
<1>5. CASE faults < MaxFaults /\ faults' = faults + 1
           /\ Return(s, "error") /\ UNCHANGED <<reflog, txIns, txUpd>>
  <2>1. StoreTyped' /\ faults' \in 0..MaxFaults
    BY <1>2, <1>5, ConstantsAssumption DEF TypeInv, TypeOK, StoreTyped, lockVars
  <2> QED
    BY <1>2, <1>3, <1>5, <2>1, ReturnType DEF TypeInv, TypeOK, lockVars
<1> QED
  BY <1>1, <1>4, <1>5

\* Every step of every session, and a stutter, keeps the state typed.
LEMMA NextTypeInv == TypeInv /\ [Next]_vars => TypeInv'
<1> SUFFICES ASSUME TypeInv, [Next]_vars PROVE TypeInv'
  OBVIOUS
<1>1. CASE UNCHANGED vars
  BY <1>1 DEF vars, dbVars, lockVars, txVars, sessVars, TypeInv, TypeOK,
     StoreTyped, ArgsTyped
<1>2. ASSUME NEW s \in Sessions, Start(s) PROVE TypeInv'
  BY <1>2, WriteStartType, DelStartType, RenameStartType, LockStartType,
     ReflogRenameType, ReflogDeleteType DEF Start
<1>3. ASSUME NEW s \in Sessions, Step(s) PROVE TypeInv'
  BY <1>3, WriteSelectType, WriteUpsertType, WriteReflogType, WriteCommitType,
     DelSelectType, DelDeleteType, DelReflogType, DelCommitType,
     RenameCheckType, RenameDelNewType, RenameUpdateType, RenameReflogType,
     RenameFinishType, LockAcquireType, UnlockStartType, UnlockWriteType,
     UnlockReflogType, UnlockDeleteType, UnlockDelReflogType, UnlockEndType
  DEF Step
<1> QED
  BY <1>1, <1>2, <1>3 DEF Next

(***************************************************************************)
(* Type correctness of the ref store: whatever the interleaving of the    *)
(* sessions' write, del, rename, lock, unlock and reflog calls, with       *)
(* statement failures and deadlock aborts, the tables, the locks, the      *)
(* per-session transaction buffers and the call state keep their types,   *)
(* for every number of sessions, names, oids and every bound.              *)
(***************************************************************************)
THEOREM TypeCorrect == Spec => []TypeOK
<1>1. Init => TypeInv
  BY InitTypeInv
<1>2. TypeInv /\ [Next]_vars => TypeInv'
  BY NextTypeInv
<1>3. TypeInv => TypeOK
  BY DEF TypeInv
<1> QED
  BY <1>1, <1>2, <1>3, PTL DEF Spec
====
