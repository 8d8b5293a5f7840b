---------------------------- MODULE RemoteHelper ----------------------------
(***************************************************************************)
(* The remote helper git-remote-gitgres (component C9), main and cmd_* of  *)
(* src/backend/refdb_postgres.c lines 1225-1699, composed with the object  *)
(* backend of ObjectStore.  Each helper is one process that git starts for *)
(* one push or one fetch of one repository: git sends "list" (or "list     *)
(* for-push"), then a push or fetch block.  Several helpers run at once    *)
(* against the same tables; they share nothing else.                       *)
(*                                                                         *)
(* The pushed branch is Main; HEAD is the other row of the refs table.     *)
(* A helper's local repository is LocalObjects[h], and a pusher pushes its *)
(* branch tip LocalTip[h].  Statements on refs fail at most MaxFaults      *)
(* times; statements on objects, at most ObjFaults times.                  *)
(***************************************************************************)
EXTENDS Naturals, FiniteSets, Sequences

CONSTANTS
    Helpers,        \* helper processes
    Pushers,        \* the helpers git push runs; the others serve a fetch
    Main,           \* the branch name, refs/heads/main
    LocalObjects,   \* LocalObjects[h]: objects of h's local repository
    LocalTip,       \* LocalTip[h]: the commit h's local branch points at
    Nibbles, HexLen, None,
    ObjFaults,      \* bound on failed statements on objects
    MaxFaults       \* bound on failed statements on refs

VARIABLES
    objects, odbReply, objFaults,   \* the object backend (ObjectStore)
    refs,         \* refs[n]: the row of the refs table named n
    faults,       \* failed statements on refs so far
    pc,           \* pc[h]: where helper h is
    seen,         \* seen[h]: the ref listing h printed for git
    push,         \* push[h]: the parsed push spec, [force, del]
    todo,         \* todo[h]: OIDs the running foreach has still to visit
    cur,          \* cur[h]: the OID push_copy_cb is copying
    local,        \* local[h]: objects now in h's local repository
    result        \* result[h]: the status line h printed for Main

HeadRef == "HEAD"
Names == {HeadRef, Main}

OS == INSTANCE ObjectStore
        WITH Sessions <- Helpers, objects <- objects, reply <- odbReply,
             faults <- objFaults, MaxFaults <- ObjFaults,
             MaxObjects <- Cardinality([1 .. HexLen -> Nibbles])

Oid == OS!Oid

ASSUME HelperAssumption ==
    /\ Pushers \subseteq Helpers
    /\ LocalObjects \in [Helpers -> SUBSET Oid]
    /\ \A h \in Pushers : LocalTip[h] \in LocalObjects[h]
    /\ Main # HeadRef /\ None \notin Oid
    /\ ObjFaults \in Nat /\ MaxFaults \in Nat

\* A row of refs: a direct OID, a symbolic target, or no row (None).
RefValue == Oid \cup {[symbolic |-> n] : n \in Names} \cup {None}

Pcs == {"start", "listed", "copy", "copy_write", "ref", "head",
        "head_insert", "fetch", "done", "failed"}

odbVars == <<objects, odbReply, objFaults>>
vars == <<objects, odbReply, objFaults, refs, faults, pc, seen, push, todo,
          cur, local, result>>

\* A statement on refs fails.
RefFault == faults < MaxFaults /\ faults' = faults + 1

\* What cmd_list prints: each ref with an OID, and HEAD as "@<target>"
\* when its target has an OID, or as its own OID when direct.
Listing(r) ==
    [n \in Names |->
        IF n = HeadRef /\ r[HeadRef] \in {[symbolic |-> t] : t \in Names}
        THEN IF r[r[HeadRef].symbolic] \in Oid THEN r[HeadRef] ELSE None
        ELSE IF r[n] \in Oid THEN r[n] ELSE None]

Init ==
    /\ OS!Init
    /\ refs = [n \in Names |-> None]
    /\ faults = 0
    /\ pc = [h \in Helpers |-> "start"]
    /\ seen = [h \in Helpers |-> [n \in Names |-> None]]
    /\ push = [h \in Helpers |-> [force |-> FALSE, del |-> FALSE]]
    /\ todo = [h \in Helpers |-> {}]
    /\ cur = [h \in Helpers |-> None]
    /\ local = LocalObjects
    /\ result = [h \in Helpers |-> "none"]

(***************************************************************************)
(* list / list for-push.                                                   *)
(***************************************************************************)
cmd_list(h) ==
    /\ pc[h] = "start"
    /\ \/ /\ RefFault                         \* die("list refs: ...")
          /\ pc' = [pc EXCEPT ![h] = "failed"]
          /\ UNCHANGED seen
       \/ /\ seen' = [seen EXCEPT ![h] = Listing(refs)]
          /\ pc' = [pc EXCEPT ![h] = "listed"]
          /\ UNCHANGED faults
    /\ UNCHANGED <<odbVars, refs, push, todo, cur, local, result>>

(***************************************************************************)
(* push: git sends "push [+]main:main" once its own fast-forward check on  *)
(* the listing passes (a forced push skips it), or "push :main" to delete  *)
(* a branch the listing shows.  The helper copies every local object the   *)
(* database lacks, then writes the ref.                                    *)
(***************************************************************************)
cmd_push(h) ==
    /\ pc[h] = "listed"
    /\ h \in Pushers
    /\ \E force, del \in BOOLEAN :
         /\ del => seen[h][Main] \in Oid
         /\ ~force /\ ~del => seen[h][Main] \in LocalObjects[h] \cup {None}
         /\ push' = [push EXCEPT ![h] = [force |-> force, del |-> del]]
    /\ todo' = [todo EXCEPT ![h] = LocalObjects[h]]
    /\ pc' = [pc EXCEPT ![h] = "copy"]
    /\ UNCHANGED <<odbVars, refs, faults, seen, cur, local, result>>

\* Mutation: the callback asks the local odb, not postgres, what it has.
PushCopyExistsLocal(h, o) ==
    /\ pc[h] = "copy"
    /\ o \in todo[h]
    /\ UNCHANGED odbVars
    /\ todo' = [todo EXCEPT ![h] = @ \ {o}]
    /\ UNCHANGED <<refs, faults, pc, seen, push, cur, local, result>>

\* Mutation: an object postgres has is not struck off the callback's list.
PushCopyExistsKeep(h, o) ==
    /\ pc[h] = "copy"
    /\ o \in todo[h]
    /\ OS!pg_odb_exists(h, o)
    /\ IF odbReply'[h].code = "found"
       THEN UNCHANGED <<pc, cur, todo>>
       ELSE /\ cur' = [cur EXCEPT ![h] = o]
            /\ pc' = [pc EXCEPT ![h] = "copy_write"]
            /\ UNCHANGED todo
    /\ UNCHANGED <<refs, faults, seen, push, local, result>>

\* push_copy_cb, first half: git_odb_exists(dst) skips what postgres has.
PushCopyExists(h, o) ==
    /\ pc[h] = "copy"
    /\ o \in todo[h]
    /\ OS!pg_odb_exists(h, o)
    /\ IF odbReply'[h].code = "found"
       THEN /\ todo' = [todo EXCEPT ![h] = @ \ {o}]
            /\ UNCHANGED <<pc, cur>>
       ELSE /\ cur' = [cur EXCEPT ![h] = o]
            /\ pc' = [pc EXCEPT ![h] = "copy_write"]
            /\ UNCHANGED todo
    /\ UNCHANGED <<refs, faults, seen, push, local, result>>

\* push_copy_cb, second half: git_odb_write, whose result is not looked at.
PushCopyWrite(h) ==
    /\ pc[h] = "copy_write"
    /\ OS!pg_odb_write(h, cur[h])
    /\ todo' = [todo EXCEPT ![h] = @ \ {cur[h]}]
    /\ pc' = [pc EXCEPT ![h] = "copy"]
    /\ UNCHANGED <<refs, faults, seen, push, cur, local, result>>

\* git_odb_foreach has visited every local object.
PushCopyEnd(h) ==
    /\ pc[h] = "copy"
    /\ todo[h] = {}
    /\ pc' = [pc EXCEPT ![h] = "ref"]
    /\ UNCHANGED <<odbVars, refs, faults, seen, push, todo, cur, local, result>>

\* INSERT ... ON CONFLICT (repo_id, name) DO UPDATE SET oid = .., symbolic
\* = NULL: "ok main" when the statement succeeds, "error main .." if not.
PushRefUpdate(h) ==
    /\ pc[h] = "ref"
    /\ ~push[h].del
    /\ \/ /\ RefFault
          /\ result' = [result EXCEPT ![h] = "error"]
          /\ UNCHANGED refs
       \/ /\ refs' = [refs EXCEPT ![Main] = LocalTip[h]]
          /\ result' = [result EXCEPT ![h] = "ok"]
          /\ UNCHANGED faults
    /\ pc' = [pc EXCEPT ![h] = "head"]
    /\ UNCHANGED <<odbVars, seen, push, todo, cur, local>>

\* DELETE FROM refs ...; "ok main" is printed whatever the statement did.
PushRefDelete(h) ==
    /\ pc[h] = "ref"
    /\ push[h].del
    /\ \/ RefFault /\ UNCHANGED refs
       \/ refs' = [refs EXCEPT ![Main] = None] /\ UNCHANGED faults
    /\ result' = [result EXCEPT ![h] = "ok"]
    /\ pc' = [pc EXCEPT ![h] = "head"]
    /\ UNCHANGED <<odbVars, seen, push, todo, cur, local>>

\* SELECT 1 FROM refs WHERE name='HEAD': insert one only when none is there
\* (and the query itself succeeded).
PushHeadSelect(h) ==
    /\ pc[h] = "head"
    /\ \/ RefFault /\ pc' = [pc EXCEPT ![h] = "done"]
       \/ /\ pc' = [pc EXCEPT ![h] = IF refs[HeadRef] = None THEN "head_insert"
                                                          ELSE "done"]
          /\ UNCHANGED faults
    /\ UNCHANGED <<odbVars, refs, seen, push, todo, cur, local, result>>

\* INSERT HEAD -> main ... ON CONFLICT DO NOTHING; its result is not read.
PushHeadInsert(h) ==
    /\ pc[h] = "head_insert"
    /\ \/ RefFault /\ UNCHANGED refs
       \/ /\ refs' = [refs EXCEPT ![HeadRef] = IF @ = None THEN [symbolic |-> Main]
                                                        ELSE @]
          /\ UNCHANGED faults
    /\ pc' = [pc EXCEPT ![h] = "done"]
    /\ UNCHANGED <<odbVars, seen, push, todo, cur, local, result>>

(***************************************************************************)
(* fetch: git asks for the listed tip when its repository lacks it; the    *)
(* helper copies every object of the database it does not have.  The      *)
(* foreach runs over the rows of one SELECT, taken when it starts.         *)
(***************************************************************************)
cmd_fetch(h) ==
    /\ pc[h] = "listed"
    /\ h \notin Pushers
    /\ seen[h][Main] \in Oid \ local[h]
    /\ \/ /\ objFaults < ObjFaults        \* foreach fails; nobody checks
          /\ objFaults' = objFaults + 1
          /\ pc' = [pc EXCEPT ![h] = "done"]
          /\ UNCHANGED todo
       \/ /\ todo' = [todo EXCEPT ![h] = objects]
          /\ pc' = [pc EXCEPT ![h] = "fetch"]
          /\ UNCHANGED objFaults
    /\ UNCHANGED <<objects, odbReply, refs, faults, seen, push, cur, local,
                   result>>

\* Mutation: the callback asks postgres, not the local odb, what it has.
FetchCopyExistsPg(h, o) ==
    /\ pc[h] = "fetch"
    /\ o \in todo[h]
    /\ todo' = [todo EXCEPT ![h] = @ \ {o}]
    /\ UNCHANGED <<odbVars, refs, faults, pc, seen, push, cur, local, result>>

\* fetch_copy_cb: skip what the local odb has, else read it from postgres
\* and write it locally; a failed read is skipped without a word.
FetchCopy(h, o) ==
    /\ pc[h] = "fetch"
    /\ o \in todo[h]
    /\ \/ /\ o \in local[h]
          /\ UNCHANGED <<odbVars, local>>
       \/ /\ o \notin local[h]
          /\ OS!pg_odb_read(h, o)
          /\ local' = [local EXCEPT ![h] = IF odbReply'[h].code = "ok"
                                          THEN @ \cup {o} ELSE @]
    /\ todo' = [todo EXCEPT ![h] = @ \ {o}]
    /\ UNCHANGED <<refs, faults, pc, seen, push, cur, result>>

FetchEnd(h) ==
    /\ pc[h] = "fetch"
    /\ todo[h] = {}
    /\ pc' = [pc EXCEPT ![h] = "done"]
    /\ UNCHANGED <<odbVars, refs, faults, seen, push, todo, cur, local, result>>

\* Nothing to fetch: git ends the session with a blank line.
Quit(h) ==
    /\ pc[h] = "listed"
    /\ h \notin Pushers
    /\ seen[h][Main] \notin Oid \ local[h]
    /\ pc' = [pc EXCEPT ![h] = "done"]
    /\ UNCHANGED <<odbVars, refs, faults, seen, push, todo, cur, local, result>>

Step(h) ==
    \/ cmd_list(h)
    \/ cmd_push(h)
    \/ \E o \in Oid : PushCopyExists(h, o)
    \/ PushCopyWrite(h)
    \/ PushCopyEnd(h)
    \/ PushRefUpdate(h)
    \/ PushRefDelete(h)
    \/ PushHeadSelect(h)
    \/ PushHeadInsert(h)
    \/ cmd_fetch(h)
    \/ \E o \in Oid : FetchCopy(h, o)
    \/ FetchEnd(h)
    \/ Quit(h)

Next == \E h \in Helpers : Step(h)

Spec == Init /\ [][Next]_vars

\* Each helper is a process of its own that the OS keeps scheduling.
FairSpec == Spec /\ \A h \in Helpers : WF_vars(Step(h))

(***************************************************************************)
(* Properties.                                                             *)
(***************************************************************************)

\* The database is connected: the object a branch row points at is stored.
\* A push copies the objects before it writes the ref, so whatever another
\* helper lists or fetches afterwards can be read (spec 4.9, 8).
RefsConnected == refs[Main] \in Oid => refs[Main] \in objects

\* A fetch that asked for the listed tip and ended leaves that tip in the
\* local repository: the objects the foreach visits include every object
\* a ref listed earlier points at.
FetchComplete ==
    \A h \in Helpers \ Pushers :
        pc[h] = "done" /\ seen[h][Main] \in Oid => seen[h][Main] \in local[h]

\* Compare-and-swap (spec 8): two pushes that are not forced and start from
\* the same listed value of the branch never both report "ok".
NoLostUpdate ==
    \A h1, h2 \in Pushers :
        /\ h1 # h2
        /\ result[h1] = "ok" /\ result[h2] = "ok"
        /\ ~push[h1].force /\ ~push[h2].force
        /\ ~push[h1].del /\ ~push[h2].del
        => seen[h1][Main] # seen[h2][Main]

\* "ok main" after a delete means the branch is gone (spec 4.9: "ok" when
\* the ref operation succeeds).
DeleteReported ==
    [][\A h \in Pushers :
         result'[h] = "ok" /\ result[h] # "ok" /\ push[h].del
             => refs'[Main] = None]_vars

\* Every helper session ends, statement failures or not: each foreach runs
\* over a finite snapshot and every failure leads to an exit.
HelperTerminates == \A h \in Helpers : <>(pc[h] \in {"done", "failed"})

=============================================================================
