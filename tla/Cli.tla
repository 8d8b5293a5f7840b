--------------------------------- MODULE Cli ---------------------------------
(***************************************************************************)
(* The command-line front end gitgres (src/backend/main.c): "push", which  *)
(* copies a local repository into the database, and "clone", which copies *)
(* the database into a new local repository.  Several runs of the tool     *)
(* work on one repository at once; each is a process of its own with its  *)
(* own connection, and they share the objects and refs tables only.       *)
(*                                                                         *)
(* The objects table and its backend calls are those of ObjectStore.  The  *)
(* refs rows are the branch Main and HEAD; git_reference_create(force=1)   *)
(* on the postgres repository is one upsert of the branch row (RefStore    *)
(* models that call in detail).  A pusher's local repository holds         *)
(* LocalObjects[c] and its branch points at LocalTip[c]; a cloner starts   *)
(* from an empty one.                                                      *)
(***************************************************************************)
EXTENDS Naturals, FiniteSets

CONSTANTS
    Clients,        \* runs of the tool
    Pushers,        \* the runs of "gitgres push"; the others run "clone"
    Main,           \* refs/heads/main
    LocalObjects,   \* LocalObjects[c]: objects of a pusher's repository
    LocalTip,       \* LocalTip[c]: its branch tip
    Nibbles, HexLen, None,
    ObjFaults,      \* bound on failed statements on objects
    MaxFaults       \* bound on failed statements on refs

VARIABLES
    objects, odbReply, objFaults,   \* the object backend (ObjectStore)
    refs,       \* refs[n]: the row of the refs table named n
    faults,     \* failed statements on refs so far
    pc,         \* pc[c]: where run c is
    todo,       \* todo[c]: OIDs the running git_odb_foreach has to visit
    local,      \* local[c]: objects in c's local repository
    listed,     \* listed[c]: the branch row the clone's SELECT of refs read
    localRef,   \* localRef[c]: what the clone's local branch points at
    errors      \* errors[c]: ctx.errors, the objects that failed to copy

OS == INSTANCE ObjectStore
        WITH Sessions <- Clients, objects <- objects, reply <- odbReply,
             faults <- objFaults, MaxFaults <- ObjFaults,
             MaxObjects <- Cardinality([1 .. HexLen -> Nibbles])

Oid == OS!Oid

HeadRef == "HEAD"

ASSUME CliAssumption ==
    /\ Pushers \subseteq Clients
    /\ LocalObjects \in [Pushers -> SUBSET Oid]
    /\ \A c \in Pushers : LocalTip[c] \in LocalObjects[c]
    /\ Main # HeadRef
    /\ None \notin Oid
    /\ MaxFaults \in Nat

odbVars == <<objects, odbReply, objFaults>>
vars == <<objects, odbReply, objFaults, refs, faults, pc, todo, local,
          listed, localRef, errors>>

\* A statement on refs fails.
RefFault == faults < MaxFaults /\ faults' = faults + 1

Init ==
    /\ OS!Init
    /\ refs = [n \in {HeadRef, Main} |-> None]
    /\ faults = 0
    /\ pc = [c \in Clients |-> "start"]
    /\ todo = [c \in Clients |-> {}]
    /\ local = [c \in Clients |-> IF c \in Pushers THEN LocalObjects[c] ELSE {}]
    /\ listed = [c \in Clients |-> None]
    /\ localRef = [c \in Clients |-> None]
    /\ errors = [c \in Clients |-> 0]

(***************************************************************************)
(* push.                                                                   *)
(***************************************************************************)
\* Connect, open both repositories, start git_odb_foreach on the local odb.
cmd_push(c) ==
    /\ pc[c] = "start"
    /\ c \in Pushers
    /\ todo' = [todo EXCEPT ![c] = LocalObjects[c]]
    /\ pc' = [pc EXCEPT ![c] = "copy"]
    /\ UNCHANGED <<odbVars, refs, faults, local, listed, localRef, errors>>

\* copy_object_cb: read locally, git_odb_write to postgres; a failure is
\* counted and the iteration goes on.
copy_object_cb(c, o) ==
    /\ pc[c] = "copy"
    /\ o \in todo[c]
    /\ OS!pg_odb_write(c, o)
    /\ errors' = [errors EXCEPT ![c] = IF odbReply'[c].code = "ok" THEN @
                                                                   ELSE @ + 1]
    /\ todo' = [todo EXCEPT ![c] = @ \ {o}]
    /\ UNCHANGED <<refs, faults, pc, local, listed, localRef>>

\* git_reference_create(force=1) of the local branch on the postgres
\* repository: libgit2's strict target check reads the tip's header from
\* the pg odb and refuses a tip it cannot find there; a refusal, like a
\* failed upsert, is only a warning.
CreateBranch(c) ==
    /\ OS!pg_odb_read_header(c, LocalTip[c])
    /\ \/ odbReply'[c].code # "ok" /\ UNCHANGED <<refs, faults>>
       \/ odbReply'[c].code = "ok" /\ RefFault /\ UNCHANGED refs
       \/ /\ odbReply'[c].code = "ok"
          /\ refs' = [refs EXCEPT ![Main] = LocalTip[c]]
          /\ UNCHANGED faults

\* Mutation: the refs loop starts before the object copy has finished.
PushRefsEarly(c) ==
    /\ pc[c] = "copy"
    /\ CreateBranch(c)
    /\ pc' = [pc EXCEPT ![c] = "head"]
    /\ UNCHANGED <<todo, local, listed, localRef, errors>>

\* "Pushed %d objects (%d errors)", then the ref loop over every local
\* branch whatever the error count.
PushRefs(c) ==
    /\ pc[c] = "copy"
    /\ todo[c] = {}
    /\ CreateBranch(c)
    /\ pc' = [pc EXCEPT ![c] = "head"]
    /\ UNCHANGED <<todo, local, listed, localRef, errors>>

\* push_head: INSERT HEAD -> main ... ON CONFLICT DO UPDATE; a failure is
\* a warning.
push_head(c) ==
    /\ pc[c] = "head"
    /\ \/ RefFault /\ UNCHANGED refs
       \/ refs' = [refs EXCEPT ![HeadRef] = [symbolic |-> Main]]
          /\ UNCHANGED faults
    /\ pc' = [pc EXCEPT ![c] = "done"]
    /\ UNCHANGED <<odbVars, todo, local, listed, localRef, errors>>

(***************************************************************************)
(* clone: the objects first, then the refs.                                *)
(***************************************************************************)
\* The repository row exists once a push has run get_or_create_repo.
RepoExists == \E p \in Pushers : pc[p] # "start"

\* get_repo, which dies when no push has created the repository; the
\* foreach runs over one SELECT of the objects, and its failure is fatal.
cmd_clone(c) ==
    /\ pc[c] = "start"
    /\ c \notin Pushers
    /\ \/ /\ ~RepoExists
          /\ pc' = [pc EXCEPT ![c] = "failed"]
          /\ UNCHANGED <<todo, objFaults>>
       \/ /\ RepoExists /\ objFaults < ObjFaults
          /\ objFaults' = objFaults + 1
          /\ pc' = [pc EXCEPT ![c] = "failed"]
          /\ UNCHANGED todo
       \/ /\ RepoExists
          /\ todo' = [todo EXCEPT ![c] = objects]
          /\ pc' = [pc EXCEPT ![c] = "clone"]
          /\ UNCHANGED objFaults
    /\ UNCHANGED <<objects, odbReply, refs, faults, local, listed, localRef, errors>>

\* clone_object_cb: git_odb_read from postgres, write locally; a failed
\* read is counted and skipped.
clone_object_cb(c, o) ==
    /\ pc[c] = "clone"
    /\ o \in todo[c]
    /\ OS!pg_odb_read(c, o)
    /\ IF odbReply'[c].code = "ok"
       THEN local' = [local EXCEPT ![c] = @ \cup {o}] /\ UNCHANGED errors
       ELSE errors' = [errors EXCEPT ![c] = @ + 1] /\ UNCHANGED local
    /\ todo' = [todo EXCEPT ![c] = @ \ {o}]
    /\ UNCHANGED <<refs, faults, pc, listed, localRef>>

\* SELECT name, oid, symbolic FROM refs (its failure is fatal); each direct
\* row becomes a local branch by git_reference_create, which libgit2
\* refuses with a warning when the object is not in the local odb; HEAD is
\* set and checked out, a failed checkout being only a warning.
CloneRefs(c) ==
    /\ pc[c] = "clone"
    /\ todo[c] = {}
    /\ \/ /\ RefFault /\ pc' = [pc EXCEPT ![c] = "failed"]
          /\ UNCHANGED <<listed, localRef>>
       \/ /\ listed' = [listed EXCEPT ![c] = refs[Main]]
          /\ localRef' = [localRef EXCEPT ![c] =
                IF refs[Main] \in local[c] THEN refs[Main] ELSE @]
          /\ pc' = [pc EXCEPT ![c] = "done"]
          /\ UNCHANGED faults
    /\ UNCHANGED <<odbVars, refs, todo, local, errors>>

Step(c) ==
    \/ cmd_push(c)
    \/ \E o \in Oid : copy_object_cb(c, o)
    \/ PushRefs(c)
    \/ push_head(c)
    \/ cmd_clone(c)
    \/ \E o \in Oid : clone_object_cb(c, o)
    \/ CloneRefs(c)

Next == \E c \in Clients : Step(c)

Spec == Init /\ [][Next]_vars

(***************************************************************************)
(* Properties.                                                             *)
(***************************************************************************)

\* The branch row points at a commit whose whole history is stored: the
\* tip of some pusher, all of whose local objects are in the database.
\* push creates the refs only after the object copy (spec 4.9, 8), and
\* libgit2's target check sees the tip alone, not what it reaches.
CliRefsConnected ==
    refs[Main] \in Oid =>
        \E p \in Pushers : refs[Main] = LocalTip[p] /\ LocalObjects[p] \subseteq objects

\* A clone that ends without a counted error has every branch its SELECT
\* of refs read (spec 8: a clone after a push gives back the pushed
\* repository), however other pushes interleave with it.
CloneComplete ==
    \A c \in Clients \ Pushers :
        pc[c] = "done" /\ errors[c] = 0 => localRef[c] = listed[c]

=============================================================================
