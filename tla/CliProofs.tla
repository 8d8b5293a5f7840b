------------------------------ MODULE CliProofs ------------------------------
(***************************************************************************)
(* Proof that "gitgres push" never leaves the branch row pointing at a    *)
(* commit whose history the database lacks, when no statement on the     *)
(* objects table fails, for any number of concurrent pushes and clones    *)
(* and any local repositories.  The argument is the order of cmd_push in  *)
(* main.c: the ref loop starts only once git_odb_foreach has copied every *)
(* object; libgit2's target check alone would only protect the tip.       *)
(***************************************************************************)
EXTENDS Cli, TLAPS

Pcs == {"start", "copy", "head", "done", "clone", "failed"}

TypeOK ==
    /\ objects \subseteq Oid
    /\ objFaults = 0
    /\ pc \in [Clients -> Pcs]
    /\ todo \in [Clients -> SUBSET Oid]
    /\ DOMAIN refs = {HeadRef, Main}

\* A push in its copy loop has stored every local object the foreach has
\* already visited.
Copied ==
    \A c \in Clients :
        pc[c] = "copy" => c \in Pushers /\ LocalObjects[c] \ todo[c] \subseteq objects

IInv == TypeOK /\ Copied /\ CliRefsConnected

USE CliAssumption

\* With ObjFaults = 0 no statement on objects fails.
LEMMA NoObjectFault ==
    ASSUME ObjFaults = 0, TypeOK, NEW c, NEW op, NEW arg, NEW code
    PROVE  ~OS!Failed(c, op, arg, code)
BY DEF OS!Failed, TypeOK

LEMMA InitIInv == ObjFaults = 0 /\ Init => IInv
BY DEF Init, OS!Init, IInv, TypeOK, Copied, CliRefsConnected, Pcs

LEMMA NextIInv == ObjFaults = 0 /\ IInv /\ [Next]_vars => IInv'
<1> SUFFICES ASSUME ObjFaults = 0, IInv, [Next]_vars PROVE IInv'
    OBVIOUS
<1>. USE DEF IInv, TypeOK, Copied, CliRefsConnected, odbVars
<1>1. CASE UNCHANGED vars
    BY <1>1 DEF vars
<1>2. SUFFICES ASSUME NEW c \in Clients, Step(c) PROVE IInv'
    BY <1>1 DEF Next
<1>3. CASE cmd_push(c)
    BY <1>3 DEF cmd_push, Pcs
<1>4. CASE \E o \in Oid : copy_object_cb(c, o)
    <2>1. PICK o \in Oid : copy_object_cb(c, o)
        BY <1>4
    <2>2. ~OS!Failed(c, "write", o, "error")
        BY NoObjectFault
    <2>3. objects' = objects \cup {o} /\ UNCHANGED objFaults
        BY <2>1, <2>2 DEF copy_object_cb, OS!pg_odb_write
    <2>4. CliRefsConnected'
        BY <2>1, <2>3 DEF copy_object_cb
    <2>. QED
        BY <2>1, <2>3, <2>4 DEF copy_object_cb
<1>5. CASE PushRefs(c)
    <2>1. LocalObjects[c] \subseteq objects /\ c \in Pushers
        BY <1>5 DEF PushRefs
    <2>2. ~OS!Failed(c, "read_header", LocalTip[c], "error")
        BY NoObjectFault
    <2>3. UNCHANGED <<objects, objFaults>>
        BY <1>5, <2>2 DEF PushRefs, CreateBranch, OS!pg_odb_read_header
    <2>4. CliRefsConnected'
        <3>1. CASE refs' = [refs EXCEPT ![Main] = LocalTip[c]]
            BY <2>1, <2>3, <3>1
        <3>2. CASE UNCHANGED refs
            BY <2>3, <3>2
        <3>. QED
            BY <1>5, <3>1, <3>2 DEF PushRefs, CreateBranch
    <2>. QED
        BY <1>5, <2>3, <2>4 DEF PushRefs, CreateBranch, RefFault, Pcs
<1>6. CASE push_head(c)
    <2>1. refs'[Main] = refs[Main]
        BY <1>6 DEF push_head, RefFault
    <2>. QED
        BY <1>6, <2>1 DEF push_head, RefFault, Pcs
<1>7. CASE cmd_clone(c)
    BY <1>7 DEF cmd_clone, Pcs
<1>8. CASE \E o \in Oid : clone_object_cb(c, o)
    <2>1. PICK o \in Oid : clone_object_cb(c, o)
        BY <1>8
    <2>2. ~OS!Failed(c, "read", o, "error")
        BY NoObjectFault
    <2>3. UNCHANGED <<objects, objFaults>>
        BY <2>1, <2>2 DEF clone_object_cb, OS!pg_odb_read
    <2>. QED
        BY <2>1, <2>3 DEF clone_object_cb
<1>9. CASE CloneRefs(c)
    BY <1>9 DEF CloneRefs, RefFault, Pcs
<1>. QED
    BY <1>2, <1>3, <1>4, <1>5, <1>6, <1>7, <1>8, <1>9 DEF Step

(***************************************************************************)
(* When no statement on the objects table fails, the branch row points at  *)
(* the tip of a pusher all of whose objects are stored, in every reachable *)
(* state, whatever pushes and clones interleave and whichever ref          *)
(* statements fail: the invariant CliRefsConnected of run cli_connected,  *)
(* for every number of runs of the tool and every local repository.        *)
(***************************************************************************)
THEOREM PushConnectedWithoutObjectFaults ==
    ASSUME ObjFaults = 0 PROVE Spec => []CliRefsConnected
<1>1. IInv => CliRefsConnected
    BY DEF IInv
<1>. QED
    BY <1>1, InitIInv, NextIInv, PTL DEF Spec

=============================================================================
