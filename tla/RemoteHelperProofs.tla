------------------------- MODULE RemoteHelperProofs -------------------------
(***************************************************************************)
(* Proofs about the remote helper composed with the object backend: when  *)
(* no statement on the objects table fails, the branch row only ever       *)
(* points at a stored object, for any number of helpers, local             *)
(* repositories and OIDs.  The argument is the order of cmd_push: every   *)
(* object is copied (or found present) before the ref is written.          *)
(***************************************************************************)
EXTENDS RemoteHelper, TLAPS

\* The part of the type invariant the argument needs.
TypeOK ==
    /\ objects \subseteq Oid
    /\ objFaults = 0
    /\ DOMAIN odbReply = Helpers
    /\ refs \in [Names -> RefValue]
    /\ pc \in [Helpers -> Pcs]
    /\ todo \in [Helpers -> SUBSET Oid]
    /\ cur \in [Helpers -> Oid \cup {None}]

\* What a push has copied so far: the local objects it is done with are
\* stored, and all of them once it reaches the ref statement.
Copied ==
    \A h \in Helpers :
        /\ pc[h] \in {"copy", "copy_write", "ref"} => h \in Pushers
        /\ pc[h] \in {"copy", "copy_write"} =>
               LocalObjects[h] \ todo[h] \subseteq objects
        /\ pc[h] = "copy_write" => cur[h] \in Oid
        /\ pc[h] = "ref" => LocalObjects[h] \subseteq objects

IInv == TypeOK /\ Copied /\ RefsConnected

USE HelperAssumption

LEMMA InitIInv == ObjFaults = 0 /\ Init => IInv
BY DEF Init, OS!Init, IInv, TypeOK, Copied, RefsConnected, RefValue, Pcs, Names

\* With ObjFaults = 0 no statement on objects fails.
LEMMA NoObjectFault ==
    ASSUME ObjFaults = 0, TypeOK, NEW s, NEW op, NEW arg, NEW code
    PROVE  ~OS!Failed(s, op, arg, code)
BY DEF OS!Failed, TypeOK

LEMMA NextIInv == ObjFaults = 0 /\ IInv /\ [Next]_vars => IInv'
<1> SUFFICES ASSUME ObjFaults = 0, IInv, [Next]_vars PROVE IInv'
    OBVIOUS
<1>. USE DEF IInv, TypeOK, Copied, RefsConnected, odbVars
<1>1. CASE UNCHANGED vars
    BY <1>1 DEF vars
<1>2. SUFFICES ASSUME NEW h \in Helpers, Step(h) PROVE IInv'
    BY <1>1 DEF Next
<1>3. CASE cmd_list(h)
    BY <1>3 DEF cmd_list, RefFault, Pcs
<1>4. CASE cmd_push(h)
    BY <1>4 DEF cmd_push, Pcs
<1>5. CASE \E o \in Oid : PushCopyExists(h, o)
    <2>1. PICK o \in Oid : PushCopyExists(h, o)
        BY <1>5
    <2>2. ~OS!Failed(h, "exists", o, "absent")
        BY NoObjectFault
    <2>3. /\ odbReply'[h].code = IF o \in objects THEN "found" ELSE "absent"
          /\ UNCHANGED <<objects, objFaults>>
          /\ DOMAIN odbReply' = Helpers
        BY <2>1, <2>2 DEF PushCopyExists, OS!pg_odb_exists, OS!Answer
    <2>. QED
        BY <2>1, <2>3 DEF PushCopyExists, Pcs
<1>6. CASE PushCopyWrite(h)
    <2>1. ~OS!Failed(h, "write", cur[h], "error")
        BY NoObjectFault
    <2>2. /\ objects' = objects \cup {cur[h]}
          /\ UNCHANGED objFaults
          /\ DOMAIN odbReply' = Helpers
        BY <1>6, <2>1 DEF PushCopyWrite, OS!pg_odb_write, OS!Answer
    <2>. QED
        BY <1>6, <2>2 DEF PushCopyWrite, Pcs
<1>7. CASE PushCopyEnd(h)
    BY <1>7 DEF PushCopyEnd, Pcs
<1>8. CASE PushRefUpdate(h)
    BY <1>8 DEF PushRefUpdate, RefFault, Pcs, RefValue, Names
<1>9. CASE PushRefDelete(h)
    BY <1>9 DEF PushRefDelete, RefFault, Pcs, RefValue, Names
<1>10. CASE PushHeadSelect(h)
    BY <1>10 DEF PushHeadSelect, RefFault, Pcs
<1>11. CASE PushHeadInsert(h)
    BY <1>11 DEF PushHeadInsert, RefFault, Pcs, RefValue, Names
<1>12. CASE cmd_fetch(h)
    BY <1>12 DEF cmd_fetch, Pcs
<1>13. CASE \E o \in Oid : FetchCopy(h, o)
    <2>1. PICK o \in Oid : FetchCopy(h, o)
        BY <1>13
    <2>2. ~OS!Failed(h, "read", o, "error")
        BY NoObjectFault
    <2>3. /\ UNCHANGED <<objects, objFaults>>
          /\ DOMAIN odbReply' = Helpers
        BY <2>1, <2>2 DEF FetchCopy, OS!pg_odb_read, OS!Answer
    <2>. QED
        BY <2>1, <2>3 DEF FetchCopy
<1>14. CASE FetchEnd(h)
    BY <1>14 DEF FetchEnd, Pcs
<1>15. CASE Quit(h)
    BY <1>15 DEF Quit, Pcs
<1>. QED
    BY <1>2, <1>3, <1>4, <1>5, <1>6, <1>7, <1>8, <1>9, <1>10, <1>11, <1>12,
       <1>13, <1>14, <1>15 DEF Step

(***************************************************************************)
(* When no statement on the objects table fails, the branch row of the    *)
(* database points at a stored object in every reachable state, whatever  *)
(* the pushes, fetches and failed ref statements: the invariant            *)
(* RefsConnected that run helper_connected checks on three helpers.        *)
(***************************************************************************)
THEOREM ConnectedWithoutObjectFaults ==
    ASSUME ObjFaults = 0 PROVE Spec => []RefsConnected
<1>1. IInv => RefsConnected
    BY DEF IInv
<1>. QED
    BY <1>1, InitIInv, NextIInv, PTL DEF Spec

(***************************************************************************)
(* Fetches.                                                                *)
(***************************************************************************)

\* What a fetching helper knows: the branch it listed is stored (the list
\* ran while RefsConnected held, and objects are never removed); during the
\* foreach it is in the local odb or still to visit, and every object still
\* to visit is stored, so its read succeeds.  A fetcher never takes a
\* step of push.
Fetched ==
    /\ DOMAIN seen = Helpers
    /\ local \in [Helpers -> SUBSET Oid]
    /\ \A h \in Helpers \ Pushers :
         /\ pc[h] \in {"start", "listed", "fetch", "done", "failed"}
         /\ seen[h][Main] \in Oid => seen[h][Main] \in objects
         /\ pc[h] = "fetch" =>
              /\ todo[h] \subseteq objects
              /\ seen[h][Main] \in Oid => seen[h][Main] \in local[h] \cup todo[h]
         /\ pc[h] = "done" /\ seen[h][Main] \in Oid => seen[h][Main] \in local[h]

\* The branch cmd_list prints is the branch row when that holds an OID.
LEMMA ListingMain ==
    ASSUME NEW r, Listing(r)[Main] \in Oid PROVE Listing(r)[Main] = r[Main]
BY DEF Listing, Names

LEMMA InitFetched == ObjFaults = 0 /\ Init => Fetched
BY DEF Init, OS!Init, Fetched, Names

LEMMA NextFetched ==
    ObjFaults = 0 /\ IInv /\ Fetched /\ [Next]_vars => Fetched'
<1> SUFFICES ASSUME ObjFaults = 0, IInv, Fetched, [Next]_vars PROVE Fetched'
    OBVIOUS
<1>. USE DEF IInv, TypeOK, Copied, Fetched, odbVars
<1>1. CASE UNCHANGED vars
    BY <1>1 DEF vars
<1>2. SUFFICES ASSUME NEW h \in Helpers, Step(h) PROVE Fetched'
    BY <1>1 DEF Next
<1>3. CASE cmd_list(h)
    <2>1. CASE seen' = [seen EXCEPT ![h] = Listing(refs)]
        <3>1. Listing(refs)[Main] \in Oid => Listing(refs)[Main] \in objects
            BY ListingMain DEF RefsConnected
        <3>. QED
            BY <1>3, <2>1, <3>1 DEF cmd_list, RefFault
    <2>2. CASE UNCHANGED seen
        BY <1>3, <2>2 DEF cmd_list, RefFault
    <2>. QED
        BY <1>3, <2>1, <2>2 DEF cmd_list
<1>4. CASE cmd_push(h)
    BY <1>4 DEF cmd_push
<1>5. CASE \E o \in Oid : PushCopyExists(h, o)
    <2>1. PICK o \in Oid : PushCopyExists(h, o)
        BY <1>5
    <2>2. UNCHANGED <<objects, objFaults>>
        BY <2>1, NoObjectFault DEF PushCopyExists, OS!pg_odb_exists
    <2>. QED
        BY <2>1, <2>2 DEF PushCopyExists
<1>6. CASE PushCopyWrite(h)
    <2>1. objects' = objects \cup {cur[h]}
        BY <1>6, NoObjectFault DEF PushCopyWrite, OS!pg_odb_write
    <2>. QED
        BY <1>6, <2>1 DEF PushCopyWrite
<1>7. CASE PushCopyEnd(h)
    BY <1>7 DEF PushCopyEnd
<1>8. CASE PushRefUpdate(h) \/ PushRefDelete(h)
    BY <1>8 DEF PushRefUpdate, PushRefDelete, RefFault
<1>9. CASE PushHeadSelect(h) \/ PushHeadInsert(h)
    BY <1>9 DEF PushHeadSelect, PushHeadInsert, RefFault
<1>10. CASE cmd_fetch(h)
    <2>1. todo' = [todo EXCEPT ![h] = objects] /\ pc' = [pc EXCEPT ![h] = "fetch"]
          /\ UNCHANGED <<objects, seen, local>>
        BY <1>10 DEF cmd_fetch
    <2>. QED
        BY <1>10, <2>1 DEF cmd_fetch
<1>11. CASE \E o \in Oid : FetchCopy(h, o)
    <2>1. PICK o \in Oid : FetchCopy(h, o)
        BY <1>11
    <2>2. UNCHANGED <<objects, objFaults>>
        BY <2>1, NoObjectFault DEF FetchCopy, OS!pg_odb_read
    <2>3. CASE h \in Pushers
        BY <2>1, <2>2, <2>3 DEF FetchCopy
    <2>4. CASE h \notin Pushers
        <3>1. o \in objects
            BY <2>1, <2>4 DEF FetchCopy
        <3>2. o \in local'[h] /\ local[h] \subseteq local'[h]
            BY <2>1, <3>1, NoObjectFault DEF FetchCopy, OS!pg_odb_read, OS!Answer
        <3>. QED
            BY <2>1, <2>2, <3>2 DEF FetchCopy
    <2>. QED
        BY <2>3, <2>4
<1>12. CASE FetchEnd(h)
    BY <1>12 DEF FetchEnd
<1>13. CASE Quit(h)
    BY <1>13 DEF Quit
<1>. QED
    BY <1>2, <1>3, <1>4, <1>5, <1>6, <1>7, <1>8, <1>9, <1>10, <1>11, <1>12,
       <1>13 DEF Step

(***************************************************************************)
(* When no statement on the objects table fails, a fetch that ends has the *)
(* commit of the branch it listed in its local repository, however pushes *)
(* interleave with it: the invariant FetchComplete of run helper_connected,*)
(* for any number of helpers and any local repositories.                   *)
(***************************************************************************)
THEOREM FetchCompleteWithoutObjectFaults ==
    ASSUME ObjFaults = 0 PROVE Spec => []FetchComplete
<1>1. IInv /\ Fetched => FetchComplete
    BY DEF Fetched, FetchComplete
<1>2. Init => IInv /\ Fetched
    BY InitIInv, InitFetched
<1>3. IInv /\ Fetched /\ [Next]_vars => IInv' /\ Fetched'
    BY NextIInv, NextFetched
<1>. QED
    BY <1>1, <1>2, <1>3, PTL DEF Spec

=============================================================================
