------------------------- MODULE ObjectStoreProofs -------------------------
(***************************************************************************)
(* Proof that the abbreviation lookups of the object backend are sound:   *)
(* for every OID length, digit set and number of sessions, an object that  *)
(* read_prefix or exists_prefix returns is stored and starts with the      *)
(* digits asked for, and GIT_EAMBIGUOUS means two stored objects do.       *)
(* The argument: the query of odb_postgres.c compares at least as many     *)
(* digits as the abbreviation has, and those digits of the zero-filled    *)
(* short OID are the abbreviation's own; the table only grows, so what was *)
(* true of a reply stays true.                                             *)
(***************************************************************************)
EXTENDS ObjectStore, FiniteSetTheorems, TLAPS

TypeOK ==
    /\ objects \subseteq Oid
    /\ IsFiniteSet(objects)
    /\ faults \in Nat
    /\ reply \in [Sessions -> Reply]

\* What the reply r of a lookup witnesses of the stored objects objs, stated without cardinality so
\* that it survives later inserts.
ReplyWitnessed(r, objs) ==
    r.op \in {"read_prefix", "exists_prefix"} =>
        /\ r.code = "ok" => r.oid \in objs /\ HasPrefix(r.oid, r.arg)
        /\ r.code = "ambiguous" =>
               \E a, b \in objs : a # b /\ HasPrefix(a, r.arg) /\ HasPrefix(b, r.arg)

Witnessed == \A s \in Sessions : ReplyWitnessed(reply[s], objects)

IInv == TypeOK /\ Witnessed

USE ObjectStoreAssumption

(***************************************************************************)
(* Lemmas about the operators of the model.                                *)
(***************************************************************************)

\* An abbreviation is a sequence of 1 to HexLen digits, and so is an OID.
LEMMA PrefixType ==
    ASSUME NEW p \in Prefixes
    PROVE  p \in Seq(Nibbles) /\ Len(p) \in 1 .. HexLen
<1>1. PICK n \in 1 .. HexLen : p \in [1 .. n -> Nibbles]
    BY DEF Prefixes
<1>2. p \in Seq(Nibbles)
    BY <1>1
<1>. QED
    BY <1>1, <1>2

LEMMA OidType == Oid \subseteq Prefixes
BY DEF Oid, Prefixes

\* A row the prefix query returns starts with the abbreviation's digits:
\* the query compares (len + 1) / 2 bytes, at least len digits, and the
\* first len digits of the zero-filled short OID are the abbreviation.
LEMMA RowHasPrefix ==
    ASSUME NEW p \in Prefixes, NEW o \in Oid,
           BytesMatch(o, ShortOid(p), PrefixBytes(Len(p)))
    PROVE  HasPrefix(o, p)
<1>1. Len(p) \in 1 .. HexLen
    BY PrefixType
<1>2. SUFFICES ASSUME NEW i \in 1 .. Len(p) PROVE o[i] = p[i]
    BY DEF HasPrefix
<1>3. i \in 1 .. 2 * PrefixBytes(Len(p))
    BY <1>1 DEF PrefixBytes
<1>4. ShortOid(p)[i] = p[i]
    BY <1>1 DEF ShortOid
<1>. QED
    BY <1>3, <1>4 DEF BytesMatch

\* A finite set of more than one element has two distinct elements.
LEMMA TwoDistinct ==
    ASSUME NEW S, IsFiniteSet(S), Cardinality(S) > 1
    PROVE  \E a, b \in S : a # b
<1>1. S # {}
    BY FS_EmptySet
<1>2. PICK a \in S : TRUE
    BY <1>1
<1>3. SUFFICES ASSUME \A b \in S : b = a PROVE FALSE
    OBVIOUS
<1>4. S = {a}
    BY <1>2, <1>3
<1>. QED
    BY <1>4, FS_Singleton

\* A finite set with two distinct elements has at least two.
LEMMA AtLeastTwo ==
    ASSUME NEW S, IsFiniteSet(S), NEW a \in S, NEW b \in S, a # b
    PROVE  Cardinality(S) >= 2
<1>1. IsFiniteSet({a}) /\ Cardinality({a}) = 1
    BY FS_Singleton
<1>2. IsFiniteSet({a} \cup {b}) /\ Cardinality({a} \cup {b}) = 2
    <2>1. b \notin {a}
        OBVIOUS
    <2>2. /\ IsFiniteSet({a} \cup {b})
          /\ Cardinality({a} \cup {b}) = Cardinality({a}) + 1
        BY <1>1, <2>1, FS_AddElement
    <2>. QED
        BY <1>1, <2>2
<1>3. Cardinality({a} \cup {b}) <= Cardinality(S)
    BY <1>2, FS_Subset
<1>. QED
    BY <1>2, <1>3, FS_CardinalityType

\* What a reply witnesses stays true when objects are added.
LEMMA WitnessedGrows ==
    ASSUME NEW r, NEW A, NEW B, ReplyWitnessed(r, A), A \subseteq B
    PROVE  ReplyWitnessed(r, B)
BY DEF ReplyWitnessed

\* One lookup on an unchanged table gives a typed reply that witnesses
\* what it says.
LEMMA LookupWitnessed ==
    ASSUME TypeOK, NEW s \in Sessions,
           NEW op \in {"read_prefix", "exists_prefix"}, NEW p \in Prefixes,
           PrefixLookup(s, op, p), UNCHANGED objects
    PROVE  /\ reply' = [reply EXCEPT ![s] = reply'[s]]
           /\ reply'[s] \in Reply
           /\ ReplyWitnessed(reply'[s], objects')
<1>1. p \in Seq(Nibbles) /\ Len(p) \in 1 .. HexLen
    BY PrefixType
<1>0. op \in Ops /\ p \in Prefixes \cup {None} /\ None \in Oid \cup {None}
    BY DEF Ops
<1>2. CASE Len(p) = HexLen
    <2>1. p \in Oid
        <3>1. PICK n \in 1 .. HexLen : p \in [1 .. n -> Nibbles]
            BY DEF Prefixes
        <3>2. n = HexLen
            BY <1>2, <3>1
        <3>. QED
            BY <3>1, <3>2 DEF Oid
    <2>2. reply' = [reply EXCEPT ![s] =
                      [op |-> op, arg |-> p,
                       code |-> IF p \in objects THEN "ok" ELSE "notfound",
                       oid |-> IF p \in objects THEN p ELSE None]]
        BY <1>2 DEF PrefixLookup, Answer
    <2>3. HasPrefix(p, p)
        BY DEF HasPrefix
    <2>a. reply'[s] \in Reply
        BY <2>1, <2>2, <2>3, <1>0, OidType DEF Reply, TypeOK
    <2>b. ReplyWitnessed(reply'[s], objects')
        BY <2>1, <2>2, <2>3 DEF ReplyWitnessed, TypeOK
    <2>c. reply' = [reply EXCEPT ![s] = reply'[s]]
        BY <2>1, <2>2, <2>3 DEF TypeOK
    <2>. QED
        BY <2>a, <2>b, <2>c
<1>3. CASE Len(p) # HexLen
    <2> DEFINE rows == PrefixRows(objects, p)
    <2>1. rows \subseteq objects /\ \A o \in rows : HasPrefix(o, p)
        BY RowHasPrefix DEF PrefixRows, TypeOK
    <2>2. IsFiniteSet(rows) /\ Cardinality(rows) \in Nat
        BY <2>1, FS_Subset, FS_CardinalityType DEF TypeOK
    <2>3. reply' = [reply EXCEPT ![s] =
                      [op |-> op, arg |-> p,
                       code |-> CASE rows = {}            -> "notfound"
                                  [] Cardinality(rows) > 1 -> "ambiguous"
                                  [] OTHER                 -> "ok",
                       oid |-> IF Cardinality(rows) = 1 THEN CHOOSE o \in rows : TRUE
                                                        ELSE None]]
        BY <1>3 DEF PrefixLookup, Answer
    <2>4. CASE rows = {}
        <3>1. Cardinality(rows) = 0
            BY <2>4, FS_EmptySet
        <3>a. reply'[s] \in Reply
            BY <2>3, <2>4, <3>1, <1>0, OidType DEF Reply, TypeOK
        <3>b. ReplyWitnessed(reply'[s], objects')
            BY <2>3, <2>4, <3>1 DEF ReplyWitnessed, TypeOK
        <3>c. reply' = [reply EXCEPT ![s] = reply'[s]]
            BY <2>3, <2>4, <3>1 DEF TypeOK
        <3>. QED
            BY <3>a, <3>b, <3>c
    <2>5. CASE rows # {} /\ Cardinality(rows) > 1
        <3>1. PICK a, b \in rows : a # b
            BY <2>2, <2>5, TwoDistinct
        <3>a. reply'[s] \in Reply
            BY <2>1, <2>3, <2>5, <3>1, <1>0, OidType DEF Reply, TypeOK
        <3>b. ReplyWitnessed(reply'[s], objects')
            BY <2>1, <2>3, <2>5, <3>1 DEF ReplyWitnessed, TypeOK
        <3>c. reply' = [reply EXCEPT ![s] = reply'[s]]
            BY <2>1, <2>3, <2>5, <3>1 DEF TypeOK
        <3>. QED
            BY <3>a, <3>b, <3>c
    <2>6. CASE rows # {} /\ ~(Cardinality(rows) > 1)
        <3>1. Cardinality(rows) = 1
            BY <2>2, <2>6, FS_EmptySet
        <3>2. (CHOOSE o \in rows : TRUE) \in rows
            BY <2>6
        <3>a. reply'[s] \in Reply
            BY <2>1, <2>3, <2>6, <3>1, <3>2, <1>0, OidType DEF Reply, TypeOK
        <3>b. ReplyWitnessed(reply'[s], objects')
            BY <2>1, <2>3, <2>6, <3>1, <3>2 DEF ReplyWitnessed, TypeOK
        <3>c. reply' = [reply EXCEPT ![s] = reply'[s]]
            BY <2>1, <2>3, <2>6, <3>1, <3>2 DEF TypeOK
        <3>. QED
            BY <3>a, <3>b, <3>c
    <2>. QED
        BY <2>4, <2>5, <2>6
<1>. QED
    BY <1>2, <1>3

\* A step that gives one session a reply r witnessing the new table, and
\* only adds objects, keeps the invariant.
LEMMA ReplyStep ==
    ASSUME IInv, NEW s \in Sessions, NEW r \in Reply,
           reply' = [reply EXCEPT ![s] = r],
           ReplyWitnessed(r, objects'),
           objects \subseteq objects', objects' \subseteq Oid,
           IsFiniteSet(objects'), faults' \in Nat
    PROVE  IInv'
<1>1. TypeOK'
    BY DEF IInv, TypeOK
<1>2. ASSUME NEW t \in Sessions PROVE ReplyWitnessed(reply'[t], objects')
    <2>1. CASE t = s
        BY <2>1 DEF IInv, TypeOK
    <2>2. CASE t # s
        <3>1. reply'[t] = reply[t] /\ ReplyWitnessed(reply[t], objects)
            BY <2>2 DEF IInv, TypeOK, Witnessed
        <3>. QED
            BY <3>1, WitnessedGrows
    <2>. QED
        BY <2>1, <2>2
<1>. QED
    BY <1>1, <1>2 DEF IInv, Witnessed

\* A failed statement answers an error and changes no object.
LEMMA FailedStep ==
    ASSUME IInv, NEW s \in Sessions, NEW op \in Ops,
           NEW arg \in Prefixes \cup {None},
           NEW code \in {"error", "notfound", "absent"},
           Failed(s, op, arg, code)
    PROVE  IInv'
<1> DEFINE r == [op |-> op, arg |-> arg, code |-> code, oid |-> None]
<1>1. r \in Reply
    BY DEF Reply
<1>2. reply' = [reply EXCEPT ![s] = r] /\ objects' = objects /\ faults' = faults + 1
    BY DEF Failed, Answer
<1>3. ReplyWitnessed(r, objects')
    BY DEF ReplyWitnessed
<1>4. objects' \subseteq Oid /\ IsFiniteSet(objects') /\ faults' \in Nat
    BY <1>2 DEF IInv, TypeOK
<1>. QED
    BY <1>1, <1>2, <1>3, <1>4, ReplyStep

\* An answer to read, read_header, write or exists is no lookup's.
LEMMA PlainStep ==
    ASSUME IInv, NEW s \in Sessions,
           NEW op \in Ops \ {"read_prefix", "exists_prefix"},
           NEW arg \in Prefixes, NEW code \in {"ok", "notfound", "found", "absent"},
           NEW oid \in Oid \cup {None},
           Answer(s, op, arg, code, oid),
           objects \subseteq objects', objects' \subseteq Oid,
           IsFiniteSet(objects'), faults' \in Nat
    PROVE  IInv'
<1> DEFINE r == [op |-> op, arg |-> arg, code |-> code, oid |-> oid]
<1>1. r \in Reply /\ ReplyWitnessed(r, objects')
    BY DEF Reply, ReplyWitnessed, Ops
<1>. QED
    BY <1>1, ReplyStep DEF Answer

LEMMA InitIInv == Init => IInv
BY FS_EmptySet DEF Init, IInv, TypeOK, Witnessed, ReplyWitnessed, Reply, Ops

LEMMA NextIInv == IInv /\ [Next]_odbVars => IInv'
<1> SUFFICES ASSUME IInv, [Next]_odbVars PROVE IInv'
    OBVIOUS
<1>0. /\ Oid \subseteq Prefixes
      /\ {"read", "read_header", "write", "exists"} \subseteq
           Ops \ {"read_prefix", "exists_prefix"}
      /\ {"read_prefix", "exists_prefix"} \subseteq Ops
    BY OidType DEF Reply, Ops
<1>1. CASE UNCHANGED odbVars
    BY <1>1 DEF odbVars, IInv, TypeOK, Witnessed
<1>2. SUFFICES ASSUME NEW s \in Sessions,
                      \/ \E o \in Oid : pg_odb_read(s, o)
                      \/ \E o \in Oid : pg_odb_read_header(s, o)
                      \/ \E p \in Prefixes : pg_odb_read_prefix(s, p)
                      \/ \E p \in Prefixes : pg_odb_exists_prefix(s, p)
                      \/ \E o \in Oid : pg_odb_write(s, o)
                      \/ \E o \in Oid : pg_odb_exists(s, o)
               PROVE  IInv'
    BY <1>1 DEF Next
<1>3. TypeOK
    BY DEF IInv
<1>4. CASE \E o \in Oid : pg_odb_read(s, o) \/ pg_odb_read_header(s, o)
                          \/ pg_odb_exists(s, o)
    <2>1. PICK o \in Oid : pg_odb_read(s, o) \/ pg_odb_read_header(s, o)
                           \/ pg_odb_exists(s, o)
        BY <1>4
    <2>. QED
        BY <2>1, <1>0, <1>3, FailedStep, PlainStep
           DEF pg_odb_read, pg_odb_read_header, pg_odb_exists, TypeOK
<1>5. CASE \E p \in Prefixes : pg_odb_read_prefix(s, p) \/ pg_odb_exists_prefix(s, p)
    <2>1. PICK p \in Prefixes : pg_odb_read_prefix(s, p) \/ pg_odb_exists_prefix(s, p)
        BY <1>5
    <2>2. CASE \E op \in {"read_prefix", "exists_prefix"} :
                 PrefixLookup(s, op, p) /\ UNCHANGED <<objects, faults>>
        <3>1. PICK op \in {"read_prefix", "exists_prefix"} :
                 PrefixLookup(s, op, p) /\ UNCHANGED <<objects, faults>>
            BY <2>2
        <3>2. /\ reply' = [reply EXCEPT ![s] = reply'[s]]
              /\ reply'[s] \in Reply
              /\ ReplyWitnessed(reply'[s], objects')
            BY <1>3, <3>1, LookupWitnessed
        <3>. QED
            BY <1>3, <3>1, <3>2, ReplyStep DEF TypeOK
    <2>3. CASE ~\E op \in {"read_prefix", "exists_prefix"} :
                 PrefixLookup(s, op, p) /\ UNCHANGED <<objects, faults>>
        BY <2>1, <2>3, <1>0, FailedStep DEF pg_odb_read_prefix, pg_odb_exists_prefix
    <2>. QED
        BY <2>2, <2>3
<1>6. CASE \E o \in Oid : pg_odb_write(s, o)
    <2>1. PICK o \in Oid : pg_odb_write(s, o)
        BY <1>6
    <2>2. CASE objects' = objects \cup {o} /\ Answer(s, "write", o, "ok", o)
                /\ UNCHANGED faults
        <3>1. IsFiniteSet(objects')
            BY <1>3, <2>2, FS_AddElement DEF TypeOK
        <3>. QED
            BY <1>0, <1>3, <2>2, <3>1, PlainStep DEF TypeOK
    <2>3. CASE Failed(s, "write", o, "error")
        BY <1>0, <2>3, FailedStep
    <2>. QED
        BY <2>1, <2>2, <2>3 DEF pg_odb_write
<1>. QED
    BY <1>2, <1>4, <1>5, <1>6

(***************************************************************************)
(* For every OID length, digit set and number of sessions: an object that *)
(* read_prefix or exists_prefix of odb_postgres.c hands back is stored and *)
(* starts with the digits asked for, and GIT_EAMBIGUOUS is answered only   *)
(* when two stored objects start with them: the invariant                  *)
(* PrefixAnswerSound of run objectstore_prefix_sound.                      *)
(***************************************************************************)
THEOREM PrefixLookupSound == Spec => []PrefixAnswerSound
<1>1. IInv => PrefixAnswerSound
    <2> SUFFICES ASSUME IInv, NEW s \in Sessions,
                        reply[s].op \in {"read_prefix", "exists_prefix"}
                 PROVE  /\ reply[s].code = "ok" =>
                               reply[s].oid \in Matches(reply[s].arg)
                        /\ reply[s].code = "ambiguous" =>
                               Cardinality(Matches(reply[s].arg)) >= 2
        BY DEF PrefixAnswerSound
    <2>1. ReplyWitnessed(reply[s], objects) /\ TypeOK
        BY DEF IInv, Witnessed
    <2>2. IsFiniteSet(Matches(reply[s].arg))
        BY <2>1, FS_Subset DEF TypeOK, Matches
    <2>3. reply[s].code = "ambiguous" => Cardinality(Matches(reply[s].arg)) >= 2
        <3> SUFFICES ASSUME reply[s].code = "ambiguous"
                     PROVE  Cardinality(Matches(reply[s].arg)) >= 2
            OBVIOUS
        <3>1. PICK a, b \in objects :
                  a # b /\ HasPrefix(a, reply[s].arg) /\ HasPrefix(b, reply[s].arg)
            BY <2>1 DEF ReplyWitnessed
        <3>. QED
            BY <2>2, <3>1, AtLeastTwo DEF Matches
    <2>. QED
        BY <2>1, <2>3 DEF ReplyWitnessed, Matches
<1>. QED
    BY <1>1, InitIInv, NextIInv, PTL DEF Spec

=============================================================================
