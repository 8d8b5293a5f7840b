---------------------------- MODULE ObjectStore ----------------------------
(***************************************************************************)
(* The object-database backend (component C6), src/backend/odb_postgres.c: *)
(* the objects table of one repository and the backend calls libgit2 makes *)
(* on it.  Every call is one SQL statement in autocommit, so each is one   *)
(* atomic step; any statement may fail (a lost connection, a statement     *)
(* timeout), at most MaxFaults times.                                      *)
(*                                                                         *)
(* An OID is a string of HexLen hex digits (40 in the code); byte k of the *)
(* stored bytea holds digits 2k-1 and 2k.  Object contents are left out:   *)
(* libgit2 hashes what it writes, so an OID stands for its object.         *)
(***************************************************************************)
EXTENDS Naturals, FiniteSets, Sequences

CONSTANTS
    Sessions,     \* backend instances (one per connection)
    Nibbles,      \* the hex digits used, 0 among them
    HexLen,       \* digits in an OID (GIT_OID_SHA1_HEXSIZE)
    MaxObjects,   \* bound on the rows of the objects table
    MaxFaults,    \* bound on failed statements
    None          \* an absent OID in a reply

ASSUME ObjectStoreAssumption ==
    /\ 0 \in Nibbles /\ Nibbles \subseteq 0 .. 15
    /\ HexLen \in Nat \ {0} /\ HexLen % 2 = 0
    /\ MaxObjects \in Nat /\ MaxFaults \in Nat

Oid == [1 .. HexLen -> Nibbles]

\* The abbreviations a caller may look up: 1 to HexLen hex digits.
Prefixes == UNION {[1 .. n -> Nibbles] : n \in 1 .. HexLen}

\* The git_oid libgit2 hands the backend for an abbreviation: the digits
\* given, and zero in every digit after them (git_oid__cpy_prefix).
ShortOid(p) == [i \in 1 .. HexLen |-> IF i <= Len(p) THEN p[i] ELSE 0]

\* What the caller means by the abbreviation: o starts with the digits of p.
HasPrefix(o, p) == \A i \in 1 .. Len(p) : o[i] = p[i]

\* substring(oid from 1 for $2) = $3, $3 being the first $2 bytes of
\* short_oid->id: the first 2 * n digits agree.
BytesMatch(o, key, n) == \A i \in 1 .. 2 * n : o[i] = key[i]

\* Mutation: the byte length rounds an odd digit count down.
PrefixBytesFloor(len) == len \div 2

\* byte_len = (prefix_len + 1) / 2, lines 143 and 296.
PrefixBytes(len) == (len + 1) \div 2

\* The rows the prefix query of lines 158-161 and 311-314 returns.
PrefixRows(objs, p) ==
    {o \in objs : BytesMatch(o, ShortOid(p), PrefixBytes(Len(p)))}

Ops == {"none", "read", "read_header", "read_prefix", "write", "exists",
        "exists_prefix"}

\* The last call of a session: the operation, its argument, the code it
\* returned (0 is "ok", GIT_ENOTFOUND, GIT_EAMBIGUOUS, -1 is "error";
\* exists returns "found" or "absent") and the OID it handed back.
Reply == [op : Ops, arg : Prefixes \cup {None},
          code : {"ok", "notfound", "ambiguous", "error", "found", "absent"},
          oid : Oid \cup {None}]

VARIABLES
    objects,      \* the OIDs with a row in objects for this repo_id
    reply,        \* reply[s]: the result of session s's last call
    faults        \* statements failed so far

odbVars == <<objects, reply, faults>>

Answer(s, op, arg, code, oid) ==
    reply' = [reply EXCEPT ![s] = [op |-> op, arg |-> arg, code |-> code,
                                   oid |-> oid]]

\* PQresultStatus is not PGRES_TUPLES_OK / PGRES_COMMAND_OK: the call
\* returns `code' and changes nothing.
Failed(s, op, arg, code) ==
    /\ faults < MaxFaults
    /\ faults' = faults + 1
    /\ Answer(s, op, arg, code, None)
    /\ UNCHANGED objects

Init ==
    /\ objects = {}
    /\ reply = [s \in Sessions |-> [op |-> "none", arg |-> None,
                                    code |-> "ok", oid |-> None]]
    /\ faults = 0

\* SELECT type, size, content ... WHERE oid=$2.
pg_odb_read(s, o) ==
    \/ Failed(s, "read", o, "error")
    \/ /\ Answer(s, "read", o, IF o \in objects THEN "ok" ELSE "notfound",
                 IF o \in objects THEN o ELSE None)
       /\ UNCHANGED <<objects, faults>>

\* SELECT type, size ... WHERE oid=$2: the same outcomes, no content.
pg_odb_read_header(s, o) ==
    \/ Failed(s, "read_header", o, "error")
    \/ /\ Answer(s, "read_header", o, IF o \in objects THEN "ok" ELSE "notfound",
                 IF o \in objects THEN o ELSE None)
       /\ UNCHANGED <<objects, faults>>

\* A full-length abbreviation is an exact read; a shorter one selects the
\* rows whose first byte_len bytes match, and needs exactly one.
PrefixLookup(s, op, p) ==
    IF Len(p) = HexLen
    THEN Answer(s, op, p, IF p \in objects THEN "ok" ELSE "notfound",
                IF p \in objects THEN p ELSE None)
    ELSE LET rows == PrefixRows(objects, p)
         IN  Answer(s, op, p,
                    CASE rows = {}            -> "notfound"
                      [] Cardinality(rows) > 1 -> "ambiguous"
                      [] OTHER                 -> "ok",
                    IF Cardinality(rows) = 1 THEN CHOOSE o \in rows : TRUE
                                             ELSE None)

pg_odb_read_prefix(s, p) ==
    \/ Failed(s, "read_prefix", p, "error")
    \/ PrefixLookup(s, "read_prefix", p) /\ UNCHANGED <<objects, faults>>

\* A full-length abbreviation goes through pg_odb_exists, whose failure
\* reads as "not there" (line 289).
pg_odb_exists_prefix(s, p) ==
    \/ Failed(s, "exists_prefix", p,
              IF Len(p) = HexLen THEN "notfound" ELSE "error")
    \/ PrefixLookup(s, "exists_prefix", p) /\ UNCHANGED <<objects, faults>>

\* INSERT ... ON CONFLICT (repo_id, oid) DO NOTHING.
pg_odb_write(s, o) ==
    /\ o \in objects \/ Cardinality(objects) < MaxObjects
    /\ \/ Failed(s, "write", o, "error")
       \/ /\ objects' = objects \cup {o}
          /\ Answer(s, "write", o, "ok", o)
          /\ UNCHANGED faults

\* SELECT 1 ... WHERE oid=$2; a failed statement returns 0, as if absent.
pg_odb_exists(s, o) ==
    \/ Failed(s, "exists", o, "absent")
    \/ /\ Answer(s, "exists", o, IF o \in objects THEN "found" ELSE "absent",
                 None)
       /\ UNCHANGED <<objects, faults>>

Next ==
    \E s \in Sessions :
        \/ \E o \in Oid : pg_odb_read(s, o)
        \/ \E o \in Oid : pg_odb_read_header(s, o)
        \/ \E p \in Prefixes : pg_odb_read_prefix(s, p)
        \/ \E p \in Prefixes : pg_odb_exists_prefix(s, p)
        \/ \E o \in Oid : pg_odb_write(s, o)
        \/ \E o \in Oid : pg_odb_exists(s, o)

Spec == Init /\ [][Next]_odbVars

(***************************************************************************)
(* Properties.                                                             *)
(***************************************************************************)

\* The stored objects whose OID starts with the abbreviation p.
Matches(p) == {o \in objects : HasPrefix(o, p)}

\* An object that read_prefix or exists_prefix hands back is stored and
\* starts with the digits asked for, and an EAMBIGUOUS answer means that at
\* least two stored objects do.
PrefixAnswerSound ==
    \A s \in Sessions :
        reply[s].op \in {"read_prefix", "exists_prefix"} =>
            /\ reply[s].code = "ok" =>
                   reply[s].oid \in Matches(reply[s].arg)
            /\ reply[s].code = "ambiguous" =>
                   Cardinality(Matches(reply[s].arg)) >= 2

\* An abbreviation lookup answers what the abbreviation means (spec 4.6,
\* 7): GIT_ENOTFOUND when no stored object starts with its digits,
\* GIT_EAMBIGUOUS when several do, the object when exactly one does.
PrefixAnswerExact ==
    [][\A s \in Sessions :
         /\ reply'[s] # reply[s]
         /\ reply'[s].op \in {"read_prefix", "exists_prefix"}
         /\ reply'[s].code # "error"
         => reply'[s].code =
               CASE Matches(reply'[s].arg) = {}            -> "notfound"
                 [] Cardinality(Matches(reply'[s].arg)) > 1 -> "ambiguous"
                 [] OTHER                                   -> "ok"]_odbVars

=============================================================================
