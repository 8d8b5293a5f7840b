----------------------------- MODULE TreeParse -----------------------------
(***************************************************************************)
(* The tree-entry parser (component C3): git_tree_entries_c in             *)
(* src/ext/tree_parse.c, a set-returning function that Postgres calls once *)
(* per output row, and its PL/pgSQL twin git_tree_entries in               *)
(* src/sql/functions/tree_parse.sql.                                       *)
(*                                                                         *)
(* The content of a tree object is a byte string.  Bytes are abstracted to *)
(* the classes the parsers tell apart: the space, the NUL, and a few other *)
(* letters, some of which are never valid in UTF-8 (0xFF).  The 20-byte    *)
(* OID becomes OidLen bytes; every 20 and 21 of the code is OidLen and     *)
(* OidLen + 1.  Positions are the code's 0-based C offsets: data[i] is     *)
(* content[i + 1].                                                         *)
(***************************************************************************)
EXTENDS Naturals, Sequences

CONSTANTS
    Space,      \* the byte ' '
    Nul,        \* the byte '\0'
    Letters,    \* the other byte classes
    NonUtf8,    \* the letters no UTF-8 text may contain
    OidLen,     \* length of an object id in bytes (20 in the code)
    MaxLen      \* bound on the length of the parsed content

ASSUME ParamsAssumption ==
    /\ Space # Nul
    /\ Space \notin Letters /\ Nul \notin Letters
    /\ NonUtf8 \subseteq Letters
    /\ OidLen \in Nat \ {0}
    /\ MaxLen \in Nat

Bytes == {Space, Nul} \cup Letters

\* Every bytea value of at most MaxLen bytes.
Contents == UNION {[1 .. n -> Bytes] : n \in 0 .. MaxLen}

\* One output row: (mode text, name text, entry_oid bytea).
Entry == [mode : Seq(Bytes), name : Seq(Bytes), oid : Seq(Bytes)]

Status == {"running", "done", "error"}

VARIABLES
    content,    \* state->data, state->len: the copied argument
    pos,        \* state->pos
    out,        \* the rows returned so far
    status      \* "running" until SRF_RETURN_DONE or ereport(ERROR)

vars == <<content, pos, out, status>>

(***************************************************************************)
(* Helpers.                                                                *)
(***************************************************************************)

\* The loop `k = from; while (k < len && data[k] != b) k++;': the singleton
\* holding the first offset >= from that holds b, or len when none does
\* (or from itself when from is already past the end).
Scan(c, from, b) ==
    {k \in from .. IF from > Len(c) THEN from ELSE Len(c) :
        /\ k >= Len(c) \/ c[k + 1] = b
        /\ \A j \in from .. k - 1 : c[j + 1] # b}

\* memcpy(dst, data + from, n): the n bytes at offsets from .. from + n - 1.
Slice(c, from, n) == [i \in 1 .. n |-> c[from + i]]

\* The 20-byte memcpy of the OID at offset `at'.  A byte past the end of the
\* buffer is whatever the memory after it holds: any byte at all.
ReadOid(c, at) ==
    {o \in [1 .. OidLen -> Bytes] :
        \A i \in 1 .. OidLen : at + i - 1 < Len(c) => o[i] = c[at + i]}

\* CStringGetTextDatum(s): the text ends at the first NUL of the C string.
CString(s) == LET k == CHOOSE k \in Scan(s, 0, Nul) : TRUE IN SubSeq(s, 1, k)

\* Mutation: the check lets an entry one byte short of its OID through.
OidTruncatedOneShort(np) == np + OidLen > Len(content)

\* Mutation: the check also rejects an OID that ends exactly at the end.
OidTruncatedExact(np) == np + OidLen + 1 >= Len(content)

\* The truncated-OID check of line 95, conjunction and all.
OidTruncated(np) ==
    np + OidLen >= Len(content) /\ np + OidLen + 1 > Len(content)

\* The offset of the next entry, line 118.
Advance(np) == np + OidLen + 1

(***************************************************************************)
(* The first call copies the argument and starts at offset 0 (lines       *)
(* 29-56); each later call is one of the per-call outcomes below.          *)
(***************************************************************************)
Init ==
    /\ content \in Contents
    /\ pos = 0
    /\ out = <<>>
    /\ status = "running"

Fail ==
    /\ status' = "error"
    /\ UNCHANGED <<content, pos, out>>

\* Nothing is left: SRF_RETURN_DONE.
PerCallDone ==
    /\ status = "running"
    /\ ~(pos < Len(content))
    /\ status' = "done"
    /\ UNCHANGED <<content, pos, out>>

\* "malformed tree entry: no space found".
PerCallNoSpace ==
    /\ status = "running"
    /\ pos < Len(content)
    /\ \E sp \in Scan(content, pos, Space) : sp >= Len(content)
    /\ Fail

\* "malformed tree entry: no null terminator found".
PerCallNoNul ==
    /\ status = "running"
    /\ pos < Len(content)
    /\ \E sp \in Scan(content, pos, Space) :
         /\ sp < Len(content)
         /\ \E np \in Scan(content, sp + 1, Nul) : np >= Len(content)
    /\ Fail

\* "malformed tree entry: truncated OID".
PerCallTruncated ==
    /\ status = "running"
    /\ pos < Len(content)
    /\ \E sp \in Scan(content, pos, Space) :
         /\ sp < Len(content)
         /\ \E np \in Scan(content, sp + 1, Nul) :
              np < Len(content) /\ OidTruncated(np)
    /\ Fail

\* One row (mode, name, oid) is returned and pos moves past it.
PerCallEntry ==
    /\ status = "running"
    /\ pos < Len(content)
    /\ \E sp \in Scan(content, pos, Space) :
         /\ sp < Len(content)
         /\ \E np \in Scan(content, sp + 1, Nul) :
              /\ np < Len(content)
              /\ ~OidTruncated(np)
              /\ \E oid \in ReadOid(content, np + 1) :
                   out' = Append(out,
                            [mode |-> CString(Slice(content, pos, sp - pos)),
                             name |-> CString(Slice(content, sp + 1, np - sp - 1)),
                             oid  |-> oid])
              /\ pos' = Advance(np)
    /\ UNCHANGED <<content, status>>

Next ==
    \/ PerCallDone
    \/ PerCallNoSpace
    \/ PerCallNoNul
    \/ PerCallTruncated
    \/ PerCallEntry

Spec == Init /\ [][Next]_vars

(***************************************************************************)
(* The PL/pgSQL twin git_tree_entries (tree_parse.sql lines 3-37), which    *)
(* runs its whole loop in one call.  Its offsets are 1-based; the scans    *)
(* below reuse the 0-based Scan, so v_space_pos = sp + 1 and               *)
(* v_null_pos = np + 1.  substring() clamps to the bytes that exist, and   *)
(* convert_from(.., 'UTF8') raises an error on a NUL or an invalid byte.   *)
(* The result is an error or the rows returned.                            *)
(***************************************************************************)
SqlSubstring(c, from, n) ==
    LET hi == IF from + n - 1 < Len(c) THEN from + n - 1 ELSE Len(c)
    IN  [i \in 1 .. IF hi >= from THEN hi - from + 1 ELSE 0 |-> c[from + i - 1]]

ConvertFails(x) == \E i \in DOMAIN x : x[i] \in NonUtf8 \cup {Nul}

SqlEntries(c) ==
    LET F[p \in 1 .. Len(c) + OidLen + 3] ==
          IF p > Len(c) THEN [failed |-> FALSE, rows |-> <<>>]
          ELSE LET sp   == CHOOSE k \in Scan(c, p - 1, Space) : TRUE
                   np   == CHOOSE k \in Scan(c, sp + 1, Nul) : TRUE
                   mode == SqlSubstring(c, p, sp + 1 - p)
                   name == SqlSubstring(c, sp + 2, np - sp - 1)
                   oid  == SqlSubstring(c, np + 2, OidLen)
                   rest == F[np + OidLen + 2]
               IN  IF ConvertFails(mode) \/ ConvertFails(name) \/ rest.failed
                   THEN [failed |-> TRUE, rows |-> <<>>]
                   ELSE [failed |-> FALSE,
                         rows |-> <<[mode |-> mode, name |-> name, oid |-> oid]>>
                                  \o rest.rows]
    IN  F[1]

(***************************************************************************)
(* Reference definitions, from the binary format of a tree rather than     *)
(* from either parser.                                                     *)
(***************************************************************************)

\* The bytes of one entry: <mode> SP <name> NUL <oid>.
Encode(e) == e.mode \o <<Space>> \o e.name \o <<Nul>> \o e.oid

\* The concatenation of the entries of es.
Reconstruct(es) ==
    LET F[k \in 0 .. Len(es)] == IF k = 0 THEN <<>> ELSE F[k - 1] \o Encode(es[k])
    IN  F[Len(es)]

\* c is a sequence of entries, each a non-empty ASCII mode (no SP, NUL or
\* byte invalid in UTF-8), a name free of NUL and an OID of OidLen bytes.
\* W[i]: the bytes from offset i on are such a sequence.
WellFormed(c) ==
    LET W[i \in 0 .. Len(c)] ==
          \/ i = Len(c)
          \/ \E sp, np \in i .. Len(c) - 1 :
               /\ i < sp /\ sp < np /\ np + OidLen + 1 <= Len(c)
               /\ c[sp + 1] = Space /\ c[np + 1] = Nul
               /\ \A j \in i .. sp - 1 : c[j + 1] \notin {Space, Nul} \cup NonUtf8
               /\ \A j \in sp + 1 .. np - 1 : c[j + 1] # Nul
               /\ W[np + OidLen + 1]
    IN  W[0]

(***************************************************************************)
(* Properties.                                                             *)
(***************************************************************************)

\* The parser never reads past the end of the content: every byte of every
\* entry it returned, the OID read by the memcpy of line 115 included, lies
\* before state->len (the bounds check of line 95 is the spec's open
\* question).
InBounds == pos <= Len(content)

\* Round trip (spec section 8): on a well-formed tree the C parser never
\* raises an error, and once it returns DONE the rows it returned encode the
\* content exactly.
RoundTrip ==
    WellFormed(content) =>
        /\ status # "error"
        /\ status = "done" => Reconstruct(out) = content

\* The PL/pgSQL parser returns what the C parser returns: the same rows, or
\* an error where the C parser raises one (the spec lists MissingSpace,
\* MissingNul and TruncatedOid as the parser's failures).
SqlMatchesC ==
    status # "running" =>
        SqlEntries(content) = IF status = "error"
                              THEN [failed |-> TRUE, rows |-> <<>>]
                              ELSE [failed |-> FALSE, rows |-> out]

\* On a well-formed tree the PL/pgSQL parser returns the rows the C parser
\* returns (names are raw bytes; Git does not require UTF-8).
SqlAcceptsGitTrees ==
    WellFormed(content) /\ status = "done" =>
        SqlEntries(content) = [failed |-> FALSE, rows |-> out]

=============================================================================
