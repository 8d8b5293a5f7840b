-------------------------- MODULE TreeParseProofs --------------------------
(***************************************************************************)
(* Proof that the C tree parser never reads past the end of its content,  *)
(* for every content length and every OID width.                           *)
(***************************************************************************)
EXTENDS TreeParse, TLAPS

\* The strengthening of InBounds that the steps preserve: the content is a
\* byte string and the offset a natural number within it.
IInv ==
    /\ content \in Seq(Bytes)
    /\ pos \in Nat
    /\ pos <= Len(content)

LEMMA InitIInv == Init => IInv
<1> SUFFICES ASSUME Init PROVE IInv
    OBVIOUS
<1>1. PICK n \in 0 .. MaxLen : content \in [1 .. n -> Bytes]
    BY DEF Init, Contents
<1>2. content \in Seq(Bytes)
    BY <1>1, ParamsAssumption
<1>3. QED
    BY <1>2, ParamsAssumption DEF Init, IInv

\* A scan from an offset in Nat ends at an offset in Nat no smaller.
LEMMA ScanRange ==
    ASSUME NEW c \in Seq(Bytes), NEW from \in Nat, NEW b,
           NEW k \in Scan(c, from, b)
    PROVE  k \in Nat /\ from <= k
BY DEF Scan

\* The only step that moves the offset lands it at most at the end.
LEMMA EntryIInv == IInv /\ PerCallEntry => IInv'
<1> SUFFICES ASSUME IInv, PerCallEntry PROVE IInv'
    OBVIOUS
<1>1. PICK sp \in Scan(content, pos, Space) :
        /\ sp < Len(content)
        /\ \E np \in Scan(content, sp + 1, Nul) :
              /\ np < Len(content)
              /\ ~OidTruncated(np)
              /\ pos' = Advance(np)
    BY DEF PerCallEntry
<1>2. sp \in Nat
    BY <1>1, ScanRange DEF IInv
<1>3. PICK np \in Scan(content, sp + 1, Nul) :
              /\ np < Len(content)
              /\ ~OidTruncated(np)
              /\ pos' = np + OidLen + 1
    BY <1>1 DEF Advance
<1>4. np \in Nat
    BY <1>2, <1>3, ScanRange DEF IInv
<1>5. np + OidLen + 1 <= Len(content)
    BY <1>3, <1>4, ParamsAssumption DEF OidTruncated, IInv
<1>6. QED
    BY <1>3, <1>4, <1>5, ParamsAssumption DEF PerCallEntry, IInv

LEMMA NextIInv == IInv /\ [Next]_vars => IInv'
<1> SUFFICES ASSUME IInv, [Next]_vars PROVE IInv'
    OBVIOUS
<1>1. CASE PerCallEntry
    BY <1>1, EntryIInv
<1>2. CASE PerCallDone \/ PerCallNoSpace \/ PerCallNoNul \/ PerCallTruncated
    BY <1>2 DEF PerCallDone, PerCallNoSpace, PerCallNoNul, PerCallTruncated,
               Fail, IInv
<1>3. CASE UNCHANGED vars
    BY <1>3 DEF vars, IInv
<1>4. QED
    BY <1>1, <1>2, <1>3 DEF Next

\* The C parser never reads past the end of the content: the offset it has
\* consumed up to, which covers the OID copied at line 115, stays within
\* state->len in every reachable state (the check at line 95 is exact).
THEOREM ParserInBounds == Spec => []InBounds
<1>1. IInv => InBounds
    BY DEF IInv, InBounds
<1>2. QED
    BY InitIInv, NextIInv, <1>1, PTL DEF Spec
=============================================================================
