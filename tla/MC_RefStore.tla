---------------------------- MODULE MC_RefStore ----------------------------
(***************************************************************************)
(* Model-checking instance of RefStore: two sessions, two ref names and   *)
(* two object ids, given as model values in the .cfg files.               *)
(***************************************************************************)
EXTENDS RefStore, TLC

CONSTANTS s1, s2, r1, r2, o1, o2

\* Sessions, ref names and object ids are only compared for equality, so
\* any renaming of them maps behaviours to behaviours.
Symmetry == Permutations({s1, s2}) \cup Permutations({r1, r2})
                \cup Permutations({o1, o2})
====
