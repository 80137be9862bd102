------------------------------- MODULE Orders -------------------------------
(***************************************************************************)
(* Sorting and filtering (Go's sort.SliceStable, and loops that append     *)
(* what passes a test) in a form that can be reasoned about: by the order, *)
(* a set of pairs, and by the positions that are kept, in place of         *)
(* SetToSortSeq and SelectSeq and their operators.                         *)
(***************************************************************************)
EXTENDS Naturals, Sequences, FiniteSets

\* The elements of S, R being a strict total order of them: the n-th has n - 1 before it.
InOrder(S, R) ==
    [n \in 1 .. Cardinality(S) |->
        CHOOSE x \in S : Cardinality({y \in S : <<y, x>> \in R}) = n - 1]

\* The elements of s at the positions N, in the order of s.
Kept(s, N) ==
    LET at == InOrder(N, {p \in N \X N : p[1] < p[2]})
    IN [n \in DOMAIN at |-> s[at[n]]]
=============================================================================
