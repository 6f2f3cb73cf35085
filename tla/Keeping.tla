------------------------------- MODULE Keeping --------------------------------
(***************************************************************************)
(* A filter of a sequence by position.  It is what SelectSeq computes, but *)
(* defined without recursion, so that its order can be reasoned about: see *)
(* KeepIsInOrder of UpkeepProofs.                                          *)
(***************************************************************************)
EXTENDS Naturals, Sequences, FiniteSets

\* The elements of s at the positions I, in their order in s: the n-th is the one with n positions of I up to it.
Keep(s, I) == [n \in 1..Cardinality(I) |-> s[CHOOSE k \in I : Cardinality({l \in I : l <= k}) = n]]
=============================================================================
