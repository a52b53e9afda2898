---------------------------- MODULE Subsequences ----------------------------
(***************************************************************************)
(* The entries of a sequence at some of its places, in their order: what   *)
(* Array.filter returns.                                                   *)
(***************************************************************************)
EXTENDS Integers, FiniteSets

(* The place in I that has n - 1 places of I before it.                    *)
Picked(s, I) ==
  [n \in 1..Cardinality(I) |->
     s[CHOOSE i \in I : Cardinality({j \in I : j < i}) = n - 1]]

=============================================================================
