------------------------------ MODULE Ascending ------------------------------
(***************************************************************************)
(* A finite set of integers as the sequence of its elements in ascending   *)
(* order.  SequencesExt's SetToSortSeq is the same sequence, by way of     *)
(* TLC's SortSeq, about which nothing can be proved.                       *)
(***************************************************************************)
EXTENDS Integers, FiniteSets

InOrder(S) == CHOOSE f \in [1..Cardinality(S) -> S] : \A j, k \in DOMAIN f : j < k => f[j] < f[k]
=============================================================================
