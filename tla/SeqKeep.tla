------------------------------- MODULE SeqKeep -------------------------------
(***************************************************************************)
(* Deleting nodes from a linked list in one walk, keeping the others in    *)
(* their order.  SelectSeq of the module Sequences computes the same       *)
(* sequence by recursion; here the j-th element is picked by its rank, so  *)
(* that MqttClientProofs can establish what the walk preserves.            *)
(***************************************************************************)
EXTENDS Integers, Sequences, FiniteSets

(* The number of indices of K up to and including i. *)
Rank(K, i) == Cardinality({k \in K : k <= i})

(* The index of K that has rank j. *)
Nth(K, j) == CHOOSE i \in K : Rank(K, i) = j

(* The subsequence of s at the indices in K, in increasing order. *)
KeepAt(s, K) == [j \in 1..Cardinality(K) |-> s[Nth(K, j)]]
=============================================================================
