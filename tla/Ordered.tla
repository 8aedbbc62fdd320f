------------------------------- MODULE Ordered -------------------------------
(***************************************************************************)
(* Numbers in order, and what is left of an array that some of its         *)
(* elements are taken out of.  Both are defined by rank, that is by how    *)
(* many numbers come before one, so that proofs can refer to them: the     *)
(* prover has no definition of SelectSeq and SortSeq.                      *)
(***************************************************************************)
EXTENDS Integers, Sequences, FiniteSets

(* The numbers of a finite set, from the least to the greatest.            *)
Ascending(S) ==
    [k \in 1..Cardinality(S) |->
       CHOOSE i \in S : Cardinality({j \in S : j <= i}) = k]

(* filter(): the elements of a sequence at these places, in their order.   *)
Filtered(s, places) ==
    [k \in 1..Cardinality(places) |-> s[Ascending(places)[k]]]
=============================================================================
