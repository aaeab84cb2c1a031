---------------------------- MODULE Subsequence ----------------------------
(***************************************************************************)
(* The part of a sequence that is at some of its places, in the same       *)
(* order: a list comprehension with a filter.                              *)
(***************************************************************************)
EXTENDS Naturals, Sequences, FiniteSets

Place(places, n) == CHOOSE i \in places : Cardinality({j \in places : j <= i}) = n
AtPlaces(s, places) == [n \in 1..Cardinality(places) |-> s[Place(places, n)]]
=============================================================================
