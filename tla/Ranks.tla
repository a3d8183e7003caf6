------------------------------- MODULE Ranks -------------------------------
(***************************************************************************)
(* The members of a finite set of integers in their order, which is how a  *)
(* query with ORDER BY tcod lists products and Prom lists its cards.       *)
(***************************************************************************)
EXTENDS Integers, Sequences, FiniteSets

Rank(S, i) == Cardinality({j \in S : j <= i})

InOrder(S) == [k \in 1 .. Cardinality(S) |-> CHOOSE i \in S : Rank(S, i) = k]

(* The terms of a sequence at some of its positions, in the same order.     *)
Picked(s, positions) ==
  [k \in 1 .. Cardinality(positions) |-> s[InOrder(positions)[k]]]
=============================================================================
