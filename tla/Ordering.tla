------------------------------- MODULE Ordering -------------------------------
(***************************************************************************)
(* Sequences made of the members of a set in an order: what a sort, or a    *)
(* filter that keeps the order, returns, defined by the place each member   *)
(* has.  The operators of the standard modules that do this (SelectSeq,     *)
(* SortSeq) have no definition the provers can use.                         *)
(***************************************************************************)
EXTENDS Naturals, Sequences, FiniteSets

(* A member stands behind those that come before it.                        *)
Preceding(S, R, x) == {y \in S : <<y, x>> \in R}
Arranged(S, R) ==
  [k \in 1..Cardinality(S) |-> CHOOSE x \in S : Cardinality(Preceding(S, R, x)) = k - 1]

(* Places of a sequence in their order, and what the sequence has there.    *)
InFront(S) == {p \in S \X S : p[1] < p[2]}
Picked(s, S) ==
  LET at == Arranged(S, InFront(S)) IN [k \in 1..Cardinality(S) |-> s[at[k]]]

(* The sequence with its places in another order.                           *)
Sorted(s, R) ==
  LET at == Arranged(DOMAIN s, R) IN [k \in DOMAIN s |-> s[at[k]]]

(* The parts one after the other.                                           *)
Chained(parts) ==
  LET upTo[k \in 0..Len(parts)] == IF k = 0 THEN <<>> ELSE upTo[k - 1] \o parts[k]
  IN upTo[Len(parts)]
=============================================================================
