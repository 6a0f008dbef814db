------------------------------ MODULE Ordered ------------------------------
(***************************************************************************)
(* What an ascending sort and a filter of a list give, without a recursive *)
(* definition: the provers know nothing of SortSeq and SelectSeq.          *)
(***************************************************************************)
EXTENDS Naturals, Sequences, FiniteSets

\* How many members of S come before x.
Before(S, x) == Cardinality({y \in S : y < x})

\* The members of a finite set of numbers, from the least on.
Ascending(S) ==
  [i \in 1 .. Cardinality(S) |-> CHOOSE x \in S : Before(S, x) = i - 1]

\* The places in s of the members of T ...
PlacesOf(s, T) == {k \in DOMAIN s : s[k] \in T}
\* ... and the list that they make.
Among(s, T) == [i \in 1 .. Cardinality(PlacesOf(s, T)) |-> s[Ascending(PlacesOf(s, T))[i]]]
=============================================================================
