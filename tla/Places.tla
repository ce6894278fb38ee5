------------------------------- MODULE Places -------------------------------
(***************************************************************************)
(* The numbers of a finite set in their order: the first, the second and   *)
(* so on.  A filter of a list keeps the elements whose places it chooses.  *)
(***************************************************************************)
EXTENDS Integers, FiniteSets, Sequences

\* The place of a number among those of d.
Place(p, d) == Cardinality({q \in d : q <= p})

AtPlace(n, d) == CHOOSE p \in d : Place(p, d) = n

\* The elements of list that are at these places.
Those(places, list) == [n \in 1 .. Cardinality(places) |-> list[AtPlace(n, places)]]
=============================================================================
