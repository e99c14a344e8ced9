-------------------------------- MODULE Lists --------------------------------
(***************************************************************************)
(* A list that is filtered by a list comprehension, in a form that proofs  *)
(* can expand: SelectSeq is defined by recursion.                          *)
(***************************************************************************)
EXTENDS Integers, Sequences, FiniteSets

\* The elements of a list that are in a set, in the order of the list: the k-th of them is the one
\* up to which there are k.
Only(list, S) ==
  LET kept == {i \in 1 .. Len(list) : list[i] \in S}
      Rank(i) == Cardinality({j \in kept : j <= i})
  IN [k \in 1 .. Cardinality(kept) |-> list[CHOOSE i \in kept : Rank(i) = k]]

=============================================================================
