---------------------------- MODULE MCReferences -----------------------------
(* Attributes, options and brands on a small instance. *)
EXTENDS References, TLC

CONSTANTS n1, n2

\* Two brand names with one slug, such as "Café" and "Cafe".
MCFold == [n \in {n1, n2} |-> n1]

\* Ids are interchangeable, except that Select tells the attributes apart.
MCSymmetry == Permutations(Option) \cup Permutations(Brand) \cup Permutations(Request)
=============================================================================
