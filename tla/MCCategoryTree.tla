--------------------------- MODULE MCCategoryTree ---------------------------
(* The category tree on a small instance. *)
EXTENDS CategoryTree, TLC

\* Ids are interchangeable, and so are requests: no definition names one.
MCSymmetry == Permutations(Category) \cup Permutations(Request)
=============================================================================
