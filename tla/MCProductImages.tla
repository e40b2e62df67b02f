-------------------------- MODULE MCProductImages ----------------------------
(* The images of one product on a small instance. *)
EXTENDS ProductImages, TLC

\* Ids are interchangeable, and so are requests: no definition names one.
MCSymmetry == Permutations(Image) \cup Permutations(Variant) \cup Permutations(Request)
=============================================================================
