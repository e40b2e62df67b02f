------------------------- MODULE MCProductLifecycle --------------------------
(* The products of one category on a small instance. *)
EXTENDS ProductLifecycle, TLC

\* Ids are interchangeable, and so are requests and options: no definition
\* names one.  (Attributes are not: some are in Select.)
MCSymmetry == Permutations(Product) \cup Permutations(Variant)
              \cup Permutations(Option) \cup Permutations(Request)
=============================================================================
