----------------------------- MODULE MCSessions -----------------------------
(* Sessions on a small instance. *)
EXTENDS Sessions, TLC

\* Ids are interchangeable, and so are requests: no definition names one.
MCSymmetry == Permutations(User) \cup Permutations(Shop)
              \cup Permutations(Token) \cup Permutations(Request)
=============================================================================
