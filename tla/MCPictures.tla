------------------------------ MODULE MCPictures ------------------------------
(* One owner's picture and the rate limiter on a small instance. *)
EXTENDS Pictures
=============================================================================
