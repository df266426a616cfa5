------------------------- MODULE MCTokenAuthClient -------------------------
(* Model-checking instance of TokenAuthClient. *)
EXTENDS TokenAuthClient
=============================================================================
