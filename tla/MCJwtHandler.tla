---------------------------- MODULE MCJwtHandler ----------------------------
(* Model-checking instance of JwtHandler: a good token of each key, and tokens *)
(* each of which is wrong in one way.                                          *)
EXTENDS JwtHandler, TLC

CONSTANTS r1, r2, k1, k2

Good(k) == [auth |-> "Bearer", header |-> "object", kid |-> k, signed |-> TRUE,
            payload |-> "object", exp |-> 1, aud |-> TRUE, sub |-> TRUE]

MCTokens ==
  {Good(k1), Good(k2),
   [Good(k1) EXCEPT !.auth = "other"], [Good(k1) EXCEPT !.exp = 0],
   [Good(k1) EXCEPT !.header = "garbled"], [Good(k1) EXCEPT !.header = "noObject"],
   [Good(k1) EXCEPT !.signed = FALSE], [Good(k2) EXCEPT !.payload = "noObject"],
   [Good(k2) EXCEPT !.aud = FALSE]}

MCRequests == {r1, r2}
MCKeys == {k1, k2}
Symmetry == Permutations(MCRequests)
=============================================================================
