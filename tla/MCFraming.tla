----------------------------- MODULE MCFraming -----------------------------
(* Model-checking instance of Framing. *)
EXTENDS Framing

\* An empty payload, one that looks like the header of trailers, and one whose
\* length takes more than one byte.
MCPayloads == {<<>>, <<128, 0, 0, 0, 0, 1>>, [i \in 1..257 |-> 7]}

\* Empty, printable and not printable trailers.
MCTrailerData == {<<>>, <<65, 58, 66, 13, 10>>, <<65, 200>>}
=============================================================================
