--------------------------- MODULE MCServiceCall ---------------------------
(* Model-checking instance of ServiceCall. *)
EXTENDS ServiceCall

\* A cfg file has no negative numbers; -1 is no limit, the default.
NoLimit == -1
=============================================================================
