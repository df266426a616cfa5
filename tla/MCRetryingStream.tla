-------------------------- MODULE MCRetryingStream --------------------------
(* Model-checking instance of RetryingStream. *)
EXTENDS RetryingStream

\* -1 stands for no limit; a cfg file has no negative numbers.
NoLimit == -1
=============================================================================
