-------------------------- MODULE MCGrpcWebStream --------------------------
(* Model-checking instance of GrpcWebStream. *)
EXTENDS GrpcWebStream
=============================================================================
