-------------------------- MODULE MCGrpcWebServer --------------------------
(* Model-checking instance of GrpcWebServer. *)
EXTENDS GrpcWebServer
=============================================================================
