----------------------------- MODULE MCRpcErrors -----------------------------
(* Model-checking instance of RpcErrors. *)
EXTENDS RpcErrors

\* Statuses that proxies and load balancers send, one of them in no table.
MCGateways == {408, 413, 429, 502, 503, 504}
=============================================================================
