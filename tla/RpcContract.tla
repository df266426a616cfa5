---------------------------- MODULE RpcContract ----------------------------
(***************************************************************************)
(* What a call promises end to end, whatever lies between the handler on   *)
(* the server and the listeners on the client: the messages that the       *)
(* handler sends are emitted in order, each once; the client is told of    *)
(* success only if the handler succeeded and all of its messages were      *)
(* emitted, and of an error only if the handler failed or there was a      *)
(* fault; what it is told is final.                                        *)
(***************************************************************************)
EXTENDS Naturals

CONSTANT MaxMessages  \* bound: messages of one call

VARIABLES
  sent,     \* messages the handler sent
  verdict,  \* what became of the handler: nothing yet, success, failure
  got,      \* messages emitted on the client
  result,   \* what the client was told
  fault     \* whether something but the handler went wrong, or a cancel()

rpcVars == <<sent, verdict, got, result, fault>>

Init ==
  /\ sent = 0
  /\ verdict = "open"
  /\ got = 0
  /\ result = "pending"
  /\ fault = FALSE

\* A unary handler sends its message and succeeds in one step.
Serve ==
  /\ verdict = "open"
  /\ sent' \in {sent, sent + 1} \cap 0..MaxMessages
  /\ verdict' \in {"open", "ok", "error"}
  /\ UNCHANGED <<got, result, fault>>

Deliver ==
  /\ result = "pending"
  /\ got < sent
  /\ got' = got + 1
  /\ UNCHANGED <<sent, verdict, result, fault>>

Complete ==
  /\ result = "pending"
  /\ verdict = "ok"
  /\ got = sent
  /\ result' = "ok"
  /\ UNCHANGED <<sent, verdict, got, fault>>

Fail ==
  /\ result = "pending"
  /\ verdict = "error" \/ fault
  /\ result' = "error"
  /\ UNCHANGED <<sent, verdict, got, fault>>

\* A fault may come with the error that tells of it.
Break ==
  /\ fault' = TRUE
  /\ result' \in {result} \union (IF result = "pending" THEN {"error"} ELSE {})
  /\ UNCHANGED <<sent, verdict, got>>

Next == Serve \/ Deliver \/ Complete \/ Fail \/ Break

Spec == Init /\ [][Next]_rpcVars
=============================================================================
