--------------------------- MODULE StreamContract ---------------------------
(***************************************************************************)
(* What a stream of RPC responses promises to the code that listens to it: *)
(* the interface Stream of src/src/client/stream.ts, for one response of   *)
(* `total' messages.  A stream becomes ready once, then emits the messages *)
(* in order, then completes if and only if it emitted them all; an error   *)
(* ends it, whether it was ready or not, and may be repeated.              *)
(*                                                                         *)
(* 'canceled' is left out: the code lets cancel() be called, and emits     *)
(* 'canceled', at any moment, and that alone promises nothing about the    *)
(* other events.  The contract binds the stream as long as the code of its *)
(* user keeps its part, which is not to throw from a listener or from the  *)
(* decoding of a message.                                                  *)
(***************************************************************************)
EXTENDS Naturals

CONSTANT MaxMessages

VARIABLES
  total,   \* number of messages of the response
  phase,   \* how far the stream is
  got,     \* number of messages emitted
  faulty   \* whether the code of the user threw

streamVars == <<total, phase, got>>
contractVars == <<total, phase, got, faulty>>

Init ==
  /\ total \in 0..MaxMessages
  /\ phase = "waiting"
  /\ got = 0
  /\ faulty = FALSE

BecomeReady ==
  /\ phase = "waiting"
  /\ phase' = "ready"
  /\ UNCHANGED <<total, got>>

EmitMessage ==
  /\ phase = "ready"
  /\ got < total
  /\ got' = got + 1
  /\ UNCHANGED <<total, phase>>

Complete ==
  /\ phase = "ready"
  /\ got = total
  /\ phase' = "complete"
  /\ UNCHANGED <<total, got>>

Fail ==
  /\ phase \in {"waiting", "ready"}
  /\ phase' = "failed"
  /\ UNCHANGED <<total, got>>

Step == BecomeReady \/ EmitMessage \/ Complete \/ Fail

\* Nothing is promised to a user whose code throws.
UserThrows == faulty' = TRUE

Next == (Step /\ UNCHANGED faulty) \/ UserThrows

Spec == Init /\ [][Next]_contractVars
=============================================================================
