------------------------------ MODULE Backoff ------------------------------
(***************************************************************************)
(* The schedule of src/src/client/backoff.ts, and how long the timer that  *)
(* is set with it really waits.                                            *)
(***************************************************************************)
EXTENDS Integers

CONSTANTS
  exponentialBackoffBase,
  constantBackoffMs,
  maxBackoffMs,   \* zero or negative: no limit
  MaxTimeout      \* the longest delay of setTimeout(), 2^31 - 1

ASSUME BackoffAssumption ==
  /\ {exponentialBackoffBase, constantBackoffMs, MaxTimeout} \subseteq Nat \ {0}
  /\ maxBackoffMs \in Int

\* Math.pow(exponentialBackoffBase, n)
power[n \in Nat] == IF n = 0 THEN 1 ELSE exponentialBackoffBase * power[n - 1]

\* Mutant: the limit is the longest delay that is not limited.
UncappedBackoffMs(retries) == power[retries] * constantBackoffMs

getBackoffMs(retries) ==
  LET backoffMs == power[retries] * constantBackoffMs
  IN IF maxBackoffMs > 0 /\ backoffMs > maxBackoffMs THEN maxBackoffMs ELSE backoffMs

\* setTimeout() takes a delay that it cannot hold for one of a millisecond.
TimeoutMs(ms) == IF ms \in 1..MaxTimeout THEN ms ELSE 1
=============================================================================
