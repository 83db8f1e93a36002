---------------------------- MODULE RetryBackoff ----------------------------
(***************************************************************************)
(* The retry middleware (src/middlewares/retry_backoff.py).  It keeps no   *)
(* state of its own: the number of the last retry travels in the request   *)
(* (meta["retry_backoff_attempt"]).  DownloaderChain applies these         *)
(* decisions to the requests.                                              *)
(***************************************************************************)
EXTENDS Naturals

CONSTANTS
  MaxAttempts,  \* max_attempts
  BaseDelay,    \* base_delay
  MaxDelay      \* max_delay

ASSUME RetryAssumption ==
  /\ MaxAttempts \in Nat
  /\ BaseDelay \in Nat
  /\ MaxDelay \in Nat

\* RETRYABLE_STATUSES: 429, and the same 5xx statuses the breaker counts.
RetryableStatuses == {"too-many-requests", "server-error"}

\* RETRYABLE_EXCEPTIONS: timeouts, refused connections, failed DNS lookups.
\* IgnoreRequest and every other exception is not one of them.
RetryableExceptions == {"transient"}

\* _next_attempt(request) <= max_attempts.
AttemptsLeft(attempt) == attempt + 1 <= MaxAttempts

\* compute_delay, for a 1-indexed attempt.
ComputeDelay(attempt) ==
  LET delay == BaseDelay * 2 ^ (attempt - 1)
  IN  IF delay \in 0..MaxDelay THEN delay ELSE MaxDelay
=============================================================================
