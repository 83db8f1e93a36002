----------------------------- MODULE RateLimiter -----------------------------
(***************************************************************************)
(* The multi-level rate limiter (src/middlewares/rate_limiter.py), the     *)
(* first downloader middleware to see an outgoing request.  It has one     *)
(* handler, process_request, which looks at every scope (level, key) the   *)
(* request belongs to, and either lets the request through, and records it *)
(* in all of them, or drops it.  The handler runs without a pause on the   *)
(* reactor thread, so it is one action; the scopes of a request are        *)
(* updated independently, so the order of the levels does not matter.      *)
(*                                                                         *)
(* Time.  The code compares differences with clock() only, and a scope     *)
(* carries those: the ages of the requests in its window, the time since   *)
(* its last violation, the time its block still lasts.  Tick advances      *)
(* them; an age stops one past the window, where trim drops it, the time   *)
(* since the last violation at the time after which it is forgotten.       *)
(***************************************************************************)
EXTENDS Integers, Sequences, SequencesExt

CONSTANTS
  Scopes,              \* the (level, key) pairs
  LevelOf,             \* scope -> the name of its level
  Presentable,         \* the sets of scopes a request can belong to
  MaxRequests,         \* max_requests of a level
  Window,              \* window_seconds of a level
  MinIntervals,        \* regularity_min_intervals
  CvNum, CvDen,        \* regularity_cv_threshold = CvNum / CvDen
  ViolationThreshold,  \* violation_threshold
  BackoffBase,         \* backoff_base_seconds
  BackoffMax,          \* backoff_max_seconds
  ResetAfter           \* violation_reset_seconds

\* The checks of __init__ and of RateLimitLevel.__post_init__; one key per level.
ASSUME LimiterAssumption ==
  /\ \A s \in Scopes : /\ MaxRequests[LevelOf[s]] \in Nat \ {0}
                       /\ Window[LevelOf[s]] \in Nat \ {0}
  /\ \A S \in Presentable : /\ S \subseteq Scopes
                            /\ \A s, t \in S : LevelOf[s] = LevelOf[t] => s = t
  /\ MinIntervals \in Nat \ {0, 1}
  /\ CvNum \in Nat \ {0}
  /\ CvDen \in Nat \ {0}
  /\ ViolationThreshold \in Nat \ {0}
  /\ BackoffBase \in Nat \ {0}
  /\ BackoffMax \in Nat
  /\ BackoffMax >= BackoffBase
  /\ ResetAfter \in Nat \ {0}

VARIABLE scope   \* _scopes: (level, key) -> _RateScope

CapacityOf(s) == MaxRequests[LevelOf[s]]
WindowOf(s) == Window[LevelOf[s]]

EmptyScope == [request_ages    |-> << >>,       \* now - request_times, oldest first
               violation_count |-> 0,
               quiet           |-> ResetAfter,  \* now - last_violation_at
               blocked         |-> 0]           \* blocked_until - now, or 0
-----------------------------------------------------------------------------
(* What process_request computes from one scope.                           *)

\* trim: requests leave at the front, up to the first still inside the window.
FirstInside(ages, window) ==
  CHOOSE i \in 1..(Len(ages) + 1) :
    /\ i <= Len(ages) => ages[i] <= window
    /\ \A j \in 1..(i - 1) : ages[j] > window

Trimmed(ages, window) == SubSeq(ages, FirstInside(ages, window), Len(ages))

InWindow(s) == Trimmed(scope[s].request_ages, WindowOf(s))

\* _consecutive_intervals of the window and the request at hand (age 0).
Intervals(s) ==
  LET ages == Append(InWindow(s), 0)
  IN  [i \in 1..(Len(ages) - 1) |-> ages[i] - ages[i + 1]]

Total(seq) == FoldSeq(+, 0, seq)

\* is_pattern_too_regular: stddev / mean < CvNum / CvDen, in integers.  With
\* n intervals of sum t and sum of squares q, (stddev/mean)^2 = (n*q - t^2) / t^2;
\* the coefficient is undefined, and never regular, when t = 0.
TooRegular(intervals) ==
  LET n == Len(intervals)
      t == Total(intervals)
      q == Total([i \in 1..n |-> intervals[i] * intervals[i]])
  IN  /\ n >= MinIntervals
      /\ t > 0
      /\ CvDen * CvDen * (n * q - t * t) < CvNum * CvNum * t * t

\* Phase 2.
Violates(s) ==
  \/ Len(InWindow(s)) >= CapacityOf(s)
  \/ TooRegular(Intervals(s))

\* A wrong variant: violations are remembered for ever.
ForgivenNever(s) == scope[s].violation_count

\* Phase 2.5.
Forgiven(s) ==
  IF scope[s].quiet >= ResetAfter THEN 0 ELSE scope[s].violation_count

\* A wrong variant: good behaviour is rewarded without a floor.
CountAfterDecays(s) == IF Violates(s) THEN Forgiven(s) + 1 ELSE Forgiven(s) - 1

CountAfter(s) == IF Violates(s) THEN Forgiven(s) + 1 ELSE Forgiven(s)

\* A wrong variant: the threshold is missed by one.
EscalatesScopeLate(s) == Violates(s) /\ CountAfter(s) > ViolationThreshold

\* Phase 3, for one scope: the violation is one too many.
EscalatesScope(s) == Violates(s) /\ CountAfter(s) >= ViolationThreshold

\* base_seconds * 2.0 ** n, by doubling n times.
Doubled[n \in Nat] == IF n = 0 THEN BackoffBase ELSE 2 * Doubled[n - 1]

\* compute_escalated_backoff_seconds, for a 1-indexed step.
EscalatedBackoff(step) ==
  IF Doubled[step - 1] <= BackoffMax THEN Doubled[step - 1] ELSE BackoffMax

\* Scope s after a request that passed all its scopes, or was dropped by one.
ScopeAfter(s, passed) ==
  [request_ages    |-> IF passed THEN Append(InWindow(s), 0) ELSE InWindow(s),
   violation_count |-> CountAfter(s),
   quiet           |-> IF Violates(s) THEN 0 ELSE scope[s].quiet,
   blocked         |-> IF EscalatesScope(s)
                         THEN EscalatedBackoff(CountAfter(s) - ViolationThreshold + 1)
                         ELSE 0]
-----------------------------------------------------------------------------
(* process_request, for a request that belongs to the scopes S.            *)

\* A wrong variant: trying again while blocked prolongs the cooldown.
BlockedProlongs(S) ==
  /\ \E s \in S : scope[s].blocked > 0
  /\ scope' = [s \in Scopes |-> IF s \in S /\ scope[s].blocked > 0
                                 THEN [scope[s] EXCEPT !.blocked = BackoffMax]
                                 ELSE scope[s]]

\* Phase 1: a scope is still in cooldown.  Nothing is touched.
BlockedRequest(S) ==
  /\ \E s \in S : scope[s].blocked > 0
  /\ UNCHANGED scope

Evaluated(S, passed) ==
  scope' = [s \in Scopes |-> IF s \in S THEN ScopeAfter(s, passed) ELSE scope[s]]

\* A wrong variant: the dropped request is recorded all the same.
DroppedButRecorded(S) ==
  /\ \A s \in S : scope[s].blocked = 0
  /\ \E s \in S : EscalatesScope(s)
  /\ Evaluated(S, TRUE)

\* Phase 3: some scope escalates, and the request is dropped.
DroppedRequest(S) ==
  /\ \A s \in S : scope[s].blocked = 0
  /\ \E s \in S : EscalatesScope(s)
  /\ Evaluated(S, FALSE)

\* A wrong variant: phase 1 is missing.
PassedInCooldown(S) ==
  /\ \A s \in S : ~EscalatesScope(s)
  /\ Evaluated(S, TRUE)

\* The request goes out, and every scope records it.
PassedRequest(S) ==
  /\ \A s \in S : scope[s].blocked = 0
  /\ \A s \in S : ~EscalatesScope(s)
  /\ Evaluated(S, TRUE)

Older(ages, window) ==
  [i \in 1..Len(ages) |-> IF ages[i] <= window THEN ages[i] + 1 ELSE ages[i]]

AgedScope(s) ==
  [request_ages    |-> Older(scope[s].request_ages, WindowOf(s)),
   violation_count |-> scope[s].violation_count,
   quiet           |-> IF scope[s].quiet < ResetAfter
                         THEN scope[s].quiet + 1 ELSE ResetAfter,
   blocked         |-> IF scope[s].blocked > 0 THEN scope[s].blocked - 1 ELSE 0]

LimiterTick == scope' = [s \in Scopes |-> AgedScope(s)]
-----------------------------------------------------------------------------
LimiterInit == scope = [s \in Scopes |-> EmptyScope]

Attempt(S) == BlockedRequest(S) \/ DroppedRequest(S) \/ PassedRequest(S)

LimiterNext == LimiterTick \/ \E S \in Presentable : Attempt(S)

LimiterSpec == LimiterInit /\ [][LimiterNext]_scope

\* Time passes, and requests of every kind keep coming.
FairLimiterSpec ==
  /\ LimiterSpec
  /\ WF_scope(LimiterTick)
  /\ \A S \in Presentable : WF_scope(Attempt(S))
-----------------------------------------------------------------------------
\* Oldest first.
InOrder(ages) == \A i, j \in 1..Len(ages) : i <= j => ages[i] >= ages[j]

\* Type correctness; a window never holds a request that trim should have
\* dropped for longer than until the next request, and is in order of time.
LimiterTypeOK ==
  /\ DOMAIN scope = Scopes
  /\ \A s \in Scopes :
       /\ DOMAIN scope[s] = {"request_ages", "violation_count", "quiet", "blocked"}
       /\ scope[s].request_ages \in Seq(0..(WindowOf(s) + 1))
       /\ InOrder(scope[s].request_ages)
       /\ scope[s].violation_count \in Nat
       /\ scope[s].quiet \in 0..ResetAfter
       /\ scope[s].blocked \in 0..BackoffMax

\* How much traffic a scope lets out within one window: max_requests, and one
\* request for each violation that is tolerated below violation_threshold,
\* however the requests are timed, whatever the other scopes decide and
\* however often the scope was blocked before.  The count of violations must
\* not be forgotten within the window.
\* (process_request: "violated-but-still-under-threshold" requests go out.)
WindowCeiling ==
  \A s \in Scopes :
    ResetAfter > WindowOf(s) =>
      Len(InWindow(s)) <= CapacityOf(s) + ViolationThreshold - 1

\* The doubling of the cooldowns is limited by the time after which violations
\* are forgotten, not only by backoff_max_seconds: a cooldown can follow
\* another one only while the last violation is remembered, so it is at most
\* twice a cooldown shorter than violation_reset_seconds.
\* (compute_escalated_backoff_seconds and phase 2.5 of process_request.)
EscalationCeiling ==
  \A s \in Scopes :
    scope[s].blocked <= BackoffBase \/ scope[s].blocked <= 2 * (ResetAfter - 1)

\* A cooldown is served as it was set: until it is over no request, of
\* whatever other scopes, shortens or extends it or touches the scope's window
\* and violations.  (Phase 1 of process_request is read-only.)
CooldownServedInFull ==
  [][\A s \in Scopes :
       scope[s].blocked > 0 =>
         \/ scope'[s] = scope[s]
         \/ /\ scope'[s].blocked = scope[s].blocked - 1
            /\ scope'[s].violation_count = scope[s].violation_count
            /\ Len(scope'[s].request_ages) = Len(scope[s].request_ages)]_scope

\* A request dropped because of one scope is recorded in none: when a cooldown
\* begins no window gets longer.  ("A request that ends up dropped must never
\* pollute any level's own window", process_request phase 3.)
DroppedNotRecorded ==
  [][(\E s \in Scopes : scope'[s].blocked > scope[s].blocked) =>
       \A t \in Scopes : Len(scope'[t].request_ages) <= Len(scope[t].request_ages)]_scope

\* The limiter never locks the crawl out for good: however hard the requests
\* press, some request passes again and again, because dropped requests do not
\* fill the windows and cooldowns end.  (process_request as a whole.)
NeverLockedOut ==
  []<><<\E S \in Presentable : PassedRequest(S)>>_scope
=============================================================================
