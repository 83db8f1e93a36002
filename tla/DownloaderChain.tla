-------------------------- MODULE DownloaderChain --------------------------
(***************************************************************************)
(* A crawl's requests on their way through the downloader middlewares, in  *)
(* the order GenericSpider installs them:                                  *)
(*                                                                         *)
(*   RateLimiter 100, Byparr 520, Playwright 543, RetryBackoff 550,        *)
(*   CircuitBreaker 900, the downloader.                                   *)
(*                                                                         *)
(* process_request runs from the left, process_response and                *)
(* process_exception from the right.  A handler that returns ends the      *)
(* chain in the way Scrapy defines: a response skips the rest of the       *)
(* process_request handlers, a request goes back to the scheduler, an      *)
(* exception (also IgnoreRequest) goes to the process_exception handlers.  *)
(*                                                                         *)
(* The handlers run on one thread, the reactor's, and a request pauses     *)
(* where its handler waits for something else: a browser solve or render   *)
(* in a worker thread, the download, the retry timer, its turn in the      *)
(* scheduler.  These are the stages of a request; an action takes it from  *)
(* one pause to the next, with every handler that runs in between.  Any    *)
(* number of requests may be at each stage.                                *)
(*                                                                         *)
(* The solvers, the browser, the downloader and the targets behind them    *)
(* are outside: any response or exception may come back at any time.       *)
(***************************************************************************)
EXTENDS CircuitBreaker, RateLimiter, RetryBackoff

CONSTANTS
  Requests,  \* the requests that can be under way together; each is reused
  DomainOf,  \* request -> its domain
  ScopesOf,  \* request -> the limiter scopes it belongs to
  Profiles   \* the targets' settings that GenericSpider puts into request.meta

ASSUME ChainAssumption ==
  /\ DomainOf \in [Requests -> Domains]
  /\ ScopesOf \in [Requests -> Presentable]
  /\ Profiles \subseteq [antibot    : BOOLEAN,
                         provider   : Providers \cup {None},
                         multiplier : Multipliers,
                         playwright : BOOLEAN]

VARIABLE req   \* request -> the request object and where it is

chainVars == <<circuit, streak, scope, req>>

Ended == {"idle", "delivered", "dropped"}

Stages == Ended \cup {"queued", "solving", "rendering", "downloading", "waiting"}

\* A request that is not under way, for one of the reasons in Ended.
AtRest(stage) ==
  [stage      |-> stage,
   meta       |-> [antibot |-> FALSE, provider |-> None,
                   retried |-> FALSE, multiplier |-> None],
   playwright |-> FALSE,   \* meta["playwright"]
   live_items |-> FALSE,   \* meta has live_dom_items or html_snapshots
   attempt    |-> 0,       \* meta["retry_backoff_attempt"]
   wait       |-> 0,       \* until the retry timer fires
   passes     |-> 0]       \* how often it was queued: for PassesBounded only

\* A request as GenericSpider yields it.
Fresh(profile) ==
  [AtRest("queued") EXCEPT
     !.meta = [antibot |-> profile.antibot, provider |-> profile.provider,
               retried |-> FALSE, multiplier |-> profile.multiplier],
     !.playwright = profile.playwright,
     !.passes = 1]

Becomes(r, new) == req' = [req EXCEPT ![r] = new]

\* The passes one yielded request may cost; the count stops one above.
PassLimit == 1 + MaxAttempts + 1

OnePassMore(request) ==
  IF request.passes <= PassLimit THEN request.passes + 1 ELSE request.passes

MovesTo(r, stage) == Becomes(r, [req[r] EXCEPT !.stage = stage])
-----------------------------------------------------------------------------
(* The way back: the breaker first, then the retry middleware.             *)

\* _schedule_retry: the copy waits for its timer with the next attempt number.
Retried(request) ==
  [request EXCEPT !.stage = "waiting",
                  !.attempt = @ + 1,
                  !.wait = ComputeDelay(request.attempt + 1)]

\* A wrong variant: the copy starts its retries anew.
EscalatedAnew(r, request) ==
  [request EXCEPT !.stage = "queued",
                  !.meta = EscalatedMeta(DomainOf[r], @),
                  !.attempt = 0,
                  !.passes = OnePassMore(request)]

\* The copy _handle_classifiable_response returns goes to the scheduler.
Escalated(r, request) ==
  [request EXCEPT !.stage = "queued",
                  !.meta = EscalatedMeta(DomainOf[r], @),
                  !.passes = OnePassMore(request)]

\* The retry middleware's process_response.
AfterResponse(resp, request) ==
  IF resp.status \in RetryableStatuses /\ AttemptsLeft(request.attempt)
    THEN Retried(request)
    ELSE AtRest("delivered")

\* The retry middleware's process_exception; a dropped request is reported
\* to no callback (GenericSpider sets no errback).
AfterException(exception, request) ==
  IF exception \in RetryableExceptions /\ AttemptsLeft(request.attempt)
    THEN Retried(request)
    ELSE AtRest("dropped")

\* A wrong variant: the retry middleware sits below the breaker and hides the
\* failures it retries.
HandleResponseRetryFirst(r, resp, request) ==
  IF resp.status \in RetryableStatuses /\ AttemptsLeft(request.attempt)
    THEN Becomes(r, Retried(request)) /\ UNCHANGED breakerVars
    ELSE /\ ProcessResponse(DomainOf[r], resp, request.meta)
         /\ Becomes(r, IF EscalatesRequest(resp, request.meta)
                         THEN Escalated(r, request) ELSE AtRest("delivered"))

\* All process_response handlers, for a response to request (req[r], with
\* what the solver put into its meta).  A request returned by the breaker
\* never gets to the retry middleware.
HandleResponse(r, resp, request) ==
  /\ ProcessResponse(DomainOf[r], resp, request.meta)
  /\ Becomes(r, IF EscalatesRequest(resp, request.meta)
                  THEN Escalated(r, request)
                  ELSE AfterResponse(resp, request))

\* A wrong variant: the breaker counts only what the retry middleware retries.
HandleExceptionRetryableOnly(r, exception) ==
  /\ IF exception \in RetryableExceptions
       THEN ProcessException(DomainOf[r], req[r].meta) ELSE UNCHANGED breakerVars
  /\ Becomes(r, AfterException(exception, req[r]))

\* All process_exception handlers.  The breaker counts every exception.
HandleException(r, exception) ==
  /\ ProcessException(DomainOf[r], req[r].meta)
  /\ Becomes(r, AfterException(exception, req[r]))
-----------------------------------------------------------------------------
(* The way out.                                                            *)

Start(r, profile) ==
  /\ req[r].stage \in Ended
  /\ Becomes(r, Fresh(profile))
  /\ UNCHANGED <<circuit, streak, scope>>

\* The breaker's process_request.
ReachesBreaker(r) ==
  \/ ProcessRequest(DomainOf[r]) /\ MovesTo(r, "downloading")
  \/ Blocks(circuit[DomainOf[r]]) /\ HandleException(r, "ignore")

\* Playwright's process_request, then the breaker's.
ReachesPlaywright(r) ==
  \/ /\ req[r].playwright
     /\ MovesTo(r, "rendering")
     /\ UNCHANGED breakerVars
  \/ ~req[r].playwright /\ ReachesBreaker(r)

\* Byparr's process_request, then Playwright's.
ReachesByparr(r) ==
  \/ /\ req[r].meta.antibot
     /\ MovesTo(r, "solving")
     /\ UNCHANGED breakerVars
  \/ ~req[r].meta.antibot /\ ReachesPlaywright(r)

LimiterPasses(r) ==
  /\ req[r].stage = "queued"
  /\ PassedRequest(ScopesOf[r])
  /\ ReachesByparr(r)

LimiterRefuses(r) ==
  /\ req[r].stage = "queued"
  /\ BlockedRequest(ScopesOf[r]) \/ DroppedRequest(ScopesOf[r])
  /\ HandleException(r, "ignore")

\* _solve returns a response; the provider may have extracted items.
SolveAnswers(r, resp, extracted) ==
  /\ req[r].stage = "solving"
  /\ HandleResponse(r, resp, [req[r] EXCEPT !.live_items = @ \/ extracted])
  /\ UNCHANGED scope

\* _solve returns None: no such provider, or an AntibotError.
SolveFallsBack(r) ==
  /\ req[r].stage = "solving"
  /\ ReachesPlaywright(r)
  /\ UNCHANGED scope

\* _solve raises: it catches no exception but AntibotError.
SolveRaises(r) ==
  /\ req[r].stage = "solving"
  /\ HandleException(r, "other")
  /\ UNCHANGED scope

RenderAnswers(r, resp) ==
  /\ req[r].stage = "rendering"
  /\ HandleResponse(r, resp, req[r])
  /\ UNCHANGED scope

\* A RenderError, which is not retryable.
RenderRaises(r) ==
  /\ req[r].stage = "rendering"
  /\ HandleException(r, "other")
  /\ UNCHANGED scope

DownloadAnswers(r, resp) ==
  /\ req[r].stage = "downloading"
  /\ HandleResponse(r, resp, req[r])
  /\ UNCHANGED scope

DownloadRaises(r) ==
  /\ req[r].stage = "downloading"
  /\ \E exception \in {"transient", "other"} : HandleException(r, exception)
  /\ UNCHANGED scope

\* The timer of _schedule_retry fires.
RetryDue(r) ==
  /\ req[r].stage = "waiting"
  /\ req[r].wait = 0
  /\ Becomes(r, [req[r] EXCEPT !.stage = "queued", !.passes = OnePassMore(req[r])])
  /\ UNCHANGED <<circuit, streak, scope>>

Tick ==
  /\ BreakerTick
  /\ LimiterTick
  /\ req' = [r \in Requests |->
               [req[r] EXCEPT !.wait = IF @ > 0 THEN @ - 1 ELSE 0]]
-----------------------------------------------------------------------------
ChainInit ==
  /\ BreakerInit
  /\ LimiterInit
  /\ req = [r \in Requests |-> AtRest("idle")]

Answers(r, resp) ==
  \/ \E extracted \in BOOLEAN : SolveAnswers(r, resp, extracted)
  \/ RenderAnswers(r, resp)
  \/ DownloadAnswers(r, resp)

\* A request under way goes on.
Advances(r) ==
  \/ LimiterPasses(r) \/ LimiterRefuses(r)
  \/ \E resp \in Responses : Answers(r, resp)
  \/ SolveFallsBack(r) \/ SolveRaises(r) \/ RenderRaises(r) \/ DownloadRaises(r)
  \/ RetryDue(r)

ChainNext ==
  \/ \E r \in Requests :
       \/ \E profile \in Profiles : Start(r, profile)
       \/ Advances(r)
  \/ Tick

ChainSpec == ChainInit /\ [][ChainNext]_chainVars

\* Time passes, the scheduler gets to every queued request, and every solve,
\* render and download ends (each has a timeout).
FairChainSpec ==
  /\ ChainSpec
  /\ WF_chainVars(Tick)
  /\ \A r \in Requests : WF_chainVars(Advances(r))
-----------------------------------------------------------------------------
\* Type correctness of the requests and of the middlewares' state.
ChainTypeOK ==
  /\ BreakerTypeOK
  /\ LimiterTypeOK
  /\ req \in [Requests -> [stage      : Stages,
                           meta       : [antibot    : BOOLEAN,
                                         provider   : Providers \cup {None},
                                         retried    : BOOLEAN,
                                         multiplier : Multipliers \cup {None}],
                           playwright : BOOLEAN,
                           live_items : BOOLEAN,
                           attempt    : 0..MaxAttempts,
                           wait       : 0..MaxDelay,
                           passes     : Nat]]

\* One yielded request costs a bounded number of passes through the chain,
\* however retries and the one escalation to a solver interleave: the copies
\* made by either middleware carry the other's counter along.
\* (request.copy() in _schedule_retry and _handle_classifiable_response.)
PassesBounded ==
  \A r \in Requests : req[r].passes <= PassLimit

\* A domain is half-open only while some request to it is still under way:
\* every way a trial can end, also being refused by the limiter or by a
\* failed solve or render, resolves the circuit, so it never hangs half-open
\* with nobody on trial.  (process_response, process_exception.)
HalfOpenHasTrial ==
  \A d \in Domains :
    circuit[d].state = "HALF_OPEN" =>
      \E r \in Requests : DomainOf[r] = d /\ req[r].stage \notin Ended

\* The breaker sees a failure before the retry middleware hides it: when a
\* request begins to wait for a retry, or is dropped, its domain's circuit
\* has a failure on record.  (Order 550 before 900; "observes every raw
\* response/exception before RetryBackoff decides", docs/ARCHITECTURE.md.)
FailureSeenBeforeRetry ==
  [][\A r \in Requests :
       req'[r].stage \in {"waiting", "dropped"} /\ req'[r].stage # req[r].stage =>
         circuit'[DomainOf[r]].consecutive_failures > 0]_chainVars

\* What is left of a request's allowance: the retries, and the escalation.
ReissuesLeft(request) ==
  IF request.stage \in Ended THEN 0
  ELSE (MaxAttempts - request.attempt) + (IF request.meta.retried THEN 0 ELSE 1)

PhaseOf(request) ==
  CASE request.stage \in Ended                 -> request.stage
    [] request.stage \in {"queued", "waiting"} -> "ready"
    [] OTHER                                   -> "working"

Lifecycle == INSTANCE RequestLifecycle WITH
  Reissues <- MaxAttempts + 1,
  phase    <- [r \in Requests |-> PhaseOf(req[r])],
  reissues <- [r \in Requests |-> ReissuesLeft(req[r])]

\* Whatever the five middlewares do to a request between them, it is what
\* RequestLifecycle allows: nobody puts a request back without spending a
\* retry or the escalation, a refused request is never put back, and a
\* request ends once.  (All process_* methods.)
ImplementsLifecycle == Lifecycle!LifecycleSpec

\* Every request ends, whatever the targets, solvers and browsers answer.
\* (The retry limit and the circuit_breaker_antibot_retried flag together.)
EveryRequestEnds ==
  \A r \in Requests : req[r].stage = "queued" ~> req[r].stage \in Ended
-----------------------------------------------------------------------------
(* What the repository says of the chain, and the code does not do.        *)

\* A circuit is open "for cooldown_seconds.  Once the cooldown elapses" a
\* request is let through (circuit_breaker.py:3-8): no domain stays blocked
\* for ever.
BlockedDomainReopens ==
  \A d \in Domains : []<>(~Blocks(circuit[d]))

\* The items in request.meta are those the provider extracted from the page it
\* answers with ("the provider already extracted these directly from its own
\* live browser page", byparr_middleware.py:203): no other answer is delivered
\* with items in its request's meta.
ItemsBelongToAnswer ==
  [][\A r \in Requests :
       req'[r].stage = "delivered" /\ req[r].stage \in {"rendering", "downloading"} =>
         ~req[r].live_items]_chainVars
=============================================================================
