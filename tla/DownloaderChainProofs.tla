----------------------- MODULE DownloaderChainProofs -----------------------
(***************************************************************************)
(* Proofs about DownloaderChain, for any requests, domains, scopes,        *)
(* targets and limits that the assumptions allow.                          *)
(*                                                                         *)
(* Every action but Tick moves one request.  What such a step may do to    *)
(* the request and to its domain's circuit is said by OneRequest, which    *)
(* every action satisfies; the theorems follow from it.  The chain uses    *)
(* breaker and limiter as their own modules do, so what is proved of them  *)
(* there holds here.                                                       *)
(***************************************************************************)
EXTENDS DownloaderChain, CircuitBreakerProofs, RateLimiterProofs

\* The stages in which a request waits for a result, and those in which a
\* handler may be called next.
Paused == {"solving", "rendering", "downloading"}

Handled == {"queued"} \cup Paused

RequestFields ==
  [stage      : Stages,
   meta       : [antibot    : BOOLEAN,
                 provider   : Providers \cup {None},
                 retried    : BOOLEAN,
                 multiplier : Multipliers \cup {None}],
   playwright : BOOLEAN,
   live_items : BOOLEAN,
   attempt    : 0..MaxAttempts,
   wait       : 0..MaxDelay,
   passes     : Nat]

\* The passes a request has been granted: the first, one for each retry, of
\* which the last may still be ahead, and one for the escalation.
Granted(q) ==
  q.attempt + (IF q.meta.retried THEN 1 ELSE 0) + (IF q.stage = "waiting" THEN 0 ELSE 1)

GoodRequest(q) ==
  /\ q \in RequestFields
  /\ q.stage \notin Ended => q.meta \in Metas
  /\ q.passes <= Granted(q)

ChainInv ==
  /\ BreakerInv
  /\ req \in [Requests -> RequestFields]
  /\ \A r \in Requests : GoodRequest(req[r])
  /\ HalfOpenHasTrial

\* The stages of a turn, in the order a request gets to them.
Rank(stage) ==
  CASE stage = "waiting"     -> 5
    [] stage = "queued"      -> 4
    [] stage = "solving"     -> 3
    [] stage = "rendering"   -> 2
    [] stage = "downloading" -> 1
    [] OTHER                 -> 0

\* How a request goes on: further in its turn, back for one reissue, from the
\* timer to the scheduler, or to its end.
Turn(old, new) ==
  \/ /\ old.stage \in Handled /\ new.stage \in Paused
     /\ Rank(new.stage) < Rank(old.stage)
     /\ ReissuesLeft(new) = ReissuesLeft(old)
  \/ /\ old.stage \in Paused /\ new.stage \in {"queued", "waiting"}
     /\ ReissuesLeft(new) = ReissuesLeft(old) - 1
  \/ /\ old.stage = "waiting" /\ new.stage = "queued"
     /\ ReissuesLeft(new) = ReissuesLeft(old)
  \/ old.stage \in Paused /\ new.stage = "delivered"
  \/ old.stage \in Handled /\ new.stage = "dropped"

Yielded(old, new) ==
  /\ old.stage \in Ended /\ new.stage = "queued"
  /\ ReissuesLeft(new) = MaxAttempts + 1

\* What a step of request r may do.
OneRequest(r) ==
  /\ [BreakerNext]_breakerVars
  /\ \A d \in Domains : d # DomainOf[r] => circuit'[d] = circuit[d]
  /\ \E q : /\ GoodRequest(q)
            /\ Turn(req[r], q) \/ Yielded(req[r], q)
            /\ req' = [req EXCEPT ![r] = q]
            /\ q.stage \in Ended => circuit'[DomainOf[r]].state # "HALF_OPEN"
            /\ q.stage \in {"waiting", "dropped"} =>
                 circuit'[DomainOf[r]].consecutive_failures > 0
-----------------------------------------------------------------------------
(* What the handlers make of a request.                                    *)

LEMMA RestIsGood == ASSUME NEW stage \in Ended PROVE GoodRequest(AtRest(stage))
<1>1. AtRest(stage) \in RequestFields
  BY RetryAssumption DEF AtRest, RequestFields, Ended, Stages
<1> QED BY <1>1, RetryAssumption DEF AtRest, GoodRequest, Granted, Ended

LEMMA FreshIsGood ==
  ASSUME NEW profile \in Profiles
  PROVE  /\ GoodRequest(Fresh(profile))
         /\ Fresh(profile).stage = "queued"
         /\ ReissuesLeft(Fresh(profile)) = MaxAttempts + 1
<1>1. /\ profile.antibot \in BOOLEAN /\ profile.playwright \in BOOLEAN
      /\ profile.provider \in Providers \cup {None} /\ profile.multiplier \in Multipliers
  BY ChainAssumption
<1> DEFINE meta == [antibot |-> profile.antibot, provider |-> profile.provider,
                    retried |-> FALSE, multiplier |-> profile.multiplier]
<1>2. meta \in Metas
  BY <1>1 DEF Metas
<1>3. /\ meta \in [antibot : BOOLEAN, provider : Providers \cup {None},
                  retried : BOOLEAN, multiplier : Multipliers \cup {None}]
      /\ meta.retried = FALSE
  BY <1>1
<1> DEFINE rest == AtRest("queued")
<1>4. rest \in RequestFields /\ rest.stage = "queued" /\ rest.attempt = 0
  BY RetryAssumption DEF AtRest, RequestFields, Stages
<1>5. Fresh(profile) = [rest EXCEPT !.meta = meta, !.playwright = profile.playwright, !.passes = 1]
  BY DEF Fresh
<1> HIDE DEF meta, rest
<1> DEFINE new == Fresh(profile)
<1>6. /\ new \in RequestFields /\ new.stage = "queued" /\ new.meta = meta
      /\ new.attempt = 0 /\ new.passes = 1
  <2>1. profile.playwright \in BOOLEAN
    BY <1>1
  <2>2. new = [rest EXCEPT !.meta = meta, !.playwright = profile.playwright, !.passes = 1]
    BY <1>5
  <2> HIDE DEF new
  <2> QED BY <1>3, <1>4, <2>1, <2>2 DEF RequestFields
<1> HIDE DEF new
<1>7. Granted(new) = 1
  BY <1>3, <1>6 DEF Granted
<1>8. ReissuesLeft(new) = MaxAttempts + 1
  BY <1>3, <1>6, RetryAssumption DEF ReissuesLeft, Ended
<1> QED BY <1>2, <1>6, <1>7, <1>8 DEF GoodRequest, new

\* A request that is handed on to the next pause.
LEMMA MovedIsGood ==
  ASSUME NEW q, GoodRequest(q), q.stage \in Handled, NEW stage \in Handled
  PROVE  /\ GoodRequest([q EXCEPT !.stage = stage])
         /\ [q EXCEPT !.stage = stage].stage = stage
         /\ ReissuesLeft([q EXCEPT !.stage = stage]) = ReissuesLeft(q)
<1>1. q \in RequestFields /\ q.meta \in Metas /\ q.passes <= Granted(q)
  BY DEF GoodRequest, Handled, Paused, Ended
<1> DEFINE new == [q EXCEPT !.stage = stage]
<1>2. /\ new \in RequestFields
      /\ new.stage = stage /\ new.meta = q.meta
      /\ new.attempt = q.attempt /\ new.passes = q.passes
  BY <1>1 DEF RequestFields, Stages, Handled, Paused
<1> HIDE DEF new
<1>3. Granted(new) = Granted(q) /\ ReissuesLeft(new) = ReissuesLeft(q)
  BY <1>2 DEF Granted, ReissuesLeft, Handled, Paused, Ended
<1> QED BY <1>1, <1>2, <1>3 DEF GoodRequest, new

LEMMA RetriedIsGood ==
  ASSUME NEW q, GoodRequest(q), q.stage \in Handled, AttemptsLeft(q.attempt)
  PROVE  /\ GoodRequest(Retried(q))
         /\ Retried(q).stage = "waiting"
         /\ ReissuesLeft(Retried(q)) = ReissuesLeft(q) - 1
<1>1. q \in RequestFields /\ q.meta \in Metas /\ q.passes <= Granted(q)
  BY DEF GoodRequest, Handled, Paused, Ended
<1>2. q.attempt + 1 \in 0..MaxAttempts /\ ComputeDelay(q.attempt + 1) \in 0..MaxDelay
  BY <1>1, RetryAssumption DEF AttemptsLeft, ComputeDelay, RequestFields
<1> DEFINE new == Retried(q)
<1>3. /\ new \in RequestFields
      /\ new.stage = "waiting" /\ new.meta = q.meta
      /\ new.attempt = q.attempt + 1 /\ new.passes = q.passes
  BY <1>1, <1>2 DEF Retried, RequestFields, Stages
<1> HIDE DEF new
<1>4. q.attempt \in Nat /\ q.meta.retried \in BOOLEAN
  BY <1>1 DEF RequestFields
<1>5. Granted(new) = Granted(q)
  BY <1>3, <1>4 DEF Granted, Handled, Paused
<1>6. ReissuesLeft(new) = ReissuesLeft(q) - 1
  BY <1>3, <1>4, RetryAssumption DEF ReissuesLeft, Handled, Paused, Ended
<1> QED BY <1>1, <1>3, <1>5, <1>6 DEF GoodRequest, new

LEMMA EscalatedIsGood ==
  ASSUME NEW r \in Requests, NEW q, GoodRequest(q), q.stage \in Handled, ~q.meta.retried
  PROVE  /\ GoodRequest(Escalated(r, q))
         /\ Escalated(r, q).stage = "queued"
         /\ ReissuesLeft(Escalated(r, q)) = ReissuesLeft(q) - 1
<1>1. q \in RequestFields /\ q.meta \in Metas /\ q.passes <= Granted(q)
  BY DEF GoodRequest, Handled, Paused, Ended
<1> DEFINE meta == EscalatedMeta(DomainOf[r], q.meta)
           new  == Escalated(r, q)
<1>2. ProviderOf(q.meta) \in Providers
  BY <1>1, MetaTypes
<1>3. meta \in Metas /\ meta.retried = TRUE
  <2>1. NextInRotation(ProviderOf(q.meta)) \in Providers
    BY <1>2 DEF NextInRotation, Providers
  <2> DEFINE provider == IF EnactsSwitch(DomainOf[r], ProviderOf(q.meta))
                           THEN NextInRotation(ProviderOf(q.meta)) ELSE q.meta.provider
  <2>2. provider \in Providers \cup {None}
    BY <1>1, <2>1 DEF Metas
  <2>3. meta = [q.meta EXCEPT !.antibot = TRUE, !.retried = TRUE, !.provider = provider]
    BY DEF EscalatedMeta
  <2> HIDE DEF provider, meta
  <2> QED BY <1>1, <2>2, <2>3 DEF Metas
<1>4. OnePassMore(q) \in Nat /\ OnePassMore(q) <= q.passes + 1
  BY <1>1 DEF OnePassMore, RequestFields
<1>5. new = [q EXCEPT !.stage = "queued", !.meta = meta, !.passes = OnePassMore(q)]
  BY DEF Escalated
<1> HIDE DEF meta, new
<1>6. /\ new \in RequestFields
      /\ new.stage = "queued" /\ new.meta = meta
      /\ new.attempt = q.attempt /\ new.passes = OnePassMore(q)
  BY <1>1, <1>3, <1>4, <1>5 DEF RequestFields, Stages, Metas
<1>7. q.attempt \in Nat /\ q.passes \in Nat
  BY <1>1 DEF RequestFields
<1>8. Granted(new) = Granted(q) + 1
  BY <1>3, <1>6, <1>7 DEF Granted, Handled, Paused
<1>9. Granted(q) \in Nat
  BY <1>7 DEF Granted
<1>10. ReissuesLeft(new) = ReissuesLeft(q) - 1
  BY <1>3, <1>6, <1>7, RetryAssumption DEF ReissuesLeft, Handled, Paused, Ended
<1> QED BY <1>1, <1>3, <1>4, <1>6, <1>7, <1>8, <1>9, <1>10 DEF GoodRequest, new
-----------------------------------------------------------------------------
(* What the handlers make of a circuit.                                    *)

\* A failure ends a trial and is on record.
LEMMA FailedOutcome ==
  ASSUME NEW c, GoodCircuit(c), NEW m \in Multipliers
  PROVE  Failed(c, m).state # "HALF_OPEN" /\ Failed(c, m).consecutive_failures > 0
<1>1. c \in Circuits
  BY DEF GoodCircuit
<1>2. /\ Counted(c) \in Circuits /\ Counted(c).consecutive_failures > 0
      /\ Counted(c).state = c.state
  BY <1>1, CountedCircuit
<1>3. IsCooldown(AdjustedCooldown(Cooldown, m))
  BY AdjustedIsCooldown DEF BaseCooldowns
<1>4. /\ Opened(Counted(c), AdjustedCooldown(Cooldown, m)).state = "OPEN"
      /\ Opened(Counted(c), AdjustedCooldown(Cooldown, m)).consecutive_failures > 0
  BY <1>2, <1>3, OpenedIsGood
<1> QED BY <1>2, <1>4 DEF Failed

\* An answer that is passed on ends a trial, and is on record as a failure if
\* the retry middleware could take it for one.
LEMMA AnsweredOutcome ==
  ASSUME NEW c, GoodCircuit(c), NEW resp \in Responses, NEW meta \in Metas,
         ~EscalatesRequest(resp, meta)
  PROVE  /\ Answered(c, resp, meta).state # "HALF_OPEN"
         /\ resp.status \in RetryableStatuses =>
              Answered(c, resp, meta).consecutive_failures > 0
<1>0. meta.multiplier \in Multipliers
  BY MetaTypes
<1>1. Failed(c, meta.multiplier).state # "HALF_OPEN" /\ Failed(c, meta.multiplier).consecutive_failures > 0
  BY <1>0, FailedOutcome
<1>2. CASE resp.status \in FailureStatuses
  <2>1. Answered(c, resp, meta) = Failed(c, meta.multiplier)
    BY <1>2 DEF Answered, FailureStatuses, ClassifiableStatuses
  <2> QED BY <1>1, <2>1
<1>3. CASE resp.status \in ClassifiableStatuses
  <2>1. Answered(c, resp, meta) = Rejected(c, resp, meta)
    BY <1>3 DEF Answered, FailureStatuses, ClassifiableStatuses
  <2>2. CASE StrategyOf(resp) = "immediate-long-backoff"
    <3> DEFINE n == AdjustedCooldown(SilentCooldown, meta.multiplier)
    <3>1. Rejected(c, resp, meta) = Opened(Counted(c), n)
      BY <2>2 DEF Rejected
    <3>2. IsCooldown(n)
      BY <1>0, AdjustedIsCooldown DEF BaseCooldowns
    <3>3. Counted(c) \in Circuits /\ Counted(c).consecutive_failures > 0
      BY CountedCircuit DEF GoodCircuit
    <3> HIDE DEF n
    <3> QED BY <2>1, <3>1, <3>2, <3>3, OpenedIsGood
  <2>3. CASE StrategyOf(resp) = "try-antibot-provider"
    <3>1. meta.retried
      BY <1>3, <2>3 DEF EscalatesRequest
    <3>2. Rejected(c, resp, meta) = IF meta.retried THEN Failed(c, meta.multiplier) ELSE c
      BY <2>3 DEF Rejected
    <3> QED BY <1>1, <2>1, <3>1, <3>2
  <2>4. CASE StrategyOf(resp) = "standard"
    <3>1. Rejected(c, resp, meta) = Failed(c, meta.multiplier)
      BY <2>4 DEF Rejected
    <3> QED BY <1>1, <2>1, <3>1
  <2> QED BY <1>3, <2>2, <2>3, <2>4, ResponseTypes DEF Strategies
<1>4. CASE resp.status \notin FailureStatuses \cup ClassifiableStatuses
  <2>1. Answered(c, resp, meta) = ClosedCircuit
    BY <1>4 DEF Answered
  <2>2. resp.status \notin RetryableStatuses
    BY <1>4 DEF FailureStatuses, ClassifiableStatuses, RetryableStatuses
  <2> QED BY <2>1, <2>2 DEF ClosedCircuit
<1> QED BY <1>2, <1>3, <1>4
-----------------------------------------------------------------------------
(* What a step does.                                                       *)

\* A request that moves on while its domain's circuit stays or is tried.
LEMMA MovesOn ==
  ASSUME ChainInv, NEW r \in Requests, req[r].stage \in Handled, NEW stage \in Paused,
         Rank(stage) < Rank(req[r].stage), MovesTo(r, stage),
         UNCHANGED breakerVars \/ ProcessRequest(DomainOf[r])
  PROVE  OneRequest(r)
<1> DEFINE q == [req[r] EXCEPT !.stage = stage]
<1>1. GoodRequest(q) /\ q.stage = stage /\ ReissuesLeft(q) = ReissuesLeft(req[r])
  BY MovedIsGood DEF ChainInv, Handled
<1>2. req' = [req EXCEPT ![r] = q]
  BY DEF MovesTo, Becomes
<1>3. DomainOf[r] \in Domains /\ circuit \in [Domains -> Circuits]
  BY ChainAssumption, InvSplit DEF ChainInv
<1>4. [BreakerNext]_breakerVars
  BY <1>3 DEF BreakerNext
<1>5. \A d \in Domains : d # DomainOf[r] => circuit'[d] = circuit[d]
  BY <1>3 DEF ProcessRequest, breakerVars
<1>6. q.stage \notin Ended \cup {"waiting", "dropped"}
  BY <1>1 DEF Paused, Ended
<1> HIDE DEF q
<1>7. Turn(req[r], q)
  BY <1>1 DEF Turn
<1> QED BY <1>1, <1>2, <1>4, <1>5, <1>6, <1>7 DEF OneRequest

LEMMA ExceptionStep ==
  ASSUME ChainInv, NEW r \in Requests, req[r].stage \in Handled,
         NEW exception, req[r].stage = "queued" => exception = "ignore",
         HandleException(r, exception)
  PROVE  OneRequest(r)
<1>1. /\ DomainOf[r] \in Domains /\ circuit \in [Domains -> Circuits]
      /\ GoodCircuit(circuit[DomainOf[r]])
      /\ GoodRequest(req[r]) /\ req[r].meta \in Metas
  BY ChainAssumption, InvSplit DEF ChainInv, GoodRequest, Handled, Paused, Ended
<1>2. req[r].meta.multiplier \in Multipliers
  BY <1>1, MetaTypes
<1> DEFINE q == AfterException(exception, req[r])
           c == Failed(circuit[DomainOf[r]], req[r].meta.multiplier)
<1>3. req' = [req EXCEPT ![r] = q] /\ ProcessException(DomainOf[r], req[r].meta)
  BY DEF HandleException, Becomes
<1>4. circuit' = [circuit EXCEPT ![DomainOf[r]] = c]
  BY <1>3 DEF ProcessException
<1>5. c.state # "HALF_OPEN" /\ c.consecutive_failures > 0
  BY <1>1, <1>2, FailedOutcome
<1>6. GoodRequest(q)
  BY <1>1, RetriedIsGood, RestIsGood DEF AfterException, Ended
<1>9. Turn(req[r], q)
  <2>1. CASE exception \in RetryableExceptions /\ AttemptsLeft(req[r].attempt)
    <3>1. q = Retried(req[r]) /\ req[r].stage \in Paused
      BY <2>1 DEF AfterException, RetryableExceptions, Handled
    <3>2. q.stage = "waiting" /\ ReissuesLeft(q) = ReissuesLeft(req[r]) - 1
      BY <1>1, <2>1, <3>1, RetriedIsGood
    <3> HIDE DEF q
    <3> QED BY <3>1, <3>2 DEF Turn
  <2>2. CASE ~(exception \in RetryableExceptions /\ AttemptsLeft(req[r].attempt))
    <3>1. q.stage = "dropped"
      BY <2>2 DEF AfterException, AtRest
    <3> HIDE DEF q
    <3> QED BY <3>1 DEF Turn
  <2> QED BY <2>1, <2>2
<1>7. [BreakerNext]_breakerVars
  BY <1>1, <1>3 DEF BreakerNext
<1> HIDE DEF q, c
<1>8. circuit'[DomainOf[r]] = c /\ \A d \in Domains : d # DomainOf[r] => circuit'[d] = circuit[d]
  BY <1>1, <1>4
<1> QED BY <1>3, <1>5, <1>6, <1>7, <1>8, <1>9 DEF OneRequest

\* request is req[r], or that with what a solver put into its meta.
LEMMA ResponseStep ==
  ASSUME ChainInv, NEW r \in Requests, NEW resp \in Responses,
         NEW request, GoodRequest(request), request.stage \in Paused,
         request.stage = req[r].stage, ReissuesLeft(request) = ReissuesLeft(req[r]),
         HandleResponse(r, resp, request)
  PROVE  OneRequest(r)
<1>1. /\ DomainOf[r] \in Domains /\ circuit \in [Domains -> Circuits]
      /\ GoodCircuit(circuit[DomainOf[r]])
      /\ request.meta \in Metas /\ request.stage \in Handled
  BY ChainAssumption, InvSplit DEF ChainInv, GoodRequest, Handled, Paused, Ended
<1> DEFINE c == Answered(circuit[DomainOf[r]], resp, request.meta)
           q == IF EscalatesRequest(resp, request.meta)
                  THEN Escalated(r, request) ELSE AfterResponse(resp, request)
<1>2. req' = [req EXCEPT ![r] = q] /\ ProcessResponse(DomainOf[r], resp, request.meta)
  BY DEF HandleResponse, Becomes
<1>3. circuit' = [circuit EXCEPT ![DomainOf[r]] = c]
  BY <1>2 DEF ProcessResponse
<1>4. [BreakerNext]_breakerVars
  BY <1>1, <1>2 DEF BreakerNext
<1>5. CASE EscalatesRequest(resp, request.meta)
  <2>1. ~request.meta.retried
    BY <1>5 DEF EscalatesRequest
  <2>2. GoodRequest(q) /\ q.stage = "queued" /\ ReissuesLeft(q) = ReissuesLeft(request) - 1
    BY <1>1, <1>5, <2>1, EscalatedIsGood
  <2> HIDE DEF q, c
  <2>3. \A d \in Domains : d # DomainOf[r] => circuit'[d] = circuit[d]
    BY <1>1, <1>3
  <2>4. Turn(req[r], q)
    BY <2>2 DEF Turn
  <2> QED BY <1>2, <1>4, <2>2, <2>3, <2>4 DEF OneRequest, Ended
<1>6. CASE ~EscalatesRequest(resp, request.meta)
  <2>1. /\ c.state # "HALF_OPEN"
        /\ resp.status \in RetryableStatuses => c.consecutive_failures > 0
    BY <1>1, <1>6, AnsweredOutcome
  <2>2. q = AfterResponse(resp, request)
    BY <1>6
  <2>3. GoodRequest(q)
    BY <1>1, <2>2, RetriedIsGood, RestIsGood DEF AfterResponse, Ended
  <2>4. q.stage \in {"waiting", "dropped"} => resp.status \in RetryableStatuses
    BY <2>2 DEF AfterResponse, AtRest
  <2>6. Turn(req[r], q)
    <3>1. CASE resp.status \in RetryableStatuses /\ AttemptsLeft(request.attempt)
      <4>1. q.stage = "waiting" /\ ReissuesLeft(q) = ReissuesLeft(request) - 1
        BY <1>1, <2>2, <3>1, RetriedIsGood DEF AfterResponse
      <4> HIDE DEF q
      <4> QED BY <4>1 DEF Turn
    <3>2. CASE ~(resp.status \in RetryableStatuses /\ AttemptsLeft(request.attempt))
      <4>1. q.stage = "delivered"
        BY <2>2, <3>2 DEF AfterResponse, AtRest
      <4> HIDE DEF q
      <4> QED BY <4>1 DEF Turn
    <3> QED BY <3>1, <3>2
  <2> HIDE DEF q, c
  <2>5. circuit'[DomainOf[r]] = c /\ \A d \in Domains : d # DomainOf[r] => circuit'[d] = circuit[d]
    BY <1>1, <1>3
  <2> QED BY <1>2, <1>4, <2>1, <2>3, <2>4, <2>5, <2>6 DEF OneRequest
<1> QED BY <1>5, <1>6

\* The handlers on the way out, each with those after it.
LEMMA BreakerReached ==
  ASSUME ChainInv, NEW r \in Requests, req[r].stage \in {"queued", "solving"}, ReachesBreaker(r)
  PROVE  OneRequest(r)
<1>1. CASE ProcessRequest(DomainOf[r]) /\ MovesTo(r, "downloading")
  BY <1>1, MovesOn DEF Handled, Paused, Rank
<1>2. CASE HandleException(r, "ignore")
  BY <1>2, ExceptionStep DEF Handled, Paused
<1> QED BY <1>1, <1>2 DEF ReachesBreaker

LEMMA PlaywrightReached ==
  ASSUME ChainInv, NEW r \in Requests, req[r].stage \in {"queued", "solving"}, ReachesPlaywright(r)
  PROVE  OneRequest(r)
<1>1. CASE MovesTo(r, "rendering") /\ UNCHANGED breakerVars
  BY <1>1, MovesOn DEF Handled, Paused, Rank
<1>2. CASE ReachesBreaker(r)
  BY <1>2, BreakerReached
<1> QED BY <1>1, <1>2 DEF ReachesPlaywright

LEMMA ByparrReached ==
  ASSUME ChainInv, NEW r \in Requests, req[r].stage = "queued", ReachesByparr(r)
  PROVE  OneRequest(r)
<1>1. CASE MovesTo(r, "solving") /\ UNCHANGED breakerVars
  BY <1>1, MovesOn DEF Handled, Paused, Rank
<1>2. CASE ReachesPlaywright(r)
  BY <1>2, PlaywrightReached
<1> QED BY <1>1, <1>2 DEF ReachesByparr

\* An answer that comes while the request pauses.
LEMMA AnswerStep ==
  ASSUME ChainInv, NEW r \in Requests, NEW resp \in Responses, Answers(r, resp)
  PROVE  OneRequest(r)
<1>0. GoodRequest(req[r])
  BY DEF ChainInv
<1>1. ASSUME NEW extracted \in BOOLEAN, SolveAnswers(r, resp, extracted)
      PROVE  OneRequest(r)
  <2> DEFINE request == [req[r] EXCEPT !.live_items = @ \/ extracted]
  <2>1. req[r] \in RequestFields /\ req[r].stage = "solving"
    BY <1>0, <1>1 DEF SolveAnswers, GoodRequest
  <2>2. /\ request \in RequestFields
        /\ request.stage = req[r].stage /\ request.meta = req[r].meta
        /\ request.attempt = req[r].attempt /\ request.passes = req[r].passes
    BY <2>1 DEF RequestFields
  <2>3. HandleResponse(r, resp, request)
    BY <1>1 DEF SolveAnswers
  <2> HIDE DEF request
  <2>4. GoodRequest(request)
    BY <1>0, <2>2 DEF GoodRequest, Granted
  <2>5. ReissuesLeft(request) = ReissuesLeft(req[r])
    BY <2>2 DEF ReissuesLeft
  <2> QED BY <2>1, <2>2, <2>3, <2>4, <2>5, ResponseStep DEF Paused
<1>2. CASE RenderAnswers(r, resp)
  BY <1>0, <1>2, ResponseStep DEF RenderAnswers, Paused
<1>3. CASE DownloadAnswers(r, resp)
  BY <1>0, <1>3, ResponseStep DEF DownloadAnswers, Paused
<1> QED BY <1>1, <1>2, <1>3 DEF Answers

LEMMA RetryDueStep ==
  ASSUME ChainInv, NEW r \in Requests, RetryDue(r)
  PROVE  OneRequest(r)
<1> DEFINE old == req[r]
           new == [old EXCEPT !.stage = "queued", !.passes = OnePassMore(old)]
<1>1. /\ old \in RequestFields /\ old.stage = "waiting"
      /\ old.meta \in Metas /\ old.passes <= Granted(old)
  BY DEF RetryDue, ChainInv, GoodRequest, Ended
<1>2. req' = [req EXCEPT ![r] = new] /\ UNCHANGED <<circuit, streak>>
  BY DEF RetryDue, Becomes
<1> HIDE DEF old
<1>3. OnePassMore(old) \in Nat /\ OnePassMore(old) <= old.passes + 1
  BY <1>1 DEF OnePassMore, RequestFields
<1>4. /\ new \in RequestFields /\ new.stage = "queued" /\ new.meta = old.meta
      /\ new.attempt = old.attempt /\ new.passes = OnePassMore(old)
  BY <1>1, <1>3 DEF RequestFields, Stages
<1> HIDE DEF new
<1>5. old.attempt \in Nat /\ old.passes \in Nat /\ old.meta.retried \in BOOLEAN
  BY <1>1 DEF RequestFields
<1>6. Granted(new) = Granted(old) + 1 /\ Granted(old) \in Nat
  BY <1>1, <1>4, <1>5 DEF Granted
<1>7. GoodRequest(new)
  BY <1>1, <1>3, <1>4, <1>5, <1>6 DEF GoodRequest
<1>8. Turn(old, new)
  BY <1>1, <1>4 DEF Turn, ReissuesLeft, Ended
<1> QED BY <1>2, <1>4, <1>7, <1>8 DEF OneRequest, breakerVars, Ended, old

LEMMA StartStep ==
  ASSUME ChainInv, NEW r \in Requests, NEW profile \in Profiles, Start(r, profile)
  PROVE  OneRequest(r)
<1>1. /\ req' = [req EXCEPT ![r] = Fresh(profile)]
      /\ UNCHANGED <<circuit, streak>>
      /\ req[r].stage \in Ended
  BY DEF Start, Becomes
<1>2. GoodRequest(Fresh(profile)) /\ Fresh(profile).stage = "queued"
  BY FreshIsGood
<1>3. Yielded(req[r], Fresh(profile))
  BY <1>1, FreshIsGood DEF Yielded
<1> QED BY <1>1, <1>2, <1>3 DEF OneRequest, breakerVars, Ended

LEMMA AdvanceStep ==
  ASSUME ChainInv, NEW r \in Requests, Advances(r)
  PROVE  OneRequest(r)
<1>1. CASE LimiterPasses(r)
  BY <1>1, ByparrReached DEF LimiterPasses
<1>2. CASE LimiterRefuses(r)
  BY <1>2, ExceptionStep DEF LimiterRefuses, Handled, Paused
<1>3. CASE \E resp \in Responses : Answers(r, resp)
  BY <1>3, AnswerStep
<1>4. CASE SolveFallsBack(r)
  BY <1>4, PlaywrightReached DEF SolveFallsBack
<1>5. CASE SolveRaises(r)
  BY <1>5, ExceptionStep DEF SolveRaises, Handled, Paused
<1>6. CASE RenderRaises(r)
  BY <1>6, ExceptionStep DEF RenderRaises, Handled, Paused
<1>7. CASE DownloadRaises(r)
  BY <1>7, ExceptionStep DEF DownloadRaises, Handled, Paused
<1>8. CASE RetryDue(r)
  BY <1>8, RetryDueStep
<1> QED BY <1>1, <1>2, <1>3, <1>4, <1>5, <1>6, <1>7, <1>8 DEF Advances

\* So a step of the chain is a step of one request, a tick or nothing.
LEMMA ChainStep ==
  ASSUME ChainInv, [ChainNext]_chainVars
  PROVE  (\E r \in Requests : OneRequest(r)) \/ Tick \/ UNCHANGED chainVars
BY StartStep, AdvanceStep DEF ChainNext
-----------------------------------------------------------------------------
(* The invariant.                                                          *)

LEMMA ChainInvInit == ChainInit => ChainInv
<1> SUFFICES ASSUME ChainInit PROVE ChainInv
  OBVIOUS
<1>1. BreakerInv
  BY InvInit DEF ChainInit
<1>2. GoodRequest(AtRest("idle"))
  BY RestIsGood DEF Ended
<1>3. req = [r \in Requests |-> AtRest("idle")]
  BY DEF ChainInit
<1>4. \A r \in Requests : GoodRequest(req[r])
  BY <1>2, <1>3
<1>5. req \in [Requests -> RequestFields]
  BY <1>2, <1>3 DEF GoodRequest
<1>6. HalfOpenHasTrial
  BY DEF HalfOpenHasTrial, ChainInit, BreakerInit, ClosedCircuit
<1> QED BY <1>1, <1>4, <1>5, <1>6 DEF ChainInv

\* The trial of another domain is another request.
LEMMA RequestKeepsInv ==
  ASSUME ChainInv, NEW r \in Requests, OneRequest(r)
  PROVE  ChainInv'
<1>1. BreakerInv'
  BY InvNext DEF ChainInv, OneRequest
<1>2. PICK q : /\ GoodRequest(q)
               /\ req' = [req EXCEPT ![r] = q]
               /\ q.stage \in Ended => circuit'[DomainOf[r]].state # "HALF_OPEN"
  BY DEF OneRequest
<1>3. req'[r] = q /\ \A s \in Requests : s # r => req'[s] = req[s]
  <2>1. req \in [Requests -> RequestFields] /\ req' = [req EXCEPT ![r] = q]
    BY <1>2 DEF ChainInv
  <2> QED BY <2>1
<1>4. req' \in [Requests -> RequestFields]
  <2>1. req \in [Requests -> RequestFields] /\ req' = [req EXCEPT ![r] = q]
    BY <1>2 DEF ChainInv
  <2>2. q \in RequestFields
    BY <1>2 DEF GoodRequest
  <2> QED BY <2>1, <2>2
<1>5. ASSUME NEW s \in Requests PROVE GoodRequest(req'[s])
  <2>1. GoodRequest(req[s])
    BY DEF ChainInv
  <2> QED BY <1>2, <1>3, <2>1
<1>6. ASSUME NEW d \in Domains, circuit'[d].state = "HALF_OPEN"
      PROVE  \E s \in Requests : DomainOf[s] = d /\ req'[s].stage \notin Ended
  <2>1. CASE d = DomainOf[r]
    <3>1. q.stage \notin Ended
      BY <1>2, <1>6, <2>1
    <3> QED BY <1>3, <2>1, <3>1
  <2>2. CASE d # DomainOf[r]
    <3>1. circuit[d].state = "HALF_OPEN"
      BY <1>6, <2>2 DEF OneRequest
    <3>2. PICK s \in Requests : DomainOf[s] = d /\ req[s].stage \notin Ended
      BY <3>1 DEF ChainInv, HalfOpenHasTrial
    <3>3. req'[s] = req[s]
      BY <1>3, <2>2, <3>2
    <3> QED BY <3>2, <3>3
  <2> QED BY <2>1, <2>2
<1>7. HalfOpenHasTrial'
  BY <1>6 DEF HalfOpenHasTrial
<1> QED BY <1>1, <1>4, <1>5, <1>7 DEF ChainInv, GoodRequest, Granted, Metas

LEMMA TickKeepsInv == ChainInv /\ Tick => ChainInv'
<1> SUFFICES ASSUME ChainInv, Tick PROVE ChainInv'
  OBVIOUS
<1>1. /\ BreakerTick
      /\ req' = [r \in Requests |-> [req[r] EXCEPT !.wait = IF @ > 0 THEN @ - 1 ELSE 0]]
  BY DEF Tick
<1>2. BreakerInv'
  BY <1>1, InvNext DEF ChainInv, BreakerNext
<1>3. ASSUME NEW r \in Requests
      PROVE  GoodRequest(req'[r]) /\ req'[r].stage = req[r].stage
  <2> DEFINE old == req[r]
             new == [old EXCEPT !.wait = IF @ > 0 THEN @ - 1 ELSE 0]
  <2>1. GoodRequest(old) /\ old \in RequestFields
    BY DEF ChainInv, GoodRequest
  <2>2. req'[r] = new
    BY <1>1
  <2> HIDE DEF old
  <2>3. (IF old.wait > 0 THEN old.wait - 1 ELSE 0) \in 0..MaxDelay
    BY <2>1, RetryAssumption DEF RequestFields
  <2>4. /\ new \in RequestFields
        /\ new.stage = old.stage /\ new.meta = old.meta
        /\ new.attempt = old.attempt /\ new.passes = old.passes
    BY <2>1, <2>3 DEF RequestFields
  <2> HIDE DEF new
  <2>5. GoodRequest(new)
    BY <2>1, <2>4 DEF GoodRequest, Granted
  <2> QED BY <2>2, <2>4, <2>5 DEF old
<1>4. req' \in [Requests -> RequestFields]
  <2>1. \A r \in Requests : req'[r] \in RequestFields
    BY <1>3 DEF GoodRequest
  <2> QED BY <1>1, <2>1
<1>5. \A d \in Domains : circuit'[d].state = circuit[d].state
  <2>1. circuit' = [d \in Domains |-> Aged(circuit[d])]
    BY <1>1 DEF BreakerTick
  <2>2. \A d \in Domains : circuit[d] \in Circuits
    BY InvSplit DEF ChainInv
  <2>3. \A d \in Domains : Aged(circuit[d]).state = circuit[d].state
    BY <2>2 DEF Aged, Circuits
  <2> QED BY <2>1, <2>3
<1>6. HalfOpenHasTrial'
  BY <1>3, <1>5 DEF ChainInv, HalfOpenHasTrial
<1> QED BY <1>2, <1>3, <1>4, <1>6 DEF ChainInv, GoodRequest, Granted, Metas

LEMMA ChainInvNext == ChainInv /\ [ChainNext]_chainVars => ChainInv'
<1> SUFFICES ASSUME ChainInv, [ChainNext]_chainVars PROVE ChainInv'
  OBVIOUS
<1>1. CASE UNCHANGED chainVars
  <2>1. UNCHANGED <<circuit, streak, req>>
    BY <1>1 DEF chainVars
  <2>2. BreakerInv'
    BY <2>1, InvNext DEF ChainInv, breakerVars
  <2>3. HalfOpenHasTrial'
    BY <2>1 DEF ChainInv, HalfOpenHasTrial
  <2> QED BY <2>1, <2>2, <2>3 DEF ChainInv, GoodRequest, Granted, Metas
<1> QED BY <1>1, ChainStep, RequestKeepsInv, TickKeepsInv

LEMMA ChainInvHolds == ChainSpec => []ChainInv
BY ChainInvInit, ChainInvNext, PTL DEF ChainSpec
-----------------------------------------------------------------------------
\* The middlewares use the breaker as its own module does: whatever is proved
\* of CircuitBreaker holds of it inside the chain (process_request,
\* process_response and process_exception, called by Scrapy).
THEOREM ChainDrivesBreaker == ChainSpec => BreakerSpec
<1>1. ChainInit => BreakerInit
  BY DEF ChainInit
<1>2. ChainInv /\ [ChainNext]_chainVars => [BreakerNext]_breakerVars
  BY ChainStep DEF OneRequest, Tick, BreakerNext, chainVars, breakerVars
<1> QED BY <1>1, <1>2, ChainInvHolds, PTL DEF ChainSpec, BreakerSpec

\* The same for the limiter (process_request, for the scopes of a request).
THEOREM ChainDrivesLimiter == ChainSpec => LimiterSpec
<1>1. ChainInit => LimiterInit
  BY DEF ChainInit
<1>2. [ChainNext]_chainVars => [LimiterNext]_scope
  <2> SUFFICES ASSUME [ChainNext]_chainVars PROVE [LimiterNext]_scope
    OBVIOUS
  <2>1. ASSUME NEW r \in Requests, Advances(r)
        PROVE  [LimiterNext]_scope
    <3>1. ScopesOf[r] \in Presentable
      BY ChainAssumption
    <3>2. CASE LimiterPasses(r) \/ LimiterRefuses(r)
      BY <3>1, <3>2 DEF LimiterPasses, LimiterRefuses, LimiterNext, Attempt
    <3>3. CASE UNCHANGED scope
      BY <3>3
    <3> QED BY <2>1, <3>2, <3>3
         DEF Advances, Answers, SolveAnswers, RenderAnswers, DownloadAnswers,
             SolveFallsBack, SolveRaises, RenderRaises, DownloadRaises, RetryDue
  <2>2. ASSUME NEW r \in Requests, NEW profile \in Profiles, Start(r, profile)
        PROVE  UNCHANGED scope
    BY <2>2 DEF Start
  <2>3. Tick => LimiterNext
    BY DEF Tick, LimiterNext
  <2> QED BY <2>1, <2>2, <2>3 DEF ChainNext, chainVars
<1> QED BY <1>1, <1>2, PTL DEF ChainSpec, LimiterSpec

\* Requests, circuits, streaks and scopes stay well typed (all middlewares).
THEOREM ChainTypeCorrect == ChainSpec => []ChainTypeOK
<1>1. ChainInv /\ LimiterTypeOK => ChainTypeOK
  BY DEF ChainInv, BreakerInv, ChainTypeOK, RequestFields
<1> QED BY <1>1, ChainInvHolds, ChainDrivesLimiter, LimiterTypeCorrect, PTL

\* A half-open circuit always has a request of its domain under way
\* (process_response, process_exception).
THEOREM TrialUnderWay == ChainSpec => []HalfOpenHasTrial
<1>1. ChainInv => HalfOpenHasTrial
  BY DEF ChainInv
<1> QED BY <1>1, ChainInvHolds, PTL

\* Retries and the escalation to a solver cannot feed each other: a request
\* costs no more passes than both limits allow together (_schedule_retry,
\* _handle_classifiable_response).
THEOREM PassesStayBounded == ChainSpec => []PassesBounded
<1>1. ChainInv => PassesBounded
  <2> SUFFICES ASSUME ChainInv, NEW r \in Requests PROVE req[r].passes <= PassLimit
    BY DEF PassesBounded
  <2> DEFINE q == req[r]
  <2>1. q \in RequestFields /\ q.passes <= Granted(q)
    BY DEF ChainInv, GoodRequest
  <2> HIDE DEF q
  <2>2. q.attempt \in 0..MaxAttempts /\ q.passes \in Nat /\ q.meta.retried \in BOOLEAN
    BY <2>1 DEF RequestFields
  <2>3. Granted(q) <= PassLimit /\ Granted(q) \in Nat
    BY <2>2, RetryAssumption DEF Granted, PassLimit
  <2>4. PassLimit \in Nat
    BY RetryAssumption DEF PassLimit
  <2> QED BY <2>1, <2>2, <2>3, <2>4 DEF q
<1> QED BY <1>1, ChainInvHolds, PTL

\* A failure is on the circuit's record before the retry middleware decides
\* (the order of the middlewares, 900 and 550).
THEOREM FailureIsSeenFirst == ChainSpec => FailureSeenBeforeRetry
<1>1. ChainInv /\ [ChainNext]_chainVars =>
        [\A r \in Requests :
           req'[r].stage \in {"waiting", "dropped"} /\ req'[r].stage # req[r].stage =>
             circuit'[DomainOf[r]].consecutive_failures > 0]_chainVars
  <2> SUFFICES ASSUME ChainInv, [ChainNext]_chainVars, NEW r \in Requests,
                      req'[r].stage \in {"waiting", "dropped"},
                      req'[r].stage # req[r].stage
               PROVE  circuit'[DomainOf[r]].consecutive_failures > 0
    OBVIOUS
  <2>1. ASSUME NEW s \in Requests, OneRequest(s)
        PROVE  circuit'[DomainOf[r]].consecutive_failures > 0
    <3>1. PICK q : /\ req' = [req EXCEPT ![s] = q]
                   /\ q.stage \in {"waiting", "dropped"} =>
                        circuit'[DomainOf[s]].consecutive_failures > 0
      BY <2>1 DEF OneRequest
    <3>2. req \in [Requests -> RequestFields]
      BY DEF ChainInv
    <3>3. r = s /\ req'[r] = q
      BY <3>1, <3>2
    <3> QED BY <3>1, <3>3
  <2>2. ~Tick
    <3> SUFFICES ASSUME Tick PROVE FALSE
      OBVIOUS
    <3>1. req'[r] = [req[r] EXCEPT !.wait = IF @ > 0 THEN @ - 1 ELSE 0]
      BY DEF Tick
    <3>2. req[r] \in RequestFields
      BY DEF ChainInv
    <3> QED BY <3>1, <3>2 DEF RequestFields
  <2>3. ~UNCHANGED chainVars
    BY DEF chainVars
  <2> QED BY <2>1, <2>2, <2>3, ChainStep
<1> QED BY <1>1, ChainInvHolds, PTL DEF ChainSpec, FailureSeenBeforeRetry
-----------------------------------------------------------------------------
(* The lifecycle of a request, and how far it is from its end.             *)

\* In the eyes of RequestLifecycle one request changes, or none.
LEMMA LifecycleOfOne ==
  ASSUME ChainInv, NEW r \in Requests, NEW q, req' = [req EXCEPT ![r] = q]
  PROVE  /\ [s \in Requests |-> PhaseOf(req[s])]' =
              [[s \in Requests |-> PhaseOf(req[s])] EXCEPT ![r] = PhaseOf(q)]
         /\ [s \in Requests |-> ReissuesLeft(req[s])]' =
              [[s \in Requests |-> ReissuesLeft(req[s])] EXCEPT ![r] = ReissuesLeft(q)]
<1>1. \A s \in Requests : req'[s] = IF s = r THEN q ELSE req[s]
  BY DEF ChainInv
<1>2. /\ \A s \in Requests : PhaseOf(req'[s]) = IF s = r THEN PhaseOf(q) ELSE PhaseOf(req[s])
      /\ \A s \in Requests : ReissuesLeft(req'[s]) =
                               IF s = r THEN ReissuesLeft(q) ELSE ReissuesLeft(req[s])
  BY <1>1
<1>3. /\ [s \in Requests |-> PhaseOf(req[s])]' = [s \in Requests |-> PhaseOf(req'[s])]
      /\ [s \in Requests |-> ReissuesLeft(req[s])]' = [s \in Requests |-> ReissuesLeft(req'[s])]
  BY DEF PhaseOf, ReissuesLeft
<1> QED BY <1>2, <1>3

LEMMA OneRequestRefines ==
  ASSUME ChainInv, NEW r \in Requests, OneRequest(r)
  PROVE  [Lifecycle!LifecycleNext]_(Lifecycle!lifecycleVars)
<1>1. PICK q : /\ GoodRequest(q)
               /\ Turn(req[r], q) \/ Yielded(req[r], q)
               /\ req' = [req EXCEPT ![r] = q]
  BY DEF OneRequest
<1> DEFINE old      == req[r]
           phase    == [s \in Requests |-> PhaseOf(req[s])]
           reissues == [s \in Requests |-> ReissuesLeft(req[s])]
<1>2. /\ phase' = [phase EXCEPT ![r] = PhaseOf(q)]
      /\ reissues' = [reissues EXCEPT ![r] = ReissuesLeft(q)]
  BY <1>1, LifecycleOfOne
<1>3. phase[r] = PhaseOf(old) /\ reissues[r] = ReissuesLeft(old)
  OBVIOUS
<1>4. /\ old \in RequestFields /\ q \in RequestFields
      /\ ReissuesLeft(old) \in Nat /\ ReissuesLeft(q) \in Nat
  <2>1. old \in RequestFields /\ q \in RequestFields
    BY <1>1 DEF ChainInv, GoodRequest
  <2> QED BY <2>1, RetryAssumption DEF ReissuesLeft, RequestFields
<1>5. /\ phase \in [Requests -> {PhaseOf(req[s]) : s \in Requests}]
      /\ reissues \in [Requests -> {ReissuesLeft(req[s]) : s \in Requests}]
  OBVIOUS
<1> HIDE DEF old, phase, reissues
<1>6. ASSUME PhaseOf(q) = PhaseOf(old), ReissuesLeft(q) = ReissuesLeft(old)
      PROVE  phase' = phase /\ reissues' = reissues
  BY <1>2, <1>3, <1>5, <1>6
<1>7. CASE Yielded(old, q)
  <2>1. /\ PhaseOf(old) \in {"idle", "delivered", "dropped"} /\ PhaseOf(q) = "ready"
        /\ ReissuesLeft(q) = MaxAttempts + 1
    BY <1>7 DEF Yielded, PhaseOf, Ended
  <2>2. Lifecycle!Yield(r)
    BY <1>2, <1>3, <2>1
    DEF Lifecycle!Yield, Lifecycle!Goes, Lifecycle!Outcomes, phase, reissues
  <2> QED BY <2>2 DEF Lifecycle!LifecycleNext
<1>8. CASE old.stage = "queued" /\ q.stage \in Paused /\ ReissuesLeft(q) = ReissuesLeft(old)
  <2>1. PhaseOf(old) = "ready" /\ PhaseOf(q) = "working"
    BY <1>8 DEF PhaseOf, Ended, Paused
  <2>2. Lifecycle!HandOut(r)
    BY <1>2, <1>3, <1>8, <2>1 DEF Lifecycle!HandOut, Lifecycle!Goes, phase, reissues
  <2> QED BY <2>2 DEF Lifecycle!LifecycleNext
<1>9. CASE /\ old.stage \in Paused /\ q.stage \in {"queued", "waiting"}
           /\ ReissuesLeft(q) = ReissuesLeft(old) - 1
  <2>1. PhaseOf(old) = "working" /\ PhaseOf(q) = "ready"
    BY <1>9 DEF PhaseOf, Ended, Paused
  <2>2. ReissuesLeft(old) > 0
    BY <1>4, <1>9
  <2>3. Lifecycle!PutBack(r)
    BY <1>2, <1>3, <1>9, <2>1, <2>2 DEF Lifecycle!PutBack, Lifecycle!Goes, phase, reissues
  <2> QED BY <2>3 DEF Lifecycle!LifecycleNext
<1>10. CASE \/ /\ old.stage \in Paused /\ q.stage \in Paused
               /\ ReissuesLeft(q) = ReissuesLeft(old)
            \/ /\ old.stage = "waiting" /\ q.stage = "queued"
               /\ ReissuesLeft(q) = ReissuesLeft(old)
  <2>1. PhaseOf(q) = PhaseOf(old)
    BY <1>10 DEF PhaseOf, Ended, Paused
  <2>2. phase' = phase /\ reissues' = reissues
    BY <1>6, <1>10, <2>1
  <2> QED BY <2>2 DEF Lifecycle!lifecycleVars, phase, reissues
<1>11. CASE old.stage \in Paused /\ q.stage = "delivered"
  <2>1. PhaseOf(old) = "working" /\ PhaseOf(q) = "delivered" /\ ReissuesLeft(q) = 0
    BY <1>11 DEF PhaseOf, ReissuesLeft, Ended, Paused
  <2>2. Lifecycle!Deliver(r)
    BY <1>2, <1>3, <2>1 DEF Lifecycle!Deliver, Lifecycle!Goes, phase, reissues
  <2> QED BY <2>2 DEF Lifecycle!LifecycleNext
<1>12. CASE old.stage \in Handled /\ q.stage = "dropped"
  <2>1. /\ PhaseOf(old) \in {"ready", "working"} /\ PhaseOf(q) = "dropped"
        /\ ReissuesLeft(q) = 0
    BY <1>12 DEF PhaseOf, ReissuesLeft, Ended, Handled, Paused
  <2>2. Lifecycle!Drop(r)
    BY <1>2, <1>3, <2>1 DEF Lifecycle!Drop, Lifecycle!Goes, phase, reissues
  <2> QED BY <2>2 DEF Lifecycle!LifecycleNext
<1> QED BY <1>1, <1>7, <1>8, <1>9, <1>10, <1>11, <1>12 DEF Turn, Handled, old

\* A tick only moves the retry timers.
LEMMA TickKeepsRequests ==
  ASSUME ChainInv, Tick, NEW r \in Requests
  PROVE  /\ PhaseOf(req'[r]) = PhaseOf(req[r])
         /\ ReissuesLeft(req'[r]) = ReissuesLeft(req[r])
         /\ req'[r].stage = req[r].stage
<1>1. req'[r] = [req[r] EXCEPT !.wait = IF @ > 0 THEN @ - 1 ELSE 0]
  BY DEF Tick
<1>2. req[r] \in RequestFields
  BY DEF ChainInv
<1>3. /\ req'[r].stage = req[r].stage /\ req'[r].meta = req[r].meta
      /\ req'[r].attempt = req[r].attempt
  BY <1>1, <1>2 DEF RequestFields
<1> QED BY <1>3 DEF PhaseOf, ReissuesLeft

\* The chain as a whole keeps the promise of RequestLifecycle (all process_*
\* methods of the five middlewares, and the retry timer).
THEOREM ChainImplementsLifecycle == ChainSpec => ImplementsLifecycle
<1>1. ChainInit => Lifecycle!LifecycleInit
  <2> SUFFICES ASSUME ChainInit PROVE Lifecycle!LifecycleInit
    OBVIOUS
  <2>1. \A r \in Requests : req[r].stage = "idle"
    BY DEF ChainInit, AtRest
  <2>2. \A r \in Requests : PhaseOf(req[r]) = "idle" /\ ReissuesLeft(req[r]) = 0
    BY <2>1 DEF PhaseOf, ReissuesLeft, Ended
  <2> QED BY <2>2 DEF Lifecycle!LifecycleInit
<1>2. ChainInv /\ [ChainNext]_chainVars => [Lifecycle!LifecycleNext]_(Lifecycle!lifecycleVars)
  <2> SUFFICES ASSUME ChainInv, [ChainNext]_chainVars
               PROVE  [Lifecycle!LifecycleNext]_(Lifecycle!lifecycleVars)
    OBVIOUS
  <2>1. CASE Tick
    BY <2>1, TickKeepsRequests DEF Lifecycle!lifecycleVars
  <2>2. CASE UNCHANGED chainVars
    BY <2>2 DEF chainVars, Lifecycle!lifecycleVars
  <2> QED BY <2>1, <2>2, ChainStep, OneRequestRefines
<1> QED BY <1>1, <1>2, ChainInvHolds, PTL
    DEF ChainSpec, ImplementsLifecycle, Lifecycle!LifecycleSpec

\* The distance of a request from its end.
Distance(request) == 6 * ReissuesLeft(request) + Rank(request.stage)

LEMMA DistanceTyped ==
  ASSUME NEW q \in RequestFields
  PROVE  Distance(q) \in 0..(6 * (MaxAttempts + 1) + 5)
<1>1. ReissuesLeft(q) \in 0..(MaxAttempts + 1)
  BY RetryAssumption DEF ReissuesLeft, RequestFields
<1>2. Rank(q.stage) \in 0..5
  BY DEF Rank
<1> QED BY <1>1, <1>2, RetryAssumption DEF Distance

LEMMA TurnIsCloser ==
  ASSUME NEW old \in RequestFields, NEW q \in RequestFields, Turn(old, q)
  PROVE  Distance(q) < Distance(old)
<1>1. ReissuesLeft(old) \in Nat /\ ReissuesLeft(q) \in Nat
  BY RetryAssumption DEF ReissuesLeft, RequestFields
<1>2. Rank(q.stage) \in 0..5 /\ Rank(old.stage) \in 0..5
  BY DEF Rank
<1>3. CASE Rank(q.stage) < Rank(old.stage) /\ ReissuesLeft(q) = ReissuesLeft(old)
  BY <1>1, <1>2, <1>3 DEF Distance
<1>4. CASE ReissuesLeft(q) = ReissuesLeft(old) - 1
  BY <1>1, <1>2, <1>4 DEF Distance
<1>5. CASE old.stage \in Handled /\ q.stage \in {"delivered", "dropped"}
  <2>1. ReissuesLeft(q) = 0 /\ Rank(q.stage) = 0 /\ Rank(old.stage) > 0
    BY <1>5 DEF ReissuesLeft, Rank, Ended, Handled, Paused
  <2> QED BY <1>1, <1>2, <2>1 DEF Distance
<1>6. CASE old.stage = "waiting" /\ q.stage = "queued" /\ ReissuesLeft(q) = ReissuesLeft(old)
  <2>1. Rank(q.stage) < Rank(old.stage)
    BY <1>6 DEF Rank
  <2> QED BY <1>3, <1>6, <2>1
<1> QED BY <1>3, <1>4, <1>5, <1>6 DEF Turn, Handled

\* A request under way never moves away from its end, and every step of its
\* own brings it closer: it makes at most 6 * (MaxAttempts + 1) + 5 of them,
\* whatever answers it gets.  What is left to fairness is that it makes them
\* (_schedule_retry, _handle_classifiable_response and every other handler).
THEOREM RequestsApproachTheirEnd ==
  ChainSpec =>
    [][\A r \in Requests :
         req[r].stage \notin Ended =>
           /\ Distance(req[r]) \in 0..(6 * (MaxAttempts + 1) + 5)
           /\ Distance(req'[r]) <= Distance(req[r])
           /\ Advances(r) => Distance(req'[r]) < Distance(req[r])]_chainVars
<1>1. ASSUME ChainInv, ChainInv', [ChainNext]_chainVars, NEW r \in Requests,
             req[r].stage \notin Ended
      PROVE  /\ Distance(req[r]) \in 0..(6 * (MaxAttempts + 1) + 5)
             /\ Distance(req'[r]) <= Distance(req[r])
             /\ Advances(r) => Distance(req'[r]) < Distance(req[r])
  <2>1. req[r] \in RequestFields /\ req'[r] \in RequestFields
    BY <1>1 DEF ChainInv
  <2>2. /\ Distance(req[r]) \in 0..(6 * (MaxAttempts + 1) + 5)
        /\ Distance(req[r]) \in Nat /\ Distance(req'[r]) \in Nat
    BY <2>1, DistanceTyped
  <2>3. ASSUME OneRequest(r) PROVE Distance(req'[r]) < Distance(req[r])
    <3>1. PICK q : /\ Turn(req[r], q) \/ Yielded(req[r], q)
                   /\ req' = [req EXCEPT ![r] = q]
      BY <2>3 DEF OneRequest
    <3>2. req'[r] = q
      BY <1>1, <3>1 DEF ChainInv
    <3>3. Turn(req[r], q)
      BY <1>1, <3>1 DEF Yielded
    <3> QED BY <2>1, <3>2, <3>3, TurnIsCloser
  <2>4. ASSUME NEW s \in Requests, s # r, OneRequest(s) PROVE req'[r] = req[r]
    BY <1>1, <2>4 DEF OneRequest, ChainInv
  <2>5. Tick => Distance(req'[r]) = Distance(req[r])
    BY <1>1, TickKeepsRequests DEF Distance
  <2>6. UNCHANGED chainVars => req'[r] = req[r]
    BY DEF chainVars
  <2>7. Advances(r) => OneRequest(r)
    BY <1>1, AdvanceStep
  <2>8. Distance(req'[r]) <= Distance(req[r])
    <3>1. \/ Distance(req'[r]) < Distance(req[r])
          \/ Distance(req'[r]) = Distance(req[r])
      BY <1>1, <2>3, <2>4, <2>5, <2>6, ChainStep
    <3> QED BY <2>2, <3>1
  <2> QED BY <2>2, <2>3, <2>7, <2>8
<1>2. ASSUME ChainInv, ChainInv', [ChainNext]_chainVars
      PROVE  [\A r \in Requests :
                req[r].stage \notin Ended =>
                  /\ Distance(req[r]) \in 0..(6 * (MaxAttempts + 1) + 5)
                  /\ Distance(req'[r]) <= Distance(req[r])
                  /\ Advances(r) => Distance(req'[r]) < Distance(req[r])]_chainVars
  BY <1>1, <1>2
<1> QED BY <1>2, ChainInvHolds, PTL DEF ChainSpec
=============================================================================
