--------------------------- MODULE CircuitBreaker ---------------------------
(***************************************************************************)
(* The per-domain circuit breaker (src/middlewares/circuit_breaker.py), a  *)
(* Scrapy downloader middleware.  Every handler of the middleware is a     *)
(* function from a domain's circuit to its next circuit, and an action     *)
(* that applies it; the actions are called here by the most general        *)
(* environment: any response or exception, of any request, at any moment.  *)
(* That covers answers that arrive late, to requests sent before the       *)
(* circuit changed state.  DownloaderChain calls the same actions from     *)
(* requests that go through the whole middleware chain.                    *)
(*                                                                         *)
(* Time.  The code compares clock() - opened_at with the circuit's         *)
(* cooldown, while it is open, and uses opened_at for nothing else.  So a  *)
(* circuit carries that difference, elapsed, which Tick advances while the *)
(* circuit is open and which stops at the cooldown, where the comparison   *)
(* no longer changes.  consecutive_failures is only compared with the      *)
(* threshold (and reported in logs), so it stops at FailureThreshold.      *)
(* Log lines, failure records and the alert of _open_circuit are output.   *)
(***************************************************************************)
EXTENDS ResponseClassifier, StrategyEngine

CONSTANTS
  FailureThreshold,  \* failure_threshold
  Cooldown,          \* cooldown_seconds
  SilentCooldown,    \* silent_block_cooldown_seconds
  Overrides,         \* strategy_overrides: pattern -> strategy, partial
  Multipliers        \* the strategy_backoff_multiplier values in use, or None

\* The checks of __init__ and SpiderConfig's bound on the multiplier.
ASSUME BreakerAssumption ==
  /\ FailureThreshold \in Nat \ {0}
  /\ Cooldown \in Nat \ {0}
  /\ SilentCooldown \in Nat \ {0}
  /\ DOMAIN Overrides \subseteq Patterns
  /\ \A p \in DOMAIN Overrides : Overrides[p] \in Strategies
  /\ Multipliers \subseteq (Nat \ {0}) \cup {None}

VARIABLE circuit   \* _circuits: domain -> _DomainCircuit

breakerVars == <<circuit, streak>>

CircuitStates == {"CLOSED", "OPEN", "HALF_OPEN"}

Circuits == [state                : CircuitStates,
             consecutive_failures : 0..FailureThreshold,
             elapsed              : Nat,
             cooldown_override    : Nat \cup {None}]

ClosedCircuit == [state                |-> "CLOSED",
                  consecutive_failures |-> 0,
                  elapsed              |-> 0,
                  cooldown_override    |-> None]

\* The classes of status the middlewares tell apart: FAILURE_STATUSES (5xx),
\* 429, the other CLASSIFIABLE_STATUSES (401, 403, 407), and the rest.
FailureStatuses == {"server-error"}
ClassifiableStatuses == {"too-many-requests", "denied"}

Responses ==
  { [status |-> s, pattern |-> None] : s \in {"ok"} \cup FailureStatuses } \cup
  { [status |-> s, pattern |-> Classify(x)] : s \in ClassifiableStatuses, x \in Shapes }

\* The part of request.meta the breaker and the engine read or write.
Metas == { m \in [antibot    : BOOLEAN,                   \* antibot_needed
                  provider   : Providers \cup {None},     \* antibot_provider
                  retried    : BOOLEAN,                   \* circuit_breaker_antibot_retried
                  multiplier : Multipliers] :             \* strategy_backoff_multiplier
             m.retried => m.antibot }

ProviderOf(meta) == IF meta.provider = None THEN "byparr" ELSE meta.provider
-----------------------------------------------------------------------------
(* The handlers, as functions of one circuit.                              *)

CooldownOf(c) ==
  IF c.cooldown_override = None THEN Cooldown ELSE c.cooldown_override

\* process_request raises IgnoreRequest.
Blocks(c) == c.state = "OPEN" /\ c.elapsed < CooldownOf(c)

\* Two wrong variants of Admitted: the circuit never becomes half-open; the
\* failures are forgotten before the trial has succeeded.
AdmittedStaysOpen(c) == c
AdmittedForgives(c) ==
  IF c.state = "OPEN"
    THEN [c EXCEPT !.state = "HALF_OPEN", !.consecutive_failures = 0] ELSE c

\* process_request lets the request through: the first one after the
\* cooldown makes an open circuit half-open, later ones change nothing.
Admitted(c) == [c EXCEPT !.state = IF @ = "OPEN" THEN "HALF_OPEN" ELSE @]

Counted(c) ==
  [c EXCEPT !.consecutive_failures = IF @ < FailureThreshold THEN @ + 1 ELSE @]

\* _open_circuit: opened_at is the present; the plain cooldown is stored as None.
Opened(c, cooldown) ==
  [c EXCEPT !.state = "OPEN",
            !.elapsed = 0,
            !.cooldown_override = IF cooldown # Cooldown THEN cooldown ELSE None]

\* _record_failure.
Failed(c, multiplier) ==
  IF c.state = "HALF_OPEN" \/ c.consecutive_failures + 1 >= FailureThreshold
    THEN Opened(Counted(c), AdjustedCooldown(Cooldown, multiplier))
    ELSE Counted(c)

StrategyOf(resp) == StrategyFor(resp.pattern, Overrides)

\* _handle_classifiable_response returns a new request instead of resp.
EscalatesRequest(resp, meta) ==
  /\ resp.status \in ClassifiableStatuses
  /\ StrategyOf(resp) = "try-antibot-provider"
  /\ ~meta.retried

\* _handle_classifiable_response, on the circuit.
Rejected(c, resp, meta) ==
  CASE StrategyOf(resp) = "immediate-long-backoff" ->
         Opened(Counted(c), AdjustedCooldown(SilentCooldown, meta.multiplier))
    [] StrategyOf(resp) = "try-antibot-provider" ->
         IF meta.retried THEN Failed(c, meta.multiplier) ELSE c
    [] StrategyOf(resp) = "standard" ->
         Failed(c, meta.multiplier)

\* A wrong variant: a success does not reset the cooldown of a silent block.
AnsweredKeepsCooldown(c, resp, meta) ==
  CASE resp.status \in FailureStatuses      -> Failed(c, meta.multiplier)
    [] resp.status \in ClassifiableStatuses -> Rejected(c, resp, meta)
    [] OTHER -> [ClosedCircuit EXCEPT !.cooldown_override = c.cooldown_override]

\* process_response, on the circuit.  _record_success forgets everything.
Answered(c, resp, meta) ==
  CASE resp.status \in FailureStatuses      -> Failed(c, meta.multiplier)
    [] resp.status \in ClassifiableStatuses -> Rejected(c, resp, meta)
    [] OTHER                                -> ClosedCircuit

\* A wrong variant: the copy is not marked as escalated once.
EscalatedMetaUnmarked(d, meta) == [meta EXCEPT !.antibot = TRUE]

\* The meta of the request _handle_classifiable_response returns.
EscalatedMeta(d, meta) ==
  [meta EXCEPT !.antibot  = TRUE,
               !.retried  = TRUE,
               !.provider = IF EnactsSwitch(d, ProviderOf(meta))
                              THEN NextInRotation(ProviderOf(meta)) ELSE @]
-----------------------------------------------------------------------------
(* The handlers, as actions.                                               *)

ProcessRequest(d) ==
  /\ ~Blocks(circuit[d])
  /\ circuit' = [circuit EXCEPT ![d] = Admitted(@)]
  /\ UNCHANGED streak

RejectRequest(d) ==
  /\ Blocks(circuit[d])
  /\ UNCHANGED breakerVars

ProcessResponse(d, resp, meta) ==
  /\ circuit' = [circuit EXCEPT ![d] = Answered(@, resp, meta)]
  /\ IF EscalatesRequest(resp, meta)
       THEN DecideSwitchProvider(d, ProviderOf(meta))
       ELSE UNCHANGED streak

ProcessException(d, meta) ==
  /\ circuit' = [circuit EXCEPT ![d] = Failed(@, meta.multiplier)]
  /\ UNCHANGED streak

\* One unit of time on every circuit: only a blocking one reads the clock.
Aged(c) == [c EXCEPT !.elapsed = IF Blocks(c) THEN @ + 1 ELSE @]

BreakerTick ==
  /\ circuit' = [d \in Domains |-> Aged(circuit[d])]
  /\ UNCHANGED streak
-----------------------------------------------------------------------------
BreakerInit ==
  /\ circuit = [d \in Domains |-> ClosedCircuit]
  /\ EngineInit

BreakerNext ==
  \/ \E d \in Domains : ProcessRequest(d) \/ RejectRequest(d)
  \/ \E d \in Domains, resp \in Responses, meta \in Metas : ProcessResponse(d, resp, meta)
  \/ \E d \in Domains, meta \in Metas : ProcessException(d, meta)
  \/ BreakerTick

BreakerSpec == BreakerInit /\ [][BreakerNext]_breakerVars

\* Time passes, and the crawl keeps sending requests to every domain.
FairBreakerSpec ==
  /\ BreakerSpec
  /\ WF_breakerVars(BreakerTick)
  /\ \A d \in Domains : WF_breakerVars(ProcessRequest(d))
-----------------------------------------------------------------------------
\* Type correctness of the circuits and the streaks.
BreakerTypeOK ==
  /\ circuit \in [Domains -> Circuits]
  /\ EngineTypeOK

\* What a circuit's fields say of each other, whatever order the handlers
\* ran in: a closed circuit is below the threshold and carries no stale
\* cooldown; an open or half-open one has a failure to show for it; a
\* half-open one has waited out its whole cooldown; and the cooldown in force
\* is one of the two configured ones, lengthened at most MaxMultiplier times.
\* (_record_failure, _open_circuit, _record_success, process_request.)
CircuitConsistent(c) ==
  /\ c.state = "CLOSED" =>
       c.consecutive_failures < FailureThreshold /\ c.cooldown_override = None
  /\ c.state # "CLOSED" => c.consecutive_failures > 0
  /\ c.state = "HALF_OPEN" => c.elapsed >= CooldownOf(c)
  /\ \E base \in {Cooldown, SilentCooldown} :
       base <= CooldownOf(c) /\ CooldownOf(c) <= base * MaxMultiplier

CircuitsConsistent == \A d \in Domains : CircuitConsistent(circuit[d])

\* Failures are never partly forgiven: the count of a domain only ever goes
\* down when a success closes its circuit and clears every field with it.
\* (_record_success is the only place that lowers it.)
ForgivenOnlyWhole ==
  [][\A d \in Domains :
       circuit'[d].consecutive_failures < circuit[d].consecutive_failures
         => circuit'[d] = ClosedCircuit]_breakerVars

\* A proposal is made as soon as the streak is long enough and uses it up, so
\* no domain is ever left with a streak at or above the threshold.
\* (decide_switch_provider: "After a proposal fires ... the streak resets".)
StreakBelowThreshold == \A d \in Domains : streak[d].count < SwitchAfter

\* A failure of domain d is being recorded.
FailureRecorded(d) ==
  \E m \in Multipliers :
    circuit'[d] \in { Failed(circuit[d], m),
                      Opened(Counted(circuit[d]), AdjustedCooldown(SilentCooldown, m)) }

\* If from some point on no failure of d is recorded, then d is not blocked
\* for ever: its circuit leaves OPEN by the passing of time and one request.
\* (process_request's half-open transition.)
RecoversWhenQuiet ==
  \A d \in Domains :
    <>[][~FailureRecorded(d)]_breakerVars => <>[](circuit[d].state # "OPEN")
=============================================================================
