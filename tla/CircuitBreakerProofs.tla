------------------------ MODULE CircuitBreakerProofs ------------------------
(***************************************************************************)
(* Proofs about CircuitBreaker, for every set of domains, threshold,       *)
(* cooldown, override map and engine setting the assumptions allow.        *)
(*                                                                         *)
(* The handlers are functions of one circuit, so the work is in lemmas     *)
(* about one circuit (GoodCircuit is preserved by each of them); the       *)
(* theorems lift those to the function circuit, action by action.          *)
(***************************************************************************)
EXTENDS CircuitBreaker, TLAPS

\* A circuit that is well typed and consistent.
GoodCircuit(c) == c \in Circuits /\ CircuitConsistent(c)

BaseCooldowns == {Cooldown, SilentCooldown}

\* A cooldown the configuration allows.
IsCooldown(n) ==
  /\ n \in Nat
  /\ \E base \in BaseCooldowns : base <= n /\ n <= base * MaxMultiplier

\* The engine lengthens a base cooldown at least once and at most
\* MaxMultiplier times (decide_adjust_backoff).
LEMMA AdjustedIsCooldown ==
  ASSUME NEW base \in BaseCooldowns, NEW m \in Multipliers
  PROVE  IsCooldown(AdjustedCooldown(base, m))
<1> DEFINE factor == IF m < MaxMultiplier THEN m ELSE MaxMultiplier
<1>1. base \in Nat \ {0} /\ MaxMultiplier \in Nat \ {0, 1}
  BY EngineAssumption, BreakerAssumption DEF BaseCooldowns
<1>2. CASE m = None \/ ~EngineEnabled \/ BackoffMode # "enact"
  <2>1. AdjustedCooldown(base, m) = base
    BY <1>2 DEF AdjustedCooldown
  <2>2. base <= base * MaxMultiplier
    BY <1>1
  <2> QED BY <1>1, <2>1, <2>2 DEF IsCooldown
<1>3. CASE ~(m = None \/ ~EngineEnabled \/ BackoffMode # "enact")
  <2>1. m \in Nat \ {0}
    BY <1>3, BreakerAssumption
  <2>2. factor \in Nat \ {0} /\ factor <= MaxMultiplier
    BY <1>1, <2>1
  <2>3. AdjustedCooldown(base, m) = base * factor
    BY <1>3 DEF AdjustedCooldown
  <2> HIDE DEF factor
  <2>4. base <= base * factor /\ base * factor <= base * MaxMultiplier
    BY <1>1, <2>2
  <2>5. base * factor \in Nat
    BY <1>1, <2>2
  <2> QED BY <2>3, <2>4, <2>5 DEF IsCooldown
<1> QED BY <1>2, <1>3

\* Counting a failure keeps the types and leaves a failure on record.
LEMMA CountedCircuit ==
  ASSUME NEW c \in Circuits
  PROVE  /\ Counted(c) \in Circuits
         /\ Counted(c).consecutive_failures > 0
         /\ c.consecutive_failures + 1 < FailureThreshold =>
              Counted(c).consecutive_failures = c.consecutive_failures + 1
         /\ Counted(c).state = c.state
         /\ Counted(c).elapsed = c.elapsed
         /\ Counted(c).cooldown_override = c.cooldown_override
BY BreakerAssumption DEF Counted, Circuits

\* Opening a circuit that has a failure on record gives a good circuit.
LEMMA OpenedIsGood ==
  ASSUME NEW c \in Circuits, c.consecutive_failures > 0,
         NEW n, IsCooldown(n)
  PROVE  /\ GoodCircuit(Opened(c, n))
         /\ Opened(c, n).state = "OPEN"
         /\ Opened(c, n).consecutive_failures = c.consecutive_failures
<1>1. Opened(c, n) \in Circuits
  BY DEF Opened, Circuits, CircuitStates, IsCooldown
<1>2. CooldownOf(Opened(c, n)) = n
  BY EngineAssumption DEF Opened, Circuits, CooldownOf, IsCooldown
<1>3. Opened(c, n).state = "OPEN" /\ Opened(c, n).consecutive_failures = c.consecutive_failures
  BY DEF Opened, Circuits
<1> QED BY <1>1, <1>2, <1>3 DEF GoodCircuit, CircuitConsistent, IsCooldown, BaseCooldowns

\* _record_failure preserves goodness and never lowers the count.
LEMMA FailedIsGood ==
  ASSUME NEW c, GoodCircuit(c), NEW m \in Multipliers
  PROVE  /\ GoodCircuit(Failed(c, m))
         /\ Failed(c, m).consecutive_failures >= c.consecutive_failures
<1>1. c \in Circuits /\ CircuitConsistent(c)
  BY DEF GoodCircuit
<1>2. Counted(c).consecutive_failures >= c.consecutive_failures
  BY <1>1, BreakerAssumption DEF Counted, Circuits
<1>3. CASE c.state = "HALF_OPEN" \/ c.consecutive_failures + 1 >= FailureThreshold
  <2>1. Failed(c, m) = Opened(Counted(c), AdjustedCooldown(Cooldown, m))
    BY <1>3 DEF Failed
  <2>2. IsCooldown(AdjustedCooldown(Cooldown, m))
    BY AdjustedIsCooldown DEF BaseCooldowns
  <2> QED BY <1>1, <1>2, <2>1, <2>2, CountedCircuit, OpenedIsGood
<1>4. CASE ~(c.state = "HALF_OPEN" \/ c.consecutive_failures + 1 >= FailureThreshold)
  <2>1. Failed(c, m) = Counted(c)
    BY <1>4 DEF Failed
  <2>2. c.consecutive_failures + 1 < FailureThreshold
    BY <1>1, <1>4, BreakerAssumption DEF Circuits
  <2>3. /\ Counted(c) \in Circuits
        /\ Counted(c).consecutive_failures > 0
        /\ Counted(c).consecutive_failures < FailureThreshold
        /\ Counted(c).state = c.state
        /\ Counted(c).elapsed = c.elapsed
        /\ Counted(c).cooldown_override = c.cooldown_override
    BY <1>1, <2>2, CountedCircuit
  <2>4. CooldownOf(Counted(c)) = CooldownOf(c)
    BY <2>3 DEF CooldownOf
  <2>5. CircuitConsistent(Counted(c))
    BY <1>1, <2>3, <2>4 DEF CircuitConsistent
  <2> QED BY <1>2, <2>1, <2>3, <2>5 DEF GoodCircuit
<1> QED BY <1>3, <1>4

\* The circuit _record_success leaves behind is good.
LEMMA ClosedIsGood == GoodCircuit(ClosedCircuit)
<1>1. ClosedCircuit \in Circuits
  BY BreakerAssumption DEF ClosedCircuit, Circuits, CircuitStates
<1>2. CooldownOf(ClosedCircuit) = Cooldown
  BY DEF ClosedCircuit, CooldownOf
<1>3. Cooldown <= Cooldown * MaxMultiplier
  BY EngineAssumption, BreakerAssumption
<1> QED BY <1>1, <1>2, <1>3, BreakerAssumption
        DEF GoodCircuit, CircuitConsistent, ClosedCircuit

\* The half-open transition and the passing of time preserve goodness and
\* change no count.
LEMMA AdmittedIsGood ==
  ASSUME NEW c, GoodCircuit(c), ~Blocks(c)
  PROVE  /\ GoodCircuit(Admitted(c))
         /\ Admitted(c).consecutive_failures = c.consecutive_failures
<1>1. c \in Circuits /\ CircuitConsistent(c)
  BY DEF GoodCircuit
<1>2. /\ Admitted(c) \in Circuits
      /\ Admitted(c).state = IF c.state = "OPEN" THEN "HALF_OPEN" ELSE c.state
      /\ Admitted(c).consecutive_failures = c.consecutive_failures
      /\ Admitted(c).elapsed = c.elapsed
      /\ Admitted(c).cooldown_override = c.cooldown_override
  BY <1>1 DEF Admitted, Circuits, CircuitStates
<1>3. CooldownOf(Admitted(c)) = CooldownOf(c)
  BY <1>2 DEF CooldownOf
<1>4. CooldownOf(c) \in Nat
  BY <1>1, BreakerAssumption DEF CooldownOf, Circuits
<1>5. c.state = "OPEN" => c.elapsed >= CooldownOf(c)
  BY <1>1, <1>4 DEF Blocks, Circuits
<1>6. CircuitConsistent(Admitted(c))
  BY <1>1, <1>2, <1>3, <1>5 DEF CircuitConsistent
<1> QED BY <1>2, <1>6 DEF GoodCircuit

LEMMA AgedIsGood ==
  ASSUME NEW c, GoodCircuit(c)
  PROVE  /\ GoodCircuit(Aged(c))
         /\ Aged(c).consecutive_failures = c.consecutive_failures
<1>1. c \in Circuits /\ CircuitConsistent(c)
  BY DEF GoodCircuit
<1>2. /\ Aged(c) \in Circuits
      /\ Aged(c).state = c.state
      /\ Aged(c).consecutive_failures = c.consecutive_failures
      /\ Aged(c).elapsed >= c.elapsed
      /\ Aged(c).cooldown_override = c.cooldown_override
  BY <1>1 DEF Aged, Circuits
<1>3. CooldownOf(Aged(c)) = CooldownOf(c) /\ CooldownOf(c) \in Nat
  BY <1>1, <1>2, BreakerAssumption DEF CooldownOf, Circuits
<1>4. CircuitConsistent(Aged(c))
  BY <1>1, <1>2, <1>3 DEF CircuitConsistent, Circuits
<1> QED BY <1>2, <1>4 DEF GoodCircuit
-----------------------------------------------------------------------------
(* The environment's inputs.                                               *)

LEMMA MetaTypes ==
  ASSUME NEW meta \in Metas
  PROVE  /\ meta.multiplier \in Multipliers
         /\ meta.retried \in BOOLEAN
         /\ ProviderOf(meta) \in Providers
BY DEF Metas, ProviderOf, Providers

LEMMA ResponseTypes ==
  ASSUME NEW resp \in Responses
  PROVE  resp.status \in ClassifiableStatuses => StrategyOf(resp) \in Strategies
<1> SUFFICES ASSUME resp.status \in ClassifiableStatuses
             PROVE  StrategyOf(resp) \in Strategies
  OBVIOUS
<1>1. PICK x \in Shapes : resp.pattern = Classify(x)
  BY DEF Responses, ClassifiableStatuses, FailureStatuses
<1>2. resp.pattern \in Patterns
  BY <1>1 DEF Shapes, Classify, Patterns
<1>3. DefaultStrategy(resp.pattern) \in Strategies
  BY <1>2 DEF Patterns, DefaultStrategy, Strategies
<1> QED BY <1>3, BreakerAssumption DEF StrategyOf, StrategyFor

\* What a response does to a good circuit: it stays good, and its count goes
\* down only by being cleared with everything else.
LEMMA AnsweredIsGood ==
  ASSUME NEW c, GoodCircuit(c), NEW resp \in Responses, NEW meta \in Metas
  PROVE  /\ GoodCircuit(Answered(c, resp, meta))
         /\ \/ Answered(c, resp, meta) = ClosedCircuit
            \/ Answered(c, resp, meta).consecutive_failures >= c.consecutive_failures
<1>1. meta.multiplier \in Multipliers /\ meta.retried \in BOOLEAN
  BY MetaTypes
<1>2. c \in Circuits
  BY DEF GoodCircuit
<1>3. /\ GoodCircuit(Failed(c, meta.multiplier))
      /\ Failed(c, meta.multiplier).consecutive_failures >= c.consecutive_failures
  BY <1>1, FailedIsGood
<1>4. CASE resp.status \in FailureStatuses
  <2>1. Answered(c, resp, meta) = Failed(c, meta.multiplier)
    BY <1>4 DEF Answered, FailureStatuses, ClassifiableStatuses
  <2> QED BY <1>3, <2>1
<1>5. CASE resp.status \in ClassifiableStatuses
  <2>1. Answered(c, resp, meta) = Rejected(c, resp, meta)
    BY <1>5 DEF Answered, FailureStatuses, ClassifiableStatuses
  <2>2. CASE StrategyOf(resp) = "immediate-long-backoff"
    <3> DEFINE n == AdjustedCooldown(SilentCooldown, meta.multiplier)
    <3>1. Rejected(c, resp, meta) = Opened(Counted(c), n)
      BY <2>2 DEF Rejected
    <3>2. IsCooldown(n)
      BY <1>1, AdjustedIsCooldown DEF BaseCooldowns
    <3>3. Counted(c) \in Circuits /\ Counted(c).consecutive_failures > 0
      BY <1>2, CountedCircuit
    <3>4. Counted(c).consecutive_failures >= c.consecutive_failures
      BY <1>2, BreakerAssumption DEF Counted, Circuits
    <3> HIDE DEF n
    <3> QED BY <2>1, <3>1, <3>2, <3>3, <3>4, OpenedIsGood
  <2>3. CASE StrategyOf(resp) = "try-antibot-provider"
    <3>1. Rejected(c, resp, meta) = IF meta.retried THEN Failed(c, meta.multiplier) ELSE c
      BY <2>3 DEF Rejected
    <3>2. c.consecutive_failures >= c.consecutive_failures
      BY <1>2, BreakerAssumption DEF Circuits
    <3> QED BY <1>3, <2>1, <3>1, <3>2
  <2>4. CASE StrategyOf(resp) = "standard"
    <3>1. Rejected(c, resp, meta) = Failed(c, meta.multiplier)
      BY <2>4 DEF Rejected
    <3> QED BY <1>3, <2>1, <3>1
  <2> QED BY <1>5, <2>2, <2>3, <2>4, ResponseTypes DEF Strategies
<1>6. CASE resp.status \notin FailureStatuses \cup ClassifiableStatuses
  <2>1. Answered(c, resp, meta) = ClosedCircuit
    BY <1>6 DEF Answered
  <2> QED BY <2>1, ClosedIsGood
<1> QED BY <1>4, <1>5, <1>6

\* One more challenge on a known provider keeps a streak below the threshold.
LEMMA StreakStep ==
  ASSUME EngineTypeOK, StreakBelowThreshold,
         NEW d \in Domains, NEW p \in Providers,
         DecideSwitchProvider(d, p)
  PROVE  EngineTypeOK' /\ StreakBelowThreshold'
<1>1. streak[d].count \in Nat /\ StreakWith(d, p) \in Nat
  BY DEF EngineTypeOK, StreakWith
<1>2. NextInRotation(p) \in Providers
  BY DEF NextInRotation, Providers
<1>3. CASE EngineEnabled
  <2> DEFINE new == [provider |-> IF EnactsSwitch(d, p) THEN NextInRotation(p) ELSE p,
                     count    |-> IF ProposesSwitch(d, p) THEN 0 ELSE StreakWith(d, p)]
  <2>1. streak' = [streak EXCEPT ![d] = new]
    BY <1>3 DEF DecideSwitchProvider
  <2>2. new \in [provider : Providers \cup {None}, count : Nat]
    BY <1>1, <1>2
  <2>3. new.count < SwitchAfter
    BY <1>1, <1>3, EngineAssumption DEF ProposesSwitch
  <2> HIDE DEF new
  <2> QED BY <2>1, <2>2, <2>3 DEF EngineTypeOK, StreakBelowThreshold
<1>4. CASE ~EngineEnabled
  BY <1>4 DEF DecideSwitchProvider, EngineTypeOK, StreakBelowThreshold
<1> QED BY <1>3, <1>4
-----------------------------------------------------------------------------
(* The inductive invariant.                                                *)

\* Types and consistency need each other: the bound of a circuit's cooldown
\* keeps its fields in their types, and consistency is about typed fields.
BreakerInv ==
  /\ BreakerTypeOK
  /\ CircuitsConsistent
  /\ StreakBelowThreshold

LEMMA InvSplit ==
  BreakerInv <=> /\ circuit \in [Domains -> Circuits]
                 /\ \A d \in Domains : GoodCircuit(circuit[d])
                 /\ EngineTypeOK
                 /\ StreakBelowThreshold
BY DEF BreakerInv, BreakerTypeOK, CircuitsConsistent, GoodCircuit

LEMMA InvInit == BreakerInit => BreakerInv
<1> SUFFICES ASSUME BreakerInit PROVE BreakerInv
  OBVIOUS
<1>1. circuit \in [Domains -> Circuits] /\ \A d \in Domains : GoodCircuit(circuit[d])
  BY ClosedIsGood DEF BreakerInit, GoodCircuit
<1>2. EngineTypeOK /\ StreakBelowThreshold
  BY EngineAssumption DEF BreakerInit, EngineInit, EngineTypeOK, NoStreak, StreakBelowThreshold
<1> QED BY <1>1, <1>2, InvSplit

\* A step that makes circuit[d] good and leaves the others keeps them all good.
LEMMA OneCircuit ==
  ASSUME BreakerInv, NEW d \in Domains, NEW c, GoodCircuit(c),
         circuit' = [circuit EXCEPT ![d] = c]
  PROVE  circuit' \in [Domains -> Circuits] /\ \A e \in Domains : GoodCircuit(circuit'[e])
BY InvSplit DEF GoodCircuit

\* The count of a domain that changes goes up, or the circuit is cleared.
Forgives ==
  \A d \in Domains :
    circuit'[d].consecutive_failures < circuit[d].consecutive_failures
      => circuit'[d] = ClosedCircuit

\* The step of the induction, with the action property it yields.
LEMMA InvNext == BreakerInv /\ [BreakerNext]_breakerVars => BreakerInv' /\ Forgives
<1> SUFFICES ASSUME BreakerInv, [BreakerNext]_breakerVars
             PROVE  BreakerInv' /\ Forgives
  OBVIOUS
<1>0. /\ circuit \in [Domains -> Circuits]
      /\ \A d \in Domains : GoodCircuit(circuit[d])
      /\ EngineTypeOK /\ StreakBelowThreshold
      /\ \A d \in Domains : circuit[d].consecutive_failures \in Nat
  BY InvSplit, BreakerAssumption DEF Circuits
\* It is enough to show the circuits good, the counts not lowered and the
\* streaks kept.
<1>g. ASSUME circuit' \in [Domains -> Circuits],
             \A d \in Domains : GoodCircuit(circuit'[d]),
             \A d \in Domains : \/ circuit'[d] = ClosedCircuit
                                \/ circuit'[d].consecutive_failures
                                     >= circuit[d].consecutive_failures,
             EngineTypeOK', StreakBelowThreshold'
      PROVE  BreakerInv' /\ Forgives
  <2>1. BreakerInv'
    BY <1>g DEF BreakerInv, BreakerTypeOK, CircuitsConsistent, GoodCircuit
  <2>2. \A d \in Domains : circuit'[d].consecutive_failures \in Nat
    BY <1>g, BreakerAssumption DEF Circuits
  <2>3. Forgives
    BY <1>0, <1>g, <2>2 DEF Forgives
  <2> QED BY <2>1, <2>3
<1>s. ASSUME UNCHANGED streak
      PROVE  EngineTypeOK' /\ StreakBelowThreshold'
  BY <1>0, <1>s DEF EngineTypeOK, StreakBelowThreshold
<1>1. ASSUME NEW d \in Domains, ProcessRequest(d)
      PROVE  BreakerInv' /\ Forgives
  <2>1. circuit' = [circuit EXCEPT ![d] = Admitted(circuit[d])] /\ ~Blocks(circuit[d])
    BY <1>1 DEF ProcessRequest
  <2>2. /\ GoodCircuit(Admitted(circuit[d]))
        /\ Admitted(circuit[d]).consecutive_failures = circuit[d].consecutive_failures
    BY <1>0, <2>1, AdmittedIsGood
  <2>3. circuit' \in [Domains -> Circuits] /\ \A e \in Domains : GoodCircuit(circuit'[e])
    BY <2>1, <2>2, OneCircuit
  <2>4. \A e \in Domains : circuit'[e].consecutive_failures >= circuit[e].consecutive_failures
    BY <1>0, <2>1, <2>2
  <2>5. UNCHANGED streak
    BY <1>1 DEF ProcessRequest
  <2> QED BY <1>g, <1>s, <2>3, <2>4, <2>5
<1>2. ASSUME NEW d \in Domains, RejectRequest(d)
      PROVE  BreakerInv' /\ Forgives
  <2>1. UNCHANGED <<circuit, streak>>
    BY <1>2 DEF RejectRequest, breakerVars
  <2> QED BY <1>0, <1>g, <1>s, <2>1
<1>3. ASSUME NEW d \in Domains, NEW resp \in Responses, NEW meta \in Metas,
             ProcessResponse(d, resp, meta)
      PROVE  BreakerInv' /\ Forgives
  <2> DEFINE c == Answered(circuit[d], resp, meta)
  <2>1. circuit' = [circuit EXCEPT ![d] = c]
    BY <1>3 DEF ProcessResponse
  <2>2. /\ GoodCircuit(c)
        /\ c = ClosedCircuit \/ c.consecutive_failures >= circuit[d].consecutive_failures
    BY <1>0, AnsweredIsGood
  <2> HIDE DEF c
  <2>3. circuit' \in [Domains -> Circuits] /\ \A e \in Domains : GoodCircuit(circuit'[e])
    BY <2>1, <2>2, OneCircuit
  <2>4. \A e \in Domains : \/ circuit'[e] = ClosedCircuit
                           \/ circuit'[e].consecutive_failures
                                >= circuit[e].consecutive_failures
    BY <1>0, <2>1, <2>2
  <2>5. EngineTypeOK' /\ StreakBelowThreshold'
    <3>1. CASE EscalatesRequest(resp, meta)
      BY <1>0, <1>3, <3>1, MetaTypes, StreakStep DEF ProcessResponse
    <3>2. CASE ~EscalatesRequest(resp, meta)
      BY <1>3, <1>s, <3>2 DEF ProcessResponse
    <3> QED BY <3>1, <3>2
  <2> QED BY <1>g, <2>3, <2>4, <2>5
<1>4. ASSUME NEW d \in Domains, NEW meta \in Metas, ProcessException(d, meta)
      PROVE  BreakerInv' /\ Forgives
  <2> DEFINE c == Failed(circuit[d], meta.multiplier)
  <2>1. circuit' = [circuit EXCEPT ![d] = c]
    BY <1>4 DEF ProcessException
  <2>2. GoodCircuit(c) /\ c.consecutive_failures >= circuit[d].consecutive_failures
    BY <1>0, MetaTypes, FailedIsGood
  <2> HIDE DEF c
  <2>3. circuit' \in [Domains -> Circuits] /\ \A e \in Domains : GoodCircuit(circuit'[e])
    BY <2>1, <2>2, OneCircuit
  <2>4. \A e \in Domains : circuit'[e].consecutive_failures >= circuit[e].consecutive_failures
    BY <1>0, <2>1, <2>2
  <2>5. UNCHANGED streak
    BY <1>4 DEF ProcessException
  <2> QED BY <1>g, <1>s, <2>3, <2>4, <2>5
<1>5. ASSUME BreakerTick
      PROVE  BreakerInv' /\ Forgives
  <2>1. circuit' = [d \in Domains |-> Aged(circuit[d])] /\ UNCHANGED streak
    BY <1>5 DEF BreakerTick
  <2>2. \A d \in Domains : /\ GoodCircuit(Aged(circuit[d]))
                           /\ Aged(circuit[d]).consecutive_failures
                                = circuit[d].consecutive_failures
    BY <1>0, AgedIsGood
  <2>3. circuit' \in [Domains -> Circuits] /\ \A d \in Domains : GoodCircuit(circuit'[d])
    BY <2>1, <2>2 DEF GoodCircuit
  <2>4. \A d \in Domains : circuit'[d].consecutive_failures >= circuit[d].consecutive_failures
    BY <1>0, <2>1, <2>2
  <2> QED BY <1>g, <1>s, <2>1, <2>3, <2>4
<1>6. CASE UNCHANGED breakerVars
  <2>1. UNCHANGED <<circuit, streak>>
    BY <1>6 DEF breakerVars
  <2> QED BY <1>0, <1>g, <1>s, <2>1
<1> QED BY <1>1, <1>2, <1>3, <1>4, <1>5, <1>6 DEF BreakerNext

LEMMA InvHolds == BreakerSpec => []BreakerInv
<1>1. BreakerInv /\ [BreakerNext]_breakerVars => BreakerInv'
  BY InvNext
<1> QED BY InvInit, <1>1, PTL DEF BreakerSpec
-----------------------------------------------------------------------------
\* The breaker's state is always well typed, whatever responses and
\* exceptions arrive in whatever order (circuit_breaker.py, strategy_engine.py).
THEOREM BreakerTypeCorrect == BreakerSpec => []BreakerTypeOK
<1>1. BreakerInv => BreakerTypeOK
  BY DEF BreakerInv
<1> QED BY InvHolds, <1>1, PTL

\* Circuits stay consistent: no closed circuit at the threshold or with a
\* stale cooldown, none open or half-open without a recorded failure, none
\* half-open before its cooldown is over, none with a cooldown outside the
\* configured range (_record_failure, _open_circuit, _record_success).
THEOREM CircuitsStayConsistent == BreakerSpec => []CircuitsConsistent
<1>1. BreakerInv => CircuitsConsistent
  BY DEF BreakerInv
<1> QED BY InvHolds, <1>1, PTL

\* No streak of challenges is left at or above the number that makes the
\* engine propose a switch (decide_switch_provider).
THEOREM StreaksStayBelow == BreakerSpec => []StreakBelowThreshold
<1>1. BreakerInv => StreakBelowThreshold
  BY DEF BreakerInv
<1> QED BY InvHolds, <1>1, PTL

\* The count of failures of a domain is never lowered but by a success that
\* clears the whole circuit (_record_success).
THEOREM NoPartialForgiveness == BreakerSpec => ForgivenOnlyWhole
<1>1. BreakerInv /\ [BreakerNext]_breakerVars =>
        [\A d \in Domains :
           circuit'[d].consecutive_failures < circuit[d].consecutive_failures
             => circuit'[d] = ClosedCircuit]_breakerVars
  BY InvNext DEF Forgives
<1> QED BY InvHolds, <1>1, PTL DEF BreakerSpec, ForgivenOnlyWhole
=============================================================================
