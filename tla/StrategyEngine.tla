--------------------------- MODULE StrategyEngine ---------------------------
(***************************************************************************)
(* The strategy engine (src/strategy/strategy_engine.py), one instance of  *)
(* which the circuit breaker owns and consults at two points: when it      *)
(* re-issues a challenged request (decide_switch_provider) and when it     *)
(* opens a circuit (decide_adjust_backoff).                                *)
(*                                                                         *)
(* Its only state is the streak of challenges seen per domain on one       *)
(* provider.  The decision log it appends to is output and is left out.    *)
(***************************************************************************)
EXTENDS Naturals

CONSTANTS
  Domains,        \* the domains (netlocs) the crawl talks to
  None,           \* Python's None
  EngineEnabled,  \* StrategyEngineConfig.engine_enabled
  SwitchMode,     \* switch_provider_mode
  BackoffMode,    \* adjust_backoff_mode
  MaxMultiplier,  \* adjust_backoff_max_multiplier
  SwitchAfter     \* switch_provider_after_n_challenges

Modes == {"observe-only", "enact"}

ASSUME EngineAssumption ==
  /\ EngineEnabled \in BOOLEAN
  /\ SwitchMode \in Modes
  /\ BackoffMode \in Modes
  /\ MaxMultiplier \in Nat \ {0, 1}
  /\ SwitchAfter \in Nat \ {0}
  /\ None \notin Nat
  /\ None \notin {"byparr", "camoufox", "patchright"}

VARIABLE streak   \* _challenge_streaks: domain -> (provider, count)

Providers == {"byparr", "camoufox", "patchright"}

\* A wrong variant: the rotation names a provider that does not exist.
NextInRotationUnknown(p) == IF p = "byparr" THEN "camoufox" ELSE "playwright"

\* PROVIDER_ROTATION and _next_in_rotation.
NextInRotation(p) ==
  CASE p = "byparr"     -> "camoufox"
    [] p = "camoufox"   -> "patchright"
    [] p = "patchright" -> "byparr"

\* A domain with no entry yet: the first challenge makes its count 1.
NoStreak == [provider |-> None, count |-> 0]

EngineInit == streak = [d \in Domains |-> NoStreak]

EngineTypeOK ==
  streak \in [Domains -> [provider : Providers \cup {None}, count : Nat]]

\* The length of domain d's streak once one more challenge on p is counted.
StreakWith(d, p) ==
  IF streak[d].provider = p THEN streak[d].count + 1 ELSE 1

\* decide_switch_provider returns a decision (and logs it) in this case ...
ProposesSwitch(d, p) == EngineEnabled /\ StreakWith(d, p) >= SwitchAfter

\* ... which the breaker applies in this one.
EnactsSwitch(d, p) == ProposesSwitch(d, p) /\ SwitchMode = "enact"

\* A wrong variant: a proposal does not use up the streak.
DecideSwitchProviderNoReset(d, p) ==
  IF EngineEnabled
    THEN streak' = [streak EXCEPT ![d] = [provider |-> p, count |-> StreakWith(d, p)]]
    ELSE UNCHANGED streak

\* decide_switch_provider: the whole call, for a challenge on provider p.
DecideSwitchProvider(d, p) ==
  IF EngineEnabled
    THEN streak' = [streak EXCEPT ![d] =
           [provider |-> IF EnactsSwitch(d, p) THEN NextInRotation(p) ELSE p,
            count    |-> IF ProposesSwitch(d, p) THEN 0 ELSE StreakWith(d, p)]]
    ELSE UNCHANGED streak

\* decide_adjust_backoff, as the breaker uses it: the cooldown after the
\* engine had its say.  A target that did not opt in has multiplier None.
AdjustedCooldown(base, multiplier) ==
  IF multiplier = None \/ ~EngineEnabled \/ BackoffMode # "enact"
    THEN base
    ELSE base * (IF multiplier < MaxMultiplier THEN multiplier ELSE MaxMultiplier)
=============================================================================
