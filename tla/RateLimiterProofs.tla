------------------------- MODULE RateLimiterProofs -------------------------
(***************************************************************************)
(* Proofs about RateLimiter, for any levels, keys, windows and limits that *)
(* the assumptions allow.                                                  *)
(*                                                                         *)
(* What a window does when it is trimmed, when a request is appended and   *)
(* when time passes is said by lemmas about sequences of ages; the         *)
(* invariant of a scope is then a matter of arithmetic.  The exponential   *)
(* in the length of a cooldown is a recursive function; what is needed of  *)
(* it, that one more step at most doubles it, is its definition, and its   *)
(* bounds are shown by a least counterexample.                             *)
(***************************************************************************)
EXTENDS RateLimiter, SequenceTheorems, WellFoundedInduction, TLAPS

\* The ages a window may hold, in order of time.
Ages(window) == {ages \in Seq(0..(window + 1)) : InOrder(ages)}

LEMMA AgesAreNumbers ==
  ASSUME NEW window \in Nat, NEW ages \in Ages(window)
  PROVE  Len(ages) \in Nat /\ \A i \in 1..Len(ages) : ages[i] \in Nat
BY DEF Ages

LEMMA LeastNatural ==
  ASSUME NEW T, T \subseteq Nat, T # {}
  PROVE  \E x \in T : \A y \in T : x <= y
<1>1. PICK x \in T : \A y \in T : <<y, x>> \notin OpToRel(<, Nat)
  BY NatLessThanWellFounded, WFMin
<1>2. \A y \in T : ~(y < x)
  BY <1>1 DEF OpToRel
<1> QED BY <1>2

\* The loop of trim stops at the first request inside the window, or behind
\* the last one.
LEMMA FirstInsideIsFirst ==
  ASSUME NEW window \in Nat, NEW ages \in Ages(window)
  PROVE  LET first == FirstInside(ages, window)
         IN  /\ first \in 1..(Len(ages) + 1)
             /\ first <= Len(ages) => ages[first] <= window
             /\ \A j \in 1..(first - 1) : ages[j] > window
<1> DEFINE Inside == {i \in 1..(Len(ages) + 1) : i <= Len(ages) => ages[i] <= window}
<1>1. /\ Len(ages) \in Nat
      /\ \A i \in 1..Len(ages) : ages[i] \in 0..(window + 1)
  BY DEF Ages
<1>2. Inside \subseteq Nat /\ Len(ages) + 1 \in Inside
  BY <1>1
<1>3. PICK first \in Inside : \A i \in Inside : first <= i
  BY <1>2, LeastNatural
<1>4. first \in 1..(Len(ages) + 1) /\ (first <= Len(ages) => ages[first] <= window)
  OBVIOUS
<1>5. \A j \in 1..(first - 1) : ages[j] > window
  <2> SUFFICES ASSUME NEW j \in 1..(first - 1), ~(ages[j] > window)
               PROVE  FALSE
    OBVIOUS
  <2>1. j \in 1..Len(ages) /\ j < first
    BY <1>1, <1>4
  <2>2. ages[j] <= window
    BY <1>1, <2>1
  <2>3. j \in Inside
    BY <1>1, <2>1, <2>2
  <2> QED BY <1>3, <1>4, <2>1, <2>3
<1> HIDE DEF Inside
<1> QED BY <1>4, <1>5 DEF FirstInside

\* What trim leaves: the end of the window, with its youngest request.
LEMMA TrimmedAges ==
  ASSUME NEW window \in Nat, NEW ages \in Ages(window)
  PROVE  LET kept == Trimmed(ages, window)
         IN  /\ kept \in Ages(window)
             /\ Len(kept) = Len(ages) + 1 - FirstInside(ages, window)
             /\ Len(kept) <= Len(ages)
             /\ Len(kept) > 0 => /\ kept[Len(kept)] = ages[Len(ages)]
                                 /\ ages[Len(ages)] <= window
<1> DEFINE first == FirstInside(ages, window)
           kept  == Trimmed(ages, window)
<1>1. /\ first \in 1..(Len(ages) + 1)
      /\ first <= Len(ages) => ages[first] <= window
  BY FirstInsideIsFirst
<1>2. /\ ages \in Seq(0..(window + 1)) /\ InOrder(ages)
      /\ Len(ages) \in Nat
      /\ \A i \in 1..Len(ages) : ages[i] \in 0..(window + 1)
  BY DEF Ages
<1> HIDE DEF first
<1>3. /\ kept \in Seq(0..(window + 1))
      /\ Len(kept) = IF first <= Len(ages) THEN Len(ages) - first + 1 ELSE 0
      /\ \A i \in 1..(Len(ages) - first + 1) : kept[i] = ages[first + i - 1]
  <2>1. kept = SubSeq(ages, first, Len(ages))
    BY DEF Trimmed, first
  <2>2. \A i \in first..Len(ages) : ages[i] \in 0..(window + 1)
    BY <1>1, <1>2
  <2> HIDE DEF kept
  <2> QED BY <1>1, <1>2, <2>1, <2>2, SubSeqProperties
<1> HIDE DEF kept
<1>4. Len(kept) = Len(ages) + 1 - first
  BY <1>1, <1>2, <1>3
<1>5. InOrder(kept)
  <2> SUFFICES ASSUME NEW i \in 1..Len(kept), NEW j \in 1..Len(kept), i <= j
               PROVE  kept[i] >= kept[j]
    BY DEF InOrder
  <2>1. kept[i] = ages[first + i - 1] /\ kept[j] = ages[first + j - 1]
    BY <1>1, <1>2, <1>3, <1>4
  <2>2. /\ first + i - 1 \in 1..Len(ages) /\ first + j - 1 \in 1..Len(ages)
        /\ first + i - 1 <= first + j - 1
    BY <1>1, <1>2, <1>4
  <2>3. \A k, l \in 1..Len(ages) : k <= l => ages[k] >= ages[l]
    BY <1>2 DEF InOrder
  <2>4. ages[first + i - 1] >= ages[first + j - 1]
    BY <2>2, <2>3
  <2> QED BY <2>1, <2>4
<1>6. ASSUME Len(kept) > 0
      PROVE  kept[Len(kept)] = ages[Len(ages)] /\ ages[Len(ages)] <= window
  <2>1. first \in 1..Len(ages) /\ Len(kept) = Len(ages) - first + 1
    BY <1>1, <1>2, <1>4, <1>6
  <2>2. kept[Len(kept)] = ages[Len(ages)]
    BY <1>2, <1>3, <2>1
  <2>3. ages[first] >= ages[Len(ages)]
    BY <1>2, <2>1 DEF InOrder
  <2>4. ages[first] \in Nat /\ ages[Len(ages)] \in Nat
    BY <1>2, <2>1
  <2> QED BY <1>1, <2>1, <2>2, <2>3, <2>4
<1>7. kept \in Ages(window)
  BY <1>3, <1>5 DEF Ages
<1>8. Len(kept) <= Len(ages)
  BY <1>1, <1>2, <1>4
<1> QED BY <1>4, <1>6, <1>7, <1>8 DEF first, kept

\* A request at hand joins the window as its youngest.
LEMMA AppendedAges ==
  ASSUME NEW window \in Nat, NEW ages \in Ages(window)
  PROVE  LET more == Append(ages, 0)
         IN  /\ more \in Ages(window)
             /\ Len(more) = Len(ages) + 1
             /\ more[Len(more)] = 0
<1> DEFINE more == Append(ages, 0)
<1>1. /\ ages \in Seq(0..(window + 1)) /\ InOrder(ages)
      /\ Len(ages) \in Nat
      /\ \A i \in 1..Len(ages) : ages[i] \in 0..(window + 1)
  BY DEF Ages
<1>2. /\ more \in Seq(0..(window + 1))
      /\ Len(more) = Len(ages) + 1
      /\ \A i \in 1..Len(ages) : more[i] = ages[i]
      /\ more[Len(ages) + 1] = 0
  BY <1>1, AppendProperties
<1> HIDE DEF more
<1>3. InOrder(more)
  <2> SUFFICES ASSUME NEW i \in 1..Len(more), NEW j \in 1..Len(more), i <= j
               PROVE  more[i] >= more[j]
    BY DEF InOrder
  <2>1. more[i] \in Nat
    BY <1>1, <1>2
  <2>2. CASE j = Len(ages) + 1
    BY <1>2, <2>1, <2>2
  <2>3. CASE j \in 1..Len(ages)
    <3>1. i \in 1..Len(ages) /\ more[i] = ages[i] /\ more[j] = ages[j]
      BY <1>1, <1>2, <2>3
    <3> QED BY <1>1, <2>3, <3>1 DEF InOrder
  <2> QED BY <1>1, <1>2, <2>2, <2>3
<1> QED BY <1>1, <1>2, <1>3 DEF Ages, more

\* Time moves the beginning of the window forward, never back.
LEMMA OlderAges ==
  ASSUME NEW window \in Nat, NEW ages \in Ages(window)
  PROVE  LET old == Older(ages, window)
         IN  /\ old \in Ages(window)
             /\ Len(old) = Len(ages)
             /\ Len(Trimmed(old, window)) <= Len(Trimmed(ages, window))
             /\ Len(ages) > 0 /\ ages[Len(ages)] <= window =>
                  old[Len(old)] = ages[Len(ages)] + 1
<1> DEFINE old == Older(ages, window)
<1>1. /\ ages \in Seq(0..(window + 1)) /\ InOrder(ages)
      /\ Len(ages) \in Nat
      /\ \A i \in 1..Len(ages) : ages[i] \in 0..(window + 1)
  BY DEF Ages
<1>2. \A i \in 1..Len(ages) : (IF ages[i] <= window THEN ages[i] + 1 ELSE ages[i]) \in 0..(window + 1)
  BY <1>1
<1>3. /\ old \in Seq(0..(window + 1))
      /\ Len(old) = Len(ages)
      /\ \A i \in 1..Len(ages) :
           old[i] = IF ages[i] <= window THEN ages[i] + 1 ELSE ages[i]
  BY <1>1, <1>2, IsASeq DEF Older
<1> HIDE DEF old
<1>4. InOrder(old)
  BY <1>1, <1>3 DEF InOrder
<1>5. old \in Ages(window)
  BY <1>3, <1>4 DEF Ages
<1>6. FirstInside(ages, window) <= FirstInside(old, window)
  <2> DEFINE f == FirstInside(ages, window)
             g == FirstInside(old, window)
  <2>1. f \in 1..(Len(ages) + 1) /\ \A j \in 1..(f - 1) : ages[j] > window
    BY FirstInsideIsFirst
  <2>2. g \in 1..(Len(old) + 1) /\ (g <= Len(old) => old[g] <= window)
    BY <1>5, FirstInsideIsFirst
  <2> HIDE DEF f, g
  <2>3. SUFFICES ASSUME g < f PROVE FALSE
    BY <1>1, <1>3, <2>1, <2>2 DEF f, g
  <2>4. g \in 1..Len(ages) /\ g \in 1..(f - 1)
    BY <1>1, <1>3, <2>1, <2>2, <2>3
  <2>5. ages[g] > window /\ old[g] <= window /\ old[g] = ages[g]
    BY <1>1, <1>3, <2>1, <2>2, <2>4
  <2> QED BY <1>1, <2>4, <2>5
<1>7. Len(Trimmed(old, window)) <= Len(Trimmed(ages, window))
  <2>1. FirstInside(ages, window) \in Int /\ FirstInside(old, window) \in Int
    BY <1>5, FirstInsideIsFirst
  <2>2. /\ Len(Trimmed(ages, window)) = Len(ages) + 1 - FirstInside(ages, window)
        /\ Len(Trimmed(old, window)) = Len(ages) + 1 - FirstInside(old, window)
    BY <1>3, <1>5, TrimmedAges
  <2> QED BY <1>1, <1>6, <2>1, <2>2
<1>8. Len(ages) > 0 /\ ages[Len(ages)] <= window => old[Len(old)] = ages[Len(ages)] + 1
  BY <1>1, <1>3
<1> QED BY <1>3, <1>5, <1>7, <1>8 DEF old
-----------------------------------------------------------------------------
(* The length of a cooldown.                                               *)

\* f follows the doubling up to n.
DoublesTo(f, n) ==
  \A i \in 0..n : f[i] = IF i = 0 THEN BackoffBase ELSE 2 * f[i - 1]

\* There is such a function: the least n without one would extend that of n - 1.
LEMMA DoublingExists ==
  ASSUME NEW n \in Nat
  PROVE  \E f \in [0..n -> Nat] : DoublesTo(f, n)
<1> DEFINE Missing == {k \in Nat : ~ \E f \in [0..k -> Nat] : DoublesTo(f, k)}
<1>1. SUFFICES ASSUME Missing # {} PROVE FALSE
  OBVIOUS
<1>2. PICK k \in Missing : \A l \in Missing : k <= l
  BY <1>1, LeastNatural
<1>3. k \in Nat /\ ~ \E f \in [0..k -> Nat] : DoublesTo(f, k)
  BY <1>2
<1>4. CASE k = 0
  <2>1. [i \in 0..0 |-> BackoffBase] \in [0..0 -> Nat]
    BY LimiterAssumption
  <2>2. DoublesTo([i \in 0..0 |-> BackoffBase], 0)
    BY DEF DoublesTo
  <2> QED BY <1>3, <1>4, <2>1, <2>2
<1>5. CASE k > 0
  <2>1. k - 1 \in Nat /\ k - 1 \notin Missing
    <3> HIDE DEF Missing
    <3> QED BY <1>2, <1>3, <1>5
  <2>2. PICK f \in [0..(k - 1) -> Nat] : DoublesTo(f, k - 1)
    BY <2>1
  <2> DEFINE g == [i \in 0..k |-> IF i = k THEN 2 * f[k - 1] ELSE f[i]]
  <2>3. g \in [0..k -> Nat]
    BY <1>3, <1>5, <2>2
  <2>4. ASSUME NEW i \in 0..k
        PROVE  g[i] = IF i = 0 THEN BackoffBase ELSE 2 * g[i - 1]
    <3>1. CASE i = k
      BY <1>3, <1>5, <3>1
    <3>2. CASE i # k
      <4>1. i \in 0..(k - 1) /\ g[i] = f[i] /\ (i # 0 => i - 1 \in 0..k /\ i - 1 # k /\ g[i - 1] = f[i - 1])
        BY <1>3, <1>5, <3>2
      <4> QED BY <2>2, <4>1 DEF DoublesTo
    <3> QED BY <3>1, <3>2
  <2> HIDE DEF g
  <2>5. DoublesTo(g, k)
    BY <2>4 DEF DoublesTo
  <2> QED BY <1>3, <2>3, <2>5
<1> QED BY <1>3, <1>4, <1>5

\* Two of them agree: there is no least argument where they differ.
LEMMA DoublingUnique ==
  ASSUME NEW n \in Nat, NEW m \in Nat, n <= m, NEW f, NEW g,
         DoublesTo(f, n), DoublesTo(g, m)
  PROVE  f[n] = g[n]
<1> DEFINE Differ == {i \in 0..n : f[i] # g[i]}
<1>1. SUFFICES ASSUME Differ # {} PROVE FALSE
  BY n \in 0..n
<1>2. PICK i \in Differ : \A j \in Differ : i <= j
  <2>1. Differ \subseteq Nat
    OBVIOUS
  <2> HIDE DEF Differ
  <2> QED BY <1>1, <2>1, LeastNatural
<1>3. /\ f[i] = IF i = 0 THEN BackoffBase ELSE 2 * f[i - 1]
      /\ g[i] = IF i = 0 THEN BackoffBase ELSE 2 * g[i - 1]
  BY DEF DoublesTo
<1>4. i # 0
  BY <1>2, <1>3
<1>5. i - 1 \in 0..n /\ i - 1 \notin Differ
  BY <1>2, <1>4
<1> QED BY <1>2, <1>3, <1>4, <1>5

\* So the recursive definition is one of all the numbers.
LEMMA DoubledRecursion ==
  Doubled = [n \in Nat |-> IF n = 0 THEN BackoffBase ELSE 2 * Doubled[n - 1]]
<1> DEFINE upTo(n) == CHOOSE f \in [0..n -> Nat] : DoublesTo(f, n)
           D == [n \in Nat |-> upTo(n)[n]]
<1>1. \A n \in Nat : upTo(n) \in [0..n -> Nat] /\ DoublesTo(upTo(n), n)
  BY DoublingExists
<1> HIDE DEF upTo
<1>2. ASSUME NEW n \in Nat
      PROVE  D[n] = IF n = 0 THEN BackoffBase ELSE 2 * D[n - 1]
  <2>1. upTo(n)[n] = IF n = 0 THEN BackoffBase ELSE 2 * upTo(n)[n - 1]
    BY <1>1 DEF DoublesTo
  <2>2. CASE n = 0
    BY <2>1, <2>2
  <2>3. CASE n # 0
    <3>1. n - 1 \in Nat /\ n - 1 <= n
      BY <2>3
    <3>2. upTo(n - 1)[n - 1] = upTo(n)[n - 1]
      BY <1>1, <3>1, DoublingUnique
    <3> QED BY <2>1, <2>3, <3>1, <3>2
  <2> QED BY <2>2, <2>3
<1> HIDE DEF D
<1>3. D = [n \in Nat |-> IF n = 0 THEN BackoffBase ELSE 2 * D[n - 1]]
  <2>1. D = [n \in Nat |-> D[n]]
    BY DEF D
  <2> QED BY <1>2, <2>1
<1> QED BY <1>3 DEF Doubled

\* What it computes.
LEMMA DoubledValues ==
  /\ Doubled[0] = BackoffBase
  /\ \A n \in Nat : Doubled[n + 1] = 2 * Doubled[n]
  /\ \A n \in Nat : Doubled[n] \in Nat \ {0}
<1>0. \A n \in Nat : Doubled[n] = IF n = 0 THEN BackoffBase ELSE 2 * Doubled[n - 1]
  BY DoubledRecursion
<1>1. Doubled[0] = BackoffBase
  BY <1>0
<1>2. ASSUME NEW n \in Nat PROVE Doubled[n + 1] = 2 * Doubled[n]
  <2>1. n + 1 \in Nat /\ n + 1 # 0 /\ (n + 1) - 1 = n
    OBVIOUS
  <2> QED BY <1>0, <2>1
<1>3. ASSUME NEW n \in Nat PROVE Doubled[n] \in Nat \ {0}
  <2> DEFINE Odd == {k \in Nat : Doubled[k] \notin Nat \ {0}}
  <2>1. SUFFICES ASSUME Odd # {} PROVE FALSE
    OBVIOUS
  <2>2. PICK k \in Odd : \A l \in Odd : k <= l
    BY <2>1, LeastNatural
  <2>3. k # 0
    BY <1>1, LimiterAssumption
  <2>4. k - 1 \in Nat /\ k - 1 \notin Odd
    BY <2>2, <2>3
  <2>5. Doubled[k] = 2 * Doubled[k - 1]
    BY <1>0, <2>3
  <2> QED BY <2>4, <2>5
<1> QED BY <1>1, <1>2, <1>3

\* Escalation begins at backoff_base_seconds, at most doubles, and has a limit.
LEMMA BackoffBounds ==
  /\ \A step \in Nat \ {0} : EscalatedBackoff(step) \in 1..BackoffMax
  /\ EscalatedBackoff(1) = BackoffBase
  /\ \A step \in Nat \ {0} : EscalatedBackoff(step + 1) <= 2 * EscalatedBackoff(step)
<1>1. BackoffBase \in Nat \ {0} /\ BackoffMax \in Nat /\ BackoffBase <= BackoffMax
  BY LimiterAssumption
<1>2. ASSUME NEW step \in Nat \ {0}
      PROVE  /\ EscalatedBackoff(step) \in 1..BackoffMax
             /\ EscalatedBackoff(step + 1) <= 2 * EscalatedBackoff(step)
  <2>1. step - 1 \in Nat /\ (step + 1) - 1 = (step - 1) + 1
    OBVIOUS
  <2>2. /\ Doubled[step - 1] \in Nat \ {0}
        /\ Doubled[(step + 1) - 1] = 2 * Doubled[step - 1]
    BY <2>1, DoubledValues
  <2> QED BY <1>1, <2>2 DEF EscalatedBackoff
<1>3. EscalatedBackoff(1) = BackoffBase
  BY <1>1, DoubledValues DEF EscalatedBackoff
<1> QED BY <1>2, <1>3
-----------------------------------------------------------------------------
(* Types.                                                                  *)

LEMMA LimitsTyped ==
  ASSUME NEW s \in Scopes
  PROVE  WindowOf(s) \in Nat \ {0} /\ CapacityOf(s) \in Nat \ {0}
BY LimiterAssumption DEF WindowOf, CapacityOf

\* What LimiterTypeOK says of one scope.
GoodScope(s, new) ==
  /\ DOMAIN new = {"request_ages", "violation_count", "quiet", "blocked"}
  /\ new.request_ages \in Ages(WindowOf(s))
  /\ new.violation_count \in Nat
  /\ new.quiet \in 0..ResetAfter
  /\ new.blocked \in 0..BackoffMax

LEMMA TypesByScope ==
  LimiterTypeOK <=> DOMAIN scope = Scopes /\ \A s \in Scopes : GoodScope(s, scope[s])
BY DEF LimiterTypeOK, GoodScope, Ages

LEMMA TypesByScopeNext ==
  LimiterTypeOK' <=> DOMAIN scope' = Scopes /\ \A s \in Scopes : GoodScope(s, scope'[s])
BY DEF LimiterTypeOK, GoodScope, Ages, WindowOf

\* The handler's view of one scope, and what it makes of it.
LEMMA EvaluatedScope ==
  ASSUME NEW s \in Scopes, GoodScope(s, scope[s]), NEW passed \in BOOLEAN
  PROVE  /\ InWindow(s) \in Ages(WindowOf(s))
         /\ Len(InWindow(s)) <= Len(scope[s].request_ages)
         /\ Forgiven(s) \in Nat /\ CountAfter(s) \in Nat
         /\ GoodScope(s, ScopeAfter(s, passed))
<1>1. /\ WindowOf(s) \in Nat
      /\ scope[s].request_ages \in Ages(WindowOf(s))
      /\ scope[s].violation_count \in Nat
      /\ scope[s].quiet \in 0..ResetAfter
  BY LimitsTyped DEF GoodScope
<1>2. InWindow(s) \in Ages(WindowOf(s)) /\ Len(InWindow(s)) <= Len(scope[s].request_ages)
  BY <1>1, TrimmedAges DEF InWindow
<1>3. Append(InWindow(s), 0) \in Ages(WindowOf(s))
  BY <1>1, <1>2, AppendedAges
<1>4. Forgiven(s) \in Nat /\ CountAfter(s) \in Nat
  BY <1>1 DEF Forgiven, CountAfter
<1>5. EscalatesScope(s) =>
        EscalatedBackoff(CountAfter(s) - ViolationThreshold + 1) \in 1..BackoffMax
  <2> SUFFICES ASSUME EscalatesScope(s)
               PROVE  EscalatedBackoff(CountAfter(s) - ViolationThreshold + 1) \in 1..BackoffMax
    OBVIOUS
  <2>1. CountAfter(s) - ViolationThreshold + 1 \in Nat \ {0}
    BY <1>4, LimiterAssumption DEF EscalatesScope
  <2> QED BY <2>1, BackoffBounds
<1> DEFINE new == ScopeAfter(s, passed)
<1>6. /\ DOMAIN new = {"request_ages", "violation_count", "quiet", "blocked"}
      /\ new.request_ages = IF passed THEN Append(InWindow(s), 0) ELSE InWindow(s)
      /\ new.violation_count = CountAfter(s)
      /\ new.quiet = IF Violates(s) THEN 0 ELSE scope[s].quiet
      /\ new.blocked = IF EscalatesScope(s)
                         THEN EscalatedBackoff(CountAfter(s) - ViolationThreshold + 1)
                         ELSE 0
  BY DEF ScopeAfter
<1> HIDE DEF new
<1>7. GoodScope(s, new)
  BY <1>1, <1>2, <1>3, <1>4, <1>5, <1>6, LimiterAssumption DEF GoodScope
<1> QED BY <1>2, <1>4, <1>7 DEF new

\* A scope when time passes.
LEMMA AgedScopeIsGood ==
  ASSUME NEW s \in Scopes, GoodScope(s, scope[s])
  PROVE  GoodScope(s, AgedScope(s))
<1>1. /\ WindowOf(s) \in Nat
      /\ scope[s].request_ages \in Ages(WindowOf(s))
      /\ scope[s].violation_count \in Nat
      /\ scope[s].quiet \in 0..ResetAfter
      /\ scope[s].blocked \in 0..BackoffMax
  BY LimitsTyped DEF GoodScope
<1>2. Older(scope[s].request_ages, WindowOf(s)) \in Ages(WindowOf(s))
  BY <1>1, OlderAges
<1> QED BY <1>1, <1>2, LimiterAssumption DEF GoodScope, AgedScope

\* A request is decided by phase 1, 3 or neither, and the last two evaluate
\* its scopes, none of which is in cooldown.
LEMMA AttemptCases ==
  ASSUME NEW S, Attempt(S)
  PROVE  \/ UNCHANGED scope
         \/ \E passed \in BOOLEAN :
              /\ Evaluated(S, passed)
              /\ \A s \in S : scope[s].blocked = 0
              /\ passed => \A s \in S : ~EscalatesScope(s)
BY DEF Attempt, BlockedRequest, DroppedRequest, PassedRequest

LEMMA TypesPreserved == LimiterTypeOK /\ [LimiterNext]_scope => LimiterTypeOK'
<1> SUFFICES ASSUME LimiterTypeOK, [LimiterNext]_scope PROVE LimiterTypeOK'
  OBVIOUS
<1>0. DOMAIN scope = Scopes /\ \A s \in Scopes : GoodScope(s, scope[s])
  BY TypesByScope
<1>1. CASE LimiterTick
  <2>1. scope' = [s \in Scopes |-> AgedScope(s)]
    BY <1>1 DEF LimiterTick
  <2>2. \A s \in Scopes : GoodScope(s, AgedScope(s))
    BY <1>0, AgedScopeIsGood
  <2> QED BY <2>1, <2>2, TypesByScopeNext
<1>2. ASSUME NEW S \in Presentable, NEW passed \in BOOLEAN, Evaluated(S, passed)
      PROVE  LimiterTypeOK'
  <2>1. scope' = [s \in Scopes |-> IF s \in S THEN ScopeAfter(s, passed) ELSE scope[s]]
    BY <1>2 DEF Evaluated
  <2>2. \A s \in Scopes : GoodScope(s, ScopeAfter(s, passed))
    BY <1>0, EvaluatedScope
  <2> QED BY <1>0, <2>1, <2>2, TypesByScopeNext
<1>3. CASE UNCHANGED scope
  BY <1>0, <1>3, TypesByScopeNext
<1> QED BY <1>1, <1>2, <1>3, AttemptCases DEF LimiterNext
-----------------------------------------------------------------------------
(* How much goes out.                                                      *)

\* The requests a scope's window holds beyond its capacity are matched by
\* violations that are still remembered, for the last violation is no older
\* than the youngest request.
Matched(s, c) ==
  LET kept   == Trimmed(c.request_ages, WindowOf(s))
      excess == Len(kept) - CapacityOf(s)
  IN  ResetAfter > WindowOf(s) /\ excess > 0 =>
        /\ excess <= c.violation_count
        /\ excess <= ViolationThreshold - 1
        /\ c.quiet <= kept[Len(kept)]

LimiterInv ==
  /\ LimiterTypeOK
  /\ \A s \in Scopes : Matched(s, scope[s])

\* Handling a request: what it adds to the window it adds to the violations.
LEMMA EvaluatedMatched ==
  ASSUME NEW s \in Scopes, GoodScope(s, scope[s]), Matched(s, scope[s]),
         NEW passed \in BOOLEAN, passed => ~EscalatesScope(s)
  PROVE  Matched(s, ScopeAfter(s, passed))
<1> DEFINE window == InWindow(s)
           c      == ScopeAfter(s, passed)
           kept   == Trimmed(c.request_ages, WindowOf(s))
<1> SUFFICES ASSUME ResetAfter > WindowOf(s), Len(kept) - CapacityOf(s) > 0
             PROVE  /\ Len(kept) - CapacityOf(s) <= c.violation_count
                    /\ Len(kept) - CapacityOf(s) <= ViolationThreshold - 1
                    /\ c.quiet <= kept[Len(kept)]
  BY DEF Matched
<1>1. /\ WindowOf(s) \in Nat /\ CapacityOf(s) \in Nat \ {0}
      /\ ViolationThreshold \in Nat /\ ResetAfter \in Nat
      /\ scope[s].request_ages \in Ages(WindowOf(s))
      /\ scope[s].violation_count \in Nat /\ scope[s].quiet \in Nat
      /\ Forgiven(s) \in Nat /\ CountAfter(s) \in Nat
      /\ window \in Ages(WindowOf(s))
      /\ GoodScope(s, c)
  BY LimitsTyped, LimiterAssumption, EvaluatedScope DEF GoodScope
<1>2. /\ c.request_ages = IF passed THEN Append(window, 0) ELSE window
      /\ c.violation_count = CountAfter(s)
      /\ c.quiet = IF Violates(s) THEN 0 ELSE scope[s].quiet
  BY DEF ScopeAfter
<1>3. /\ c.request_ages \in Ages(WindowOf(s)) /\ c.quiet \in Nat
      /\ kept \in Ages(WindowOf(s))
      /\ Len(kept) \in Nat /\ Len(window) \in Nat
      /\ Len(kept) <= Len(c.request_ages)
      /\ kept[Len(kept)] = c.request_ages[Len(c.request_ages)]
  <2>1. c.request_ages \in Ages(WindowOf(s)) /\ c.quiet \in Nat
    BY <1>1 DEF GoodScope
  <2> HIDE DEF c, window
  <2>2. kept \in Ages(WindowOf(s)) /\ Len(kept) <= Len(c.request_ages)
    BY <1>1, <2>1, TrimmedAges
  <2>3. Len(kept) \in Nat /\ Len(window) \in Nat
    BY <1>1, <2>2 DEF Ages
  <2>4. Len(kept) > 0
    BY <1>1, <2>3
  <2> QED BY <1>1, <2>1, <2>2, <2>3, <2>4, TrimmedAges
\* Before, as far as the window was over its capacity:
<1>4. ASSUME Len(window) > CapacityOf(s)
      PROVE  /\ Violates(s)
             /\ Len(window) - CapacityOf(s) <= scope[s].violation_count
             /\ Len(window) - CapacityOf(s) <= ViolationThreshold - 1
             /\ Forgiven(s) = scope[s].violation_count
             /\ CountAfter(s) = scope[s].violation_count + 1
  <2>1. Violates(s)
    <3>1. Len(InWindow(s)) >= CapacityOf(s)
      BY <1>1, <1>3, <1>4
    <3> QED BY <3>1 DEF Violates
  <2>2. /\ Len(window) - CapacityOf(s) <= scope[s].violation_count
        /\ Len(window) - CapacityOf(s) <= ViolationThreshold - 1
        /\ scope[s].quiet <= window[Len(window)]
    BY <1>1, <1>3, <1>4 DEF Matched, InWindow
  <2>3. window[Len(window)] \in Nat /\ window[Len(window)] <= WindowOf(s)
    <3>1. Len(window) > 0
      BY <1>1, <1>3, <1>4
    <3>2. window[Len(window)] <= WindowOf(s)
      BY <1>1, <3>1, TrimmedAges DEF InWindow
    <3>3. window[Len(window)] \in Nat
      BY <1>1, <1>3, <3>1, AgesAreNumbers
    <3> QED BY <3>2, <3>3
  <2>4. scope[s].quiet < ResetAfter
    BY <1>1, <2>2, <2>3
  <2>5. Forgiven(s) = scope[s].violation_count
    BY <1>1, <2>4 DEF Forgiven
  <2> QED BY <2>1, <2>2, <2>5 DEF CountAfter
<1> HIDE DEF window, c, kept
<1>5. CASE passed
  <2>1. /\ Len(c.request_ages) = Len(window) + 1
        /\ c.request_ages[Len(c.request_ages)] = 0
    BY <1>1, <1>2, <1>5, AppendedAges
  <2>2. Len(window) >= CapacityOf(s)
    BY <1>1, <1>3, <2>1
  <2>3. Violates(s) /\ CountAfter(s) = Forgiven(s) + 1
    BY <2>2 DEF Violates, CountAfter, window
  <2>4. CountAfter(s) < ViolationThreshold
    BY <1>1, <1>5, <2>3 DEF EscalatesScope
  <2>5. Len(window) + 1 - CapacityOf(s) <= CountAfter(s)
    BY <1>1, <1>3, <1>4, <2>2, <2>3
  <2>6. c.quiet = 0 /\ kept[Len(kept)] = 0
    BY <1>2, <1>3, <2>1, <2>3
  <2>7. Len(kept) - CapacityOf(s) <= CountAfter(s)
    BY <1>1, <1>3, <2>1, <2>5
  <2> QED BY <1>1, <1>2, <1>3, <2>4, <2>6, <2>7
<1>6. CASE ~passed
  <2>1. c.request_ages = window
    BY <1>2, <1>6
  <2>2. Len(window) > CapacityOf(s)
    BY <1>1, <1>3, <2>1
  <2>3. c.quiet = 0
    BY <1>2, <1>4, <2>2
  <2>4. kept[Len(kept)] \in Nat
    <3>1. Len(kept) \in 1..Len(kept)
      BY <1>1, <1>3
    <3> QED BY <1>1, <1>3, <3>1, AgesAreNumbers
  <2>5. Len(kept) <= Len(window)
    BY <1>3, <2>1
  <2>6. c.violation_count = scope[s].violation_count + 1
    BY <1>2, <1>4, <2>2
  <2>7. /\ Len(window) - CapacityOf(s) <= scope[s].violation_count
        /\ Len(window) - CapacityOf(s) <= ViolationThreshold - 1
    BY <1>4, <2>2
  <2>l. /\ Len(kept) \in Nat /\ Len(window) \in Nat /\ CapacityOf(s) \in Nat
        /\ scope[s].violation_count \in Nat /\ ViolationThreshold \in Nat
    BY <1>1, <1>3
  <2>8. /\ Len(kept) - CapacityOf(s) <= scope[s].violation_count + 1
        /\ Len(kept) - CapacityOf(s) <= ViolationThreshold - 1
    BY <2>5, <2>7, <2>l
  <2>9. c.quiet <= kept[Len(kept)]
    BY <2>3, <2>4
  <2> QED BY <2>6, <2>8, <2>9
<1> QED BY <1>5, <1>6

\* Time passing: the window shrinks, and its youngest request ages as fast as
\* the last violation.
LEMMA AgedMatched ==
  ASSUME NEW s \in Scopes, GoodScope(s, scope[s]), Matched(s, scope[s])
  PROVE  Matched(s, AgedScope(s))
<1> DEFINE ages   == scope[s].request_ages
           old    == Older(ages, WindowOf(s))
           c      == AgedScope(s)
           before == Trimmed(ages, WindowOf(s))
           kept   == Trimmed(old, WindowOf(s))
<1>1. /\ WindowOf(s) \in Nat /\ CapacityOf(s) \in Nat \ {0}
      /\ ViolationThreshold \in Nat /\ ResetAfter \in Nat
      /\ ages \in Ages(WindowOf(s))
      /\ scope[s].violation_count \in Nat /\ scope[s].quiet \in Nat
      /\ scope[s].quiet <= ResetAfter
  BY LimitsTyped, LimiterAssumption DEF GoodScope
<1>2. /\ c.request_ages = old
      /\ c.violation_count = scope[s].violation_count
      /\ c.quiet = IF scope[s].quiet < ResetAfter THEN scope[s].quiet + 1 ELSE ResetAfter
  BY DEF AgedScope
<1>m. /\ ResetAfter > WindowOf(s) /\ Len(before) - CapacityOf(s) > 0 =>
           /\ Len(before) - CapacityOf(s) <= scope[s].violation_count
           /\ Len(before) - CapacityOf(s) <= ViolationThreshold - 1
           /\ scope[s].quiet <= before[Len(before)]
  BY DEF Matched
<1> HIDE DEF c, ages
<1> SUFFICES ASSUME ResetAfter > WindowOf(s), Len(kept) - CapacityOf(s) > 0
             PROVE  /\ Len(kept) - CapacityOf(s) <= c.violation_count
                    /\ Len(kept) - CapacityOf(s) <= ViolationThreshold - 1
                    /\ c.quiet <= kept[Len(kept)]
  BY <1>2 DEF Matched, c
<1>3. /\ old \in Ages(WindowOf(s)) /\ Len(old) = Len(ages)
      /\ Len(kept) <= Len(before)
      /\ Len(ages) > 0 /\ ages[Len(ages)] <= WindowOf(s) =>
           old[Len(old)] = ages[Len(ages)] + 1
  BY <1>1, OlderAges
<1>4. /\ before \in Ages(WindowOf(s)) /\ Len(before) <= Len(ages)
      /\ Len(before) > 0 => /\ before[Len(before)] = ages[Len(ages)]
                            /\ ages[Len(ages)] <= WindowOf(s)
  BY <1>1, TrimmedAges
<1> HIDE DEF old
<1>5. /\ kept \in Ages(WindowOf(s))
      /\ Len(kept) > 0 => kept[Len(kept)] = old[Len(old)]
  BY <1>1, <1>3, TrimmedAges
<1>6. Len(kept) \in Nat /\ Len(before) \in Nat /\ Len(ages) \in Nat
  BY <1>1, <1>4, <1>5 DEF Ages
<1> HIDE DEF before, kept
<1>7. Len(kept) > 0 /\ Len(before) > 0 /\ Len(ages) > 0 /\ Len(before) - CapacityOf(s) > 0
  BY <1>1, <1>3, <1>4, <1>6
<1>8. kept[Len(kept)] = before[Len(before)] + 1 /\ scope[s].quiet <= before[Len(before)]
  BY <1>m, <1>3, <1>4, <1>5, <1>7
<1>9. before[Len(before)] \in Nat
  BY <1>1, <1>4, <1>6, <1>7, AgesAreNumbers
<1>10. c.quiet <= kept[Len(kept)]
  BY <1>1, <1>2, <1>8, <1>9
<1> QED BY <1>m, <1>1, <1>2, <1>3, <1>6, <1>7, <1>10

LEMMA InvInitially == LimiterInit => LimiterInv
<1> SUFFICES ASSUME LimiterInit PROVE LimiterInv
  OBVIOUS
<1>1. scope = [s \in Scopes |-> EmptyScope]
  BY DEF LimiterInit
<1>2. ASSUME NEW s \in Scopes
      PROVE  GoodScope(s, EmptyScope) /\ Matched(s, EmptyScope)
  <2>1. WindowOf(s) \in Nat /\ CapacityOf(s) \in Nat \ {0}
    BY LimitsTyped
  <2>2. << >> \in Ages(WindowOf(s)) /\ Len(<< >>) = 0
    BY DEF Ages, InOrder
  <2>3. GoodScope(s, EmptyScope)
    BY <2>1, <2>2, LimiterAssumption DEF GoodScope, EmptyScope
  <2>4. Len(Trimmed(<< >>, WindowOf(s))) \in Nat /\ Len(Trimmed(<< >>, WindowOf(s))) <= 0
    BY <2>1, <2>2, TrimmedAges, AgesAreNumbers
  <2>5. EmptyScope.request_ages = << >>
    BY DEF EmptyScope
  <2>6. Matched(s, EmptyScope)
    BY <2>1, <2>4, <2>5 DEF Matched
  <2> QED BY <2>3, <2>6
<1> QED BY <1>1, <1>2, TypesByScope DEF LimiterInv

LEMMA InvPreserved == LimiterInv /\ [LimiterNext]_scope => LimiterInv'
<1> SUFFICES ASSUME LimiterInv, [LimiterNext]_scope PROVE LimiterInv'
  OBVIOUS
<1>0. \A s \in Scopes : GoodScope(s, scope[s]) /\ Matched(s, scope[s])
  BY TypesByScope DEF LimiterInv
<1>t. LimiterTypeOK'
  BY TypesPreserved DEF LimiterInv
<1>s. SUFFICES \A s \in Scopes : Matched(s, scope'[s])
  BY <1>t DEF LimiterInv, Matched, WindowOf, CapacityOf
<1>1. CASE LimiterTick
  <2>1. scope' = [s \in Scopes |-> AgedScope(s)]
    BY <1>1 DEF LimiterTick
  <2> QED BY <1>0, <2>1, AgedMatched
<1>2. ASSUME NEW S \in Presentable, Attempt(S)
      PROVE  \A s \in Scopes : Matched(s, scope'[s])
  <2>1. CASE UNCHANGED scope
    BY <1>0, <2>1
  <2>2. ASSUME NEW passed \in BOOLEAN, Evaluated(S, passed),
               passed => \A s \in S : ~EscalatesScope(s)
        PROVE  \A s \in Scopes : Matched(s, scope'[s])
    <3>1. scope' = [s \in Scopes |-> IF s \in S THEN ScopeAfter(s, passed) ELSE scope[s]]
      BY <2>2 DEF Evaluated
    <3>2. \A s \in Scopes : s \in S => Matched(s, ScopeAfter(s, passed))
      BY <1>0, <2>2, EvaluatedMatched
    <3> QED BY <1>0, <3>1, <3>2
  <2> QED BY <1>2, <2>1, <2>2, AttemptCases
<1>3. CASE UNCHANGED scope
  BY <1>0, <1>3
<1> QED BY <1>1, <1>2, <1>3 DEF LimiterNext

LEMMA InvAlways == LimiterSpec => []LimiterInv
BY InvInitially, InvPreserved, PTL DEF LimiterSpec
-----------------------------------------------------------------------------
\* The scopes are always well typed and their windows in order of time
\* (_RateScope, process_request).
THEOREM LimiterTypeCorrect == LimiterSpec => []LimiterTypeOK
<1>1. LimiterInv => LimiterTypeOK
  BY DEF LimiterInv
<1> QED BY InvAlways, <1>1, PTL

\* However requests are timed and whatever scopes they share, no scope lets
\* more than max_requests and the tolerated violations out within a window
\* (process_request, phases 2 to 3).
THEOREM TrafficIsBounded == LimiterSpec => []WindowCeiling
<1>1. LimiterInv => WindowCeiling
  <2> SUFFICES ASSUME LimiterInv, NEW s \in Scopes, ResetAfter > WindowOf(s)
               PROVE  Len(InWindow(s)) <= CapacityOf(s) + ViolationThreshold - 1
    BY DEF WindowCeiling
  <2>1. GoodScope(s, scope[s]) /\ Matched(s, scope[s])
    BY TypesByScope DEF LimiterInv
  <2>2. /\ WindowOf(s) \in Nat /\ CapacityOf(s) \in Nat /\ ViolationThreshold \in Nat \ {0}
        /\ InWindow(s) \in Ages(WindowOf(s))
    BY <2>1, LimitsTyped, LimiterAssumption, EvaluatedScope
  <2>3. Len(InWindow(s)) \in Nat
    BY <2>2, AgesAreNumbers
  <2>4. Len(InWindow(s)) - CapacityOf(s) > 0 =>
          Len(InWindow(s)) - CapacityOf(s) <= ViolationThreshold - 1
    BY <2>1 DEF Matched, InWindow
  <2> QED BY <2>2, <2>3, <2>4
<1> QED BY InvAlways, <1>1, PTL

\* A cooldown runs its course: no request touches a scope that is in one
\* (process_request, phase 1).
THEOREM CooldownsAreServed == LimiterSpec => CooldownServedInFull
<1>1. LimiterInv /\ [LimiterNext]_scope =>
        [\A s \in Scopes :
           scope[s].blocked > 0 =>
             \/ scope'[s] = scope[s]
             \/ /\ scope'[s].blocked = scope[s].blocked - 1
                /\ scope'[s].violation_count = scope[s].violation_count
                /\ Len(scope'[s].request_ages) = Len(scope[s].request_ages)]_scope
  <2> SUFFICES ASSUME LimiterInv, [LimiterNext]_scope,
                      NEW s \in Scopes, scope[s].blocked > 0
               PROVE  \/ scope'[s] = scope[s]
                      \/ /\ scope'[s].blocked = scope[s].blocked - 1
                         /\ scope'[s].violation_count = scope[s].violation_count
                         /\ Len(scope'[s].request_ages) = Len(scope[s].request_ages)
    OBVIOUS
  <2>0. GoodScope(s, scope[s])
    BY TypesByScope DEF LimiterInv
  <2>1. CASE LimiterTick
    <3>1. scope'[s] = AgedScope(s)
      BY <2>1 DEF LimiterTick
    <3>2. Len(Older(scope[s].request_ages, WindowOf(s))) = Len(scope[s].request_ages)
      BY <2>0, LimitsTyped, OlderAges DEF GoodScope
    <3> QED BY <3>1, <3>2 DEF AgedScope
  <2>2. ASSUME NEW S \in Presentable, NEW passed \in BOOLEAN,
               Evaluated(S, passed), \A t \in S : scope[t].blocked = 0
        PROVE  scope'[s] = scope[s]
    <3>1. s \notin S
      BY <2>2
    <3> QED BY <2>2, <3>1 DEF Evaluated
  <2> QED BY <2>1, <2>2, AttemptCases DEF LimiterNext
<1> QED BY InvAlways, <1>1, PTL DEF LimiterSpec, CooldownServedInFull

\* The request that sets a cooldown off is recorded nowhere
\* (process_request, phase 3).
THEOREM DropsAreNotRecorded == LimiterSpec => DroppedNotRecorded
<1>1. LimiterInv /\ [LimiterNext]_scope =>
        [(\E s \in Scopes : scope'[s].blocked > scope[s].blocked) =>
           \A t \in Scopes : Len(scope'[t].request_ages) <= Len(scope[t].request_ages)]_scope
  <2> SUFFICES ASSUME LimiterInv, [LimiterNext]_scope,
                      NEW s \in Scopes, scope'[s].blocked > scope[s].blocked,
                      NEW t \in Scopes
               PROVE  Len(scope'[t].request_ages) <= Len(scope[t].request_ages)
    OBVIOUS
  <2>0. \A u \in Scopes : GoodScope(u, scope[u])
    BY TypesByScope DEF LimiterInv
  <2>b. scope[s].blocked \in Nat
    BY <2>0, LimiterAssumption DEF GoodScope
  <2>n. Len(scope[t].request_ages) \in Nat
    BY <2>0, LimitsTyped, AgesAreNumbers DEF GoodScope
  <2>1. CASE LimiterTick
    <3>1. scope'[s] = AgedScope(s)
      BY <2>1 DEF LimiterTick
    <3>2. ~(AgedScope(s).blocked > scope[s].blocked)
      BY <2>b DEF AgedScope
    <3> QED BY <3>1, <3>2
  <2>2. ASSUME NEW S \in Presentable, NEW passed \in BOOLEAN, Evaluated(S, passed),
               \A u \in S : scope[u].blocked = 0,
               passed => \A u \in S : ~EscalatesScope(u)
        PROVE  Len(scope'[t].request_ages) <= Len(scope[t].request_ages)
    <3>1. scope' = [u \in Scopes |-> IF u \in S THEN ScopeAfter(u, passed) ELSE scope[u]]
      BY <2>2 DEF Evaluated
    <3>2. s \in S /\ scope'[s] = ScopeAfter(s, passed)
      BY <2>b, <3>1
    <3>3. EscalatesScope(s)
      BY <2>2, <3>2 DEF ScopeAfter
    <3>4. ~passed
      BY <2>2, <3>2, <3>3
    <3>5. CASE t \in S
      <4>1. scope'[t].request_ages = InWindow(t)
        BY <3>1, <3>4, <3>5 DEF ScopeAfter
      <4> QED BY <2>0, <4>1, EvaluatedScope
    <3>6. CASE t \notin S
      BY <2>n, <3>1, <3>6
    <3> QED BY <3>5, <3>6
  <2>3. CASE UNCHANGED scope
    BY <2>n, <2>3
  <2> QED BY <2>1, <2>2, <2>3, AttemptCases DEF LimiterNext
<1> QED BY InvAlways, <1>1, PTL DEF LimiterSpec, DroppedNotRecorded
-----------------------------------------------------------------------------
(* How long cooldowns get.                                                 *)

\* What a violation cost is remembered with it: as long as the count that set a
\* cooldown is not forgotten, the time since then and the rest of the cooldown
\* make up the whole of it.
Served(c) ==
  c.violation_count >= ViolationThreshold /\ c.quiet < ResetAfter =>
    c.quiet + c.blocked >= EscalatedBackoff(c.violation_count - ViolationThreshold + 1)

Ceiling(c) == c.blocked <= BackoffBase \/ c.blocked <= 2 * (ResetAfter - 1)

EscalationInv ==
  /\ LimiterTypeOK
  /\ \A s \in Scopes : Served(scope[s]) /\ Ceiling(scope[s])

\* Handling a request, in a scope that is in no cooldown.
LEMMA EvaluatedServed ==
  ASSUME NEW s \in Scopes, GoodScope(s, scope[s]), Served(scope[s]),
         scope[s].blocked = 0, NEW passed \in BOOLEAN
  PROVE  Served(ScopeAfter(s, passed)) /\ Ceiling(ScopeAfter(s, passed))
<1> DEFINE c == ScopeAfter(s, passed)
           step == CountAfter(s) - ViolationThreshold + 1
<1>1. /\ scope[s].violation_count \in Nat /\ scope[s].quiet \in 0..ResetAfter
      /\ CountAfter(s) \in Nat /\ Forgiven(s) \in Nat
      /\ ViolationThreshold \in Nat \ {0} /\ ResetAfter \in Nat \ {0}
      /\ BackoffBase \in Nat /\ BackoffMax \in Nat
  BY EvaluatedScope, LimiterAssumption DEF GoodScope
<1>2. /\ c.violation_count = CountAfter(s)
      /\ c.quiet = IF Violates(s) THEN 0 ELSE scope[s].quiet
      /\ c.blocked = IF EscalatesScope(s) THEN EscalatedBackoff(step) ELSE 0
  BY DEF ScopeAfter
<1> HIDE DEF c
<1>3. CASE EscalatesScope(s)
  <2>1. Violates(s) /\ CountAfter(s) >= ViolationThreshold /\ CountAfter(s) = Forgiven(s) + 1
    BY <1>3 DEF EscalatesScope, CountAfter
  <2>2. step \in Nat \ {0} /\ EscalatedBackoff(step) \in 1..BackoffMax
    BY <1>1, <2>1, BackoffBounds
  <2>3. Served(c)
    BY <1>2, <1>3, <2>1, <2>2 DEF Served
  <2>4. CASE step = 1
    <3>1. c.blocked = BackoffBase
      BY <1>2, <1>3, <2>4, BackoffBounds
    <3>2. Ceiling(c)
      BY <1>1, <3>1 DEF Ceiling
    <3> QED BY <2>3, <3>2 DEF c
  <2>5. CASE step # 1
    <3>1. Forgiven(s) >= ViolationThreshold
      BY <1>1, <2>1, <2>5
    <3>2. /\ Forgiven(s) = scope[s].violation_count
          /\ scope[s].quiet < ResetAfter
      BY <1>1, <3>1 DEF Forgiven
    <3>3. scope[s].quiet >= EscalatedBackoff(Forgiven(s) - ViolationThreshold + 1)
      BY <1>1, <3>1, <3>2 DEF Served
    <3> DEFINE last == Forgiven(s) - ViolationThreshold + 1
    <3>4. last \in Nat \ {0} /\ step = last + 1
      BY <1>1, <2>1, <3>1
    <3> HIDE DEF last, step
    <3>5. EscalatedBackoff(last) \in 1..BackoffMax /\ EscalatedBackoff(step) <= 2 * EscalatedBackoff(last)
      BY <3>4, BackoffBounds
    <3>6. EscalatedBackoff(last) <= ResetAfter - 1
      BY <1>1, <3>2, <3>3, <3>5 DEF last
    <3>7. c.blocked = EscalatedBackoff(step) /\ EscalatedBackoff(step) \in Nat
      BY <1>2, <1>3, <2>2 DEF step
    <3>8. c.blocked <= 2 * (ResetAfter - 1)
      BY <1>1, <3>5, <3>6, <3>7
    <3>9. Ceiling(c)
      BY <3>8 DEF Ceiling
    <3> QED BY <2>3, <3>9 DEF c
  <2> QED BY <2>3, <2>4, <2>5 DEF c
<1>4. CASE ~EscalatesScope(s)
  <2>1. Ceiling(c)
    BY <1>1, <1>2, <1>4 DEF Ceiling
  <2>2. CASE Violates(s)
    <3>1. c.violation_count < ViolationThreshold
      BY <1>1, <1>2, <1>4, <2>2 DEF EscalatesScope
    <3>2. Served(c)
      BY <1>1, <1>2, <3>1 DEF Served
    <3> QED BY <2>1, <3>2 DEF c
  <2>3. CASE ~Violates(s)
    <3>1. c.quiet = scope[s].quiet /\ c.blocked = scope[s].blocked
      BY <1>2, <1>4, <2>3
    <3>2. c.quiet < ResetAfter => c.violation_count = scope[s].violation_count
      BY <1>1, <1>2, <2>3, <3>1 DEF CountAfter, Forgiven
    <3> QED BY <2>1, <3>1, <3>2 DEF Served, c
  <2> QED BY <2>1, <2>2, <2>3 DEF c
<1> QED BY <1>3, <1>4

\* While time passes the rest of a cooldown becomes time since.
LEMMA AgedServed ==
  ASSUME NEW s \in Scopes, GoodScope(s, scope[s]), Served(scope[s]), Ceiling(scope[s])
  PROVE  Served(AgedScope(s)) /\ Ceiling(AgedScope(s))
<1> DEFINE c == AgedScope(s)
           cost == EscalatedBackoff(scope[s].violation_count - ViolationThreshold + 1)
<1>1. /\ scope[s].violation_count \in Nat /\ scope[s].quiet \in 0..ResetAfter
      /\ scope[s].blocked \in Nat
      /\ ViolationThreshold \in Nat \ {0} /\ ResetAfter \in Nat \ {0}
      /\ BackoffBase \in Nat /\ BackoffMax \in Nat
  BY LimiterAssumption DEF GoodScope
<1>2. /\ c.violation_count = scope[s].violation_count
      /\ c.quiet = IF scope[s].quiet < ResetAfter THEN scope[s].quiet + 1 ELSE ResetAfter
      /\ c.blocked = IF scope[s].blocked > 0 THEN scope[s].blocked - 1 ELSE 0
  BY DEF AgedScope
<1> HIDE DEF c
<1>3. Ceiling(c)
  BY <1>1, <1>2 DEF Ceiling
<1>4. Served(c)
  <2> SUFFICES ASSUME c.violation_count >= ViolationThreshold, c.quiet < ResetAfter
               PROVE  c.quiet + c.blocked >= cost
    BY <1>2 DEF Served
  <2>1. scope[s].quiet < ResetAfter /\ scope[s].violation_count >= ViolationThreshold
    BY <1>1, <1>2
  <2>2. scope[s].quiet + scope[s].blocked >= cost
    BY <2>1 DEF Served
  <2>3. scope[s].violation_count - ViolationThreshold + 1 \in Nat \ {0}
    BY <1>1, <2>1
  <2>4. cost \in Nat
    BY <2>3, BackoffBounds, <1>1
  <2> HIDE DEF cost
  <2> QED BY <1>1, <1>2, <2>1, <2>2, <2>4
<1> QED BY <1>3, <1>4 DEF c

LEMMA EscalationInitially == LimiterInit => EscalationInv
<1> SUFFICES ASSUME LimiterInit PROVE EscalationInv
  OBVIOUS
<1>1. LimiterTypeOK
  BY InvInitially DEF LimiterInv
<1>2. \A s \in Scopes : scope[s] = EmptyScope
  BY DEF LimiterInit
<1>3. Served(EmptyScope) /\ Ceiling(EmptyScope)
  BY LimiterAssumption DEF Served, Ceiling, EmptyScope
<1> QED BY <1>1, <1>2, <1>3 DEF EscalationInv

LEMMA EscalationPreserved == EscalationInv /\ [LimiterNext]_scope => EscalationInv'
<1> SUFFICES ASSUME EscalationInv, [LimiterNext]_scope PROVE EscalationInv'
  OBVIOUS
<1>0. \A s \in Scopes : GoodScope(s, scope[s]) /\ Served(scope[s]) /\ Ceiling(scope[s])
  BY TypesByScope DEF EscalationInv
<1>t. LimiterTypeOK'
  BY TypesPreserved DEF EscalationInv
<1>s. SUFFICES \A s \in Scopes : Served(scope'[s]) /\ Ceiling(scope'[s])
  BY <1>t DEF EscalationInv, Served, Ceiling
<1>1. CASE LimiterTick
  BY <1>0, <1>1, AgedServed DEF LimiterTick
<1>2. ASSUME NEW S \in Presentable, Attempt(S)
      PROVE  \A s \in Scopes : Served(scope'[s]) /\ Ceiling(scope'[s])
  <2>1. CASE UNCHANGED scope
    BY <1>0, <2>1
  <2>2. ASSUME NEW passed \in BOOLEAN, Evaluated(S, passed),
               \A s \in S : scope[s].blocked = 0
        PROVE  \A s \in Scopes : Served(scope'[s]) /\ Ceiling(scope'[s])
    <3>1. scope' = [s \in Scopes |-> IF s \in S THEN ScopeAfter(s, passed) ELSE scope[s]]
      BY <2>2 DEF Evaluated
    <3>2. \A s \in Scopes : s \in S =>
            Served(ScopeAfter(s, passed)) /\ Ceiling(ScopeAfter(s, passed))
      BY <1>0, <2>2, EvaluatedServed
    <3> QED BY <1>0, <3>1, <3>2
  <2> QED BY <1>2, <2>1, <2>2, AttemptCases
<1>3. CASE UNCHANGED scope
  BY <1>0, <1>3
<1> QED BY <1>1, <1>2, <1>3 DEF LimiterNext

\* However hard the requests press, cooldowns stop doubling when they outlast
\* the memory of what set them: none exceeds twice the reset time, if the
\* first one does not
\* (compute_escalated_backoff_seconds, phases 2.5 and 3 of process_request).
THEOREM CooldownsStayBounded == LimiterSpec => []EscalationCeiling
<1>1. LimiterSpec => []EscalationInv
  BY EscalationInitially, EscalationPreserved, PTL DEF LimiterSpec
<1>2. EscalationInv => EscalationCeiling
  BY DEF EscalationInv, EscalationCeiling, Ceiling
<1> QED BY <1>1, <1>2, PTL
=============================================================================
