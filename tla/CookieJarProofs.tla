-------------------------- MODULE CookieJarProofs --------------------------
(***************************************************************************)
(* The cookie jar, for any number of solves and any retention buckets:     *)
(* the lock keeps recordings apart (JarInvariant), so readers always find  *)
(* a whole jar and the jar implements the atomic store.  What retention    *)
(* and cap keep is irrelevant to that: the lemmas only say that it is made *)
(* of sessions.                                                            *)
(*                                                                         *)
(* The second part is about what they keep.  It needs that no two sessions *)
(* have the same time (TimesInv): then the sessions from one on that the   *)
(* cap compares are those younger than it, and it; and that more sessions  *)
(* have more bytes.                                                        *)
(***************************************************************************)
EXTENDS CookieJar, FiniteSetTheorems, SequenceTheorems, TLAPS

\* The constants.
LEMMA LimitsTyped ==
  Horizon \in Nat /\ MaxVersion \in Nat /\ MaxBytes \in Nat
BY RetentionAssumption

\* A recording saves sessions it has loaded, and the new one.
LEMMA OutcomesAreSessions ==
  ASSUME NEW S \in SUBSET Sessions, NEW new \in Sessions,
         NEW kept \in RecordOutcomes(S, new)
  PROVE  kept \in SUBSET Sessions
<1>1. PICK K \in RetentionOutcomes(S \cup {new}, new.at) : kept = Evicted(K)
  BY DEF RecordOutcomes
<1>2. K \subseteq S \cup {new}
  BY <1>1 DEF RetentionOutcomes
<1> QED
  BY <1>1, <1>2 DEF Evicted

\* The cookie a fresh context gets is one that was recorded, or none.
LEMMA MergedType ==
  ASSUME NEW S \in SUBSET Sessions
  PROVE  Merged(S) \subseteq 0..MaxVersion
BY LimitsTyped DEF Merged, LatestWithCookie, Sessions

\* What load_jar returns consists of sessions.
LEMMA LoadJarType ==
  ASSUME JarTypeOK, NEW readable \in BOOLEAN
  PROVE  LoadJar(readable) \in SUBSET Sessions
BY DEF LoadJar, JarTypeOK, SolveStates, Files

LEMMA NewSessionType ==
  ASSUME JarTypeOK, NEW w \in Solves
  PROVE  NewSession(w) \in Sessions
BY DEF NewSession, JarTypeOK, SolveStates, Sessions

-----------------------------------------------------------------------------
LEMMA JarInvInit == JarInit => JarInv
BY LimitsTyped, JarAssumption
DEF JarInit, JarInv, JarTypeOK, SolveStates, LockHeld, TempIsCurrent, ReadersSeeWholeJar, EmptyFile,
    Files, IdleSolve, Steps, Critical, Sessions

\* A solve that gives up, or is killed, anywhere leaves the others alone.
LEMMA AbandonPreserves ==
  ASSUME JarInv, NEW w \in Solves,
         lock' = IF lock = w THEN NoSolve ELSE lock,
         solve' = [solve EXCEPT ![w] = IdleSolve],
         UNCHANGED <<clock, version, jar>>
  PROVE  JarInv'
<1> USE DEF JarInv
<1>1. IdleSolve.step = "idle"
  BY DEF IdleSolve
<1>2. JarTypeOK'
  BY LimitsTyped, JarAssumption DEF JarTypeOK, SolveStates, IdleSolve, EmptyFile, Files, Steps, Sessions
<1>3. LockHeld'
  BY <1>1, JarAssumption DEF LockHeld, JarTypeOK, SolveStates, Critical
<1>4. TempIsCurrent'
  BY <1>1 DEF TempIsCurrent, JarTypeOK, SolveStates, LoadJar, NewSession
<1>5. ReadersSeeWholeJar'
  BY DEF ReadersSeeWholeJar
<1> QED
  BY <1>2, <1>3, <1>4, <1>5

LEMMA JarInvNext == JarInv /\ [JarNext]_jarVars => JarInv'
<1> SUFFICES ASSUME JarInv, [JarNext]_jarVars PROVE JarInv'
  OBVIOUS
<1> USE LimitsTyped, JarAssumption DEF JarInv
<1>1. ASSUME NEW w \in Solves, Begin(w) PROVE JarInv'
  <2>0. PICK readable \in BOOLEAN : \E cookie \in Merged(LoadJar(readable)) :
          solve' = [solve EXCEPT ![w] = [@ EXCEPT !.step = "browsing", !.cookie = cookie]]
    BY <1>1 DEF Begin
  <2>1. PICK cookie \in Merged(LoadJar(readable)) :
          solve' = [solve EXCEPT ![w] = [@ EXCEPT !.step = "browsing", !.cookie = cookie]]
    BY <2>0
  <2>2. cookie \in 0..MaxVersion
    BY <2>1, LoadJarType, MergedType
  <2>3. JarTypeOK'
    BY <1>1, <2>1, <2>2 DEF Begin, JarTypeOK, SolveStates, Steps
  <2>4. LockHeld'
    BY <1>1, <2>1 DEF Begin, JarTypeOK, SolveStates, LockHeld, Critical
  <2>5. TempIsCurrent'
    BY <1>1, <2>1 DEF Begin, JarTypeOK, SolveStates, TempIsCurrent, LoadJar, NewSession
  <2> QED
    BY <1>1, <2>3, <2>4, <2>5 DEF Begin, ReadersSeeWholeJar
<1>2. ASSUME NEW w \in Solves, Renew(w) PROVE JarInv'
  <2>1. JarTypeOK'
    BY <1>2 DEF Renew, JarTypeOK, SolveStates
  <2>2. LockHeld'
    BY <1>2 DEF Renew, JarTypeOK, SolveStates, LockHeld
  <2>3. TempIsCurrent'
    BY <1>2 DEF Renew, JarTypeOK, SolveStates, TempIsCurrent, LoadJar, NewSession
  <2> QED
    BY <1>2, <2>1, <2>2, <2>3 DEF Renew, ReadersSeeWholeJar
<1>3. ASSUME NEW w \in Solves, Fail(w) PROVE JarInv'
  <2>1. lock # w
    BY <1>3 DEF Fail, LockHeld, Critical
  <2> QED
    BY <1>3, <2>1, AbandonPreserves DEF Fail
<1>4. ASSUME NEW w \in Solves, Succeed(w) PROVE JarInv'
  <2>1. JarTypeOK'
    <3>1. [solve[w] EXCEPT !.step = "locking", !.now = clock] \in SolveStates
      BY DEF JarTypeOK, SolveStates, Steps
    <3>2. clock' \in 0..Horizon
      BY <1>4 DEF Succeed, JarTypeOK
    <3> QED
      BY <1>4, <3>1, <3>2 DEF Succeed, JarTypeOK
  <2>2. LockHeld'
    BY <1>4 DEF Succeed, JarTypeOK, SolveStates, LockHeld, Critical
  <2>3. TempIsCurrent'
    BY <1>4 DEF Succeed, JarTypeOK, SolveStates, TempIsCurrent, LoadJar, NewSession
  <2> QED
    BY <1>4, <2>1, <2>2, <2>3 DEF Succeed, ReadersSeeWholeJar
<1>5. ASSUME NEW w \in Solves, Acquire(w) PROVE JarInv'
  <2>1. JarTypeOK'
    BY <1>5 DEF Acquire, JarTypeOK, SolveStates, Steps
  <2>2. LockHeld'
    BY <1>5 DEF Acquire, JarTypeOK, SolveStates, LockHeld, Critical
  <2>3. TempIsCurrent'
    BY <1>5 DEF Acquire, JarTypeOK, SolveStates, TempIsCurrent, LoadJar, NewSession
  <2> QED
    BY <1>5, <2>1, <2>2, <2>3 DEF Acquire, ReadersSeeWholeJar
<1>6. ASSUME NEW w \in Solves, LoadAndWrite(w) PROVE JarInv'
  <2>0. PICK readable \in BOOLEAN :
          \E kept \in RecordOutcomes(LoadJar(readable), NewSession(w)) :
            solve' = [solve EXCEPT ![w] =
                      [@ EXCEPT !.step = "writing",
                                !.readable = readable,
                                !.temp = [sessions |-> kept, whole |-> FALSE]]]
    BY <1>6 DEF LoadAndWrite
  <2>1. PICK kept \in RecordOutcomes(LoadJar(readable), NewSession(w)) :
          solve' = [solve EXCEPT ![w] =
                      [@ EXCEPT !.step = "writing",
                                !.readable = readable,
                                !.temp = [sessions |-> kept, whole |-> FALSE]]]
    BY <2>0
  <2>2. kept \in SUBSET Sessions
    BY <2>1, LoadJarType, NewSessionType, OutcomesAreSessions
  <2>3. JarTypeOK'
    <3>1. [sessions |-> kept, whole |-> FALSE] \in Files
      BY <2>2 DEF Files
    <3>2. [solve[w] EXCEPT !.step = "writing",
                           !.readable = readable,
                           !.temp = [sessions |-> kept, whole |-> FALSE]] \in SolveStates
      BY <3>1 DEF JarTypeOK, SolveStates, Steps
    <3> QED
      BY <1>6, <2>1, <3>2 DEF LoadAndWrite, JarTypeOK
  <2>4. LockHeld'
    BY <1>6, <2>1 DEF LoadAndWrite, JarTypeOK, SolveStates, LockHeld, Critical
  <2>5. TempIsCurrent'
    BY <1>6, <2>1 DEF LoadAndWrite, JarTypeOK, SolveStates, TempIsCurrent, LoadJar, NewSession
  <2> QED
    BY <1>6, <2>3, <2>4, <2>5 DEF LoadAndWrite, ReadersSeeWholeJar
<1>7. ASSUME NEW w \in Solves, FinishWriting(w) PROVE JarInv'
  <2> DEFINE complete == [sessions |-> solve[w].temp.sessions, whole |-> TRUE]
             next     == [solve[w] EXCEPT !.step = "written", !.temp = complete]
  <2>0. solve' = [solve EXCEPT ![w] = next]
    BY <1>7 DEF FinishWriting, JarTypeOK
  <2>1. JarTypeOK'
    <3>1. complete \in Files
      BY DEF JarTypeOK, SolveStates, Files
    <3>2. next \in SolveStates
      BY <3>1 DEF JarTypeOK, SolveStates, Steps
    <3> QED
      BY <1>7, <2>0, <3>2 DEF FinishWriting, JarTypeOK
  <2>2. LockHeld'
    BY <1>7 DEF FinishWriting, JarTypeOK, SolveStates, LockHeld, Critical
  <2>3. TempIsCurrent'
    <3>1. /\ solve'[w].temp.sessions = solve[w].temp.sessions
          /\ solve'[w].temp.whole
          /\ solve'[w].readable = solve[w].readable
          /\ solve'[w].now = solve[w].now
          /\ solve'[w].cookie = solve[w].cookie
          /\ \A v \in Solves \ {w} : solve'[v] = solve[v]
      BY <2>0 DEF JarTypeOK, SolveStates
    <3>2. UNCHANGED jar /\ solve[w].step = "writing"
      BY <1>7 DEF FinishWriting
    <3>3. ASSUME NEW v \in Solves \ {w}
          PROVE  UNCHANGED <<solve[v], LoadJar(solve[v].readable), NewSession(v)>>
      BY <3>1, <3>2 DEF LoadJar, NewSession
    <3>4. UNCHANGED <<LoadJar(solve[w].readable), NewSession(w)>>
      BY <3>1, <3>2 DEF LoadJar, NewSession
    <3> QED
      BY <3>1, <3>2, <3>3, <3>4 DEF TempIsCurrent
  <2> QED
    BY <1>7, <2>1, <2>2, <2>3 DEF FinishWriting, ReadersSeeWholeJar
<1>8. ASSUME NEW w \in Solves, Rename(w) PROVE JarInv'
  <2>1. lock = w
    BY <1>8 DEF Rename, LockHeld, Critical
  <2>2. \A v \in Solves : solve'[v].step \notin Critical
    BY <1>8, <2>1 DEF Rename, LockHeld, Critical, JarTypeOK, SolveStates, IdleSolve
  <2>3. JarTypeOK'
    BY <1>8 DEF Rename, JarTypeOK, SolveStates, IdleSolve, EmptyFile, Files, Steps, Sessions
  <2>4. LockHeld'
    BY <1>8, <2>2 DEF Rename, LockHeld
  <2>5. TempIsCurrent'
    BY <2>2 DEF TempIsCurrent, Critical
  <2>6. ReadersSeeWholeJar'
    BY <1>8 DEF Rename, TempIsCurrent, ReadersSeeWholeJar
  <2> QED
    BY <2>3, <2>4, <2>5, <2>6
<1>9. ASSUME NEW w \in Solves, RecordFails(w) PROVE JarInv'
  BY <1>9, AbandonPreserves DEF RecordFails
<1>10. ASSUME NEW w \in Solves, Crash(w) PROVE JarInv'
  BY <1>10, AbandonPreserves DEF Crash
<1>11. CASE Tick
  BY <1>11 DEF Tick, JarTypeOK, SolveStates, LockHeld, TempIsCurrent, ReadersSeeWholeJar, LoadJar, NewSession
<1>12. CASE UNCHANGED jarVars
  BY <1>12 DEF jarVars, JarTypeOK, SolveStates, LockHeld, TempIsCurrent, ReadersSeeWholeJar, LoadJar, NewSession
<1> QED
  BY <1>1, <1>2, <1>3, <1>4, <1>5, <1>6, <1>7, <1>8, <1>9, <1>10, <1>11, <1>12
  DEF JarNext, Records

\* The lock keeps recordings apart, whatever is killed or fails when: what a
\* solve puts in place was made of the jar it replaces.
\* (_locked_jar_file around load, retention, cap and save.)
THEOREM JarInvariant == JarSpec => []JarInv
BY JarInvInit, JarInvNext, PTL DEF JarSpec

\* A reader without the lock never finds a jar that is cut off.
THEOREM ReadersAlwaysSeeWholeJar == JarSpec => []ReadersSeeWholeJar
<1>1. JarInv => ReadersSeeWholeJar
  BY DEF JarInv
<1> QED
  BY <1>1, JarInvariant, PTL

\* The jar implements a store with atomic recordings: only Rename changes the
\* sessions, to what a recording makes of the ones before.
THEOREM RecordingsAtomic == JarSpec => RecordingsAreAtomic
<1>1. JarInit => Store!StoreInit
  BY DEF JarInit, Store!StoreInit, EmptyFile
<1>2. JarInv /\ [JarNext]_jarVars => [Store!StoreNext]_(jar.sessions)
  <2> SUFFICES ASSUME JarInv, [JarNext]_jarVars, jar.sessions' # jar.sessions
               PROVE  Store!StoreNext
    OBVIOUS
  <2>1. PICK w \in Solves : Rename(w)
    BY DEF JarNext, jarVars, Records, Begin, Renew, Fail, Succeed, Acquire, LoadAndWrite,
           FinishWriting, RecordFails, Crash, Tick
  <2>2. jar'.sessions \in RecordOutcomes(LoadJar(solve[w].readable), NewSession(w))
    BY <2>1 DEF Rename, JarInv, TempIsCurrent
  <2>3. LoadJar(solve[w].readable) \in {jar.sessions, {}}
    BY DEF LoadJar
  <2>4. Store!Record(NewSession(w))
    BY <2>2, <2>3 DEF Store!Record
  <2>5. NewSession(w) \in Sessions
    BY NewSessionType DEF JarInv
  <2> QED
    BY <2>4, <2>5 DEF Store!StoreNext
<1> QED
  BY <1>1, <1>2, JarInvariant, PTL DEF JarSpec, RecordingsAreAtomic, Store!StoreSpec
-----------------------------------------------------------------------------
(* What retention and cap keep.                                            *)

\* What no two sessions of a jar share.
TimesDiffer(S) == \A x, y \in S : x.at = y.at => x = y

\* Every set of numbers has a least one.
LEMMA LeastNatural ==
  ASSUME NEW T, T \subseteq Nat, T # {}
  PROVE  \E x \in T : \A y \in T : x <= y
<1>1. PICK x \in T : \A y \in T : <<y, x>> \notin OpToRel(<, Nat)
  BY NatLessThanWellFounded, WFMin
<1>2. \A y \in T : ~(y < x)
  BY <1>1 DEF OpToRel
<1> QED BY <1>2

\* The buckets.
LEMMA BucketsTyped ==
  /\ \A i \in DOMAIN Buckets : /\ i \in Nat /\ i >= 1
                               /\ Buckets[i].max_age \in Nat
                               /\ Buckets[i].sample_interval \in Nat
  /\ 1 \in DOMAIN Buckets /\ Buckets[1].sample_interval = 0
<1>1. Buckets \in Seq([max_age : Nat, sample_interval : Nat])
  BY RetentionAssumption
<1>2. /\ DOMAIN Buckets = 1..Len(Buckets) /\ Len(Buckets) \in Nat
      /\ Buckets \in [1..Len(Buckets) -> [max_age : Nat, sample_interval : Nat]]
  BY <1>1, LenProperties
<1>3. 1 \in DOMAIN Buckets /\ Buckets[1].sample_interval = 0
  BY RetentionAssumption
<1> QED BY <1>2, <1>3

\* There are finitely many sessions up to a horizon.
LEMMA SessionsFinite ==
  ASSUME NEW S \in SUBSET Sessions
  PROVE  IsFiniteSet(S)
<1> DEFINE Pairs == (0..Horizon) \X (0..MaxVersion)
           f == [p \in Pairs |-> [at |-> p[1], cookie |-> p[2]]]
<1>1. IsFiniteSet(Pairs)
  <2>1. IsFiniteSet(0..Horizon) /\ IsFiniteSet(0..MaxVersion)
    BY FS_Interval, LimitsTyped
  <2> QED BY <2>1, FS_Product
<1>2. f \in Surjection(Pairs, Sessions)
  <2>1. f \in [Pairs -> Sessions]
    BY DEF Sessions
  <2>2. ASSUME NEW x \in Sessions PROVE \E p \in Pairs : f[p] = x
    <3>1. <<x.at, x.cookie>> \in Pairs /\ f[<<x.at, x.cookie>>] = x
      BY DEF Sessions
    <3> QED BY <3>1
  <2> HIDE DEF f
  <2> QED BY <2>1, <2>2 DEF Surjection
<1> HIDE DEF f, Pairs
<1>3. IsFiniteSet(Sessions)
  BY <1>1, <1>2, FS_Surjection
<1> QED BY <1>3, FS_Subset

\* The youngest of some sessions.
LEMMA YoungestExists ==
  ASSUME NEW S \in SUBSET Sessions, S # {}
  PROVE  \E x \in S : \A y \in S : y.at <= x.at
<1> DEFINE Ages == {n \in Nat : \E y \in S : n = Horizon - y.at}
<1>1. Horizon \in Nat /\ \A y \in S : y.at \in 0..Horizon
  BY LimitsTyped DEF Sessions
<1>2. \A y \in S : Horizon - y.at \in Ages
  BY <1>1
<1>3. PICK n \in Ages : \A m \in Ages : n <= m
  <2>1. Ages \subseteq Nat /\ Ages # {}
    BY <1>2
  <2> HIDE DEF Ages
  <2> QED BY <2>1, LeastNatural
<1>4. PICK x \in S : n = Horizon - x.at
  BY <1>3
<1>5. ASSUME NEW y \in S PROVE y.at <= x.at
  <2>1. Horizon - x.at <= Horizon - y.at
    BY <1>2, <1>3, <1>4
  <2> QED BY <1>1, <2>1
<1> QED BY <1>5

\* A jar has finitely many bytes.
LEMMA BytesFinite ==
  ASSUME NEW S \in SUBSET Sessions
  PROVE  IsFiniteSet(Bytes(S)) /\ SizeOf(S) \in Nat
<1> DEFINE part(x) == {x} \X (1..Sizes[x])
           Parts == {part(x) : x \in S}
           f == [x \in S |-> part(x)]
<1>1. IsFiniteSet(S)
  BY SessionsFinite
<1>2. \A T \in Parts : IsFiniteSet(T)
  <2> SUFFICES ASSUME NEW x \in S PROVE IsFiniteSet(part(x))
    OBVIOUS
  <2>1. Sizes[x] \in Int
    BY SizesAssumption
  <2>2. IsFiniteSet(1..Sizes[x])
    BY <2>1, FS_Interval
  <2>3. IsFiniteSet({x})
    BY FS_Singleton
  <2> QED BY <2>2, <2>3, FS_Product
<1>3. f \in Surjection(S, Parts)
  BY DEF Surjection
<1>4. IsFiniteSet(Parts)
  <2> HIDE DEF f, Parts
  <2> QED BY <1>1, <1>3, FS_Surjection
<1>5. IsFiniteSet(UNION Parts)
  <2> HIDE DEF Parts
  <2> QED BY <1>2, <1>4, FS_UNION
<1> QED BY <1>5, FS_CardinalityType DEF Bytes, SizeOf

\* More sessions are no smaller.
LEMMA SizeGrows ==
  ASSUME NEW T \in SUBSET Sessions, NEW S \in SUBSET T
  PROVE  SizeOf(S) <= SizeOf(T)
<1>1. Bytes(S) \in SUBSET Bytes(T)
  BY DEF Bytes
<1>2. IsFiniteSet(Bytes(T))
  BY BytesFinite
<1> QED BY <1>1, <1>2, FS_Subset DEF SizeOf

\* One session by itself.
LEMMA SizeOfOne ==
  ASSUME NEW x \in Sessions
  PROVE  SizeOf({x}) = Sizes[x]
<1> DEFINE One  == {x}
           Many == 1..Sizes[x]
<1>1. Sizes[x] \in Nat \ {0}
  BY SizesAssumption
<1>2. Bytes({x}) = One \X Many
  BY DEF Bytes
<1>3. IsFiniteSet(One) /\ Cardinality(One) = 1
  BY FS_Singleton
<1>4. IsFiniteSet(Many) /\ Cardinality(Many) = Sizes[x]
  BY <1>1, FS_Interval
<1> HIDE DEF One, Many
<1>5. Cardinality(One \X Many) = Cardinality(One) * Cardinality(Many)
  BY <1>3, <1>4, FS_Product, Zenon
<1>6. Cardinality(Bytes({x})) = 1 * Sizes[x]
  BY <1>2, <1>3, <1>4, <1>5, Zenon
<1>7. Cardinality(Bytes({x})) = Sizes[x]
  BY <1>1, <1>6
<1> QED BY <1>7 DEF SizeOf

\* Nothing is evicted before what is older.
LEMMA EvictedKeepsYounger ==
  ASSUME NEW K \in SUBSET Sessions, NEW y \in Evicted(K), NEW x \in K, y.at <= x.at
  PROVE  x \in Evicted(K)
<1> DEFINE from(s) == {v \in K : v.at >= s.at}
<1>1. y \in K /\ SizeOf(from(y)) <= MaxBytes
  BY DEF Evicted
<1>2. from(x) \in SUBSET from(y) /\ from(y) \in SUBSET Sessions
  BY <1>1, LimitsTyped DEF Sessions
<1>3. SizeOf(from(x)) <= SizeOf(from(y)) /\ SizeOf(from(x)) \in Nat /\ SizeOf(from(y)) \in Nat
  <2> HIDE DEF from
  <2> QED BY <1>2, SizeGrows, BytesFinite
<1>4. SizeOf(from(x)) <= MaxBytes
  <2> HIDE DEF from
  <2> QED BY <1>1, <1>3, LimitsTyped
<1> QED BY <1>4 DEF Evicted

\* What is left fits.
LEMMA EvictedFits ==
  ASSUME NEW K \in SUBSET Sessions
  PROVE  SizeOf(Evicted(K)) <= MaxBytes
<1>1. CASE Evicted(K) = {}
  <2>1. Bytes(Evicted(K)) = {}
    BY <1>1 DEF Bytes
  <2> QED BY <2>1, FS_EmptySet, LimitsTyped DEF SizeOf
<1>2. CASE Evicted(K) # {}
  <2> DEFINE Times == {y.at : y \in Evicted(K)}
  <2>1. Evicted(K) \subseteq K
    BY DEF Evicted
  <2>2. PICK n \in Times : \A m \in Times : n <= m
    <3>1. Times \subseteq Nat /\ Times # {}
      BY <1>2, <2>1, LimitsTyped DEF Sessions
    <3> HIDE DEF Times
    <3> QED BY <3>1, LeastNatural
  <2>3. PICK x \in Evicted(K) : n = x.at
    BY <2>2
  <2>4. Evicted(K) \in SUBSET {v \in K : v.at >= x.at}
    BY <2>1, <2>2, <2>3, LimitsTyped DEF Sessions
  <2>5. SizeOf({v \in K : v.at >= x.at}) <= MaxBytes
    BY DEF Evicted
  <2>6. {v \in K : v.at >= x.at} \in SUBSET Sessions
    OBVIOUS
  <2>7. SizeOf(Evicted(K)) <= SizeOf({v \in K : v.at >= x.at})
    BY <2>4, <2>6, SizeGrows
  <2>8. SizeOf(Evicted(K)) \in Nat /\ SizeOf({v \in K : v.at >= x.at}) \in Nat
    BY <2>1, <2>6, BytesFinite
  <2> QED BY <2>5, <2>7, <2>8, LimitsTyped
<1> QED BY <1>1, <1>2

\* What is evicted had no room: the youngest that went would not have fitted.
LEMMA EvictedMadeRoom ==
  ASSUME NEW K \in SUBSET Sessions, TimesDiffer(K), NEW y \in K \ Evicted(K),
         NEW candidates, K \subseteq candidates
  PROVE  MadeRoom(y, candidates, Evicted(K))
<1>1. PICK z \in K \ Evicted(K) : \A v \in K \ Evicted(K) : v.at <= z.at
  <2>1. K \ Evicted(K) \in SUBSET Sessions
    OBVIOUS
  <2> QED BY <2>1, YoungestExists
<1>2. \A v \in K : v.at \in Int
  BY LimitsTyped DEF Sessions
<1>3. Evicted(K) \subseteq K
  BY DEF Evicted
<1>4. \A v \in Evicted(K) : z.at < v.at
  <2> SUFFICES ASSUME NEW v \in Evicted(K), v.at <= z.at PROVE FALSE
    BY <1>2, <1>3
  <2> QED BY <1>1, EvictedKeepsYounger
<1>5. {v \in K : v.at >= z.at} \subseteq Evicted(K) \cup {z}
  <2> SUFFICES ASSUME NEW v \in K \ Evicted(K), v.at >= z.at PROVE v = z
    OBVIOUS
  <2>1. v.at = z.at
    BY <1>1, <1>2
  <2> QED BY <2>1 DEF TimesDiffer
<1>6. SizeOf({v \in K : v.at >= z.at}) <= SizeOf(Evicted(K) \cup {z})
  <2>1. Evicted(K) \cup {z} \in SUBSET Sessions
    BY <1>3
  <2> QED BY <1>5, <2>1, SizeGrows
<1>7. /\ SizeOf({v \in K : v.at >= z.at}) \in Nat
      /\ SizeOf(Evicted(K) \cup {z}) \in Nat
  <2>1. {v \in K : v.at >= z.at} \in SUBSET Sessions /\ Evicted(K) \cup {z} \in SUBSET Sessions
    BY <1>3
  <2> QED BY <2>1, BytesFinite
<1>8. ~(SizeOf({v \in K : v.at >= z.at}) <= MaxBytes)
  BY <1>1 DEF Evicted
<1>9. SizeOf(Evicted(K) \cup {z}) > MaxBytes
  BY <1>6, <1>7, <1>8, LimitsTyped
<1>10. z \in candidates \ Evicted(K) /\ y.at <= z.at
  BY <1>1
<1> QED BY <1>4, <1>9, <1>10 DEF MadeRoom

\* A session that is not expired has a bucket, the first one its age allows.
LEMMA BucketOfFirst ==
  ASSUME NEW x \in Sessions, NEW now \in Int, ~Expired(x, now)
  PROVE  /\ BucketOf(x, now) \in DOMAIN Buckets
         /\ now - x.at <= Buckets[BucketOf(x, now)].max_age
         /\ \A j \in DOMAIN Buckets :
              j < BucketOf(x, now) => now - x.at > Buckets[j].max_age
<1> DEFINE Fits == {i \in DOMAIN Buckets : now - x.at <= Buckets[i].max_age}
<1>1. /\ DOMAIN Buckets \subseteq Nat
      /\ \A i \in DOMAIN Buckets : Buckets[i].max_age \in Int
      /\ now - x.at \in Int
  BY BucketsTyped, LimitsTyped DEF Sessions
<1>2. Fits # {}
  BY <1>1 DEF Expired
<1>3. PICK i \in Fits : \A j \in Fits : i <= j
  <2>1. Fits \subseteq Nat
    BY <1>1
  <2> HIDE DEF Fits
  <2> QED BY <1>2, <2>1, LeastNatural
<1>4. ASSUME NEW j \in DOMAIN Buckets, j < i
      PROVE  now - x.at > Buckets[j].max_age
  <2>1. j \notin Fits
    BY <1>1, <1>3, <1>4
  <2> QED BY <1>1, <2>1
<1>5. i \in DOMAIN Buckets /\ now - x.at <= Buckets[i].max_age
  BY <1>3
<1> HIDE DEF Fits
<1> QED BY <1>4, <1>5 DEF BucketOf

\* A session that is no older than the recording is in the first bucket.
LEMMA YoungestBucket ==
  ASSUME NEW x \in Sessions, NEW now \in Int, now <= x.at
  PROVE  ~Expired(x, now) /\ IntervalOf(x, now) = 0
<1>1. /\ 1 \in DOMAIN Buckets /\ Buckets[1].sample_interval = 0
      /\ Buckets[1].max_age \in Nat
      /\ \A i \in DOMAIN Buckets : i \in Nat /\ i >= 1
  BY BucketsTyped
<1>2. now - x.at <= 0 /\ now - x.at \in Int
  BY DEF Sessions
<1>3. ~(now - x.at > Buckets[1].max_age)
  BY <1>1, <1>2
<1>4. ~Expired(x, now)
  BY <1>1, <1>3 DEF Expired
<1>5. BucketOf(x, now) = 1
  <2>1. BucketOf(x, now) \in DOMAIN Buckets /\ ~(1 < BucketOf(x, now))
    BY <1>1, <1>3, <1>4, BucketOfFirst
  <2> QED BY <1>1, <2>1
<1> QED BY <1>1, <1>4, <1>5 DEF IntervalOf

\* Why a recording drops a session.
LEMMA RecordDrops ==
  ASSUME NEW S \in SUBSET Sessions, NEW new \in Sessions, TimesDiffer(S \cup {new}),
         NEW kept \in RecordOutcomes(S, new), NEW x \in S \ kept,
         ~Expired(x, new.at)
  PROVE  \E y \in Rivals(x, S \cup {new}, new.at) :
           y \in kept \/ MadeRoom(y, S \cup {new}, kept)
<1>1. PICK K \in RetentionOutcomes(S \cup {new}, new.at) : kept = Evicted(K)
  BY DEF RecordOutcomes
<1>2. /\ K \subseteq S \cup {new}
      /\ IF IntervalOf(x, new.at) = 0 THEN x \in K
         ELSE Cardinality(SlotMates(K, x, new.at)) = 1
  BY <1>1 DEF RetentionOutcomes
<1>3. K \in SUBSET Sessions /\ TimesDiffer(K)
  BY <1>2 DEF TimesDiffer
<1>4. PICK y \in Rivals(x, S \cup {new}, new.at) : y \in K
  <2>1. CASE IntervalOf(x, new.at) = 0
    BY <1>2, <2>1 DEF Rivals
  <2>2. CASE IntervalOf(x, new.at) # 0
    <3>1. SlotMates(K, x, new.at) # {}
      BY <1>2, <2>2, FS_EmptySet
    <3>2. SlotMates(K, x, new.at) \subseteq K \cap SlotMates(S \cup {new}, x, new.at)
      BY <1>2 DEF SlotMates
    <3> QED BY <2>2, <3>1, <3>2 DEF Rivals
  <2> QED BY <2>1, <2>2
<1>5. y \notin kept => MadeRoom(y, S \cup {new}, kept)
  BY <1>1, <1>2, <1>3, <1>4, EvictedMadeRoom
<1> QED BY <1>4, <1>5

\* A recording keeps what fits, and the youngest session, the new one or not,
\* unless that one alone does not fit.
LEMMA RecordKeepsYoungest ==
  ASSUME NEW S \in SUBSET Sessions, NEW new \in Sessions, TimesDiffer(S \cup {new}),
         NEW kept \in RecordOutcomes(S, new)
  PROVE  \E x \in S \cup {new} :
           /\ \A y \in S \cup {new} : y.at <= x.at
           /\ x \in kept \/ (Sizes[x] > MaxBytes /\ kept = {})
<1>1. PICK K \in RetentionOutcomes(S \cup {new}, new.at) : kept = Evicted(K)
  BY DEF RecordOutcomes
<1>2. PICK x \in S \cup {new} : \A y \in S \cup {new} : y.at <= x.at
  <2>1. S \cup {new} \in SUBSET Sessions /\ S \cup {new} # {}
    OBVIOUS
  <2> QED BY <2>1, YoungestExists
<1>3. K \in SUBSET (S \cup {new}) /\ K \in SUBSET Sessions
  BY <1>1 DEF RetentionOutcomes
<1>4. x \in K
  <2>1. new.at <= x.at /\ new.at \in Int /\ x \in Sessions
    BY <1>2 DEF Sessions
  <2>2. ~Expired(x, new.at) /\ IntervalOf(x, new.at) = 0
    BY <2>1, YoungestBucket
  <2> QED BY <1>1, <2>2 DEF RetentionOutcomes
<1>5. CASE x \notin kept
  <2>1. kept = {}
    <3>1. kept \subseteq K
      BY <1>1 DEF Evicted
    <3>2. \A y \in kept : y.at <= x.at
      BY <1>2, <1>3, <3>1
    <3> QED BY <1>1, <1>3, <1>4, <1>5, <3>2, EvictedKeepsYounger
  <2>2. {v \in K : v.at >= x.at} = {x}
    <3> SUFFICES ASSUME NEW v \in K, v.at >= x.at PROVE v = x
      BY <1>4, LimitsTyped DEF Sessions
    <3>1. v.at <= x.at /\ v.at \in Int /\ x.at \in Int
      BY <1>2, <1>3, LimitsTyped DEF Sessions
    <3>2. v.at = x.at
      BY <3>1
    <3> QED BY <1>3, <3>2 DEF TimesDiffer
  <2>3. ~(SizeOf({x}) <= MaxBytes)
    BY <1>1, <1>4, <1>5, <2>2 DEF Evicted
  <2>4. SizeOf({x}) = Sizes[x] /\ Sizes[x] \in Nat \ {0}
    BY SizeOfOne, SizesAssumption
  <2>5. Sizes[x] > MaxBytes
    BY <2>3, <2>4, LimitsTyped
  <2> QED BY <1>2, <2>1, <2>5
<1> QED BY <1>2, <1>5

LEMMA RecordFits ==
  ASSUME NEW S \in SUBSET Sessions, NEW new \in Sessions,
         NEW kept \in RecordOutcomes(S, new)
  PROVE  SizeOf(kept) <= MaxBytes
<1>1. PICK K \in RetentionOutcomes(S \cup {new}, new.at) : kept = Evicted(K)
  BY DEF RecordOutcomes
<1>2. K \in SUBSET Sessions
  BY <1>1 DEF RetentionOutcomes
<1> QED BY <1>1, <1>2, EvictedFits
-----------------------------------------------------------------------------
(* Times of recordings differ.                                             *)

\* A session's time was taken from the clock when its recording began, and is
\* no other's: neither in the jar nor on its way there.
TimesInv ==
  /\ \A x \in jar.sessions : x.at < clock
  /\ TimesDiffer(jar.sessions)
  /\ \A w \in Solves : solve[w].step \in Recording =>
       /\ solve[w].now < clock
       /\ \A x \in jar.sessions : x.at # solve[w].now
  /\ \A v, w \in Solves :
       /\ solve[v].step \in Recording
       /\ solve[w].step \in Recording
       /\ solve[v].now = solve[w].now
       => v = w

\* A recording that goes on keeps its time, and the others go on or end.
LEMMA TimesKept ==
  ASSUME JarTypeOK, TimesInv, NEW w \in Solves, UNCHANGED jar, UNCHANGED clock,
         \A v \in Solves \ {w} : solve'[v] = solve[v],
         \/ solve'[w].step \notin Recording
         \/ solve[w].step \in Recording /\ solve'[w].now = solve[w].now
  PROVE  TimesInv'
<1>1. ASSUME NEW v \in Solves, solve'[v].step \in Recording
      PROVE  solve[v].step \in Recording /\ solve'[v].now = solve[v].now
  BY <1>1
<1>2. \A v \in Solves : solve'[v].step \in Recording =>
        /\ solve'[v].now < clock'
        /\ \A x \in jar'.sessions : x.at # solve'[v].now
  BY <1>1 DEF TimesInv
<1>3. \A v, u \in Solves :
        /\ solve'[v].step \in Recording
        /\ solve'[u].step \in Recording
        /\ solve'[v].now = solve'[u].now
        => v = u
  BY <1>1 DEF TimesInv
<1>4. (\A x \in jar'.sessions : x.at < clock') /\ TimesDiffer(jar'.sessions)
  BY DEF TimesInv
<1> QED BY <1>2, <1>3, <1>4 DEF TimesInv

\* A recording puts the new session into the jar and takes its time along.
LEMMA RenameKeepsTimes ==
  ASSUME JarInv, TimesInv, NEW w \in Solves, Rename(w)
  PROVE  TimesInv'
<1> DEFINE new == NewSession(w)
<1>1. /\ solve[w].step = "written" /\ jar' = solve[w].temp /\ UNCHANGED clock
      /\ solve' = [solve EXCEPT ![w] = IdleSolve]
      /\ solve[w].step \in Recording
  BY DEF Rename, Recording
<1>2. /\ solve'[w].step \notin Recording
      /\ \A v \in Solves \ {w} : solve'[v] = solve[v]
  BY <1>1 DEF JarInv, JarTypeOK, IdleSolve, Recording
<1>3. jar'.sessions \subseteq jar.sessions \cup {new}
  <2>1. jar'.sessions \in RecordOutcomes(LoadJar(solve[w].readable), new)
    BY <1>1 DEF JarInv, TempIsCurrent
  <2>2. LoadJar(solve[w].readable) \subseteq jar.sessions
    BY DEF LoadJar
  <2> HIDE DEF new
  <2> QED BY <2>1, <2>2 DEF RecordOutcomes, RetentionOutcomes, Evicted
<1>4. new.at = solve[w].now
  BY DEF NewSession
<1> HIDE DEF new
<1>5. \A x \in jar'.sessions : x.at < clock'
  BY <1>1, <1>3, <1>4 DEF TimesInv
<1>6. TimesDiffer(jar'.sessions)
  BY <1>1, <1>3, <1>4 DEF TimesInv, TimesDiffer
<1>7. ASSUME NEW v \in Solves, solve'[v].step \in Recording
      PROVE  /\ solve'[v].now < clock'
             /\ \A x \in jar'.sessions : x.at # solve'[v].now
  <2>1. v # w /\ solve'[v] = solve[v]
    BY <1>2, <1>7
  <2>2. solve[v].now # solve[w].now
    BY <1>1, <1>7, <2>1 DEF TimesInv
  <2> QED BY <1>1, <1>3, <1>4, <1>7, <2>1, <2>2 DEF TimesInv
<1>8. ASSUME NEW v \in Solves, NEW u \in Solves, solve'[v].step \in Recording,
             solve'[u].step \in Recording, solve'[v].now = solve'[u].now
      PROVE  v = u
  <2>1. solve'[v] = solve[v] /\ solve'[u] = solve[u]
    BY <1>2, <1>8
  <2> QED BY <1>8, <2>1 DEF TimesInv
<1> QED BY <1>5, <1>6, <1>7, <1>8 DEF TimesInv

LEMMA TimesInvNext == JarInv /\ TimesInv /\ [JarNext]_jarVars => TimesInv'
<1> SUFFICES ASSUME JarInv, TimesInv, [JarNext]_jarVars PROVE TimesInv'
  OBVIOUS
<1>0. /\ JarTypeOK
      /\ DOMAIN solve = Solves
      /\ clock \in Int
      /\ \A w \in Solves : solve[w].now \in Int
      /\ \A x \in jar.sessions : x.at \in Int
  <2>1. JarTypeOK
    BY DEF JarInv
  <2>2. clock \in Int /\ jar.sessions \subseteq Sessions /\ solve \in [Solves -> SolveStates]
    BY <2>1 DEF JarTypeOK, Files
  <2> QED BY <2>1, <2>2 DEF SolveStates, Sessions
<1>1. ASSUME NEW w \in Solves,
             Begin(w) \/ Renew(w) \/ Fail(w) \/ RecordFails(w) \/ Crash(w)
      PROVE  TimesInv'
  <2>1. UNCHANGED <<jar, clock>>
    BY <1>1 DEF Begin, Renew, Fail, RecordFails, Crash
  <2>2. \A v \in Solves \ {w} : solve'[v] = solve[v]
    BY <1>0, <1>1 DEF Begin, Renew, Fail, RecordFails, Crash
  <2>3. solve'[w].step \in {"idle", "browsing"}
    <3>1. CASE Begin(w)
      BY <1>0, <3>1 DEF Begin, JarTypeOK, SolveStates
    <3>2. CASE Renew(w)
      BY <1>0, <3>2 DEF Renew, JarTypeOK, SolveStates
    <3>3. CASE Fail(w) \/ RecordFails(w) \/ Crash(w)
      <4>1. solve'[w] = IdleSolve
        BY <1>0, <3>3 DEF Fail, RecordFails, Crash
      <4> QED BY <4>1 DEF IdleSolve
    <3> QED BY <1>1, <3>1, <3>2, <3>3
  <2>4. solve'[w].step \notin Recording
    BY <2>3 DEF Recording
  <2> QED BY <1>0, <2>1, <2>2, <2>4, TimesKept
<1>2. ASSUME NEW w \in Solves, Acquire(w) \/ LoadAndWrite(w) \/ FinishWriting(w)
      PROVE  TimesInv'
  <2>1. UNCHANGED <<jar, clock>> /\ solve[w].step \in Recording
    BY <1>2 DEF Acquire, LoadAndWrite, FinishWriting, Recording
  <2>2. \A v \in Solves \ {w} : solve'[v] = solve[v]
    BY <1>0, <1>2 DEF Acquire, LoadAndWrite, FinishWriting
  <2>3. solve'[w].now = solve[w].now
    <3>1. CASE Acquire(w)
      BY <1>0, <3>1 DEF Acquire, JarTypeOK, SolveStates
    <3>2. CASE LoadAndWrite(w)
      BY <1>0, <3>2 DEF LoadAndWrite, JarTypeOK, SolveStates
    <3>3. CASE FinishWriting(w)
      BY <1>0, <3>3 DEF FinishWriting, JarTypeOK, SolveStates
    <3> QED BY <1>2, <3>1, <3>2, <3>3
  <2> QED BY <1>0, <2>1, <2>2, <2>3, TimesKept
<1>3. ASSUME NEW w \in Solves, Succeed(w) PROVE TimesInv'
  <2>1. /\ clock' = clock + 1 /\ UNCHANGED jar
        /\ solve' = [solve EXCEPT ![w] = [@ EXCEPT !.step = "locking", !.now = clock]]
    BY <1>3 DEF Succeed
  <2>2. /\ solve'[w].now = clock
        /\ \A v \in Solves \ {w} : solve'[v] = solve[v]
    BY <1>0, <2>1 DEF JarTypeOK, SolveStates
  <2>3. /\ \A x \in jar'.sessions : x.at < clock' /\ x.at # clock
        /\ TimesDiffer(jar'.sessions)
    BY <1>0, <2>1 DEF TimesInv
  <2>4. ASSUME NEW v \in Solves, solve'[v].step \in Recording
        PROVE  /\ solve'[v].now < clock'
               /\ v # w => solve'[v].now < clock
               /\ \A x \in jar'.sessions : x.at # solve'[v].now
    <3>1. CASE v = w
      BY <1>0, <2>1, <2>2, <2>3, <3>1
    <3>2. CASE v # w
      BY <1>0, <2>1, <2>2, <2>4, <3>2 DEF TimesInv
    <3> QED BY <3>1, <3>2
  <2>5. ASSUME NEW v \in Solves, NEW u \in Solves, solve'[v].step \in Recording,
               solve'[u].step \in Recording, solve'[v].now = solve'[u].now
        PROVE  v = u
    <3>1. CASE v # w /\ u # w
      BY <2>2, <2>5, <3>1 DEF TimesInv
    <3>2. CASE v = w \/ u = w
      BY <1>0, <2>2, <2>4, <2>5, <3>2
    <3> QED BY <3>1, <3>2
  <2> QED BY <2>3, <2>4, <2>5 DEF TimesInv
<1>4. ASSUME NEW w \in Solves, Rename(w) PROVE TimesInv'
  BY <1>4, RenameKeepsTimes
<1>5. CASE Tick
  <2>1. clock' = clock + 1 /\ UNCHANGED <<jar, solve>>
    BY <1>5 DEF Tick
  <2>2. \A n \in Int : n < clock => n < clock'
    BY <1>0, <2>1
  <2> QED BY <1>0, <2>1, <2>2 DEF TimesInv
<1>6. CASE UNCHANGED jarVars
  BY <1>6 DEF jarVars, TimesInv
<1> QED
  BY <1>1, <1>2, <1>3, <1>4, <1>5, <1>6 DEF JarNext, Records

LEMMA TimesAlways == JarSpec => []TimesInv
<1>1. JarInit => TimesInv
  BY DEF JarInit, TimesInv, TimesDiffer, EmptyFile, IdleSolve, Recording
<1> QED BY <1>1, JarInvariant, TimesInvNext, PTL DEF JarSpec

\* What a recording under way is about to do, in terms of the lemmas above.
LEMMA RenameRecords ==
  ASSUME JarInv, TimesInv, NEW w \in Solves, Rename(w), solve[w].readable
  PROVE  /\ jar.sessions \in SUBSET Sessions /\ NewSession(w) \in Sessions
         /\ NewSession(w).at = solve[w].now
         /\ TimesDiffer(jar.sessions \cup {NewSession(w)})
         /\ jar'.sessions \in RecordOutcomes(jar.sessions, NewSession(w))
<1>1. solve[w].step \in Recording /\ solve[w].step = "written" /\ jar' = solve[w].temp
  BY DEF Rename, Recording
<1>2. NewSession(w).at = solve[w].now
  BY DEF NewSession
<1>3. TimesDiffer(jar.sessions \cup {NewSession(w)})
  BY <1>1, <1>2 DEF TimesInv, TimesDiffer
<1>4. LoadJar(solve[w].readable) = jar.sessions
  BY DEF LoadJar, JarInv, ReadersSeeWholeJar
<1>5. jar'.sessions \in RecordOutcomes(jar.sessions, NewSession(w))
  BY <1>1, <1>4 DEF JarInv, TempIsCurrent
<1>6. jar.sessions \in SUBSET Sessions /\ NewSession(w) \in Sessions
  BY NewSessionType DEF JarInv, JarTypeOK, Files
<1> QED BY <1>2, <1>3, <1>5, <1>6

\* For any buckets, sizes, cap and overlap of recordings a session disappears
\* only for a reason the rules of retention and cap give
\* (apply_rrd_retention, enforce_max_total_size).
THEOREM EveryDropJustified == JarSpec => DropsJustified
<1> DEFINE Kept(y, w) ==
             y \in jar'.sessions \/ MadeRoom(y, jar.sessions \cup {NewSession(w)}, jar'.sessions)
<1>1. JarInv /\ TimesInv /\ [JarNext]_jarVars =>
        [\A x \in jar.sessions \ jar'.sessions :
           \E w \in Solves :
             /\ Rename(w)
             /\ \/ ~solve[w].readable
                \/ Expired(x, solve[w].now)
                \/ \E y \in Rivals(x, jar.sessions \cup {NewSession(w)}, solve[w].now) :
                     Kept(y, w)]_jarVars
  <2> SUFFICES ASSUME JarInv, TimesInv, [JarNext]_jarVars, NEW x \in jar.sessions \ jar'.sessions
               PROVE  \E w \in Solves :
                        /\ Rename(w)
                        /\ \/ ~solve[w].readable
                           \/ Expired(x, solve[w].now)
                           \/ \E y \in Rivals(x, jar.sessions \cup {NewSession(w)}, solve[w].now) :
                                Kept(y, w)
    OBVIOUS
  <2>1. PICK w \in Solves : Rename(w)
    BY DEF JarNext, jarVars, Records, Begin, Renew, Fail, Succeed, Acquire, LoadAndWrite,
           FinishWriting, RecordFails, Crash, Tick
  <2>2. CASE ~solve[w].readable
    BY <2>1, <2>2
  <2>3. CASE solve[w].readable
    <3>1. \/ Expired(x, NewSession(w).at)
          \/ \E y \in Rivals(x, jar.sessions \cup {NewSession(w)}, NewSession(w).at) : Kept(y, w)
      BY <2>1, <2>3, RenameRecords, RecordDrops
    <3> QED BY <2>1, <2>3, <3>1, RenameRecords
  <2> QED BY <2>2, <2>3
<1> QED BY <1>1, JarInvariant, TimesAlways, PTL DEF JarSpec, DropsJustified

\* Whatever the buckets and sizes, and however long a recording waited for the
\* lock, the jar fits its cap and has the youngest session, unless that one
\* alone exceeds the cap (apply_rrd_retention, enforce_max_total_size).
THEOREM YoungestStaysIfItFits == JarSpec => CapRespected
<1> DEFINE Respected(w) ==
             /\ SizeOf(jar'.sessions) <= MaxBytes
             /\ solve[w].readable =>
                  \E x \in jar.sessions \cup {NewSession(w)} :
                    /\ \A y \in jar.sessions \cup {NewSession(w)} : y.at <= x.at
                    /\ \/ x \in jar'.sessions
                       \/ Sizes[x] > MaxBytes /\ jar'.sessions = {}
<1>1. JarInv /\ TimesInv /\ [JarNext]_jarVars =>
        [\A w \in Solves : Rename(w) => Respected(w)]_jarVars
  <2> SUFFICES ASSUME JarInv, TimesInv, NEW w \in Solves, Rename(w)
               PROVE  Respected(w)
    OBVIOUS
  <2>1. jar'.sessions \in RecordOutcomes(LoadJar(solve[w].readable), NewSession(w))
    BY DEF Rename, JarInv, TempIsCurrent
  <2>2. LoadJar(solve[w].readable) \in SUBSET Sessions /\ NewSession(w) \in Sessions
    BY LoadJarType, NewSessionType DEF JarInv, JarTypeOK, SolveStates
  <2>3. SizeOf(jar'.sessions) <= MaxBytes
    BY <2>1, <2>2, RecordFits
  <2>4. CASE solve[w].readable
    <3> DEFINE S == jar.sessions
               new == NewSession(w)
               kept == jar'.sessions
    <3>1. /\ S \in SUBSET Sessions /\ new \in Sessions /\ TimesDiffer(S \cup {new})
          /\ kept \in RecordOutcomes(S, new)
      BY <2>2, <2>4, RenameRecords
    <3> HIDE DEF S, new, kept
    <3>2. \E x \in S \cup {new} :
            /\ \A y \in S \cup {new} : y.at <= x.at
            /\ x \in kept \/ (Sizes[x] > MaxBytes /\ kept = {})
      BY <3>1, RecordKeepsYoungest
    <3> QED BY <2>3, <3>2 DEF S, new, kept
  <2> QED BY <2>3, <2>4
<1> QED BY <1>1, JarInvariant, TimesAlways, PTL DEF JarSpec, CapRespected
=============================================================================
