-------------------------- MODULE CookieRetention --------------------------
(***************************************************************************)
(* Which sessions a cookie jar keeps when one more is recorded             *)
(* (src/providers/antibot/cookie_jar_manager.py): sampling by age          *)
(* (apply_rrd_retention), then the size cap (enforce_max_total_size).      *)
(*                                                                         *)
(* A session is the time of its recording and the version of one cookie    *)
(* in its storage state (0: the cookie is not there).  Times of recordings *)
(* differ, as time.time() does.  What else a session holds shows in its    *)
(* size only.  The size of a list is the sum of its sessions' sizes, each  *)
(* with its separator: the cap compares nothing else.                      *)
(***************************************************************************)
EXTENDS Integers, FiniteSets, Sequences

CONSTANTS
  Buckets,      \* the retention buckets, finest and youngest first
  Sizes,        \* the bytes of each session in the serialized jar
  MaxBytes,     \* max_total_bytes
  Horizon,      \* bound on time
  MaxVersion    \* bound on the versions of the cookie that targets hand out

\* DEFAULT_RETENTION_BUCKETS, a tuple: ascending ages, the first bucket keeps all.
ASSUME RetentionAssumption ==
  /\ Buckets \in Seq([max_age : Nat, sample_interval : Nat])
  /\ \A i, j \in DOMAIN Buckets : i < j => Buckets[i].max_age < Buckets[j].max_age
  /\ 1 \in DOMAIN Buckets /\ Buckets[1].sample_interval = 0
  /\ MaxBytes \in Nat
  /\ Horizon \in Nat /\ MaxVersion \in Nat

Sessions == [at : 0..Horizon, cookie : 0..MaxVersion]

ASSUME SizesAssumption == Sizes \in [Sessions -> Nat \ {0}]

\* _bucket_index_for_age returns None.
Expired(x, now) == \A i \in DOMAIN Buckets : now - x.at > Buckets[i].max_age

\* _bucket_index_for_age, for a session that is not expired.
BucketOf(x, now) ==
  CHOOSE i \in DOMAIN Buckets :
    /\ now - x.at <= Buckets[i].max_age
    /\ \A j \in DOMAIN Buckets : j < i => now - x.at > Buckets[j].max_age

IntervalOf(x, now) == Buckets[BucketOf(x, now)].sample_interval

\* The sessions of the same bucket and time slot as x.
SlotMates(S, x, now) ==
  { y \in S : /\ ~Expired(y, now)
              /\ BucketOf(y, now) = BucketOf(x, now)
              /\ (now - y.at) \div IntervalOf(x, now) = (now - x.at) \div IntervalOf(x, now) }

\* A wrong variant: at most one session per slot, but perhaps none.
RetentionOutcomesSparse(S, now) ==
  { K \in SUBSET S :
      \A x \in S :
        IF Expired(x, now) THEN x \notin K
        ELSE IF IntervalOf(x, now) = 0 THEN x \in K
        ELSE Cardinality(SlotMates(K, x, now)) <= 1 }

\* apply_rrd_retention: what it may return, rng.choice being free.
RetentionOutcomes(S, now) ==
  { K \in SUBSET S :
      \A x \in S :
        IF Expired(x, now) THEN x \notin K
        ELSE IF IntervalOf(x, now) = 0 THEN x \in K
        ELSE Cardinality(SlotMates(K, x, now)) = 1 }

\* The bytes of the sessions of S in the jar, one by one.
Bytes(S) == UNION { {x} \X (1..Sizes[x]) : x \in S }

\* _serialized_size.
SizeOf(S) == Cardinality(Bytes(S))

\* A wrong variant: the youngest sessions are evicted first.
EvictedYoungest(S) ==
  { x \in S : SizeOf({ y \in S : y.at <= x.at }) <= MaxBytes }

\* enforce_max_total_size: the oldest session of the last non-empty bucket
\* goes first, until what is left fits, or nothing is left.  Later buckets
\* hold older sessions, so it is the oldest of all: a session stays when it
\* fits together with all that are younger.
Evicted(S) ==
  { x \in S : SizeOf({ y \in S : y.at >= x.at }) <= MaxBytes }

\* record_new_session: the lists it may save, having loaded S.
RecordOutcomes(S, new) ==
  { Evicted(K) : K \in RetentionOutcomes(S \cup {new}, new.at) }

\* The sessions of S that have the cookie, and were recorded last of those.
LatestWithCookie(S) ==
  { x \in S : x.cookie # 0 /\ \A y \in S : y.cookie # 0 => y.at <= x.at }

\* merge_sessions_into_storage_state: the cookie of the latest session that
\* has one.  The set has one element, as no two sessions have the same time.
Merged(S) ==
  IF \A x \in S : x.cookie = 0 THEN {0}
  ELSE { x.cookie : x \in LatestWithCookie(S) }
=============================================================================
