----------------------------- MODULE CookieJar -----------------------------
(***************************************************************************)
(* The cookie jar that solves of different threads and processes share     *)
(* (src/providers/antibot/cookie_jar_manager.py), and the two places where *)
(* a browser provider's solve uses it: load_accumulated_state when its     *)
(* context is created, record_new_session when it has succeeded.           *)
(*                                                                         *)
(* A recording takes the time, waits for the lock, loads the jar and       *)
(* begins the temporary file, completes it, and renames it over the jar    *)
(* while letting go of the lock; a solve's process may be killed between   *)
(* any two of these steps, and reading or writing may fail in each.        *)
(* Temporary files that a killed process leaves are read by nobody and are *)
(* not kept.  The solve is one cookie: its target may renew it meanwhile.  *)
(***************************************************************************)
EXTENDS CookieRetention

CONSTANTS
  Solves,       \* solve() calls that may run at the same time
  NoSolve       \* nobody holds the lock

ASSUME JarAssumption == NoSolve \notin Solves

VARIABLES
  clock,    \* time.time()
  version,  \* the latest version of the cookie a target has handed out
  jar,      \* the file jar_path
  lock,     \* who holds the flock on jar_path.lock
  solve     \* the state of each solve

jarVars == <<clock, version, jar, lock, solve>>

Steps == {"idle", "browsing", "locking", "locked", "writing", "written"}

Recording == {"locking", "locked", "writing", "written"}

Critical == {"locked", "writing", "written"}

\* A file's sessions, and whether all of its text is there.
Files == [sessions : SUBSET Sessions, whole : BOOLEAN]

EmptyFile == [sessions |-> {}, whole |-> TRUE]

SolveStates == [step : Steps, cookie : 0..MaxVersion, now : 0..Horizon,
                readable : BOOLEAN, temp : Files]

IdleSolve == [step |-> "idle", cookie |-> 0, now |-> 0, readable |-> TRUE, temp |-> EmptyFile]

\* load_jar: a missing, unreadable or cut off file counts as an empty one.
LoadJar(readable) == IF readable /\ jar.whole THEN jar.sessions ELSE {}

NewSession(w) == [at |-> solve[w].now, cookie |-> solve[w].cookie]
-----------------------------------------------------------------------------
\* The provider creates its context from load_accumulated_state.
Begin(w) ==
  /\ solve[w].step = "idle"
  /\ \E readable \in BOOLEAN : \E cookie \in Merged(LoadJar(readable)) :
       solve' = [solve EXCEPT ![w] = [@ EXCEPT !.step = "browsing", !.cookie = cookie]]
  /\ UNCHANGED <<clock, version, jar, lock>>

\* The target sets the cookie anew.
Renew(w) ==
  /\ solve[w].step = "browsing"
  /\ version < MaxVersion
  /\ version' = version + 1
  /\ solve' = [solve EXCEPT ![w] = [@ EXCEPT !.cookie = version + 1]]
  /\ UNCHANGED <<clock, jar, lock>>

\* The solve raises: nothing is recorded.
Fail(w) ==
  /\ solve[w].step = "browsing"
  /\ solve' = [solve EXCEPT ![w] = IdleSolve]
  /\ UNCHANGED <<clock, version, jar, lock>>

\* The solve succeeds and calls record_new_session, which takes the time.
Succeed(w) ==
  /\ solve[w].step = "browsing"
  /\ clock < Horizon
  /\ clock' = clock + 1
  /\ solve' = [solve EXCEPT ![w] = [@ EXCEPT !.step = "locking", !.now = clock]]
  /\ UNCHANGED <<version, jar, lock>>

\* A wrong variant: the lock is taken without excluding others.
AcquireShared(w) ==
  /\ solve[w].step = "locking"
  /\ lock' = w
  /\ solve' = [solve EXCEPT ![w] = [@ EXCEPT !.step = "locked"]]
  /\ UNCHANGED <<clock, version, jar>>

\* flock(LOCK_EX) returns.
Acquire(w) ==
  /\ solve[w].step = "locking"
  /\ lock = NoSolve
  /\ lock' = w
  /\ solve' = [solve EXCEPT ![w] = [@ EXCEPT !.step = "locked"]]
  /\ UNCHANGED <<clock, version, jar>>

\* load_jar, retention and cap; save_jar begins to write the temporary file.
LoadAndWrite(w) ==
  /\ solve[w].step = "locked"
  /\ \E readable \in BOOLEAN :
       \E kept \in RecordOutcomes(LoadJar(readable), NewSession(w)) :
         solve' = [solve EXCEPT ![w] =
                     [@ EXCEPT !.step = "writing",
                               !.readable = readable,
                               !.temp = [sessions |-> kept, whole |-> FALSE]]]
  /\ UNCHANGED <<clock, version, jar, lock>>

\* write_text returns.
FinishWriting(w) ==
  /\ solve[w].step = "writing"
  /\ solve' = [solve EXCEPT ![w] =
                [@ EXCEPT !.step = "written",
                          !.temp = [sessions |-> solve[w].temp.sessions, whole |-> TRUE]]]
  /\ UNCHANGED <<clock, version, jar, lock>>

\* A wrong variant: the jar is put in place before all of it is written.
RenameEarly(w) ==
  /\ solve[w].step \in {"writing", "written"}
  /\ jar' = solve[w].temp
  /\ lock' = NoSolve
  /\ solve' = [solve EXCEPT ![w] = IdleSolve]
  /\ UNCHANGED <<clock, version>>

\* The temporary file replaces the jar, and _locked_jar_file is left.
Rename(w) ==
  /\ solve[w].step = "written"
  /\ jar' = solve[w].temp
  /\ lock' = NoSolve
  /\ solve' = [solve EXCEPT ![w] = IdleSolve]
  /\ UNCHANGED <<clock, version>>

\* A wrong variant: an error leaves the lock held.
RecordFailsLocked(w) ==
  /\ solve[w].step \in Recording
  /\ solve' = [solve EXCEPT ![w] = IdleSolve]
  /\ UNCHANGED <<clock, version, jar, lock>>

\* An OSError from the lock file, the temporary file or the rename: the lock
\* is released and the provider logs the error and goes on.
RecordFails(w) ==
  /\ solve[w].step \in Recording
  /\ lock' = IF lock = w THEN NoSolve ELSE lock
  /\ solve' = [solve EXCEPT ![w] = IdleSolve]
  /\ UNCHANGED <<clock, version, jar>>

\* The solve's process is killed: the kernel releases its lock.
Crash(w) ==
  /\ solve[w].step # "idle"
  /\ lock' = IF lock = w THEN NoSolve ELSE lock
  /\ solve' = [solve EXCEPT ![w] = IdleSolve]
  /\ UNCHANGED <<clock, version, jar>>

Tick ==
  /\ clock < Horizon
  /\ clock' = clock + 1
  /\ UNCHANGED <<version, jar, lock, solve>>
-----------------------------------------------------------------------------
JarInit ==
  /\ clock = 0
  /\ version = 0
  /\ jar = EmptyFile
  /\ lock = NoSolve
  /\ solve = [w \in Solves |-> IdleSolve]

\* The solve goes on recording.
Records(w) ==
  Acquire(w) \/ LoadAndWrite(w) \/ FinishWriting(w) \/ Rename(w)

JarNext ==
  \/ \E w \in Solves :
       \/ Begin(w) \/ Renew(w) \/ Fail(w) \/ Succeed(w)
       \/ Records(w) \/ RecordFails(w) \/ Crash(w)
  \/ Tick

JarSpec == JarInit /\ [][JarNext]_jarVars

\* A solve that is recording keeps running, and the kernel serves the waiters
\* of a flock in turn.
FairJarSpec ==
  /\ JarSpec
  /\ \A w \in Solves : SF_jarVars(Acquire(w)) /\ WF_jarVars(Records(w))
-----------------------------------------------------------------------------
\* Type correctness.
JarTypeOK ==
  /\ clock \in 0..Horizon /\ version \in 0..MaxVersion
  /\ jar \in Files
  /\ lock \in Solves \cup {NoSolve}
  /\ solve \in [Solves -> SolveStates]

\* The lock is held by the solve that is in the critical section, and by
\* nobody else.  (_locked_jar_file.)
LockHeld == \A w \in Solves : solve[w].step \in Critical <=> lock = w

\* What a solve is about to put in place is still what a recording makes of
\* the jar as it is now.  (record_new_session: load to save under the lock.)
TempIsCurrent ==
  \A w \in Solves :
    /\ solve[w].step \in {"writing", "written"} =>
         solve[w].temp.sessions \in RecordOutcomes(LoadJar(solve[w].readable), NewSession(w))
    /\ solve[w].step = "written" => solve[w].temp.whole

\* Whatever is killed when, a reader without the lock never finds a jar that
\* is cut off ("either the complete old file or the complete new one").
\* (save_jar's temporary file and rename.)
ReadersSeeWholeJar == jar.whole

\* The inductive invariant behind the theorems of CookieJarProofs: between
\* its load and its rename a recording is never overtaken.
JarInv == JarTypeOK /\ LockHeld /\ TempIsCurrent /\ ReadersSeeWholeJar

\* The jar behaves like a store to which sessions are recorded one at a time:
\* no recording is lost to a concurrent one.  (record_new_session's lock
\* "across its entire load+modify+save critical section".)
Store == INSTANCE SessionStore
           WITH stored <- jar.sessions, AllSessions <- Sessions, Outcomes <- RecordOutcomes

RecordingsAreAtomic == Store!StoreSpec

\* The sessions of which retention keeps one on behalf of x.
Rivals(x, candidates, now) ==
  IF IntervalOf(x, now) = 0 THEN {x} ELSE SlotMates(candidates, x, now)

\* The cap had x go: with the youngest session it took, which is x or younger,
\* what is left would not have fitted, and all that is left is younger.
MadeRoom(x, candidates, kept) ==
  \E z \in candidates \ kept :
    /\ x.at <= z.at
    /\ \A y \in kept : z.at < y.at
    /\ SizeOf(kept \cup {z}) > MaxBytes

\* As seen by a recording that read the jar, a session disappears from it only
\* because it is too old, because its time slot keeps another one, or because
\* the cap left no room for the one that the slot kept: the cap takes the
\* oldest first, and no more than it must.
\* (apply_rrd_retention, enforce_max_total_size.)
DropsJustified ==
  [][\A x \in jar.sessions \ jar'.sessions :
       \E w \in Solves :
         /\ Rename(w)
         /\ \/ ~solve[w].readable
            \/ Expired(x, solve[w].now)
            \/ LET candidates == jar.sessions \cup {NewSession(w)}
               IN  \E y \in Rivals(x, candidates, solve[w].now) :
                     y \in jar'.sessions \/ MadeRoom(y, candidates, jar'.sessions)]_jarVars

\* What a recording leaves fits the cap, and the most recent session is part of
\* it, also when it is not the one being recorded because that one waited for
\* the lock.  Only a session that is larger than the cap by itself goes
\* although it is the most recent, and then all the others have gone before.
\* ("until it fits, or nothing is left to evict", enforce_max_total_size.)
CapRespected ==
  [][\A w \in Solves : Rename(w) =>
       /\ SizeOf(jar'.sessions) <= MaxBytes
       /\ solve[w].readable =>
            \E x \in jar.sessions \cup {NewSession(w)} :
              /\ \A y \in jar.sessions \cup {NewSession(w)} : y.at <= x.at
              /\ \/ x \in jar'.sessions
                 \/ Sizes[x] > MaxBytes /\ jar'.sessions = {}]_jarVars

\* Every recording ends: no failure and no kill leaves the lock held.
RecordingsEnd ==
  \A w \in Solves : solve[w].step = "locking" ~> solve[w].step = "idle"

\* "The value from the chronologically later session wins -- the real,
\* most-recent value that cookie actually had" (cookie_jar_manager.py:273).
MergedIsNewest ==
  \A x \in jar.sessions, cookie \in Merged(jar.sessions) : x.cookie <= cookie
=============================================================================
