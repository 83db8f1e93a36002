---------------------------- MODULE SessionStore ----------------------------
(***************************************************************************)
(* What the cookie jar promises: a set of sessions to which sessions are   *)
(* recorded one at a time, each recording an atomic step on what the       *)
(* previous one left.  A recording that could not read the jar starts from *)
(* an empty one.  CookieJar implements this with files and a lock.         *)
(***************************************************************************)
CONSTANTS
  AllSessions,     \* what may be recorded
  Outcomes(_, _)   \* the sets that recording a session in a set may leave

VARIABLE stored

Record(new) ==
  stored' \in Outcomes(stored, new) \cup Outcomes({}, new)

StoreInit == stored = {}

StoreNext == \E new \in AllSessions : Record(new)

StoreSpec == StoreInit /\ [][StoreNext]_stored
=============================================================================
