--------------------------- MODULE StorageBackend ---------------------------
(***************************************************************************)
(* What the users of a StorageBackend may rely on                          *)
(* (src/core/interfaces/storage_backend.py), for any number of processes   *)
(* that save into one store: an item whose save returned is stored, at     *)
(* once and for good, and nothing else is stored, with one exception that  *)
(* the SQLite implementation makes.  An item whose save raised may turn up *)
(* later, together with one that was saved.                                *)
(***************************************************************************)
CONSTANT Items

VARIABLES
  stored,   \* the items in the store
  result    \* item -> what its save told the caller

backendVars == <<stored, result>>

Init ==
  /\ stored = {}
  /\ result = [i \in Items |-> "unsaved"]

\* The items the caller was told were not stored.
Refused == {i \in Items : result[i] = "failed"}

\* save returns; late are the items it stores besides.
Save(i, late) ==
  /\ result[i] = "unsaved"
  /\ late \subseteq Refused
  /\ stored' = stored \cup {i} \cup late
  /\ result' = [result EXCEPT ![i] = "saved"]

\* save raises StorageError.
Refuse(i) ==
  /\ result[i] = "unsaved"
  /\ result' = [result EXCEPT ![i] = "failed"]
  /\ UNCHANGED stored

Next == \E i \in Items : Refuse(i) \/ \E late \in SUBSET Items : Save(i, late)

Spec == Init /\ [][Next]_backendVars
=============================================================================
