---------------------------- MODULE SQLiteStorage ----------------------------
(***************************************************************************)
(* The SQLite storage backend (src/providers/storage/sqlite_backend.py)    *)
(* behind the item pipeline (src/spiders/pipelines.py).  Every crawl has a *)
(* process of its own, with a connection of its own to the one database    *)
(* file, so saves of several crawls and queries of other programs meet in  *)
(* SQLite's locks.                                                         *)
(*                                                                         *)
(* SQLite is outside src/; what the code uses of it is modelled: INSERT    *)
(* begins a transaction and takes the RESERVED lock, of which there is     *)
(* one; a query holds SHARED while it reads; COMMIT needs every SHARED     *)
(* lock gone, and if it waits in vain it fails, keeps the transaction and  *)
(* holds PENDING, which lets no new reader in.  A closed or killed         *)
(* connection loses its transaction and its locks.  Waiting for a lock     *)
(* (5 s) is an action that is taken later, or the action that fails.       *)
(***************************************************************************)
EXTENDS FiniteSets

CONSTANTS
  Crawls,    \* the crawl processes, each with its connection
  Items,
  ItemsOf,   \* crawl -> the items its spider yields
  Readers,   \* the connections that run query, here and in other programs
  None

ASSUME StorageAssumption ==
  /\ ItemsOf \in [Crawls -> SUBSET Items]
  /\ \A c, d \in Crawls : c # d => ItemsOf[c] \cap ItemsOf[d] = {}
  /\ None \notin Items

VARIABLES
  conn,       \* crawl -> its connection: "none", "open" or "closed"
  lock,       \* crawl -> the lock it holds on the file
  saving,     \* crawl -> the item between INSERT and COMMIT, or None
  inserted,   \* crawl -> the items inserted in its open transaction
  reading,    \* the readers inside query
  stored,     \* the committed rows
  result      \* item -> "unsaved", or what save told the pipeline

storageVars == <<conn, lock, saving, inserted, reading, stored, result>>

Locks == {"none", "reserved", "pending"}

OtherWriter(c) == \E d \in Crawls \ {c} : lock[d] # "none"

\* Somebody waits to commit, and no new SHARED lock is granted.
CommitPending == \E c \in Crawls : lock[c] = "pending"

\* __init__ and _init_schema, called by the pipeline's from_crawler.
Open(c) ==
  /\ conn[c] = "none"
  /\ ~CommitPending
  /\ conn' = [conn EXCEPT ![c] = "open"]
  /\ UNCHANGED <<lock, saving, inserted, reading, stored, result>>

\* __init__ raises StorageError: no directory, no database, locked.
OpenFails(c) ==
  /\ conn[c] = "none"
  /\ conn' = [conn EXCEPT ![c] = "closed"]
  /\ UNCHANGED <<lock, saving, inserted, reading, stored, result>>

\* The spider yields item i: process_item calls save.
Saves(c, i) ==
  /\ conn[c] = "open"
  /\ saving[c] = None
  /\ i \in ItemsOf[c]
  /\ result[i] = "unsaved"

\* A wrong variant: the item counts as saved once it is inserted.
InsertAcknowledges(c, i) ==
  /\ Saves(c, i)
  /\ ~OtherWriter(c)
  /\ lock' = [lock EXCEPT ![c] = IF @ = "none" THEN "reserved" ELSE @]
  /\ inserted' = [inserted EXCEPT ![c] = @ \cup {i}]
  /\ result' = [result EXCEPT ![i] = "saved"]
  /\ UNCHANGED <<conn, saving, reading, stored>>

\* save, up to INSERT; the transaction of a failed COMMIT is still open.
Insert(c, i) ==
  /\ Saves(c, i)
  /\ ~OtherWriter(c)
  /\ lock' = [lock EXCEPT ![c] = IF @ = "none" THEN "reserved" ELSE @]
  /\ saving' = [saving EXCEPT ![c] = i]
  /\ inserted' = [inserted EXCEPT ![c] = @ \cup {i}]
  /\ UNCHANGED <<conn, reading, stored, result>>

\* save raises before anything is inserted: the item is no JSON, or the
\* database is locked or fails.
InsertFails(c, i) ==
  /\ Saves(c, i)
  /\ result' = [result EXCEPT ![i] = "failed"]
  /\ UNCHANGED <<conn, lock, saving, inserted, reading, stored>>

\* save returns: the whole transaction is in the file.
Commit(c) ==
  /\ saving[c] # None
  /\ reading = {}
  /\ stored' = stored \cup inserted[c]
  /\ inserted' = [inserted EXCEPT ![c] = {}]
  /\ lock' = [lock EXCEPT ![c] = "none"]
  /\ result' = [result EXCEPT ![saving[c]] = "saved"]
  /\ saving' = [saving EXCEPT ![c] = None]
  /\ UNCHANGED <<conn, reading>>

\* commit raises and save does not roll back: the insert stays in the open
\* transaction, with its lock.
CommitFails(c) ==
  /\ saving[c] # None
  /\ lock' = [lock EXCEPT ![c] = IF reading = {} THEN @ ELSE "pending"]
  /\ result' = [result EXCEPT ![saving[c]] = "failed"]
  /\ saving' = [saving EXCEPT ![c] = None]
  /\ UNCHANGED <<conn, inserted, reading, stored>>

\* The same, for a fault of the file: SQLite itself has rolled back.
CommitRolledBack(c) ==
  /\ saving[c] # None
  /\ inserted' = [inserted EXCEPT ![c] = {}]
  /\ lock' = [lock EXCEPT ![c] = "none"]
  /\ result' = [result EXCEPT ![saving[c]] = "failed"]
  /\ saving' = [saving EXCEPT ![c] = None]
  /\ UNCHANGED <<conn, reading, stored>>

\* close, or the end of the process: SQLite drops the open transaction.
Disconnect(c) ==
  /\ conn' = [conn EXCEPT ![c] = "closed"]
  /\ inserted' = [inserted EXCEPT ![c] = {}]
  /\ lock' = [lock EXCEPT ![c] = "none"]
  /\ saving' = [saving EXCEPT ![c] = None]
  /\ UNCHANGED <<reading, stored, result>>

\* query, between SELECT and the last row; it raises while a commit waits.
StartQuery(r) ==
  /\ r \notin reading
  /\ ~CommitPending
  /\ reading' = reading \cup {r}
  /\ UNCHANGED <<conn, lock, saving, inserted, stored, result>>

FinishQuery(r) ==
  /\ r \in reading
  /\ reading' = reading \ {r}
  /\ UNCHANGED <<conn, lock, saving, inserted, stored, result>>

Query(r) == StartQuery(r) \/ FinishQuery(r)

\* A step of a save in crawl c.
SaveStep(c) ==
  \/ \E i \in ItemsOf[c] : Insert(c, i) \/ InsertFails(c, i)
  \/ Commit(c) \/ CommitFails(c) \/ CommitRolledBack(c)

StorageInit ==
  /\ conn = [c \in Crawls |-> "none"]
  /\ lock = [c \in Crawls |-> "none"]
  /\ saving = [c \in Crawls |-> None]
  /\ inserted = [c \in Crawls |-> {}]
  /\ reading = {}
  /\ stored = {}
  /\ result = [i \in Items |-> "unsaved"]
-----------------------------------------------------------------------------
\* The rows in the file and the answers of save implement the contract: what
\* was acknowledged is in the file and stays there, whatever is killed or
\* fails, and nothing else gets in but what failed before.  (save: INSERT,
\* COMMIT and the lack of a rollback between them.)
Backend == INSTANCE StorageBackend
BackendContract == Backend!Spec
=============================================================================
