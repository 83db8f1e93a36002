-------------------------- MODULE CrawlJobsProofs --------------------------
(***************************************************************************)
(* Theorems about CrawlJobs, for any number of crawls, workers, items and  *)
(* readers.                                                                *)
(*                                                                         *)
(* Two facts make them inductive.  Tied says what a job, its process and   *)
(* its connection know of each other.  Transaction says what is in a       *)
(* crawl's open transaction: the item that is being saved, and items whose *)
(* save has failed already.  That the items of two crawls differ keeps     *)
(* them from disturbing each other's transactions.                         *)
(***************************************************************************)
EXTENDS CrawlJobs, TLAPS

Tied(c) ==
  /\ conn[c] = "open" => proc[c] = "crawling"
  /\ conn[c] # "open" => lock[c] = "none" /\ inserted[c] = {} /\ saving[c] = None
  /\ job[c] \in {"none", "refused", "queued"} => proc[c] = "none"
  /\ job[c] \in Reported /\ c \notin orphan => proc[c] \notin Alive
  /\ job[c] = "finished" /\ c \notin orphan => proc[c] = "exited" /\ code[c] = 0

Transaction(c) ==
  /\ inserted[c] \subseteq ItemsOf[c]
  /\ saving[c] # None => saving[c] \in inserted[c] /\ result[saving[c]] = "unsaved"
  /\ \A i \in inserted[c] : i = saving[c] \/ result[i] = "failed"

AllTied == \A c \in Crawls : Tied(c)

AllTransactions == \A c \in Crawls : Transaction(c)

JobsInv == JobsTypeOK /\ AllTied /\ AllTransactions
-----------------------------------------------------------------------------
LEMMA JobsInvInit == Init => JobsInv
BY StorageAssumption
DEF Init, StorageInit, JobsInv, JobsTypeOK, AllTied, AllTransactions, Tied, Transaction,
    Locks, JobStates, ProcStates, Alive, Reported

\* Type correctness.
LEMMA TypeStep ==
  ASSUME JobsTypeOK, [Next]_vars PROVE JobsTypeOK'
<1>1. ASSUME NEW c \in Crawls, EnqueueCrawl(c) PROVE JobsTypeOK'
  BY <1>1, JobsTypeOK, StorageAssumption
  DEF JobsTypeOK, Locks, JobStates, ProcStates, Alive, storageVars, jobVars, EnqueueCrawl, Reports
<1>2. ASSUME NEW c \in Crawls, EnqueueFails(c) PROVE JobsTypeOK'
  BY <1>2, JobsTypeOK, StorageAssumption
  DEF JobsTypeOK, Locks, JobStates, ProcStates, Alive, storageVars, jobVars, EnqueueFails, Reports
<1>3. ASSUME NEW c \in Crawls, StartJob(c) PROVE JobsTypeOK'
  BY <1>3, JobsTypeOK, StorageAssumption
  DEF JobsTypeOK, Locks, JobStates, ProcStates, Alive, storageVars, jobVars, StartJob, Reports
<1>4. ASSUME NEW c \in Crawls, StartFails(c) PROVE JobsTypeOK'
  BY <1>4, JobsTypeOK, StorageAssumption
  DEF JobsTypeOK, Locks, JobStates, ProcStates, Alive, storageVars, jobVars, StartFails, Reports
<1>5. ASSUME NEW c \in Crawls, JobReturns(c) PROVE JobsTypeOK'
  BY <1>5, JobsTypeOK, StorageAssumption
  DEF JobsTypeOK, Locks, JobStates, ProcStates, Alive, storageVars, jobVars, JobReturns, Reports
<1>6. ASSUME NEW c \in Crawls, Timeout(c) PROVE JobsTypeOK'
  BY <1>6, JobsTypeOK, StorageAssumption
  DEF JobsTypeOK, Locks, JobStates, ProcStates, Alive, storageVars, jobVars, Timeout, Disconnect, Reports
<1>7. ASSUME NEW c \in Crawls, HorseDies(c) PROVE JobsTypeOK'
  BY <1>7, JobsTypeOK, StorageAssumption
  DEF JobsTypeOK, Locks, JobStates, ProcStates, Alive, storageVars, jobVars, HorseDies, Reports
<1>8. ASSUME NEW c \in Crawls, ConfigRejected(c) PROVE JobsTypeOK'
  BY <1>8, JobsTypeOK, StorageAssumption
  DEF JobsTypeOK, Locks, JobStates, ProcStates, Alive, storageVars, jobVars, ConfigRejected, Exits
<1>9. ASSUME NEW c \in Crawls, CrawlBegins(c) PROVE JobsTypeOK'
  BY <1>9, JobsTypeOK, StorageAssumption
  DEF JobsTypeOK, Locks, JobStates, ProcStates, Alive, storageVars, jobVars, CrawlBegins, Open
<1>10. ASSUME NEW c \in Crawls, PipelineFails(c) PROVE JobsTypeOK'
  BY <1>10, JobsTypeOK, StorageAssumption
  DEF JobsTypeOK, Locks, JobStates, ProcStates, Alive, storageVars, jobVars, PipelineFails, OpenFails, Exits
<1>11. ASSUME NEW c \in Crawls, CrawlEnds(c) PROVE JobsTypeOK'
  BY <1>11, JobsTypeOK, StorageAssumption
  DEF JobsTypeOK, Locks, JobStates, ProcStates, Alive, storageVars, jobVars, CrawlEnds, Disconnect, Exits
<1>12. ASSUME NEW c \in Crawls, CrawlDies(c) PROVE JobsTypeOK'
  BY <1>12, JobsTypeOK, StorageAssumption
  DEF JobsTypeOK, Locks, JobStates, ProcStates, Alive, storageVars, jobVars, CrawlDies, Disconnect, Exits
<1>13. ASSUME NEW c \in Crawls, proc[c] = "crawling", NEW i \in ItemsOf[c], Insert(c, i), UNCHANGED jobVars PROVE JobsTypeOK'
  BY <1>13, JobsTypeOK, StorageAssumption
  DEF JobsTypeOK, Locks, JobStates, ProcStates, Alive, storageVars, jobVars, Insert, Saves
<1>14. ASSUME NEW c \in Crawls, proc[c] = "crawling", NEW i \in ItemsOf[c], InsertFails(c, i), UNCHANGED jobVars PROVE JobsTypeOK'
  BY <1>14, JobsTypeOK, StorageAssumption
  DEF JobsTypeOK, Locks, JobStates, ProcStates, Alive, storageVars, jobVars, InsertFails, Saves
<1>15. ASSUME NEW c \in Crawls, proc[c] = "crawling", Commit(c), UNCHANGED jobVars PROVE JobsTypeOK'
  BY <1>15, JobsTypeOK, StorageAssumption
  DEF JobsTypeOK, Locks, JobStates, ProcStates, Alive, storageVars, jobVars, Commit
<1>16. ASSUME NEW c \in Crawls, proc[c] = "crawling", CommitFails(c), UNCHANGED jobVars PROVE JobsTypeOK'
  BY <1>16, JobsTypeOK, StorageAssumption
  DEF JobsTypeOK, Locks, JobStates, ProcStates, Alive, storageVars, jobVars, CommitFails
<1>17. ASSUME NEW c \in Crawls, proc[c] = "crawling", CommitRolledBack(c), UNCHANGED jobVars PROVE JobsTypeOK'
  BY <1>17, JobsTypeOK, StorageAssumption
  DEF JobsTypeOK, Locks, JobStates, ProcStates, Alive, storageVars, jobVars, CommitRolledBack
<1>18. ASSUME NEW r \in Readers, Query(r), UNCHANGED jobVars PROVE JobsTypeOK'
  BY <1>18, JobsTypeOK, StorageAssumption
  DEF JobsTypeOK, Locks, JobStates, ProcStates, Alive, storageVars, jobVars, Query, StartQuery, FinishQuery
<1>19. ASSUME UNCHANGED vars PROVE JobsTypeOK'
  BY <1>19, JobsTypeOK, StorageAssumption
  DEF JobsTypeOK, Locks, JobStates, ProcStates, Alive, storageVars, jobVars, vars
<1>20. QED
  BY <1>1, <1>2, <1>3, <1>4, <1>5, <1>6, <1>7, <1>8, <1>9, <1>10, <1>11, <1>12, <1>13, <1>14, <1>15, <1>16, <1>17, <1>18, <1>19
  DEF Next, JobStep, CrawlStep, ProcessItem, SaveStep

\* Job, process and connection.
LEMMA TiedStep ==
  ASSUME JobsTypeOK, AllTied, [Next]_vars PROVE AllTied'
<1>1. ASSUME NEW c \in Crawls, EnqueueCrawl(c) PROVE AllTied'
  BY <1>1, JobsTypeOK, AllTied, StorageAssumption
  DEF JobsTypeOK, AllTied, Tied, Alive, Reported, storageVars, jobVars, EnqueueCrawl, Reports
<1>2. ASSUME NEW c \in Crawls, EnqueueFails(c) PROVE AllTied'
  BY <1>2, JobsTypeOK, AllTied, StorageAssumption
  DEF JobsTypeOK, AllTied, Tied, Alive, Reported, storageVars, jobVars, EnqueueFails, Reports
<1>3. ASSUME NEW c \in Crawls, StartJob(c) PROVE AllTied'
  BY <1>3, JobsTypeOK, AllTied, StorageAssumption
  DEF JobsTypeOK, AllTied, Tied, Alive, Reported, storageVars, jobVars, StartJob, Reports
<1>4. ASSUME NEW c \in Crawls, StartFails(c) PROVE AllTied'
  BY <1>4, JobsTypeOK, AllTied, StorageAssumption
  DEF JobsTypeOK, AllTied, Tied, Alive, Reported, storageVars, jobVars, StartFails, Reports
<1>5. ASSUME NEW c \in Crawls, JobReturns(c) PROVE AllTied'
  BY <1>5, JobsTypeOK, AllTied, StorageAssumption
  DEF JobsTypeOK, AllTied, Tied, Alive, Reported, storageVars, jobVars, JobReturns, Reports
<1>6. ASSUME NEW c \in Crawls, Timeout(c) PROVE AllTied'
  BY <1>6, JobsTypeOK, AllTied, StorageAssumption
  DEF JobsTypeOK, AllTied, Tied, Alive, Reported, storageVars, jobVars, Timeout, Disconnect, Reports
<1>7. ASSUME NEW c \in Crawls, HorseDies(c) PROVE AllTied'
  BY <1>7, JobsTypeOK, AllTied, StorageAssumption
  DEF JobsTypeOK, AllTied, Tied, Alive, Reported, storageVars, jobVars, HorseDies, Reports
<1>8. ASSUME NEW c \in Crawls, ConfigRejected(c) PROVE AllTied'
  BY <1>8, JobsTypeOK, AllTied, StorageAssumption
  DEF JobsTypeOK, AllTied, Tied, Alive, Reported, storageVars, jobVars, ConfigRejected, Exits
<1>9. ASSUME NEW c \in Crawls, CrawlBegins(c) PROVE AllTied'
  BY <1>9, JobsTypeOK, AllTied, StorageAssumption
  DEF JobsTypeOK, AllTied, Tied, Alive, Reported, storageVars, jobVars, CrawlBegins, Open
<1>10. ASSUME NEW c \in Crawls, PipelineFails(c) PROVE AllTied'
  BY <1>10, JobsTypeOK, AllTied, StorageAssumption
  DEF JobsTypeOK, AllTied, Tied, Alive, Reported, storageVars, jobVars, PipelineFails, OpenFails, Exits
<1>11. ASSUME NEW c \in Crawls, CrawlEnds(c) PROVE AllTied'
  BY <1>11, JobsTypeOK, AllTied, StorageAssumption
  DEF JobsTypeOK, AllTied, Tied, Alive, Reported, storageVars, jobVars, CrawlEnds, Disconnect, Exits
<1>12. ASSUME NEW c \in Crawls, CrawlDies(c) PROVE AllTied'
  BY <1>12, JobsTypeOK, AllTied, StorageAssumption
  DEF JobsTypeOK, AllTied, Tied, Alive, Reported, storageVars, jobVars, CrawlDies, Disconnect, Exits
<1>13. ASSUME NEW c \in Crawls, proc[c] = "crawling", NEW i \in ItemsOf[c], Insert(c, i), UNCHANGED jobVars PROVE AllTied'
  BY <1>13, JobsTypeOK, AllTied, StorageAssumption
  DEF JobsTypeOK, AllTied, Tied, Alive, Reported, storageVars, jobVars, Insert, Saves
<1>14. ASSUME NEW c \in Crawls, proc[c] = "crawling", NEW i \in ItemsOf[c], InsertFails(c, i), UNCHANGED jobVars PROVE AllTied'
  BY <1>14, JobsTypeOK, AllTied, StorageAssumption
  DEF JobsTypeOK, AllTied, Tied, Alive, Reported, storageVars, jobVars, InsertFails, Saves
<1>15. ASSUME NEW c \in Crawls, proc[c] = "crawling", Commit(c), UNCHANGED jobVars PROVE AllTied'
  BY <1>15, JobsTypeOK, AllTied, StorageAssumption
  DEF JobsTypeOK, AllTied, Tied, Alive, Reported, storageVars, jobVars, Commit
<1>16. ASSUME NEW c \in Crawls, proc[c] = "crawling", CommitFails(c), UNCHANGED jobVars PROVE AllTied'
  BY <1>16, JobsTypeOK, AllTied, StorageAssumption
  DEF JobsTypeOK, AllTied, Tied, Alive, Reported, storageVars, jobVars, CommitFails
<1>17. ASSUME NEW c \in Crawls, proc[c] = "crawling", CommitRolledBack(c), UNCHANGED jobVars PROVE AllTied'
  BY <1>17, JobsTypeOK, AllTied, StorageAssumption
  DEF JobsTypeOK, AllTied, Tied, Alive, Reported, storageVars, jobVars, CommitRolledBack
<1>18. ASSUME NEW r \in Readers, Query(r), UNCHANGED jobVars PROVE AllTied'
  BY <1>18, JobsTypeOK, AllTied, StorageAssumption
  DEF JobsTypeOK, AllTied, Tied, Alive, Reported, storageVars, jobVars, Query, StartQuery, FinishQuery
<1>19. ASSUME UNCHANGED vars PROVE AllTied'
  BY <1>19, JobsTypeOK, AllTied, StorageAssumption
  DEF JobsTypeOK, AllTied, Tied, Alive, Reported, storageVars, jobVars, vars
<1>20. QED
  BY <1>1, <1>2, <1>3, <1>4, <1>5, <1>6, <1>7, <1>8, <1>9, <1>10, <1>11, <1>12, <1>13, <1>14, <1>15, <1>16, <1>17, <1>18, <1>19
  DEF Next, JobStep, CrawlStep, ProcessItem, SaveStep

\* The open transactions.
LEMMA TransactionStep ==
  ASSUME JobsTypeOK, AllTied, AllTransactions, [Next]_vars PROVE AllTransactions'
<1>1. ASSUME NEW c \in Crawls, EnqueueCrawl(c) PROVE AllTransactions'
  BY <1>1, JobsTypeOK, AllTransactions, StorageAssumption
  DEF JobsTypeOK, AllTransactions, Transaction, storageVars, jobVars, EnqueueCrawl, Reports
<1>2. ASSUME NEW c \in Crawls, EnqueueFails(c) PROVE AllTransactions'
  BY <1>2, JobsTypeOK, AllTransactions, StorageAssumption
  DEF JobsTypeOK, AllTransactions, Transaction, storageVars, jobVars, EnqueueFails, Reports
<1>3. ASSUME NEW c \in Crawls, StartJob(c) PROVE AllTransactions'
  BY <1>3, JobsTypeOK, AllTransactions, StorageAssumption
  DEF JobsTypeOK, AllTransactions, Transaction, storageVars, jobVars, StartJob, Reports
<1>4. ASSUME NEW c \in Crawls, StartFails(c) PROVE AllTransactions'
  BY <1>4, JobsTypeOK, AllTransactions, StorageAssumption
  DEF JobsTypeOK, AllTransactions, Transaction, storageVars, jobVars, StartFails, Reports
<1>5. ASSUME NEW c \in Crawls, JobReturns(c) PROVE AllTransactions'
  BY <1>5, JobsTypeOK, AllTransactions, StorageAssumption
  DEF JobsTypeOK, AllTransactions, Transaction, storageVars, jobVars, JobReturns, Reports
<1>6. ASSUME NEW c \in Crawls, Timeout(c) PROVE AllTransactions'
  BY <1>6, JobsTypeOK, AllTransactions, StorageAssumption
  DEF JobsTypeOK, AllTransactions, Transaction, storageVars, jobVars, Timeout, Disconnect, Reports
<1>7. ASSUME NEW c \in Crawls, HorseDies(c) PROVE AllTransactions'
  BY <1>7, JobsTypeOK, AllTransactions, StorageAssumption
  DEF JobsTypeOK, AllTransactions, Transaction, storageVars, jobVars, HorseDies, Reports
<1>8. ASSUME NEW c \in Crawls, ConfigRejected(c) PROVE AllTransactions'
  BY <1>8, JobsTypeOK, AllTransactions, StorageAssumption
  DEF JobsTypeOK, AllTransactions, Transaction, storageVars, jobVars, ConfigRejected, Exits
<1>9. ASSUME NEW c \in Crawls, CrawlBegins(c) PROVE AllTransactions'
  BY <1>9, JobsTypeOK, AllTransactions, StorageAssumption
  DEF JobsTypeOK, AllTransactions, Transaction, storageVars, jobVars, CrawlBegins, Open
<1>10. ASSUME NEW c \in Crawls, PipelineFails(c) PROVE AllTransactions'
  BY <1>10, JobsTypeOK, AllTransactions, StorageAssumption
  DEF JobsTypeOK, AllTransactions, Transaction, storageVars, jobVars, PipelineFails, OpenFails, Exits
<1>11. ASSUME NEW c \in Crawls, CrawlEnds(c) PROVE AllTransactions'
  BY <1>11, JobsTypeOK, AllTransactions, StorageAssumption
  DEF JobsTypeOK, AllTransactions, Transaction, storageVars, jobVars, CrawlEnds, Disconnect, Exits
<1>12. ASSUME NEW c \in Crawls, CrawlDies(c) PROVE AllTransactions'
  BY <1>12, JobsTypeOK, AllTransactions, StorageAssumption
  DEF JobsTypeOK, AllTransactions, Transaction, storageVars, jobVars, CrawlDies, Disconnect, Exits
<1>13. ASSUME NEW c \in Crawls, proc[c] = "crawling", NEW i \in ItemsOf[c], Insert(c, i), UNCHANGED jobVars PROVE AllTransactions'
  BY <1>13, JobsTypeOK, AllTransactions, StorageAssumption
  DEF JobsTypeOK, AllTransactions, Transaction, storageVars, jobVars, Insert, Saves
<1>14. ASSUME NEW c \in Crawls, proc[c] = "crawling", NEW i \in ItemsOf[c], InsertFails(c, i), UNCHANGED jobVars PROVE AllTransactions'
  BY <1>14, JobsTypeOK, AllTransactions, StorageAssumption
  DEF JobsTypeOK, AllTransactions, Transaction, storageVars, jobVars, InsertFails, Saves
<1>15. ASSUME NEW c \in Crawls, proc[c] = "crawling", Commit(c), UNCHANGED jobVars PROVE AllTransactions'
  BY <1>15, JobsTypeOK, AllTransactions, StorageAssumption
  DEF JobsTypeOK, AllTransactions, Transaction, storageVars, jobVars, Commit
<1>16. ASSUME NEW c \in Crawls, proc[c] = "crawling", CommitFails(c), UNCHANGED jobVars PROVE AllTransactions'
  BY <1>16, JobsTypeOK, AllTransactions, StorageAssumption
  DEF JobsTypeOK, AllTransactions, Transaction, storageVars, jobVars, CommitFails
<1>17. ASSUME NEW c \in Crawls, proc[c] = "crawling", CommitRolledBack(c), UNCHANGED jobVars PROVE AllTransactions'
  BY <1>17, JobsTypeOK, AllTransactions, StorageAssumption
  DEF JobsTypeOK, AllTransactions, Transaction, storageVars, jobVars, CommitRolledBack
<1>18. ASSUME NEW r \in Readers, Query(r), UNCHANGED jobVars PROVE AllTransactions'
  BY <1>18, JobsTypeOK, AllTransactions, StorageAssumption
  DEF JobsTypeOK, AllTransactions, Transaction, storageVars, jobVars, Query, StartQuery, FinishQuery
<1>19. ASSUME UNCHANGED vars PROVE AllTransactions'
  BY <1>19, JobsTypeOK, AllTransactions, StorageAssumption
  DEF JobsTypeOK, AllTransactions, Transaction, storageVars, jobVars, vars
<1>20. QED
  BY <1>1, <1>2, <1>3, <1>4, <1>5, <1>6, <1>7, <1>8, <1>9, <1>10, <1>11, <1>12, <1>13, <1>14, <1>15, <1>16, <1>17, <1>18, <1>19
  DEF Next, JobStep, CrawlStep, ProcessItem, SaveStep
-----------------------------------------------------------------------------
LEMMA JobsInvariant == Spec => []JobsInv
<1>1. JobsInv /\ [Next]_vars => JobsInv'
  BY TypeStep, TiedStep, TransactionStep DEF JobsInv
<1>2. QED
  BY JobsInvInit, <1>1, PTL DEF Spec

\* For any number of crawls and workers, the state of queue, processes,
\* connections and database is well typed.  (run_spider_job, save.)
THEOREM JobsTypeCorrect == Spec => []JobsTypeOK
<1>1. JobsInv => JobsTypeOK
  BY DEF JobsInv
<1>2. QED
  BY JobsInvariant, <1>1, PTL

\* For any number of crawls and workers, a job that was reported has left
\* neither a process nor a lock behind, but for killed work horses.
\* (run_spider_job and subprocess.run.)
THEOREM ReportedJobsAreOver == Spec => []OverWhenReported
<1>1. JobsInv => OverWhenReported
  BY DEF JobsInv, AllTied, Tied, JobsTypeOK, OverWhenReported, Alive, Reported, ProcStates
<1>2. QED
  BY JobsInvariant, <1>1, PTL

\* A step of the crawls is a save, a refused save or nothing to the contract.
LEMMA ContractStep ==
  ASSUME JobsInv, [Next]_vars PROVE [Backend!Next]_(Backend!backendVars)
<1>1. CASE UNCHANGED <<stored, result>>
  BY <1>1 DEF Backend!backendVars
<1>2. ASSUME NEW c \in Crawls, NEW i \in ItemsOf[c], InsertFails(c, i)
      PROVE  Backend!Refuse(i) /\ i \in Items
  BY <1>2, StorageAssumption DEF InsertFails, Saves, Backend!Refuse
<1>3. ASSUME NEW c \in Crawls, CommitFails(c) \/ CommitRolledBack(c)
      PROVE  Backend!Refuse(saving[c]) /\ saving[c] \in Items
  BY <1>3, StorageAssumption
  DEF CommitFails, CommitRolledBack, Backend!Refuse, JobsInv, JobsTypeOK, AllTransactions,
      Transaction
<1>4. ASSUME NEW c \in Crawls, Commit(c)
      PROVE  \E late \in SUBSET Items : Backend!Save(saving[c], late) /\ saving[c] \in Items
  <2> DEFINE late == inserted[c] \ {saving[c]}
  <2>1. Transaction(c) /\ saving[c] # None /\ saving[c] \in Items /\ inserted[c] \subseteq Items
    BY <1>4, StorageAssumption DEF Commit, JobsInv, JobsTypeOK, AllTransactions
  <2>2. late \subseteq Backend!Refused
    BY <2>1 DEF Transaction, Backend!Refused
  <2>3. inserted[c] = {saving[c]} \cup late
    BY <2>1 DEF Transaction
  <2>4. Backend!Save(saving[c], late)
    BY <1>4, <2>1, <2>2, <2>3 DEF Commit, Transaction, Backend!Save
  <2>5. QED
    BY <2>1, <2>4
<1>5. Next => \/ UNCHANGED <<stored, result>>
              \/ \E c \in Crawls : \E i \in ItemsOf[c] : InsertFails(c, i)
              \/ \E c \in Crawls : Commit(c) \/ CommitFails(c) \/ CommitRolledBack(c)
  BY DEF Next, JobStep, CrawlStep, ProcessItem, SaveStep, Insert, Query, StartQuery, FinishQuery,
         EnqueueCrawl, EnqueueFails, StartJob, StartFails, JobReturns, Timeout, HorseDies,
         ConfigRejected, CrawlBegins, Open, PipelineFails, OpenFails, CrawlEnds, CrawlDies,
         Disconnect, storageVars
<1>6. UNCHANGED vars => UNCHANGED <<stored, result>>
  BY DEF vars, storageVars
<1>7. QED
  BY <1>1, <1>2, <1>3, <1>4, <1>5, <1>6 DEF Backend!Next

\* For any number of crawls the database with its transactions and locks
\* implements the contract of StorageBackend: what save acknowledged is stored
\* for good, and only what was saved or refused gets in.  (save.)
THEOREM StorageKeepsContract == Spec => BackendContract
<1>1. Init => Backend!Init
  BY DEF Init, StorageInit, Backend!Init
<1>2. JobsInv /\ [Next]_vars => [Backend!Next]_(Backend!backendVars)
  BY ContractStep
<1>3. QED
  BY <1>1, <1>2, JobsInvariant, PTL DEF Spec, BackendContract, Backend!Spec
-----------------------------------------------------------------------------
(* Jobs, processes and saves only go forward.                              *)

JobRank(state) ==
  CASE state = "none"    -> 3
    [] state = "queued"  -> 2
    [] state = "running" -> 1
    [] OTHER             -> 0

ProcRank(state) ==
  CASE state = "none"     -> 3
    [] state = "starting" -> 2
    [] state = "crawling" -> 1
    [] OTHER              -> 0

\* The items of a crawl that save has not answered for.
Unsettled(c) == {i \in ItemsOf[c] : result[i] = "unsaved"}

\* A save that goes on: it answers for an item, or has inserted one.
SaveAdvances(c) ==
  \/ Unsettled(c)' # Unsettled(c) /\ saving'[c] = None
  \/ saving[c] = None /\ saving'[c] # None

Forward(c) ==
  /\ JobRank(job'[c]) <= JobRank(job[c])
  /\ ProcRank(proc'[c]) <= ProcRank(proc[c])
  /\ Unsettled(c)' \subseteq Unsettled(c)

LEMMA JobStepForward ==
  ASSUME JobsInv, NEW c \in Crawls, JobStep(c)
  PROVE  /\ JobRank(job'[c]) < JobRank(job[c])
         /\ ProcRank(proc'[c]) <= ProcRank(proc[c])
         /\ \A d \in Crawls \ {c} : job'[d] = job[d] /\ proc'[d] = proc[d]
         /\ result' = result
<1>1. job \in [Crawls -> JobStates] /\ proc \in [Crawls -> ProcStates] /\ Tied(c)
  BY DEF JobsInv, JobsTypeOK, AllTied
<1>2. CASE EnqueueCrawl(c) \/ EnqueueFails(c)
  <2>1. /\ job[c] = "none" /\ job'[c] \in {"queued", "refused"} /\ proc' = proc
        /\ result' = result /\ \A d \in Crawls \ {c} : job'[d] = job[d]
    BY <1>1, <1>2 DEF EnqueueCrawl, EnqueueFails, Reports, storageVars
  <2>2. QED
    BY <1>1, <2>1 DEF JobRank, ProcRank
<1>3. CASE StartJob(c) \/ StartFails(c)
  <2>1. /\ job[c] = "queued" /\ job'[c] \in {"running", "failed"}
        /\ result' = result /\ \A d \in Crawls \ {c} : job'[d] = job[d]
    BY <1>1, <1>3 DEF StartJob, StartFails, Reports, storageVars
  <2>2. /\ proc[c] = "none" /\ proc'[c] \in {"none", "starting"}
        /\ \A d \in Crawls \ {c} : proc'[d] = proc[d]
    BY <1>1, <1>3, <2>1 DEF StartJob, StartFails, Tied
  <2>3. QED
    BY <2>1, <2>2 DEF JobRank, ProcRank
<1>4. CASE JobReturns(c) \/ HorseDies(c)
  <2>1. /\ job[c] = "running" /\ job'[c] \in Reported /\ proc' = proc
        /\ result' = result /\ \A d \in Crawls \ {c} : job'[d] = job[d]
    BY <1>1, <1>4 DEF JobReturns, HorseDies, Reports, storageVars, Reported
  <2>2. QED
    BY <2>1 DEF JobRank, ProcRank, Reported
<1>5. CASE Timeout(c)
  <2>1. /\ job[c] = "running" /\ job'[c] = "failed"
        /\ proc[c] \in Alive /\ proc'[c] = "killed" /\ result' = result
        /\ \A d \in Crawls \ {c} : job'[d] = job[d] /\ proc'[d] = proc[d]
    BY <1>1, <1>5 DEF Timeout, Disconnect, Reports
  <2>2. QED
    BY <2>1 DEF JobRank, ProcRank, Alive
<1>6. QED
  BY <1>2, <1>3, <1>4, <1>5 DEF JobStep

\* A save in crawl c touches one of its own items, and once.
LEMMA SaveForward ==
  ASSUME JobsInv, NEW c \in Crawls, SaveStep(c)
  PROVE  /\ \A d \in Crawls : Unsettled(d)' \subseteq Unsettled(d)
         /\ SaveAdvances(c)
<1>1. /\ result \in [Items -> {"unsaved", "saved", "failed"}]
      /\ saving \in [Crawls -> Items \cup {None}]
      /\ \A d \in Crawls : ItemsOf[d] \subseteq Items
      /\ Transaction(c)
  BY StorageAssumption DEF JobsInv, JobsTypeOK, AllTransactions
<1>2. ASSUME NEW i \in ItemsOf[c], Insert(c, i)
      PROVE  result' = result /\ saving[c] = None /\ saving'[c] # None
  BY <1>1, <1>2, StorageAssumption DEF Insert, Saves
<1>3. ASSUME NEW i \in ItemsOf[c], result[i] = "unsaved", saving'[c] = None,
             NEW answer \in {"saved", "failed"}, result' = [result EXCEPT ![i] = answer]
      PROVE  /\ \A d \in Crawls : Unsettled(d)' \subseteq Unsettled(d)
             /\ SaveAdvances(c)
  <2>1. \A j \in Items : result'[j] = IF j = i THEN answer ELSE result[j]
    BY <1>1, <1>3
  <2>2. i \in Unsettled(c) /\ i \notin Unsettled(c)'
    BY <1>1, <1>3, <2>1 DEF Unsettled
  <2>3. \A d \in Crawls : Unsettled(d)' \subseteq Unsettled(d)
    BY <1>1, <2>1 DEF Unsettled
  <2>4. QED
    BY <1>3, <2>2, <2>3 DEF SaveAdvances
<1>4. CASE \E i \in ItemsOf[c] : Insert(c, i)
  BY <1>2, <1>4 DEF Unsettled, SaveAdvances
<1>5. CASE \E i \in ItemsOf[c] : InsertFails(c, i)
  <2>1. PICK i \in ItemsOf[c] : InsertFails(c, i)
    BY <1>5
  <2>2. result[i] = "unsaved" /\ saving'[c] = None /\ result' = [result EXCEPT ![i] = "failed"]
    BY <2>1 DEF InsertFails, Saves
  <2>3. QED
    BY <1>3, <2>2
<1>6. CASE Commit(c) \/ CommitFails(c) \/ CommitRolledBack(c)
  <2> DEFINE i == saving[c]
  <2>1. i \in ItemsOf[c] /\ result[i] = "unsaved" /\ saving'[c] = None
    BY <1>1, <1>6 DEF Commit, CommitFails, CommitRolledBack, Transaction
  <2>2. \E answer \in {"saved", "failed"} : result' = [result EXCEPT ![i] = answer]
    BY <1>6 DEF Commit, CommitFails, CommitRolledBack
  <2> HIDE DEF i
  <2>3. QED
    BY <1>3, <2>1, <2>2
<1>7. QED
  BY <1>4, <1>5, <1>6 DEF SaveStep

LEMMA CrawlStepForward ==
  ASSUME JobsInv, NEW c \in Crawls, CrawlStep(c) \/ CrawlDies(c)
  PROVE  /\ job' = job
         /\ \A d \in Crawls \ {c} : proc'[d] = proc[d]
         /\ \A d \in Crawls : Unsettled(d)' \subseteq Unsettled(d)
         /\ \/ ProcRank(proc'[c]) < ProcRank(proc[c])
            \/ proc' = proc /\ SaveAdvances(c)
<1>1. proc \in [Crawls -> ProcStates]
  BY DEF JobsInv, JobsTypeOK
<1>2. CASE ProcessItem(c)
  <2>1. SaveStep(c) /\ job' = job /\ proc' = proc
    BY <1>2 DEF ProcessItem, jobVars
  <2>2. QED
    BY <2>1, SaveForward
<1>3. CASE \/ ConfigRejected(c) \/ CrawlBegins(c) \/ PipelineFails(c)
           \/ CrawlEnds(c) \/ CrawlDies(c)
  <2>1. job' = job /\ result' = result
    BY <1>3 DEF ConfigRejected, CrawlBegins, Open, PipelineFails, OpenFails, CrawlEnds,
                CrawlDies, Disconnect, storageVars
  <2>2. /\ \A d \in Crawls \ {c} : proc'[d] = proc[d]
        /\ \/ proc[c] = "starting" /\ proc'[c] = "crawling"
           \/ proc[c] \in Alive /\ proc'[c] = "exited"
    BY <1>1, <1>3 DEF ConfigRejected, CrawlBegins, PipelineFails, CrawlEnds, CrawlDies, Exits, Alive
  <2>3. ProcRank(proc'[c]) < ProcRank(proc[c])
    BY <2>2 DEF ProcRank, Alive
  <2>4. QED
    BY <2>1, <2>2, <2>3 DEF Unsettled
<1>4. QED
  BY <1>2, <1>3 DEF CrawlStep

\* A job never goes back to an earlier state, a process is never started
\* again, and save answers for an item once; and every step of a job or of
\* its crawl is one forward, whatever other crawls and readers do to the
\* database.  What is left to fairness is that the steps are taken, which a
\* lock that is not given up cannot prevent, for a save that waits in vain
\* fails (run_spider_job, process_item, save).
THEOREM JobsOnlyGoForward ==
  Spec =>
    [][\A c \in Crawls :
         /\ Forward(c)
         /\ JobStep(c) => JobRank(job'[c]) < JobRank(job[c])
         /\ CrawlStep(c) \/ CrawlDies(c) =>
              ProcRank(proc'[c]) < ProcRank(proc[c]) \/ SaveAdvances(c)]_vars
<1>1. ASSUME JobsInv, [Next]_vars, NEW c \in Crawls PROVE Forward(c)
  <2>1. /\ JobRank(job[c]) \in 0..3 /\ ProcRank(proc[c]) \in 0..3
        /\ JobRank(job'[c]) \in 0..3 /\ ProcRank(proc'[c]) \in 0..3
    BY DEF JobRank, ProcRank
  <2>2. ASSUME NEW d \in Crawls, JobStep(d) PROVE Forward(c)
    <3>1. CASE c = d
      BY <1>1, <2>1, <2>2, <3>1, JobStepForward DEF Forward, Unsettled
    <3>2. CASE c # d
      <4>1. job'[c] = job[c] /\ proc'[c] = proc[c] /\ result' = result
        BY <1>1, <2>2, <3>2, JobStepForward
      <4>2. QED
        BY <2>1, <4>1 DEF Forward, Unsettled
    <3>3. QED
      BY <3>1, <3>2
  <2>3. ASSUME NEW d \in Crawls, CrawlStep(d) \/ CrawlDies(d) PROVE Forward(c)
    <3>1. /\ job' = job /\ Unsettled(c)' \subseteq Unsettled(c)
          /\ c # d => proc'[c] = proc[c]
          /\ ProcRank(proc'[d]) < ProcRank(proc[d]) \/ proc' = proc
      BY <1>1, <2>3, CrawlStepForward
    <3>2. ProcRank(proc'[c]) <= ProcRank(proc[c])
      BY <2>1, <3>1
    <3>3. QED
      BY <2>1, <3>1, <3>2 DEF Forward
  <2>4. CASE UNCHANGED <<job, proc, result>>
    BY <2>1, <2>4 DEF Forward, Unsettled
  <2>5. ASSUME NEW r \in Readers, Query(r), UNCHANGED jobVars
        PROVE  UNCHANGED <<job, proc, result>>
    BY <2>5 DEF Query, StartQuery, FinishQuery, jobVars
  <2>6. UNCHANGED vars => UNCHANGED <<job, proc, result>>
    BY DEF vars, storageVars, jobVars
  <2>7. QED
    BY <1>1, <2>2, <2>3, <2>4, <2>5, <2>6 DEF Next
<1>2. JobsInv /\ [Next]_vars =>
        [\A c \in Crawls :
           /\ Forward(c)
           /\ JobStep(c) => JobRank(job'[c]) < JobRank(job[c])
           /\ CrawlStep(c) \/ CrawlDies(c) =>
                ProcRank(proc'[c]) < ProcRank(proc[c]) \/ SaveAdvances(c)]_vars
  BY <1>1, JobStepForward, CrawlStepForward
<1>3. QED
  BY <1>2, JobsInvariant, PTL DEF Spec
=============================================================================
