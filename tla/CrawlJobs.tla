------------------------------ MODULE CrawlJobs ------------------------------
(***************************************************************************)
(* Crawl jobs on the RQ queue (src/queue/): enqueue_crawl puts a job into  *)
(* Redis; an RQ worker forks a work horse that executes run_spider_job,    *)
(* which runs the crawl in a process of its own, waits for it and reports. *)
(* The crawls save their items through SQLiteStorage.                      *)
(*                                                                         *)
(* Two clocks end a job that takes too long: subprocess.run's (600 s) and  *)
(* RQ's own (180 s, which enqueue_crawl leaves at its default).  Either    *)
(* kills the process and waits for it before the job fails.  A work horse  *)
(* that is killed itself leaves its crawl behind.  RQ, Scrapy's exit code  *)
(* and the operating system are modelled as tasks.py uses them.            *)
(***************************************************************************)
EXTENDS SQLiteStorage, Naturals

CONSTANT Workers   \* the number of RQ workers

ASSUME JobsAssumption == Workers \in Nat \ {0}

VARIABLES
  job,      \* crawl -> the state of its job in Redis
  proc,     \* crawl -> the state of its process
  code,     \* crawl -> the exit status of its process
  orphan    \* the crawls whose work horse was killed

jobVars == <<job, proc, code, orphan>>

vars == <<storageVars, jobVars>>

\* RQ's states, and "refused" for a job that never got to Redis.
JobStates == {"none", "refused", "queued", "running", "finished", "failed"}

Reported == {"finished", "failed"}

Alive == {"starting", "crawling"}

ProcStates == Alive \cup {"none", "exited", "killed"}

Busy == {c \in Crawls : job[c] = "running"}

Exits(c, status) ==
  /\ proc' = [proc EXCEPT ![c] = "exited"]
  /\ code' = [code EXCEPT ![c] = status]

Reports(c, outcome) == job' = [job EXCEPT ![c] = outcome]
-----------------------------------------------------------------------------
(* The job.                                                                *)

\* enqueue_crawl, with Redis there.
EnqueueCrawl(c) ==
  /\ job[c] = "none"
  /\ Reports(c, "queued")
  /\ UNCHANGED <<storageVars, proc, code, orphan>>

\* Redis cannot be reached: get_redis_connection raises QueueError.
EnqueueFails(c) ==
  /\ job[c] = "none"
  /\ Reports(c, "refused")
  /\ UNCHANGED <<storageVars, proc, code, orphan>>

\* A worker takes the job, and run_spider_job starts the crawl ...
StartJob(c) ==
  /\ job[c] = "queued"
  /\ Cardinality(Busy) < Workers
  /\ Reports(c, "running")
  /\ proc' = [proc EXCEPT ![c] = "starting"]
  /\ UNCHANGED <<storageVars, code, orphan>>

\* ... or cannot: OSError.
StartFails(c) ==
  /\ job[c] = "queued"
  /\ Cardinality(Busy) < Workers
  /\ Reports(c, "failed")
  /\ UNCHANGED <<storageVars, proc, code, orphan>>

\* A wrong variant: only a return is handled.
JobReturnsOnSuccess(c) ==
  /\ job[c] = "running"
  /\ proc[c] = "exited"
  /\ code[c] = 0
  /\ Reports(c, "finished")
  /\ UNCHANGED <<storageVars, proc, code, orphan>>

\* run_spider_job sees the process end, and returns or raises.
JobReturns(c) ==
  /\ job[c] = "running"
  /\ proc[c] = "exited"
  /\ Reports(c, IF code[c] = 0 THEN "finished" ELSE "failed")
  /\ UNCHANGED <<storageVars, proc, code, orphan>>

\* A wrong variant: the process is waited for, but not killed.
TimeoutWithoutKill(c) ==
  /\ job[c] = "running"
  /\ proc[c] \in Alive
  /\ Reports(c, "failed")
  /\ UNCHANGED <<storageVars, proc, code, orphan>>

\* One of the two timeouts; subprocess.run kills the process.
Timeout(c) ==
  /\ job[c] = "running"
  /\ proc[c] \in Alive
  /\ proc' = [proc EXCEPT ![c] = "killed"]
  /\ Disconnect(c)
  /\ Reports(c, "failed")
  /\ UNCHANGED <<code, orphan>>

\* The work horse is killed: its worker has RQ mark the job as failed.
HorseDies(c) ==
  /\ job[c] = "running"
  /\ Reports(c, "failed")
  /\ orphan' = orphan \cup {c}
  /\ UNCHANGED <<storageVars, proc, code>>
-----------------------------------------------------------------------------
(* The crawl's process.                                                    *)

\* ConfigError: the spider cannot be built, and scrapy exits with 1.
ConfigRejected(c) ==
  /\ proc[c] = "starting"
  /\ Exits(c, 1)
  /\ UNCHANGED <<storageVars, job, orphan>>

\* The pipeline opens the database.
CrawlBegins(c) ==
  /\ proc[c] = "starting"
  /\ Open(c)
  /\ proc' = [proc EXCEPT ![c] = "crawling"]
  /\ UNCHANGED <<job, code, orphan>>

\* The pipeline cannot; scrapy reports the error but exits with 0, for it
\* looks only at whether there is a spider.
PipelineFails(c) ==
  /\ proc[c] = "starting"
  /\ OpenFails(c)
  /\ Exits(c, 0)
  /\ UNCHANGED <<job, orphan>>

\* process_item: a save that raises costs the item and not the crawl.
ProcessItem(c) ==
  /\ proc[c] = "crawling"
  /\ SaveStep(c)
  /\ UNCHANGED jobVars

\* The crawl is over, with or without its items: close_spider, exit status 0.
CrawlEnds(c) ==
  /\ proc[c] = "crawling"
  /\ saving[c] = None
  /\ Disconnect(c)
  /\ Exits(c, 0)
  /\ UNCHANGED <<job, orphan>>

\* The process dies of a signal.
CrawlDies(c) ==
  /\ proc[c] \in Alive
  /\ Disconnect(c)
  /\ Exits(c, 2)
  /\ UNCHANGED <<job, orphan>>

CrawlStep(c) ==
  \/ ConfigRejected(c) \/ CrawlBegins(c) \/ PipelineFails(c)
  \/ ProcessItem(c) \/ CrawlEnds(c)
-----------------------------------------------------------------------------
Init ==
  /\ StorageInit
  /\ job = [c \in Crawls |-> "none"]
  /\ proc = [c \in Crawls |-> "none"]
  /\ code = [c \in Crawls |-> 0]
  /\ orphan = {}

JobStep(c) ==
  \/ EnqueueCrawl(c) \/ EnqueueFails(c)
  \/ StartJob(c) \/ StartFails(c) \/ JobReturns(c) \/ Timeout(c) \/ HorseDies(c)

Next ==
  \/ \E c \in Crawls : JobStep(c) \/ CrawlStep(c) \/ CrawlDies(c)
  \/ \E r \in Readers : Query(r) /\ UNCHANGED jobVars

Spec == Init /\ [][Next]_vars

\* The workers take jobs, the clocks run out, a crawl goes on and ends (as
\* Crawl shows), and readers finish.
FairSpec ==
  /\ Spec
  /\ \A c \in Crawls : /\ WF_vars(StartJob(c) \/ StartFails(c))
                       /\ WF_vars(Timeout(c) \/ JobReturns(c))
                       /\ WF_vars(CrawlStep(c))
-----------------------------------------------------------------------------
\* Type correctness, and what ties a connection to its process.
JobsTypeOK ==
  /\ conn \in [Crawls -> {"none", "open", "closed"}]
  /\ lock \in [Crawls -> Locks]
  /\ saving \in [Crawls -> Items \cup {None}]
  /\ inserted \in [Crawls -> SUBSET Items]
  /\ reading \subseteq Readers
  /\ stored \subseteq Items
  /\ result \in [Items -> {"unsaved", "saved", "failed"}]
  /\ job \in [Crawls -> JobStates]
  /\ proc \in [Crawls -> ProcStates]
  /\ code \in [Crawls -> Nat]
  /\ orphan \subseteq Crawls

\* A reported job is over: its process is gone, holds no lock that others
\* would wait for and can save nothing any more; and it is reported finished
\* only if its process ended by itself with status 0.  Excepted is a job whose
\* work horse was killed, whose crawl goes on unwatched.  (run_spider_job and
\* subprocess.run, which kills the process it gives up.)
OverWhenReported ==
  \A c \in Crawls :
    job[c] \in Reported /\ c \notin orphan =>
      /\ proc[c] \notin Alive
      /\ lock[c] = "none" /\ inserted[c] = {}
      /\ job[c] = "finished" => proc[c] = "exited" /\ code[c] = 0

\* Every queued job is reported, and its process ends, also if it is orphaned
\* or waits for a lock that another crawl's failed commit left behind.
\* (run_spider_job; the timeouts of job, process and lock.)
JobsEnd ==
  \A c \in Crawls :
    job[c] = "queued" ~> (job[c] \in Reported /\ proc[c] \notin Alive)
=============================================================================
