---------------------------- MODULE MCCrawlJobs ----------------------------
(* Three crawls on two workers, two of which save into the one database,   *)
(* and a reader.                                                           *)
EXTENDS CrawlJobs, TLC

CONSTANTS c1, c2, c3, i1, i2, j1

MCItemsOf == (c1 :> {i1, i2}) @@ (c2 :> {j1}) @@ (c3 :> {})
=============================================================================
