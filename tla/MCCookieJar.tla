---------------------------- MODULE MCCookieJar ----------------------------
(* A small instance of CookieJar for TLC: a bucket that keeps everything   *)
(* and one that samples slots of two units of time; sessions grow with the *)
(* version of their cookie, and what is recorded at time 2 is larger than  *)
(* the cap by itself.                                                      *)
EXTENDS CookieJar

MCBuckets == << [max_age |-> 0, sample_interval |-> 0],
                [max_age |-> 3, sample_interval |-> 2] >>

MCSizes == [x \in Sessions |-> IF x.at = 2 THEN 5 ELSE 1 + x.cookie]
=============================================================================
