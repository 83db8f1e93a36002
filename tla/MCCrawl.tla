------------------------------ MODULE MCCrawl ------------------------------
(* A small target: two warm-up pages, and up to two start pages. *)
EXTENDS Crawl

CONSTANTS home, category, first, second

MCUrls == {home, category, first, second}

\* No warm-up, a path of two pages, and a path that comes back.
MCWarmUps == {<< >>, <<home, category>>, <<home, category, home>>}

\* Two start pages; two of which one is a warm-up page.
MCStarts == {<<first, second>>, <<first, home>>}
=============================================================================
