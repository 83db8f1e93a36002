--------------------------- MODULE FeedCollection ---------------------------
(***************************************************************************)
(* The progressive collection of a solve: scroll_and_collect with the      *)
(* callbacks that the two browser drivers give it, on a page that loads a  *)
(* feed batch by batch and keeps only the newest posts in its DOM.  A      *)
(* window smaller than a batch cuts each one down as it arrives: what is   *)
(* cut off is in the DOM at no time when anything could read it.           *)
(*                                                                         *)
(* The driver turns the wheel inside expect_response, so it waits for the  *)
(* feed's answer with a listener that was attached before; it pauses; it   *)
(* reads what the page shows.  The page loads a batch when a scroll event  *)
(* finds it idle.  Everything the page does happens while the driver waits *)
(* or works, in any order.                                                 *)
(*                                                                         *)
(* The page is the target's; it is modelled after the repository's own     *)
(* feed page and /api/feed (test-environment/mock-target), which the       *)
(* comments of both drivers refer to.  What is assumed of any page is in   *)
(* its field prompt: answers come before the wait for them is given up,    *)
(* and the page's script has put a batch in place when the pause is over.  *)
(***************************************************************************)
EXTENDS Naturals

CONSTANTS
  Batches,      \* batches that the feed has
  PageSize,     \* FEED_PAGE_SIZE: posts in a batch
  Windows,      \* DOM_VIRTUALIZATION_WINDOW_SIZE: how many posts may stay
  MaxAttempts,  \* DEFAULT_PROGRESSIVE_MAX_SCROLL_ATTEMPTS
  MaxStalls,    \* DEFAULT_PROGRESSIVE_MAX_CONSECUTIVE_SCROLL_STALLS
  Bursts        \* how many scroll events a turn of the wheel may set off

ASSUME FeedAssumption ==
  /\ Batches \in Nat \ {0}
  /\ PageSize \in Nat \ {0}
  /\ Windows \subseteq Nat \ {0}
  /\ MaxAttempts \in Nat \ {0}
  /\ MaxStalls \in Nat \ {0}
  /\ Bursts \subseteq Nat

VARIABLES
  driver,  \* the loop: its stage, the attempt and its outcome, the stalls in a
           \* row, whether to go on, and (for the properties only) the attempt
           \* that had the last response
  page,    \* the page: the newest batch, pending scroll events, the fetch under
           \* way, its flag hasNext, its window; and what is assumed of it
  read     \* the posts that have been read, and the batch that was the newest
           \* when the reading under way began

feedVars == <<driver, page, read>>

Stages == {"loaded", "reading", "hover", "waiting", "paused", "done"}

\* "sent" until the response is there, then what the response is.
Fetches == {"idle", "sent", "batch", "refusal"}

\* What an attempt led to: no response that expect_response catches (yet), one
\* whose has_next_page says so, or no attempt because something covers the feed.
Outcomes == {"nothing", "more", "last", "covered"}

\* A post by its batch and its place in it, both from 1.
Posts == (1..Batches) \X (1..PageSize)

\* appendEdges: what a window leaves of the first n batches, the posts that
\* fewer than its size came after.  Appending and evicting is one step.
Window(size, n) ==
  { p \in Posts :
      p[1] <= n /\ (n - p[1]) * PageSize + (PageSize - p[2]) < size }

\* The posts that are in the DOM when their own batch has come.
Survivors(size) == { p \in Posts : PageSize - p[2] < size }

Idle == page.fetch = "idle" /\ page.events = 0

\* has_next_page, of the response that brings the next batch.
HasNext == IF page.shown + 1 < Batches THEN "more" ELSE "last"
-----------------------------------------------------------------------------
(* The driver.                                                             *)

\* A reading of the page begins: at first when the wait past load is over.
StartReading ==
  /\ \/ driver.stage = "loaded" /\ (page.prompt => Idle)
     \/ driver.stage = "paused" /\ (page.prompt => page.fetch \in {"idle", "sent"})
  /\ driver' = [driver EXCEPT !.stage = "reading"]
  /\ read' = [read EXCEPT !.began = page.shown]
  /\ UNCHANGED page

\* collect_fn, and the loop's condition.  The rows are read one by one: posts
\* that came or went meanwhile may or may not be among them.
FinishReading ==
  /\ driver.stage = "reading"
  /\ \E seen \in SUBSET UNION { Window(page.window, n) : n \in read.began..page.shown } :
       /\ read.began = page.shown => seen = Window(page.window, page.shown)
       /\ read' = [read EXCEPT !.posts = @ \cup seen]
  /\ driver' = [driver EXCEPT !.stage =
       IF driver.going /\ driver.step < MaxAttempts THEN "hover" ELSE "done"]
  /\ UNCHANGED page

\* _hover_feed_container_before_scroll gives up: something covers the feed.
HoverBlocked ==
  /\ driver.stage = "hover"
  /\ driver' = [driver EXCEPT !.stage = "paused", !.step = @ + 1, !.outcome = "covered",
                              !.going = FALSE]
  /\ UNCHANGED <<page, read>>

\* A wrong variant: the wheel is turned and its answer not waited for.
TurnWheelUnawaited ==
  /\ driver.stage = "hover"
  /\ driver' = [driver EXCEPT !.stage = "paused", !.step = @ + 1, !.outcome = "nothing"]
  /\ \E n \in 0..page.burst : page' = [page EXCEPT !.events = @ + n]
  /\ UNCHANGED read

\* The feed is hovered, the listener attached, and the wheel turned.
TurnWheel ==
  /\ driver.stage = "hover"
  /\ driver' = [driver EXCEPT !.stage = "waiting", !.step = @ + 1, !.outcome = "nothing"]
  /\ \E n \in 0..page.burst : page' = [page EXCEPT !.events = @ + n]
  /\ UNCHANGED read

\* A wrong variant: after the last response nothing is read any more.
ResponseCaughtBreaks ==
  /\ driver.stage = "waiting" /\ driver.outcome # "nothing"
  /\ driver' = [driver EXCEPT !.stage = IF driver.outcome = "last" THEN "done" ELSE "paused",
                              !.stalls = 0, !.going = driver.outcome # "last",
                              !.answered = driver.step]
  /\ UNCHANGED <<page, read>>

\* A wrong variant: stalls add up over the whole collection.
ResponseCaughtNoReset ==
  /\ driver.stage = "waiting" /\ driver.outcome # "nothing"
  /\ driver' = [driver EXCEPT !.stage = "paused", !.going = driver.outcome # "last",
                              !.answered = driver.step]
  /\ UNCHANGED <<page, read>>

\* _trigger_and_wait_for_feed_response, when expect_response has its response.
ResponseCaught ==
  /\ driver.stage = "waiting" /\ driver.outcome # "nothing"
  /\ driver' = [driver EXCEPT !.stage = "paused", !.stalls = 0,
                              !.going = driver.outcome # "last",
                              !.answered = driver.step]
  /\ UNCHANGED <<page, read>>

\* A wrong variant: a wait without a limit.
TimedOutNever == FALSE /\ UNCHANGED feedVars

\* The same when its time is over: a stall.
TimedOut ==
  /\ driver.stage = "waiting" /\ driver.outcome = "nothing"
  /\ page.prompt => Idle
  /\ driver' = [driver EXCEPT !.stage = "paused", !.stalls = @ + 1,
                              !.going = driver.stalls + 1 < MaxStalls]
  /\ UNCHANGED <<page, read>>
-----------------------------------------------------------------------------
(* The page.                                                               *)

\* loadMore, for a scroll event.
Scrolled ==
  /\ page.events > 0
  /\ page' = [page EXCEPT !.events = @ - 1,
                          !.fetch = IF @ = "idle" /\ page.hasNext THEN "sent" ELSE @]
  /\ UNCHANGED <<driver, read>>

\* The feed answers with the next batch.  The first such response after the
\* listener was attached is the one that is caught, whoever asked for it.
Answered ==
  /\ page.fetch = "sent"
  /\ page' = [page EXCEPT !.fetch = "batch"]
  /\ driver' = [driver EXCEPT !.outcome =
       IF driver.stage = "waiting" /\ @ = "nothing" THEN HasNext ELSE @]
  /\ UNCHANGED read

\* It answers with an error, which the listener does not match, or not at all.
Refused ==
  /\ page.fetch = "sent"
  /\ \E outcome \in {"refusal", "idle"} : page' = [page EXCEPT !.fetch = outcome]
  /\ UNCHANGED <<driver, read>>

\* appendEdges: the new batch is in the DOM, as far as the window allows.
BatchShown ==
  /\ page.fetch = "batch"
  /\ page' = [page EXCEPT !.fetch = "idle", !.shown = @ + 1, !.hasNext = HasNext = "more"]
  /\ UNCHANGED <<driver, read>>

\* An error has no has_next_page, which the page takes for the end.
RefusalTaken ==
  /\ page.fetch = "refusal"
  /\ page' = [page EXCEPT !.fetch = "idle", !.hasNext = FALSE]
  /\ UNCHANGED <<driver, read>>
-----------------------------------------------------------------------------
\* The page asks for its first batch when it is loaded.
FeedInit ==
  /\ driver = [stage |-> "loaded", step |-> 0, stalls |-> 0, going |-> TRUE,
               outcome |-> "nothing", answered |-> 0]
  /\ page \in [shown : {0}, events : {0}, fetch : {"sent"}, hasNext : {TRUE},
               window : Windows, prompt : BOOLEAN, burst : Bursts]
  /\ read = [posts |-> {}, began |-> 0]

DriverStep ==
  StartReading \/ FinishReading \/ HoverBlocked \/ TurnWheel \/ ResponseCaught \/ TimedOut

PageStep == Scrolled \/ Answered \/ Refused \/ BatchShown \/ RefusalTaken

FeedNext == DriverStep \/ PageStep

\* The driver's calls return; the page takes its scroll events and ends its
\* fetches.
FeedSpec ==
  /\ FeedInit /\ [][FeedNext]_feedVars
  /\ WF_feedVars(DriverStep) /\ WF_feedVars(PageStep)
-----------------------------------------------------------------------------
\* Type correctness.
FeedTypeOK ==
  /\ driver \in [stage : Stages, step : 0..MaxAttempts, stalls : 0..MaxStalls,
                 going : BOOLEAN, outcome : Outcomes, answered : 0..MaxAttempts]
  /\ page \in [shown : 0..Batches, events : Nat, fetch : Fetches, hasNext : BOOLEAN,
               window : Windows, prompt : BOOLEAN, burst : Bursts]
  /\ read \in [posts : SUBSET Posts, began : 0..Batches]

\* A page that answers in time, and loads at most one batch for a turn of the
\* wheel.
Smooth == page.prompt /\ page.burst <= 1

\* On such a page no post that was in the DOM with its batch leaves it unread,
\* evicted by a later batch ("a post evicted from the DOM by a later step is
\* still captured, since it was already read on an earlier one",
\* _live_dom.py:67).
EvictedOnlyAfterRead ==
  Smooth => \A p \in Survivors(page.window) :
    p[1] <= page.shown /\ p \notin Window(page.window, page.shown) => p \in read.posts

\* When the feed itself has said that it ends, exactly the posts that survived
\* the arrival of their own batch have been collected from such a page: half of
\* the feed with the defaults of the test environment, a page of 10 and a window
\* of 5, and all of it when the window is no smaller than the page.
\* (The pause and the collection after keep_going became False; what
\* _expected_post_ids of test_mock_target_dom_virtualization_progressive_live.py
\* expects.)
CompleteWhenConfirmed ==
  Smooth /\ driver.stage = "done" /\ driver.outcome = "last" =>
    read.posts = Survivors(page.window)

\* The collection gives up for want of answers only after MaxStalls attempts in
\* a row without one, on any page.  (consecutive_scroll_stalls.)
PatientWithStalls ==
  driver.stage = "done" /\ ~driver.going /\ driver.outcome = "nothing" =>
    driver.step - driver.answered >= MaxStalls

\* Every collection ends, on any page.
CollectionEnds == <>(driver.stage = "done")
=============================================================================
