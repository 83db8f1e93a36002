------------------------ MODULE FeedCollectionProofs ------------------------
(***************************************************************************)
(* Theorems about FeedCollection, for every length of the feed and every   *)
(* limit of attempts and stalls.                                           *)
(*                                                                         *)
(* The strengthening FeedInv relates the loop to the page: while the       *)
(* driver reads or aims, a smooth page is at rest, so a batch comes only   *)
(* after what the DOM had of the ones before it was read; and whatever the *)
(* page, the stalls are the attempts since the last response.              *)
(*                                                                         *)
(* What a window leaves of some batches matters in three lemmas only;      *)
(* everywhere else it is a set of posts that depends on its size and on    *)
(* the number of batches.                                                  *)
(***************************************************************************)
EXTENDS FeedCollection, Integers, TLAPS

\* A window shows posts of the feed, and none but survivors.
LEMMA WindowOfSurvivors ==
  ASSUME NEW size \in Nat, NEW n \in 0..Batches
  PROVE  Window(size, n) \subseteq Posts /\ Window(size, n) \subseteq Survivors(size)
<1> SUFFICES ASSUME NEW p \in Window(size, n)
             PROVE  p \in Posts /\ PageSize - p[2] < size
  BY DEF Survivors, Window
<1> DEFINE later == (n - p[1]) * PageSize
<1>1. /\ p \in Posts /\ p[1] <= n
      /\ later + (PageSize - p[2]) < size
  BY DEF Window
<1>2. /\ p[1] \in Int /\ p[2] \in Int /\ n \in Int /\ PageSize \in Nat
      /\ n - p[1] \in Nat
  BY <1>1, FeedAssumption DEF Posts
<1>3. later \in Nat
  BY <1>2
<1> HIDE DEF later
<1> QED
  BY <1>1, <1>2, <1>3

\* A survivor is shown when its batch has come.
LEMMA SurvivorsShown ==
  ASSUME NEW size \in Nat, NEW p \in Survivors(size)
  PROVE  p[1] \in 1..Batches /\ p \in Window(size, p[1])
<1>1. p \in Posts /\ PageSize - p[2] < size
  BY DEF Survivors
<1>2. p[1] \in 1..Batches /\ p[1] \in Int /\ p[2] \in Int /\ PageSize \in Int
  BY <1>1, FeedAssumption DEF Posts
<1>3. (p[1] - p[1]) * PageSize = 0
  BY <1>2
<1>4. (p[1] - p[1]) * PageSize + (PageSize - p[2]) < size
  BY <1>1, <1>2, <1>3
<1> QED
  BY <1>1, <1>2, <1>4 DEF Window

\* Before the first batch there is nothing to read.
LEMMA NothingShown ==
  ASSUME NEW size \in Nat
  PROVE  Window(size, 0) = {}
BY FeedAssumption DEF Window, Posts

\* The page asks only for a batch that the feed has.
PageInv ==
  page.hasNext \/ page.fetch \in {"sent", "batch"} => page.shown < Batches

\* The loop goes on only below both of its limits.
LoopInv ==
  /\ driver.stage \in {"loaded", "hover", "waiting"} => driver.going
  /\ driver.going => driver.stalls < MaxStalls
  /\ driver.stage = "hover" => driver.step < MaxAttempts

\* Stalls are the attempts since the last response, and a loop that does not go
\* on has one of the three reasons for it.
StallInv ==
  /\ driver.stage = "waiting" => driver.step = driver.answered + driver.stalls + 1
  /\ driver.stage # "waiting" /\ driver.outcome # "covered" =>
       driver.step = driver.answered + driver.stalls
  /\ driver.outcome = "covered" => ~driver.going
  /\ ~driver.going => driver.outcome \in {"covered", "last"} \/ driver.stalls >= MaxStalls

\* When the feed has said that it ends, its last batch is there or arriving.
LastInv ==
  driver.outcome = "last" =>
    page.shown = Batches \/ (page.fetch = "batch" /\ page.shown + 1 = Batches)

\* One turn of the wheel, one batch: whether the page is at rest, by the stage.
RestInv ==
  Smooth =>
    /\ page.events <= 1
    /\ page.fetch # "idle" => page.events = 0
    /\ driver.stage = "loaded" => page.events = 0
    /\ driver.stage \in {"reading", "hover", "done"} => Idle
    /\ driver.stage = "paused" \/ (driver.stage = "waiting" /\ driver.outcome # "nothing") =>
         page.events = 0 /\ page.fetch \in {"idle", "batch"}

\* What was in the DOM once n batches had come has been read.
Collected(n) == Window(page.window, n) \subseteq read.posts

\* What has been read: what was there before the newest batch; what is there
\* with it too before the next is asked for.
ReadInv ==
  Smooth =>
    /\ \A n \in 0..page.shown : n < page.shown => Collected(n)
    /\ driver.stage = "reading" => read.began = page.shown
    /\ driver.stage \in {"hover", "done"} => Collected(page.shown)
    /\ ~Idle => Collected(page.shown)

\* Nothing is collected that the page never had.
KnownInv ==
  /\ read.began <= page.shown
  /\ read.posts \subseteq Survivors(page.window)

FeedInv ==
  FeedTypeOK /\ PageInv /\ LoopInv /\ StallInv /\ LastInv /\ RestInv /\ ReadInv /\ KnownInv
-----------------------------------------------------------------------------
LEMMA FeedInvInit == FeedInit => FeedInv
<1> SUFFICES ASSUME FeedInit PROVE FeedInv
  OBVIOUS
<1>1. page.shown = 0 /\ page.events = 0 /\ page.fetch = "sent"
  BY DEF FeedInit
<1>2. FeedTypeOK
  <2>1. 0 \in 0..Batches /\ 0 \in Nat /\ TRUE \in BOOLEAN /\ "sent" \in Fetches
    BY FeedAssumption DEF Fetches
  <2>2. page \in [shown : 0..Batches, events : Nat, fetch : Fetches, hasNext : BOOLEAN,
                 window : Windows, prompt : BOOLEAN, burst : Bursts]
    BY <2>1, Zenon DEF FeedInit
  <2>3. driver \in [stage : Stages, step : 0..MaxAttempts, stalls : 0..MaxStalls,
                   going : BOOLEAN, outcome : Outcomes, answered : 0..MaxAttempts]
    BY FeedAssumption DEF FeedInit, Stages, Outcomes
  <2> QED
    BY <2>2, <2>3, FeedAssumption DEF FeedInit, FeedTypeOK
<1>3. PageInv /\ LoopInv /\ StallInv /\ LastInv
  BY <1>1, FeedAssumption DEF FeedInit, PageInv, LoopInv, StallInv, LastInv
<1>4. RestInv
  BY <1>1, FeedAssumption DEF FeedInit, RestInv, Smooth
<1>5. ReadInv /\ KnownInv
  <2>1. page.window \in Nat
    BY FeedAssumption DEF FeedInit
  <2>2. Collected(0)
    BY <2>1, NothingShown DEF Collected
  <2>3. driver.stage = "loaded" /\ read.posts = {} /\ read.began = 0
    BY DEF FeedInit
  <2> QED
    BY <1>1, <2>2, <2>3 DEF ReadInv, KnownInv
<1> QED
  BY <1>2, <1>3, <1>4, <1>5 DEF FeedInv

\* A reading adds what was in the DOM at some time since it began.
LEMMA SeenIsKnown ==
  ASSUME FeedTypeOK, KnownInv,
         NEW seen \in SUBSET UNION { Window(page.window, n) : n \in read.began..page.shown }
  PROVE  seen \subseteq Posts /\ seen \subseteq Survivors(page.window)
<1> SUFFICES ASSUME NEW p \in seen PROVE p \in Posts /\ p \in Survivors(page.window)
  OBVIOUS
<1>1. PICK n \in read.began..page.shown : p \in Window(page.window, n)
  OBVIOUS
<1>2. page.window \in Nat
  BY FeedAssumption DEF FeedTypeOK
<1>3. read.began \in 0..Batches /\ page.shown \in 0..Batches
  BY DEF FeedTypeOK
<1>4. n \in 0..Batches
  BY <1>3, FeedAssumption
<1> QED
  BY <1>1, <1>2, <1>4, WindowOfSurvivors

LEMMA KnownInvNext ==
  ASSUME FeedTypeOK, KnownInv, [FeedNext]_feedVars PROVE KnownInv'
<1>1. CASE StartReading
  <2>1. page' = page /\ read'.began = page.shown /\ read'.posts = read.posts
    BY <1>1 DEF StartReading, FeedTypeOK
  <2> QED
    BY <2>1 DEF KnownInv, FeedTypeOK
<1>2. CASE FinishReading
  <2>1. PICK seen \in SUBSET UNION { Window(page.window, n) : n \in read.began..page.shown } :
          read' = [read EXCEPT !.posts = @ \cup seen]
    BY <1>2 DEF FinishReading
  <2>2. page' = page /\ read'.began = read.began /\ read'.posts = read.posts \cup seen
    BY <1>2, <2>1 DEF FinishReading, FeedTypeOK
  <2> QED
    BY <2>2, SeenIsKnown DEF KnownInv
<1>3. CASE ~StartReading /\ ~FinishReading
  <2>1. /\ read' = read /\ page'.window = page.window
        /\ page'.shown \in {page.shown, page.shown + 1}
    BY <1>3 DEF FeedTypeOK, FeedNext, DriverStep, PageStep, HoverBlocked, TurnWheel, ResponseCaught,
                TimedOut, Scrolled, Answered, Refused, BatchShown, RefusalTaken, feedVars
  <2> QED
    BY <2>1 DEF KnownInv, FeedTypeOK
<1> QED
  BY <1>1, <1>2, <1>3

LEMMA FeedInvNext == FeedInv /\ [FeedNext]_feedVars => FeedInv'
<1> SUFFICES ASSUME FeedTypeOK, PageInv, LoopInv, StallInv, LastInv, RestInv, ReadInv, KnownInv,
                    [FeedNext]_feedVars
             PROVE  FeedTypeOK' /\ PageInv' /\ LoopInv' /\ StallInv' /\ LastInv' /\ RestInv'
                    /\ ReadInv'
  BY KnownInvNext DEF FeedInv
<1>1. CASE StartReading
  BY <1>1 DEF StartReading, FeedTypeOK, PageInv, LoopInv, StallInv, LastInv, RestInv, ReadInv,
      Collected, Idle, Smooth, Stages, Fetches, Outcomes
<1>2. CASE FinishReading
  <2>1. PICK seen \in SUBSET UNION { Window(page.window, n) : n \in read.began..page.shown } :
          /\ read.began = page.shown => seen = Window(page.window, page.shown)
          /\ read' = [read EXCEPT !.posts = @ \cup seen]
    BY <1>2 DEF FinishReading
  <2>2. read'.posts = read.posts \cup seen /\ read'.began = read.began
    BY <2>1 DEF FeedTypeOK
  <2>3. PICK stage \in {"hover", "done"} :
          /\ stage = "hover" => driver.going /\ driver.step < MaxAttempts
          /\ driver' = [driver EXCEPT !.stage = stage]
    BY <1>2 DEF FinishReading
  <2>4. driver.stage = "reading" /\ page' = page
    BY <1>2 DEF FinishReading
  <2>5. FeedTypeOK'
    <3>1. "hover" \in Stages /\ "done" \in Stages
      BY DEF Stages
    <3>2. driver' \in [stage : Stages, step : 0..MaxAttempts, stalls : 0..MaxStalls,
                        going : BOOLEAN, outcome : Outcomes, answered : 0..MaxAttempts]
      BY <2>1, <2>2, <2>3, <2>4, <3>1 DEF FeedTypeOK
    <3>3. read' \in [posts : SUBSET Posts, began : 0..Batches]
      BY <2>1, SeenIsKnown DEF FeedTypeOK
    <3> QED
      BY <2>4, <3>2, <3>3 DEF FeedTypeOK
  <2>6. PageInv'
    BY <2>1, <2>2, <2>3, <2>4, FeedAssumption DEF FeedTypeOK, PageInv
  <2>7. LoopInv'
    BY <2>1, <2>2, <2>3, <2>4, FeedAssumption DEF FeedTypeOK, LoopInv
  <2>8. StallInv'
    BY <2>1, <2>2, <2>3, <2>4, FeedAssumption DEF FeedTypeOK, LoopInv, StallInv
  <2>9. LastInv'
    BY <2>1, <2>2, <2>3, <2>4, FeedAssumption DEF FeedTypeOK, PageInv, LastInv
  <2>10. RestInv'
    BY <2>1, <2>2, <2>3, <2>4, FeedAssumption DEF FeedTypeOK, RestInv, Idle, Smooth
  <2>11. ReadInv'
    <3> SUFFICES ASSUME Smooth PROVE ReadInv'
      BY <2>4 DEF ReadInv, Smooth
    <3>1. read.began = page.shown /\ \A n \in 0..page.shown : n < page.shown => Collected(n)
      BY <2>4 DEF ReadInv
    <3>2. \A n : Collected(n) => Collected(n)'
      BY <2>2, <2>4 DEF Collected
    <3>3. Collected(page.shown)'
      BY <2>1, <2>2, <2>4, <3>1 DEF Collected
    <3>4. driver'.stage # "reading"
      BY <2>3 DEF FeedTypeOK
    <3> QED
      BY <2>4, <3>1, <3>2, <3>3, <3>4 DEF ReadInv
  <2> QED
    BY <2>5, <2>6, <2>7, <2>8, <2>9, <2>10, <2>11
<1>3. CASE HoverBlocked
  <2>1. /\ driver.stage = "hover" /\ driver.step < MaxAttempts
        /\ driver' = [driver EXCEPT !.stage = "paused", !.step = driver.step + 1,
                                    !.outcome = "covered", !.going = FALSE]
        /\ page' = page /\ read' = read
    BY <1>3 DEF HoverBlocked, LoopInv
  <2>2. FeedTypeOK'
    <3>1. "paused" \in Stages /\ "covered" \in Outcomes
      BY DEF Stages, Outcomes
    <3>2. driver.step + 1 \in 0..MaxAttempts
      BY <2>1, FeedAssumption DEF FeedTypeOK
    <3>3. driver' \in [stage : Stages, step : 0..MaxAttempts, stalls : 0..MaxStalls,
                        going : BOOLEAN, outcome : Outcomes, answered : 0..MaxAttempts]
      BY <2>1, <3>1, <3>2 DEF FeedTypeOK
    <3> QED
      BY <2>1, <3>1, <3>2, <3>3 DEF FeedTypeOK
  <2>3. PageInv'
    BY <2>1, FeedAssumption DEF FeedTypeOK, PageInv
  <2>4. LoopInv'
    BY <2>1, FeedAssumption DEF FeedTypeOK, LoopInv
  <2>5. StallInv'
    BY <2>1, FeedAssumption DEF FeedTypeOK, LoopInv, StallInv
  <2>6. LastInv'
    BY <2>1, FeedAssumption DEF FeedTypeOK, PageInv, LastInv
  <2>7. RestInv'
    BY <2>1, FeedAssumption DEF FeedTypeOK, RestInv, Idle, Smooth
  <2>8. ReadInv'
    BY <2>1, FeedAssumption DEF FeedTypeOK, RestInv, ReadInv, Collected, Idle, Smooth
  <2> QED
    BY <2>2, <2>3, <2>4, <2>5, <2>6, <2>7, <2>8
<1>4. CASE TurnWheel
  <2>1. /\ driver.stage = "hover" /\ driver.going /\ driver.step < MaxAttempts
        /\ driver' = [driver EXCEPT !.stage = "waiting", !.step = driver.step + 1,
                                    !.outcome = "nothing"]
        /\ read' = read
    BY <1>4 DEF TurnWheel, LoopInv
  <2>2. PICK n \in 0..page.burst : page' = [page EXCEPT !.events = page.events + n]
    BY <1>4 DEF TurnWheel
  <2>3. n \in Nat /\ (page.burst <= 1 => n <= 1)
    BY <2>2, FeedAssumption DEF FeedTypeOK
  <2>4. FeedTypeOK'
    <3>1. "waiting" \in Stages /\ "nothing" \in Outcomes
      BY DEF Stages, Outcomes
    <3>2. driver.step + 1 \in 0..MaxAttempts /\ page.events + n \in Nat
      BY <2>1, <2>3, FeedAssumption DEF FeedTypeOK
    <3>3. driver' \in [stage : Stages, step : 0..MaxAttempts, stalls : 0..MaxStalls,
                        going : BOOLEAN, outcome : Outcomes, answered : 0..MaxAttempts]
      BY <2>1, <2>2, <2>3, <3>1, <3>2 DEF FeedTypeOK
    <3>4. page' \in [shown : 0..Batches, events : Nat, fetch : Fetches, hasNext : BOOLEAN,
                      window : Windows, prompt : BOOLEAN, burst : Bursts]
      BY <2>1, <2>2, <2>3, <3>1, <3>2, <3>3 DEF FeedTypeOK
    <3> QED
      BY <2>1, <2>2, <2>3, <3>1, <3>2, <3>3, <3>4 DEF FeedTypeOK
  <2>5. PageInv'
    BY <2>1, <2>2, <2>3, FeedAssumption DEF FeedTypeOK, PageInv
  <2>6. LoopInv'
    BY <2>1, <2>2, <2>3, FeedAssumption DEF FeedTypeOK, LoopInv
  <2>7. StallInv'
    BY <2>1, <2>2, <2>3, FeedAssumption DEF FeedTypeOK, LoopInv, StallInv
  <2>8. LastInv'
    BY <2>1, <2>2, <2>3, FeedAssumption DEF FeedTypeOK, PageInv, LastInv
  <2>9. RestInv'
    BY <2>1, <2>2, <2>3, FeedAssumption DEF FeedTypeOK, RestInv, Idle, Smooth
  <2>10. ReadInv'
    BY <2>1, <2>2, <2>3, FeedAssumption DEF FeedTypeOK, RestInv, ReadInv, Collected, Idle, Smooth
  <2> QED
    BY <2>4, <2>5, <2>6, <2>7, <2>8, <2>9, <2>10
<1>5. CASE ResponseCaught
  <2>1. PICK going \in BOOLEAN :
          /\ going <=> driver.outcome # "last"
          /\ driver' = [driver EXCEPT !.stage = "paused", !.stalls = 0, !.going = going,
                                      !.answered = driver.step]
    BY <1>5 DEF ResponseCaught
  <2>2. /\ driver.stage = "waiting" /\ driver.outcome # "nothing"
        /\ page' = page /\ read' = read
    BY <1>5 DEF ResponseCaught
  <2>3. FeedTypeOK'
    <3>1. "paused" \in Stages
      BY DEF Stages
    <3>2. 0 \in 0..MaxStalls /\ driver.step \in 0..MaxAttempts
      BY FeedAssumption DEF FeedTypeOK
    <3>3. driver' \in [stage : Stages, step : 0..MaxAttempts, stalls : 0..MaxStalls,
                        going : BOOLEAN, outcome : Outcomes, answered : 0..MaxAttempts]
      BY <2>1, <2>2, <3>1, <3>2 DEF FeedTypeOK
    <3> QED
      BY <2>1, <2>2, <3>1, <3>2, <3>3 DEF FeedTypeOK
  <2>4. PageInv'
    BY <2>1, <2>2, FeedAssumption DEF FeedTypeOK, PageInv
  <2>5. LoopInv'
    BY <2>1, <2>2, FeedAssumption DEF FeedTypeOK, LoopInv
  <2>6. StallInv'
    BY <2>1, <2>2, FeedAssumption DEF FeedTypeOK, LoopInv, StallInv
  <2>7. LastInv'
    BY <2>1, <2>2, FeedAssumption DEF FeedTypeOK, PageInv, LastInv
  <2>8. RestInv'
    BY <2>1, <2>2, FeedAssumption DEF FeedTypeOK, RestInv, Idle, Smooth
  <2>9. ReadInv'
    BY <2>1, <2>2, FeedAssumption DEF FeedTypeOK, RestInv, ReadInv, Collected, Idle, Smooth
  <2> QED
    BY <2>3, <2>4, <2>5, <2>6, <2>7, <2>8, <2>9
<1>6. CASE TimedOut
  <2>1. PICK going \in BOOLEAN :
          /\ going <=> driver.stalls + 1 < MaxStalls
          /\ driver' = [driver EXCEPT !.stage = "paused", !.stalls = driver.stalls + 1,
                                      !.going = going]
    <3>1. (driver.stalls + 1 < MaxStalls) \in BOOLEAN
      OBVIOUS
    <3> QED
      BY <1>6, <3>1, Zenon DEF TimedOut
  <2>2. /\ driver.stage = "waiting" /\ driver.outcome = "nothing"
        /\ page.prompt => Idle
        /\ page' = page /\ read' = read
    BY <1>6 DEF TimedOut
  <2>3. FeedTypeOK'
    <3>1. "paused" \in Stages
      BY DEF Stages
    <3>2. driver.stalls + 1 \in 0..MaxStalls
      BY <2>2, FeedAssumption DEF FeedTypeOK, LoopInv
    <3>3. driver' \in [stage : Stages, step : 0..MaxAttempts, stalls : 0..MaxStalls,
                        going : BOOLEAN, outcome : Outcomes, answered : 0..MaxAttempts]
      BY <2>1, <2>2, <3>1, <3>2 DEF FeedTypeOK
    <3> QED
      BY <2>1, <2>2, <3>1, <3>2, <3>3 DEF FeedTypeOK
  <2>4. PageInv'
    BY <2>1, <2>2, FeedAssumption DEF FeedTypeOK, PageInv
  <2>5. LoopInv'
    BY <2>1, <2>2, FeedAssumption DEF FeedTypeOK, LoopInv
  <2>6. StallInv'
    BY <2>1, <2>2, FeedAssumption DEF FeedTypeOK, LoopInv, StallInv
  <2>7. LastInv'
    BY <2>1, <2>2, FeedAssumption DEF FeedTypeOK, PageInv, LastInv
  <2>8. RestInv'
    BY <2>1, <2>2, FeedAssumption DEF FeedTypeOK, RestInv, Idle, Smooth
  <2>9. ReadInv'
    BY <2>1, <2>2, FeedAssumption DEF FeedTypeOK, RestInv, ReadInv, Collected, Idle, Smooth
  <2> QED
    BY <2>3, <2>4, <2>5, <2>6, <2>7, <2>8, <2>9
<1>7. CASE Scrolled
  <2>1. PICK fetch \in Fetches :
          /\ fetch = page.fetch \/ (fetch = "sent" /\ page.fetch = "idle" /\ page.hasNext)
          /\ page' = [page EXCEPT !.events = page.events - 1, !.fetch = fetch]
    BY <1>7 DEF Scrolled, FeedTypeOK, Fetches
  <2>2. page.events > 0 /\ driver' = driver /\ read' = read
    BY <1>7 DEF Scrolled
  <2>3. FeedTypeOK'
    <3>1. page.events - 1 \in Nat
      BY <2>2 DEF FeedTypeOK
    <3>2. page' \in [shown : 0..Batches, events : Nat, fetch : Fetches, hasNext : BOOLEAN,
                      window : Windows, prompt : BOOLEAN, burst : Bursts]
      BY <2>1, <2>2, <3>1 DEF FeedTypeOK
    <3> QED
      BY <2>1, <2>2, <3>1, <3>2 DEF FeedTypeOK
  <2>4. PageInv'
    BY <2>1, <2>2, FeedAssumption DEF FeedTypeOK, PageInv
  <2>5. LoopInv'
    BY <2>1, <2>2, FeedAssumption DEF FeedTypeOK, LoopInv
  <2>6. StallInv'
    BY <2>1, <2>2, FeedAssumption DEF FeedTypeOK, LoopInv, StallInv
  <2>7. LastInv'
    BY <2>1, <2>2, FeedAssumption DEF FeedTypeOK, PageInv, LastInv
  <2>8. RestInv'
    BY <2>1, <2>2, FeedAssumption DEF FeedTypeOK, RestInv, Idle, Smooth
  <2>9. ReadInv'
    BY <2>1, <2>2, FeedAssumption DEF FeedTypeOK, RestInv, ReadInv, Collected, Idle, Smooth
  <2> QED
    BY <2>3, <2>4, <2>5, <2>6, <2>7, <2>8, <2>9
<1>8. CASE Answered
  BY <1>8, FeedAssumption
  DEF Answered, HasNext, FeedTypeOK, PageInv, LoopInv, StallInv, LastInv, RestInv, ReadInv,
      Collected, Idle, Smooth, Stages, Fetches, Outcomes
<1>9. CASE Refused
  BY <1>9 DEF Refused, FeedTypeOK, PageInv, LoopInv, StallInv, LastInv, RestInv, ReadInv,
      Collected, Idle, Smooth, Stages, Fetches, Outcomes
<1>10. CASE BatchShown
  <2>1. PICK more \in BOOLEAN :
          /\ more <=> page.shown + 1 < Batches
          /\ page' = [page EXCEPT !.fetch = "idle", !.shown = page.shown + 1,
                                  !.hasNext = more]
    BY <1>10 DEF BatchShown, HasNext
  <2>2. /\ page.fetch = "batch" /\ page.shown < Batches /\ driver' = driver /\ read' = read
        /\ page'.shown = page.shown + 1
    BY <1>10 DEF BatchShown, PageInv, FeedTypeOK
  <2>3. FeedTypeOK'
    <3>1. "idle" \in Fetches
      BY DEF Fetches
    <3>2. page.shown + 1 \in 0..Batches
      BY <2>2, FeedAssumption DEF FeedTypeOK
    <3>3. page' \in [shown : 0..Batches, events : Nat, fetch : Fetches, hasNext : BOOLEAN,
                      window : Windows, prompt : BOOLEAN, burst : Bursts]
      BY <2>1, <2>2, <3>1, <3>2 DEF FeedTypeOK
    <3> QED
      BY <2>1, <2>2, <3>1, <3>2, <3>3 DEF FeedTypeOK
  <2>4. PageInv'
    BY <2>1, <2>2, FeedAssumption DEF FeedTypeOK, PageInv
  <2>5. LoopInv'
    BY <2>1, <2>2, FeedAssumption DEF FeedTypeOK, LoopInv
  <2>6. StallInv'
    BY <2>1, <2>2, FeedAssumption DEF FeedTypeOK, LoopInv, StallInv
  <2>7. LastInv'
    BY <2>1, <2>2, FeedAssumption DEF FeedTypeOK, PageInv, LastInv
  <2>8. RestInv'
    BY <2>1, <2>2, FeedAssumption DEF FeedTypeOK, RestInv, Idle, Smooth
  <2>9. ReadInv'
    BY <2>1, <2>2, FeedAssumption DEF FeedTypeOK, RestInv, ReadInv, Collected, Idle, Smooth
  <2> QED
    BY <2>3, <2>4, <2>5, <2>6, <2>7, <2>8, <2>9
<1>11. CASE RefusalTaken
  BY <1>11 DEF RefusalTaken, FeedTypeOK, PageInv, LoopInv, StallInv, LastInv, RestInv, ReadInv,
      Collected, Idle, Smooth, Stages, Fetches, Outcomes
<1>12. CASE UNCHANGED feedVars
  BY <1>12 DEF feedVars, FeedTypeOK, PageInv, LoopInv, StallInv, LastInv, RestInv, ReadInv,
      Collected, Idle, Smooth, Stages, Fetches, Outcomes
<1> QED
  BY <1>1, <1>2, <1>3, <1>4, <1>5, <1>6, <1>7, <1>8, <1>9, <1>10, <1>11, <1>12
  DEF FeedNext, DriverStep, PageStep

\* The types, and the strengthening of the properties below.
\* (scroll_and_collect with the callbacks of both drivers.)
THEOREM FeedInvariant == FeedSpec => []FeedInv
BY FeedInvInit, FeedInvNext, PTL DEF FeedSpec

\* The types hold; in particular no collection makes more than MaxAttempts
\* attempts or counts more than MaxStalls stalls.
THEOREM FeedTypeCorrect == FeedSpec => []FeedTypeOK
<1>1. FeedInv => FeedTypeOK
  BY DEF FeedInv
<1> QED
  BY <1>1, FeedInvariant, PTL

\* However long the feed, and whatever window and batches, each post that the
\* DOM had is read before later ones evict it.
\* (scroll_and_collect: the wait for the response, the pause, collect_fn.)
THEOREM NothingEvictedUnread == FeedSpec => []EvictedOnlyAfterRead
<1>1. FeedInv => EvictedOnlyAfterRead
  <2> SUFFICES ASSUME FeedInv, Smooth, NEW p \in Survivors(page.window),
                      p[1] <= page.shown, p \notin Window(page.window, page.shown)
               PROVE  p \in read.posts
    BY DEF EvictedOnlyAfterRead
  <2>1. page.window \in Nat
    BY FeedAssumption DEF FeedInv, FeedTypeOK
  <2>2. p[1] \in 1..Batches /\ p \in Window(page.window, p[1])
    BY <2>1, SurvivorsShown
  <2>3. p[1] < page.shown /\ p[1] \in 0..page.shown
    <3>1. page.shown \in 0..Batches
      BY DEF FeedInv, FeedTypeOK
    <3> QED
      BY <2>2, <3>1, FeedAssumption
  <2>4. Collected(p[1])
    BY <2>3 DEF FeedInv, ReadInv
  <2> QED
    BY <2>2, <2>4 DEF Collected
<1> QED
  BY <1>1, FeedInvariant, PTL

\* A collection that ends because the feed said so has exactly the posts that
\* were in the DOM with their batch.  (The collection after has_next_page was
\* false.)
THEOREM ConfirmedEndIsComplete == FeedSpec => []CompleteWhenConfirmed
<1>1. FeedInv => CompleteWhenConfirmed
  <2> SUFFICES ASSUME FeedInv, Smooth, driver.stage = "done", driver.outcome = "last"
               PROVE  read.posts = Survivors(page.window)
    BY DEF CompleteWhenConfirmed
  <2>1. page.shown = Batches
    BY DEF FeedInv, LastInv, RestInv, Idle
  <2>2. \A n \in 1..Batches : Collected(n)
    BY <2>1, FeedAssumption DEF FeedInv, ReadInv
  <2>3. page.window \in Nat
    BY FeedAssumption DEF FeedInv, FeedTypeOK
  <2>4. ASSUME NEW p \in Survivors(page.window) PROVE p \in read.posts
    <3>1. p[1] \in 1..Batches /\ p \in Window(page.window, p[1])
      BY <2>3, SurvivorsShown
    <3> QED
      BY <2>2, <3>1 DEF Collected
  <2>5. read.posts \subseteq Survivors(page.window)
    BY DEF FeedInv, KnownInv
  <2> QED
    BY <2>4, <2>5
<1> QED
  BY <1>1, FeedInvariant, PTL

\* The loop gives up only after MaxStalls attempts in a row without a response,
\* on any page.  (consecutive_scroll_stalls.)
THEOREM StallsArePatient == FeedSpec => []PatientWithStalls
<1>1. FeedInv => PatientWithStalls
  BY FeedAssumption DEF FeedInv, FeedTypeOK, StallInv, PatientWithStalls
<1> QED
  BY <1>1, FeedInvariant, PTL
-----------------------------------------------------------------------------
(* How far the loop is from its end, and the page from rest.               *)

DriverRank(stage) ==
  CASE stage = "waiting" -> 3
    [] stage \in {"loaded", "paused"} -> 2
    [] stage = "reading" -> 1
    [] OTHER -> 0

\* Each attempt has at most four steps, and comes nearer to the limit.
DriverDistance == 4 * (MaxAttempts - driver.step) + DriverRank(driver.stage)

FetchRank(fetch) ==
  CASE fetch = "sent" -> 2
    [] fetch \in {"batch", "refusal"} -> 1
    [] OTHER -> 0

\* A scroll event may start a fetch, which takes two steps.
PageDistance == 3 * page.events + FetchRank(page.fetch)

LEMMA DriverCloser ==
  ASSUME FeedInv, DriverStep PROVE DriverDistance' < DriverDistance
<1>1. /\ driver \in [stage : Stages, step : 0..MaxAttempts, stalls : 0..MaxStalls,
                    going : BOOLEAN, outcome : Outcomes, answered : 0..MaxAttempts]
      /\ driver.step \in Nat /\ MaxAttempts \in Nat
  BY FeedAssumption DEF FeedInv, FeedTypeOK
<1>2. CASE StartReading
  <2>1. /\ driver.stage \in {"loaded", "paused"}
        /\ driver'.stage = "reading" /\ driver'.step = driver.step
    BY <1>1, <1>2 DEF StartReading
  <2> QED
    BY <1>1, <2>1 DEF DriverDistance, DriverRank
<1>3. CASE FinishReading
  <2>1. /\ driver.stage = "reading"
        /\ driver'.stage \in {"hover", "done"} /\ driver'.step = driver.step
    BY <1>1, <1>3 DEF FinishReading
  <2> QED
    BY <1>1, <2>1 DEF DriverDistance, DriverRank
<1>4. CASE HoverBlocked \/ TurnWheel
  <2>1. /\ driver.stage = "hover"
        /\ driver'.stage \in {"paused", "waiting"} /\ driver'.step = driver.step + 1
    BY <1>1, <1>4 DEF HoverBlocked, TurnWheel
  <2> QED
    BY <1>1, <2>1 DEF DriverDistance, DriverRank
<1>5. CASE ResponseCaught \/ TimedOut
  <2>1. /\ driver.stage = "waiting"
        /\ driver'.stage = "paused" /\ driver'.step = driver.step
    BY <1>1, <1>5 DEF ResponseCaught, TimedOut
  <2> QED
    BY <1>1, <2>1 DEF DriverDistance, DriverRank
<1> QED
  BY <1>2, <1>3, <1>4, <1>5 DEF DriverStep

LEMMA PageCloser ==
  ASSUME FeedInv, PageStep
  PROVE  PageDistance' < PageDistance /\ DriverDistance' = DriverDistance
<1>1. /\ page \in [shown : 0..Batches, events : Nat, fetch : Fetches, hasNext : BOOLEAN,
                  window : Windows, prompt : BOOLEAN, burst : Bursts]
      /\ page.events \in Nat
  BY DEF FeedInv, FeedTypeOK
<1>2. driver'.stage = driver.stage /\ driver'.step = driver.step
  BY DEF FeedInv, FeedTypeOK, PageStep, Scrolled, Answered, Refused, BatchShown, RefusalTaken
<1>3. DriverDistance' = DriverDistance
  BY <1>2 DEF DriverDistance, DriverRank
<1>4. CASE Scrolled
  <2>1. /\ page.events > 0 /\ page'.events = page.events - 1
        /\ page'.fetch = page.fetch \/ (page.fetch = "idle" /\ page'.fetch = "sent")
    BY <1>1, <1>4 DEF Scrolled
  <2> QED
    BY <1>1, <1>3, <2>1 DEF PageDistance, FetchRank
<1>5. CASE Answered \/ Refused
  <2>1. /\ page.fetch = "sent" /\ page'.events = page.events
        /\ page'.fetch \in {"batch", "refusal", "idle"}
    BY <1>1, <1>5 DEF Answered, Refused
  <2> QED
    BY <1>1, <1>3, <2>1 DEF PageDistance, FetchRank
<1>6. CASE BatchShown \/ RefusalTaken
  <2>1. /\ page.fetch \in {"batch", "refusal"} /\ page'.events = page.events
        /\ page'.fetch = "idle"
    BY <1>1, <1>6 DEF BatchShown, RefusalTaken
  <2> QED
    BY <1>1, <1>3, <2>1 DEF PageDistance, FetchRank
<1> QED
  BY <1>4, <1>5, <1>6 DEF PageStep

\* On any page the loop makes at most 4 * MaxAttempts + 2 steps, and between
\* two of them the page makes only as many as its scroll events and its fetch
\* call for.  What is left to fairness is that driver and page go on
\* (scroll_and_collect; max_scroll_attempts).
THEOREM CollectionApproachesItsEnd ==
  FeedSpec =>
    [][/\ DriverDistance \in 0..(4 * MaxAttempts + 2) /\ PageDistance \in Nat
       /\ DriverStep => DriverDistance' < DriverDistance
       /\ PageStep => PageDistance' < PageDistance /\ DriverDistance' = DriverDistance]_feedVars
<1>1. FeedInv => DriverDistance \in 0..(4 * MaxAttempts + 2) /\ PageDistance \in Nat
  <2> SUFFICES ASSUME FeedInv
               PROVE  DriverDistance \in 0..(4 * MaxAttempts + 2) /\ PageDistance \in Nat
    OBVIOUS
  <2>1. driver.step \in 0..MaxAttempts /\ MaxAttempts \in Nat /\ page.events \in Nat
    BY FeedAssumption DEF FeedInv, FeedTypeOK
  <2>2. driver.stage = "waiting" => driver.step >= 1
    BY <2>1, FeedAssumption DEF FeedInv, FeedTypeOK, StallInv
  <2>3. DriverRank(driver.stage) \in 0..3 /\ FetchRank(page.fetch) \in 0..2
        /\ (DriverRank(driver.stage) = 3 => driver.stage = "waiting")
    BY DEF DriverRank, FetchRank
  <2> QED
    BY <2>1, <2>2, <2>3 DEF DriverDistance, PageDistance
<1>2. FeedInv /\ [FeedNext]_feedVars =>
        [/\ DriverDistance \in 0..(4 * MaxAttempts + 2) /\ PageDistance \in Nat
         /\ DriverStep => DriverDistance' < DriverDistance
         /\ PageStep => PageDistance' < PageDistance /\ DriverDistance' = DriverDistance]_feedVars
  BY <1>1, DriverCloser, PageCloser
<1> QED
  BY <1>2, FeedInvariant, PTL DEF FeedSpec
=============================================================================
