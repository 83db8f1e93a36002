---------------------------- MODULE CrawlProofs ----------------------------
(***************************************************************************)
(* Theorems about Crawl, for every set of URLs, every warm-up path and     *)
(* every list of start pages.                                              *)
(*                                                                         *)
(* The invariant has five parts.  Unique: the duplicate filter keeps       *)
(* pending and parsed pages apart.  Walking: while a crawl is on its       *)
(* warm-up path it has one request, and has seen the path up to there.     *)
(* Accounted: a page that was seen is pending, visited, parsed or lost,    *)
(* and the start pages are reached if the path is.  Given: what the        *)
(* providers were given and left behind.  Begun: before a crawl begins     *)
(* nothing was seen, and after that its configuration is an accepted one.  *)
(***************************************************************************)
EXTENDS Crawl, SequenceTheorems, TLAPS

Path == config.warm_session_urls

Begun ==
  /\ phase # "crawling" => seen = {}
  /\ phase = "crawling" => Accepted(config)

Unique ==
  /\ \A q, r \in pending : q.url = r.url => q = r
  /\ \A q \in pending : ~q.warm => read[q.url].times = 0
  /\ \A u \in Urls : read[u].times \in {0, 1} /\ (read[u].times = 1 => u \in seen)

Walking ==
  /\ visited # {} => Walks(config)
  /\ visited \subseteq Range(Path)
  /\ \A q \in pending : q.warm =>
       /\ Walks(config)
       /\ q.index \in 1..Len(Path) /\ q.url = Path[q.index]
       /\ pending = {q}
       /\ seen = {Path[i] : i \in 1..q.index}
  /\ Walks(config) => \A q \in pending : ~q.warm => q.referer # None

Accounted ==
  /\ \A u \in seen :
       \/ \E q \in pending : q.url = u
       \/ u \in visited \/ u \in lost \/ read[u].times = 1
  /\ phase = "crawling" /\ lost = {} /\ Straight(Path) =>
       \/ Range(config.start_urls) \subseteq wanted
       \/ \E q \in pending : q.warm

Given ==
  \A q \in pending :
    /\ q.found = "live" => config.extraction_mode = "live_dom"
    /\ q.found = "snapshots" => config.progressive_extraction

CrawlInv ==
  /\ CrawlTypeOK /\ Begun /\ Unique /\ Walking /\ Accounted /\ Given
  /\ WarmPathFirst /\ FitForConfig

\* Requests as a callback yields them.
FreshRequests(requests) ==
  /\ requests \subseteq Requests
  /\ \A q, r \in requests : q.url = r.url => q = r
  /\ \A q \in requests : q.solver = None /\ q.found = "nothing"
-----------------------------------------------------------------------------
LEMMA ConfigFacts ==
  ASSUME CrawlTypeOK
  PROVE  /\ Path \in Seq(Urls)
         /\ config.start_urls \in Seq(Urls)
         /\ config.antibot_provider \in SpiderProviders
         /\ config.antibot_needed \in BOOLEAN
         /\ Walks(config) => Len(Path) \in Nat \ {0}
<1>1. Path \in WarmUps /\ config.start_urls \in Starts
      /\ config.antibot_provider \in SpiderProviders /\ config.antibot_needed \in BOOLEAN
  BY DEF CrawlTypeOK, Configs, Path
<1>2. Path \in Seq(Urls) /\ config.start_urls \in Seq(Urls)
  BY <1>1, CrawlAssumption
<1>3. Walks(config) => Len(Path) # 0
  BY <1>2, EmptySeq DEF Walks, Path
<1>4. Len(Path) \in Nat
  BY <1>2
<1>5. QED
  BY <1>1, <1>2, <1>3, <1>4

LEMMA RangeOfPath ==
  ASSUME NEW path \in Seq(Urls)
  PROVE  Range(path) = {path[i] : i \in 1..Len(path)} /\ Range(path) \subseteq Urls
BY DEF Range

LEMMA StartRequestsFresh ==
  ASSUME CrawlTypeOK, NEW referer \in Urls \cup {None}
  PROVE  /\ FreshRequests(StartRequests(referer))
         /\ \A q \in StartRequests(referer) : ~q.warm /\ q.referer = referer
         /\ {q.url : q \in StartRequests(referer)} = Range(config.start_urls)
<1>1. Range(config.start_urls) \subseteq Urls
  BY ConfigFacts, RangeOfPath
<1>2. \A u \in Urls : /\ ParseRequest(u, referer) \in Requests
                      /\ ParseRequest(u, referer).url = u
                      /\ ParseRequest(u, referer).referer = referer
                      /\ ~ParseRequest(u, referer).warm
                      /\ ParseRequest(u, referer).solver = None
                      /\ ParseRequest(u, referer).found = "nothing"
  BY DEF ParseRequest, Requests
<1>3. ASSUME NEW q \in StartRequests(referer)
      PROVE  /\ q.url \in Range(config.start_urls)
             /\ q = ParseRequest(q.url, referer)
  <2>1. PICK u \in Range(config.start_urls) : q = ParseRequest(u, referer)
    BY <1>3 DEF StartRequests
  <2>2. QED
    BY <1>1, <1>2, <2>1
<1>4. ASSUME NEW u \in Range(config.start_urls)
      PROVE  ParseRequest(u, referer) \in StartRequests(referer)
  BY DEF StartRequests
<1>5. \A u \in Range(config.start_urls) : \E q \in StartRequests(referer) : q.url = u
  BY <1>1, <1>2, <1>4
<1>6. {q.url : q \in StartRequests(referer)} = Range(config.start_urls)
  BY <1>3, <1>5
<1>7. FreshRequests(StartRequests(referer))
  BY <1>1, <1>2, <1>3 DEF FreshRequests
<1>8. \A q \in StartRequests(referer) : ~q.warm /\ q.referer = referer
  BY <1>1, <1>2, <1>3
<1>9. QED
  BY <1>6, <1>7, <1>8

LEMMA WarmRequestFresh ==
  ASSUME CrawlTypeOK, NEW i \in 1..Len(Path), NEW referer \in Urls \cup {None}
  PROVE  FreshRequests({WarmRequest(i, referer)})
<1>1. Path[i] \in Urls /\ i \in Nat
  BY ConfigFacts
<1>2. QED
  BY <1>1 DEF WarmRequest, FreshRequests, Requests, Path

LEMMA NextPageFresh ==
  ASSUME NEW q \in Requests, NEW answer \in Answers, answer.next # None
  PROVE  /\ FreshRequests(NextPage(q, answer))
         /\ \A p \in NextPage(q, answer) : ~p.warm /\ p.referer = q.url
BY DEF NextPage, ParseRequest, FreshRequests, Requests, Answers
-----------------------------------------------------------------------------
\* What the duplicate filter makes of the requests of a callback.
LEMMA ScheduledFacts ==
  ASSUME CrawlTypeOK, Unique, NEW rest \in SUBSET pending, NEW requests,
         FreshRequests(requests), Scheduled(rest, requests)
  PROVE  /\ pending' \subseteq Requests /\ seen' \subseteq Urls /\ seen \subseteq seen'
         /\ \A q \in pending' : q.url \in seen'
         /\ rest \subseteq pending'
         /\ \A q \in pending' : q \in rest \/ (q \in requests /\ q.url \notin seen)
         /\ \A q, r \in pending' : q.url = r.url => q = r
         /\ \A q \in requests : q.url \in seen'
         /\ \A u \in seen' : u \in seen \/ \E q \in pending' : q.url = u
<1>1. \A q \in pending \cup requests : q.url \in Urls
  BY DEF CrawlTypeOK, FreshRequests, Requests
<1>2. pending' = rest \cup {q \in requests : q.url \notin seen}
      /\ seen' = seen \cup {q.url : q \in requests}
  BY DEF Scheduled
<1>3. pending' \subseteq Requests /\ seen' \subseteq Urls /\ seen \subseteq seen'
  BY <1>1, <1>2 DEF CrawlTypeOK, FreshRequests
<1>4. \A q \in pending' : q.url \in seen'
  BY <1>2 DEF CrawlTypeOK
<1>5. \A q, r \in pending' : q.url = r.url => q = r
  BY <1>2 DEF CrawlTypeOK, Unique, FreshRequests
<1>6. \A u \in seen' : u \in seen \/ \E q \in pending' : q.url = u
  BY <1>2
<1>7. rest \subseteq pending'
  BY <1>2
<1>8. \A q \in pending' : q \in rest \/ (q \in requests /\ q.url \notin seen)
  BY <1>2
<1>9. \A q \in requests : q.url \in seen'
  BY <1>2
<1>10. QED
  BY <1>3, <1>4, <1>5, <1>6, <1>7, <1>8, <1>9

\* Pages that are wanted have been seen.
LEMMA WantsFacts ==
  ASSUME CrawlTypeOK, NEW requests, Wants(requests), seen \subseteq seen',
         \A q \in requests : q.url \in seen'
  PROVE  /\ wanted' \subseteq seen' /\ wanted \subseteq wanted'
         /\ \A q \in requests : ~q.warm => q.url \in wanted'
BY DEF CrawlTypeOK, Wants

\* A configuration that does not change stays accepted.
LEMMA AcceptedStays ==
  ASSUME Accepted(config), config' = config PROVE Accepted(config)'
BY DEF Accepted, ExactlyOneSelectorsBlockForFormat,
    LiveDomRequiresARealBrowserProvider, ProgressiveExtractionRequiresARealBrowserProvider,
    LoginRequiresARealBrowserProvider, ItemGroupSizeNotYetSupportedWithLiveDomOrProgressive,
    UseAccumulatedProfileRequiresARealBrowserProvider, OnBrowser, Grouped

LEMMA CrawlingStays ==
  ASSUME Begun, seen \subseteq Urls, \E u \in Urls : u \in seen,
         config' = config, phase' = phase
  PROVE  Begun'
BY AcceptedStays DEF Begun

LEMMA StartPreserves ==
  ASSUME CrawlInv, Start PROVE CrawlInv'
<1> USE DEF CrawlInv
<1>1. seen = {} /\ pending = {} /\ visited = {} /\ wanted = {} /\ lost = {}
  BY DEF Start, Begun, CrawlTypeOK
<1>2. config' = config /\ phase' = "crawling" /\ visited' = visited /\ read' = read
      /\ lost' = lost /\ Accepted(config)
  BY DEF Start
<1>3. Scheduled({}, FirstRequests) /\ Wants(FirstRequests)
  BY DEF Start
<1>4. Walks(config) => FirstRequests = {WarmRequest(1, None)} /\ FreshRequests(FirstRequests)
  <2>1. Walks(config) => 1 \in 1..Len(Path)
    BY ConfigFacts
  <2>2. QED
    BY <2>1, WarmRequestFresh DEF FirstRequests
<1>5. ~Walks(config) => FirstRequests = StartRequests(None) /\ FreshRequests(FirstRequests)
  BY StartRequestsFresh DEF FirstRequests
<1>6. FreshRequests(FirstRequests)
  BY <1>4, <1>5
<1>7. /\ pending' \subseteq Requests /\ seen' \subseteq Urls
      /\ \A q \in pending' : q.url \in seen' /\ q \in FirstRequests
      /\ \A q, r \in pending' : q.url = r.url => q = r
      /\ \A u \in seen' : \E q \in pending' : q.url = u
      /\ \A q \in FirstRequests : q.url \in seen'
  BY <1>1, <1>3, <1>6, ScheduledFacts
<1>8. wanted' \subseteq seen' /\ \A q \in FirstRequests : ~q.warm => q.url \in wanted'
  BY <1>1, <1>3, <1>7, WantsFacts
<1>9. Walks(config) =>
        /\ pending' = {WarmRequest(1, None)} /\ seen' = {Path[1]}
        /\ WarmRequest(1, None).warm /\ WarmRequest(1, None).index = 1
        /\ WarmRequest(1, None).url = Path[1] /\ WarmRequest(1, None).referer = None
  <2>1. /\ WarmRequest(1, None).warm /\ WarmRequest(1, None).index = 1
        /\ WarmRequest(1, None).url = Path[1] /\ WarmRequest(1, None).referer = None
    BY DEF WarmRequest, Path
  <2>2. QED
    BY <1>1, <1>3, <1>4, <2>1 DEF Scheduled
<1>10. ~Walks(config) =>
        /\ \A q \in pending' : ~q.warm
        /\ Range(config.start_urls) \subseteq wanted'
  BY <1>5, <1>7, <1>8, StartRequestsFresh
<1>11. CrawlTypeOK'
  BY <1>1, <1>2, <1>7, <1>8 DEF CrawlTypeOK
<1>12. Begun'
  BY <1>2, AcceptedStays DEF Begun
<1>13. Unique'
  BY <1>1, <1>2, <1>7 DEF Unique, CrawlTypeOK
<1>14. Walking'
  BY <1>1, <1>2, <1>9, <1>10, ConfigFacts DEF Walking, Walks, Path
<1>15. Accounted'
  BY <1>2, <1>7, <1>9, <1>10 DEF Accounted, Path, Straight
<1>16. Given'
  BY <1>6, <1>7 DEF Given, FreshRequests
<1>17. WarmPathFirst'
  BY <1>2, <1>9, ConfigFacts DEF WarmPathFirst, Walks, Path
<1>18. FitForConfig'
  <2>1. \A q \in pending' : q.solver = None
    BY <1>6, <1>7 DEF FreshRequests
  <2>2. QED
    BY <1>2, <2>1 DEF FitForConfig
<1>19. QED
  BY <1>11, <1>12, <1>13, <1>14, <1>15, <1>16, <1>17, <1>18

\* A solve, by a provider the target may be given to.
LEMMA SolvePreserves ==
  ASSUME CrawlInv, NEW q \in pending, NEW p \in SpiderProviders, NEW answers \in BOOLEAN,
         Solve(q, p, answers),
         \/ p = ProviderOf(q)
         \/ SwitchEnacted /\ p = ProviderAfter(ProviderOf(q))
  PROVE  CrawlInv'
<1> USE DEF CrawlInv
<1> DEFINE found == IF answers /\ Found(p) # "nothing" /\ ~q.warm THEN Found(p) ELSE q.found
           t == [q EXCEPT !.solver = p, !.found = found]
<1>1. pending' = (pending \ {q}) \cup {t}
      /\ UNCHANGED <<config, phase, seen, visited, read, wanted, lost>>
  BY DEF Solve
<1>2. q \in Requests
  BY DEF CrawlTypeOK
<1>3. Found(p) \in {"nothing", "live", "snapshots"}
      /\ (Found(p) = "live" => config.extraction_mode = "live_dom")
      /\ (Found(p) = "snapshots" => config.progressive_extraction)
  BY DEF Found
<1>4. found \in {"nothing", "live", "snapshots"}
  BY <1>2, <1>3 DEF Requests
<1>5. t \in Requests /\ t.url = q.url /\ t.warm = q.warm /\ t.index = q.index
      /\ t.referer = q.referer /\ t.solver = p /\ t.found = found
  BY <1>2, <1>4 DEF Requests
<1> HIDE DEF t
<1>6. CrawlTypeOK'
  BY <1>1, <1>5 DEF CrawlTypeOK
<1>7. Begun'
  BY <1>1, CrawlingStays DEF CrawlTypeOK
<1>8. Unique'
  BY <1>1, <1>5 DEF Unique
<1>9. Walking'
  BY <1>1, <1>5 DEF Walking, Walks, Path
<1>10. Accounted'
  BY <1>1, <1>5 DEF Accounted, Path, Straight
<1>11. Given'
  BY <1>1, <1>3, <1>5 DEF Given
<1>12. WarmPathFirst'
  BY <1>1, <1>5 DEF WarmPathFirst, Walks, Path
<1>13. FitForConfig'
  <2>1. phase = "crawling"
    BY DEF Begun, CrawlTypeOK
  <2>2. NeedsBrowser(config) => config.antibot_provider \in BrowserProviders
    BY <2>1 DEF Begun, Accepted, LiveDomRequiresARealBrowserProvider, NeedsBrowser, OnBrowser,
       ProgressiveExtractionRequiresARealBrowserProvider, LoginRequiresARealBrowserProvider,
       UseAccumulatedProfileRequiresARealBrowserProvider
  <2>3. NeedsBrowser(config) /\ ~q.warm =>
          \/ p \in BrowserProviders
          \/ SwitchEnacted /\ config.antibot_provider = "patchright"
    BY <2>2 DEF ProviderOf, ProviderAfter, BrowserProviders
  <2>4. QED
    BY <1>1, <1>5, <2>3 DEF FitForConfig, NeedsBrowser
<1>14. QED
  BY <1>6, <1>7, <1>8, <1>9, <1>10, <1>11, <1>12, <1>13

LEMMA DroppedPreserves ==
  ASSUME CrawlInv, NEW q \in pending, Dropped(q) PROVE CrawlInv'
<1> USE DEF CrawlInv
<1>1. pending' = pending \ {q} /\ lost' = lost \cup {q.url}
      /\ UNCHANGED <<config, phase, seen, visited, read, wanted>>
  BY DEF Dropped
<1>2. CrawlTypeOK'
  BY <1>1 DEF CrawlTypeOK
<1>3. Begun'
  BY <1>1, CrawlingStays DEF CrawlTypeOK
<1>4. Unique'
  BY <1>1 DEF Unique
<1>5. Walking'
  BY <1>1 DEF Walking, Walks, Path
<1>6. Accounted'
  BY <1>1 DEF Accounted
<1>7. Given'
  BY <1>1 DEF Given
<1>8. WarmPathFirst'
  BY <1>1 DEF WarmPathFirst, Walks
<1>9. FitForConfig'
  BY <1>1 DEF FitForConfig, NeedsBrowser
<1>10. QED
  BY <1>2, <1>3, <1>4, <1>5, <1>6, <1>7, <1>8, <1>9

\* A page on the warm-up path leads to the next, or to the start pages.
LEMMA WarmUpPreserves ==
  ASSUME CrawlInv, NEW q \in pending, ParseWarmSessionStep(q) PROVE CrawlInv'
<1> USE DEF CrawlInv
<1>1. /\ q.warm /\ visited' = visited \cup {q.url}
      /\ Scheduled(pending \ {q}, AfterWarmUp(q)) /\ Wants(AfterWarmUp(q))
      /\ UNCHANGED <<config, phase, read, lost>>
  BY DEF ParseWarmSessionStep
<1>2. /\ Walks(config) /\ q.index \in 1..Len(Path) /\ q.url = Path[q.index]
      /\ pending = {q} /\ seen = {Path[i] : i \in 1..q.index}
  BY <1>1 DEF Walking
<1>3. q \in Requests /\ q.url \in Urls /\ q.url \in seen /\ Len(Path) \in Nat \ {0}
  BY <1>2, ConfigFacts DEF CrawlTypeOK, Requests
<1>4. ASSUME q.index + 1 \in 1..Len(Path)
      PROVE  /\ AfterWarmUp(q) = {WarmRequest(q.index + 1, q.url)}
             /\ FreshRequests(AfterWarmUp(q))
  BY <1>3, <1>4, WarmRequestFresh DEF AfterWarmUp, NextHop, Path
<1>5. ASSUME q.index + 1 \notin 1..Len(Path)
      PROVE  /\ AfterWarmUp(q) = StartRequests(q.url)
             /\ FreshRequests(AfterWarmUp(q))
             /\ q.index = Len(Path)
  BY <1>2, <1>3, <1>5, StartRequestsFresh DEF AfterWarmUp, NextHop, Path
<1>6. FreshRequests(AfterWarmUp(q))
  BY <1>4, <1>5
<1>7. /\ pending' \subseteq Requests /\ seen' \subseteq Urls /\ seen \subseteq seen'
      /\ \A r \in pending' : r.url \in seen' /\ r \in AfterWarmUp(q) /\ r.url \notin seen
      /\ \A r, o \in pending' : r.url = o.url => r = o
      /\ \A r \in AfterWarmUp(q) : r.url \in seen'
      /\ \A u \in seen' : u \in seen \/ \E r \in pending' : r.url = u
  <2>1. Scheduled({}, AfterWarmUp(q))
    BY <1>1, <1>2
  <2>2. {} \in SUBSET pending
    OBVIOUS
  <2>3. QED
    BY <1>6, <2>1, <2>2, ScheduledFacts
<1>8. /\ wanted' \subseteq seen' /\ wanted \subseteq wanted'
      /\ \A r \in AfterWarmUp(q) : ~r.warm => r.url \in wanted'
  BY <1>1, <1>7, WantsFacts
<1>9. Range(Path) = {Path[i] : i \in 1..Len(Path)}
  BY ConfigFacts, RangeOfPath
\* The next hop.
<1>10. ASSUME q.index + 1 \in 1..Len(Path)
       PROVE  Walking' /\ Accounted' /\ WarmPathFirst'
  <2> DEFINE w == WarmRequest(q.index + 1, q.url)
  <2>1. /\ w.warm /\ w.index = q.index + 1 /\ w.url = Path[q.index + 1]
        /\ w.referer = q.url
    BY DEF WarmRequest, Path
  <2>2. /\ pending' = {r \in {w} : r.url \notin seen}
        /\ seen' = seen \cup {w.url}
    BY <1>1, <1>2, <1>4, <1>10 DEF Scheduled
  <2> HIDE DEF w
  <2>3. seen' = {Path[i] : i \in 1..(q.index + 1)}
    BY <1>2, <2>1, <2>2
  <2>4. Walking'
    BY <1>1, <1>2, <1>9, <1>10, <2>1, <2>2, <2>3 DEF Walking, Walks, Path
  <2>5. Straight(Path) => w \in pending'
    BY <1>2, <1>3, <1>10, <2>1, <2>2 DEF Straight
  <2>6. Accounted'
    BY <1>1, <1>2, <1>7, <2>1, <2>5 DEF Accounted, Path, Straight
  <2>7. \A i \in 1..q.index : Path[i] \in visited'
    BY <1>1, <1>2 DEF WarmPathFirst, Path
  <2>8. WarmPathFirst'
    BY <1>1, <1>2, <2>1, <2>2, <2>7 DEF WarmPathFirst, Walks, Path
  <2>9. QED
    BY <2>4, <2>6, <2>8
\* The end of the path.
<1>11. ASSUME q.index + 1 \notin 1..Len(Path)
       PROVE  Walking' /\ Accounted' /\ WarmPathFirst'
  <2>1. /\ \A r \in AfterWarmUp(q) : ~r.warm /\ r.referer = q.url
        /\ {r.url : r \in AfterWarmUp(q)} = Range(config.start_urls)
    BY <1>3, <1>5, <1>11, StartRequestsFresh
  <2>2. \A r \in pending' : ~r.warm /\ r.referer = q.url
    BY <1>7, <2>1
  <2>3. Walking'
    BY <1>1, <1>2, <1>3, <1>9, <2>2, CrawlAssumption DEF Walking, Walks, Path
  <2>4. Range(config.start_urls) \subseteq wanted'
    BY <1>8, <2>1
  <2>5. Accounted'
    BY <1>1, <1>2, <1>7, <2>4 DEF Accounted, Path
  <2>6. Range(Path) \subseteq visited'
    BY <1>1, <1>2, <1>5, <1>9, <1>11 DEF WarmPathFirst, Path
  <2>7. q.url = Last(Path)
    BY <1>2, <1>5, <1>11 DEF Last
  <2>8. WarmPathFirst'
    BY <1>1, <2>2, <2>6, <2>7 DEF WarmPathFirst, Walks, Path
  <2>9. QED
    BY <2>3, <2>5, <2>8
<1>12. CrawlTypeOK'
  BY <1>1, <1>3, <1>7, <1>8 DEF CrawlTypeOK
<1>13. Begun'
  BY <1>1, <1>3, CrawlingStays DEF CrawlTypeOK, Begun
<1>14. Unique'
  BY <1>1, <1>7 DEF Unique, CrawlTypeOK
<1>15. Given'
  BY <1>6, <1>7 DEF Given, FreshRequests
<1>16. FitForConfig'
  BY <1>1, <1>6, <1>7 DEF FitForConfig, FreshRequests, NeedsBrowser
<1>17. QED
  BY <1>10, <1>11, <1>12, <1>13, <1>14, <1>15, <1>16

\* How the page of a request may be read in a crawl with this configuration.
Fits(source) ==
  /\ source \in Sources
  /\ source = "json"      => config.json_selectors # "absent"
  /\ source = "slots"     => config.selectors = "slots"
  /\ source = "rows"      => config.selectors = "rows"
  /\ source = "live"      => config.extraction_mode = "live_dom"
  /\ source = "snapshots" => config.progressive_extraction

LEMMA ReadPreserves ==
  ASSUME CrawlInv, NEW q \in pending, ~q.warm, NEW source, Fits(source), NEW requests,
         FreshRequests(requests), \A p \in requests : ~p.warm /\ p.referer = q.url,
         Reads(q, source, requests)
  PROVE  CrawlInv'
<1> USE DEF CrawlInv
<1>1. /\ read' = [read EXCEPT ![q.url] = [times |-> @.times + 1, source |-> source]]
      /\ Scheduled(pending \ {q}, requests) /\ Wants(requests)
      /\ UNCHANGED <<config, phase, visited, lost>>
  BY DEF Reads
<1>2. q \in Requests /\ q.url \in Urls /\ q.url \in seen /\ read[q.url].times = 0
  BY DEF CrawlTypeOK, Requests, Unique
<1>3. /\ pending' \subseteq Requests /\ seen' \subseteq Urls /\ seen \subseteq seen'
      /\ pending \ {q} \subseteq pending'
      /\ \A r \in pending' : r.url \in seen'
      /\ \A r \in pending' : r \in pending \ {q} \/ (r \in requests /\ r.url \notin seen)
      /\ \A r, o \in pending' : r.url = o.url => r = o
      /\ \A r \in requests : r.url \in seen'
      /\ \A u \in seen' : u \in seen \/ \E r \in pending' : r.url = u
  <2>1. pending \ {q} \in SUBSET pending
    OBVIOUS
  <2>2. QED
    BY <1>1, <2>1, ScheduledFacts
<1>4. wanted' \subseteq seen' /\ wanted \subseteq wanted'
  BY <1>1, <1>3, WantsFacts
<1>5. /\ read'[q.url] = [times |-> 1, source |-> source]
      /\ \A u \in Urls \ {q.url} : read'[u] = read[u]
  BY <1>1, <1>2 DEF CrawlTypeOK
<1>6. \A r \in pending : ~r.warm
  BY DEF Walking
<1>7. \A r \in pending' : ~r.warm
  BY <1>3, <1>6
<1>8. CrawlTypeOK'
  <2>1. read' \in [Urls -> [times : Nat, source : Sources \cup {"unread"}]]
    BY <1>1, <1>2 DEF CrawlTypeOK, Fits
  <2>2. QED
    BY <1>1, <1>3, <1>4, <2>1 DEF CrawlTypeOK
<1>9. Begun'
  BY <1>1, <1>2, CrawlingStays DEF CrawlTypeOK, Begun
<1>10. Unique'
  <2>1. \A r \in pending' : read'[r.url].times = 0
    <3> SUFFICES ASSUME NEW r \in pending' PROVE read'[r.url].times = 0
      OBVIOUS
    <3>1. r.url \in Urls
      BY <1>3 DEF Requests
    <3>2. CASE r \in pending \ {q}
      BY <1>5, <1>6, <3>1, <3>2 DEF Unique
    <3>3. CASE r.url \notin seen
      BY <1>2, <1>5, <3>1, <3>3 DEF Unique
    <3>4. QED
      BY <1>3, <3>2, <3>3
  <2>2. \A u \in Urls : read'[u].times \in {0, 1} /\ (read'[u].times = 1 => u \in seen')
    BY <1>2, <1>3, <1>5 DEF Unique
  <2>3. QED
    BY <1>3, <2>1, <2>2 DEF Unique
<1>11. Walking'
  BY <1>1, <1>2, <1>3, <1>7, CrawlAssumption DEF Walking, Walks, Path
<1>12. Accounted'
  <2>1. \A u \in seen' :
          \/ \E r \in pending' : r.url = u
          \/ u \in visited \/ u \in lost \/ read'[u].times = 1
    <3> SUFFICES ASSUME NEW u \in seen, \A r \in pending' : r.url # u
                 PROVE  u \in visited \/ u \in lost \/ read'[u].times = 1
      BY <1>3
    <3>1. CASE u = q.url
      BY <1>5, <3>1
    <3>2. CASE u # q.url
      BY <1>3, <1>5, <3>2 DEF Accounted, CrawlTypeOK
    <3>3. QED
      BY <3>1, <3>2
  <2>2. QED
    BY <1>1, <1>4, <1>6, <2>1 DEF Accounted, Path, Straight
<1>13. Given'
  BY <1>1, <1>3 DEF Given, FreshRequests
<1>14. WarmPathFirst'
  <2>1. ASSUME Walks(config), NEW r \in pending'
        PROVE  /\ Range(Path) \subseteq visited
               /\ r.referer = Last(Path) \/ read'[r.referer].times > 0
    <3>1. Range(Path) \subseteq visited
      BY <1>6, <2>1 DEF WarmPathFirst, Path
    <3>2. CASE r \in pending \ {q}
      <4>1. r.referer \in Urls
        BY <1>6, <2>1, <3>2 DEF Walking, CrawlTypeOK, Requests
      <4>2. r.referer = Last(Path) \/ read[r.referer].times > 0
        BY <1>6, <2>1, <3>2 DEF WarmPathFirst, Path
      <4>3. QED
        BY <1>5, <3>1, <4>1, <4>2
    <3>3. CASE r \in requests
      BY <1>2, <1>5, <3>1, <3>3
    <3>4. QED
      BY <1>3, <3>2, <3>3
  <2>2. QED
    BY <1>1, <1>7, <2>1 DEF WarmPathFirst, Walks, Path
<1>15. FitForConfig'
  BY <1>1, <1>3, <1>5 DEF FitForConfig, FreshRequests, NeedsBrowser, Fits
<1>16. QED
  BY <1>8, <1>9, <1>10, <1>11, <1>12, <1>13, <1>14, <1>15

\* parse reads a page as the configuration means it.
LEMMA ParsePreserves ==
  ASSUME CrawlInv, NEW q \in pending, NEW answer \in Answers, Parse(q, answer)
  PROVE  CrawlInv'
<1>1. ~q.warm /\ q \in Requests /\ Accepted(config)
  BY DEF Parse, CrawlInv, CrawlTypeOK, Begun
<1>2. ASSUME ParseHtml(q, answer) PROVE CrawlInv'
  <2> DEFINE requests == IF HtmlNext(answer) THEN NextPage(q, answer) ELSE {}
  <2>1. FreshRequests(requests) /\ \A p \in requests : ~p.warm /\ p.referer = q.url
    BY <1>1, NextPageFresh DEF HtmlNext, FreshRequests
  <2>2. q.found \in {"nothing", "live", "snapshots"}
    BY <1>1 DEF Requests
  <2>3. config.selectors \in {"rows", "slots", "misfit"}
    BY <1>1, <1>2 DEF ParseHtml, Accepted, ExactlyOneSelectorsBlockForFormat, Configs,
       CrawlInv, CrawlTypeOK, Selectors
  <2>4. Fits(HtmlSource(q))
    BY <1>2, <2>2, <2>3 DEF ParseHtml, Misfit, HtmlSource, Grouped, Fits, Sources, CrawlInv, Given
  <2>5. QED
    BY <1>1, <1>2, <2>1, <2>4, ReadPreserves DEF ParseHtml
<1>3. ASSUME ParseJson(q, answer) PROVE CrawlInv'
  <2> DEFINE requests == IF JsonNext(answer) THEN NextPage(q, answer) ELSE {}
  <2>1. FreshRequests(requests) /\ \A p \in requests : ~p.warm /\ p.referer = q.url
    BY <1>1, NextPageFresh DEF JsonNext, FreshRequests
  <2>2. Fits("json")
    BY <1>1, <1>3 DEF ParseJson, Accepted, ExactlyOneSelectorsBlockForFormat, Fits, Sources
  <2>3. QED
    BY <1>1, <1>3, <2>1, <2>2, ReadPreserves DEF ParseJson
<1>4. QED
  BY <1>2, <1>3, DroppedPreserves DEF Parse
-----------------------------------------------------------------------------
LEMMA CrawlInvInit == CrawlInit => CrawlInv
<1> SUFFICES ASSUME CrawlInit PROVE CrawlInv
  OBVIOUS
<1> USE DEF CrawlInit
<1>1. CrawlTypeOK
  BY DEF CrawlTypeOK, Unread
<1>2. Begun /\ Unique /\ Given
  BY DEF Begun, Unique, Unread, Given
<1>3. Walking /\ Accounted
  BY DEF Walking, Accounted
<1>4. WarmPathFirst
  BY DEF WarmPathFirst
<1>5. FitForConfig
  BY DEF FitForConfig, Unread
<1>6. QED
  BY <1>1, <1>2, <1>3, <1>4, <1>5 DEF CrawlInv

LEMMA CrawlInvStep == CrawlInv /\ [CrawlNext]_crawlVars => CrawlInv'
<1> SUFFICES ASSUME CrawlInv, [CrawlNext]_crawlVars PROVE CrawlInv'
  OBVIOUS
<1>1. CASE Start
  BY <1>1, StartPreserves
<1>2. CASE LoadFails
  <2>1. phase = "loading" /\ phase' = "rejected"
        /\ UNCHANGED <<config, seen, pending, visited, read, wanted, lost>>
    BY <1>2 DEF LoadFails
  <2>2. CrawlTypeOK' /\ Begun' /\ Unique' /\ Given'
    BY <2>1 DEF CrawlInv, CrawlTypeOK, Begun, Unique, Given
  <2>3. Walking' /\ Accounted'
    BY <2>1 DEF CrawlInv, Walking, Accounted, Walks, Path
  <2>4. WarmPathFirst' /\ FitForConfig'
    BY <2>1 DEF CrawlInv, WarmPathFirst, FitForConfig, Walks, NeedsBrowser
  <2>5. QED
    BY <2>2, <2>3, <2>4 DEF CrawlInv
<1>3. ASSUME NEW q \in pending, GivenToProvider(q) PROVE CrawlInv'
  <2>1. PICK answers \in BOOLEAN : Solve(q, ProviderOf(q), answers)
    BY <1>3 DEF GivenToProvider
  <2>2. ProviderOf(q) \in SpiderProviders
    BY ConfigFacts DEF ProviderOf, SpiderProviders, CrawlInv
  <2>3. QED
    BY <2>1, <2>2, SolvePreserves
<1>4. ASSUME NEW q \in pending, GivenToNextProvider(q) PROVE CrawlInv'
  <2>1. PICK answers \in BOOLEAN : Solve(q, ProviderAfter(ProviderOf(q)), answers)
    BY <1>4 DEF GivenToNextProvider
  <2>2. ProviderOf(q) \in SpiderProviders
    BY ConfigFacts DEF ProviderOf, SpiderProviders, CrawlInv
  <2>3. ProviderAfter(ProviderOf(q)) \in SpiderProviders
    BY <2>2 DEF ProviderAfter, SpiderProviders, BrowserProviders
  <2>4. QED
    BY <1>4, <2>1, <2>3, SolvePreserves DEF GivenToNextProvider
<1>5. ASSUME NEW q \in pending, Ends(q) PROVE CrawlInv'
  BY <1>5, DroppedPreserves, WarmUpPreserves, ParsePreserves DEF Ends
<1>6. CASE UNCHANGED crawlVars
  <2>1. CrawlTypeOK' /\ Begun' /\ Unique' /\ Given'
    BY <1>6, AcceptedStays DEF CrawlInv, CrawlTypeOK, Begun, Unique, Given, crawlVars
  <2>2. Walking' /\ Accounted'
    BY <1>6 DEF CrawlInv, Walking, Accounted, Walks, Path, crawlVars, Straight
  <2>3. WarmPathFirst' /\ FitForConfig'
    BY <1>6 DEF CrawlInv, WarmPathFirst, FitForConfig, Walks, NeedsBrowser, crawlVars
  <2>4. QED
    BY <2>1, <2>2, <2>3 DEF CrawlInv
<1>7. QED
  BY <1>1, <1>2, <1>3, <1>4, <1>5, <1>6 DEF CrawlNext

LEMMA CrawlInvariant == CrawlSpec => []CrawlInv
BY CrawlInvInit, CrawlInvStep, PTL DEF CrawlSpec

\* For every target the requests, pages and results of a crawl are well typed,
\* and nothing is pending that the duplicate filter has not seen.  (parse and
\* _parse_warm_session_step.)
THEOREM CrawlTypeCorrect == CrawlSpec => []CrawlTypeOK
<1>1. CrawlInv => CrawlTypeOK
  BY DEF CrawlInv
<1>2. QED
  BY CrawlInvariant, <1>1, PTL

\* However long the path and however the target links its pages, a plain target
\* with warm-up pages is reached on that path.  (_parse_warm_session_step.)
THEOREM PathComesFirst == CrawlSpec => []WarmPathFirst
<1>1. CrawlInv => WarmPathFirst
  BY DEF CrawlInv
<1>2. QED
  BY CrawlInvariant, <1>1, PTL

\* With every configuration that the validators accept, providers and parsers
\* get what they can work with.  (SpiderConfig's validators.)
THEOREM ValidatedMeansFit == CrawlSpec => []FitForConfig
<1>1. CrawlInv => FitForConfig
  BY DEF CrawlInv
<1>2. QED
  BY CrawlInvariant, <1>1, PTL

\* On a target with any number of pages, linked in any way, no page is parsed
\* twice, and a crawl that lost nothing has parsed all it should.  (parse, and
\* Scrapy's duplicate filter.)
THEOREM NoPageTwiceNoneMissed == CrawlSpec => []EveryPageReadOnce
<1>1. CrawlInv => EveryPageReadOnce
  <2> SUFFICES ASSUME CrawlInv PROVE EveryPageReadOnce
    OBVIOUS
  <2>1. \A u \in Urls : read[u].times <= 1
    BY DEF CrawlInv, Unique
  <2>2. ASSUME phase = "crawling", pending = {}, lost = {}, Straight(Path)
        PROVE  \A u \in wanted \cup Range(config.start_urls) :
                 read[u].times = 1 \/ (Walks(config) /\ u \in Range(Path))
    BY <2>2 DEF CrawlInv, CrawlTypeOK, Walking, Accounted
  <2>3. QED
    BY <2>1, <2>2 DEF EveryPageReadOnce, Path
<1>2. QED
  BY CrawlInvariant, <1>1, PTL
-----------------------------------------------------------------------------
(* How far a crawl is from its end: the URLs for which a callback may yet  *)
(* come, because nobody has requested them or their request is pending.    *)

OpenUrls == (Urls \ seen) \cup {q.url : q \in pending}

\* A request that ends closes its URL; those that follow it were open before.
LEMMA ScheduledCloses ==
  ASSUME CrawlTypeOK, Unique, NEW q \in pending, NEW requests,
         \A p \in requests : p.url \in Urls,
         Scheduled(pending \ {q}, requests)
  PROVE  OpenUrls' = OpenUrls \ {q.url}
<1>1. /\ pending' = (pending \ {q}) \cup {p \in requests : p.url \notin seen}
      /\ seen' = seen \cup {p.url : p \in requests}
  BY DEF Scheduled
<1>2. q.url \in seen /\ \A p \in pending : p.url \in seen /\ (p.url = q.url => p = q)
  BY DEF CrawlTypeOK, Unique
<1>3. ASSUME NEW u \in OpenUrls' PROVE u \in OpenUrls /\ u # q.url
  <2>1. CASE u \in Urls /\ u \notin seen'
    BY <1>1, <1>2, <2>1 DEF OpenUrls
  <2>2. CASE \E p \in pending' : p.url = u
    <3>1. PICK p \in pending' : p.url = u
      BY <2>2
    <3>2. CASE p \in pending \ {q}
      BY <1>2, <3>1, <3>2 DEF OpenUrls
    <3>3. CASE p \in requests /\ p.url \notin seen
      BY <1>2, <3>1, <3>3 DEF OpenUrls
    <3>4. QED
      BY <1>1, <3>2, <3>3
  <2>3. QED
    BY <1>3, <2>1, <2>2 DEF OpenUrls
<1>4. ASSUME NEW u \in OpenUrls, u # q.url PROVE u \in OpenUrls'
  <2>1. CASE \E p \in pending : p.url = u
    BY <1>1, <1>4, <2>1 DEF OpenUrls
  <2>2. CASE u \in Urls /\ u \notin seen
    BY <1>1, <2>2 DEF OpenUrls
  <2>3. QED
    BY <1>4, <2>1, <2>2 DEF OpenUrls
<1>5. QED
  BY <1>3, <1>4

LEMMA EndCloses ==
  ASSUME CrawlInv, NEW q \in pending, Ends(q)
  PROVE  OpenUrls' = OpenUrls \ {q.url}
<1>1. CrawlTypeOK /\ Unique /\ Walking /\ q \in Requests /\ q.url \in Urls
  BY DEF CrawlInv, CrawlTypeOK, Requests
<1>2. CASE Dropped(q)
  <2>1. Scheduled(pending \ {q}, {})
    BY <1>2 DEF Dropped, Scheduled
  <2>2. QED
    BY <1>1, <2>1, ScheduledCloses
<1>3. CASE ParseWarmSessionStep(q)
  <2>1. q.warm /\ Scheduled(pending \ {q}, AfterWarmUp(q))
    BY <1>3 DEF ParseWarmSessionStep
  <2>2. q.index \in 1..Len(Path) /\ Len(Path) \in Nat
    BY <1>1, <2>1, ConfigFacts DEF Walking
  <2>3. ASSUME NEW p \in AfterWarmUp(q) PROVE p.url \in Urls
    <3>1. CASE q.index + 1 \in 1..Len(Path)
      <4>1. AfterWarmUp(q) = {WarmRequest(q.index + 1, q.url)}
        BY <2>2, <3>1 DEF AfterWarmUp, NextHop, Path
      <4>2. FreshRequests({WarmRequest(q.index + 1, q.url)})
        BY <1>1, <3>1, WarmRequestFresh
      <4>3. QED
        BY <2>3, <4>1, <4>2 DEF FreshRequests, Requests
    <3>2. CASE ~(q.index + 1 \in 1..Len(Path))
      <4>1. AfterWarmUp(q) = StartRequests(q.url)
        BY <2>2, <3>2 DEF AfterWarmUp, NextHop, Path
      <4>2. FreshRequests(StartRequests(q.url))
        BY <1>1, StartRequestsFresh
      <4>3. QED
        BY <2>3, <4>1, <4>2 DEF FreshRequests, Requests
    <3>3. QED
      BY <3>1, <3>2
  <2>4. QED
    BY <1>1, <2>1, <2>3, ScheduledCloses
<1>4. ASSUME NEW answer \in Answers, Parse(q, answer)
      PROVE  OpenUrls' = OpenUrls \ {q.url}
  <2>1. ASSUME answer.next # None
        PROVE  \A p \in NextPage(q, answer) : p.url \in Urls
    BY <1>1, <2>1, NextPageFresh DEF FreshRequests, Requests
  <2>2. CASE ParseHtml(q, answer)
    <3> DEFINE requests == IF HtmlNext(answer) THEN NextPage(q, answer) ELSE {}
    <3>1. \A p \in requests : p.url \in Urls
      BY <2>1 DEF HtmlNext
    <3>2. Scheduled(pending \ {q}, requests)
      BY <2>2 DEF ParseHtml, Reads
    <3>3. QED
      BY <1>1, <3>1, <3>2, ScheduledCloses
  <2>3. CASE ParseJson(q, answer)
    <3> DEFINE requests == IF JsonNext(answer) THEN NextPage(q, answer) ELSE {}
    <3>1. \A p \in requests : p.url \in Urls
      BY <2>1 DEF JsonNext
    <3>2. Scheduled(pending \ {q}, requests)
      BY <2>3 DEF ParseJson, Reads
    <3>3. QED
      BY <1>1, <3>1, <3>2, ScheduledCloses
  <2>4. QED
    BY <1>2, <1>4, <2>2, <2>3 DEF Parse
<1>5. QED
  BY <1>2, <1>3, <1>4 DEF Ends

\* A provider that is asked, and answers or not, closes nothing.
LEMMA SolveKeepsOpen ==
  ASSUME CrawlTypeOK, NEW q \in pending, NEW p, NEW answers, Solve(q, p, answers)
  PROVE  OpenUrls' = OpenUrls
<1> DEFINE t == [q EXCEPT !.solver = p,
                          !.found = IF answers /\ Found(p) # "nothing" /\ ~q.warm
                                      THEN Found(p) ELSE @]
<1>1. pending' = (pending \ {q}) \cup {t} /\ seen' = seen
  BY DEF Solve
<1>2. t.url = q.url
  BY DEF CrawlTypeOK, Requests
<1> HIDE DEF t
<1>3. {o.url : o \in pending'} = {o.url : o \in pending}
  BY <1>1, <1>2
<1>4. QED
  BY <1>1, <1>3 DEF OpenUrls

\* Each request that ends closes one URL for good, and nothing opens one: a
\* crawl makes at most as many requests as its target has URLs, however its
\* pages are linked, in circles or through a warm-up path.  What is left to
\* fairness is that pending requests end.  (parse, _parse_warm_session_step,
\* and Scrapy's duplicate filter.)
THEOREM EndedUrlsStayClosed ==
  CrawlSpec =>
    [][phase = "crawling" =>
         /\ OpenUrls' \subseteq OpenUrls
         /\ \A q \in pending :
              q.url \in OpenUrls /\ (Ends(q) => OpenUrls' = OpenUrls \ {q.url})]_crawlVars
<1>1. CrawlInv /\ [CrawlNext]_crawlVars =>
        [phase = "crawling" =>
           /\ OpenUrls' \subseteq OpenUrls
           /\ \A q \in pending :
                q.url \in OpenUrls /\ (Ends(q) => OpenUrls' = OpenUrls \ {q.url})]_crawlVars
  <2> SUFFICES ASSUME CrawlInv, [CrawlNext]_crawlVars, phase = "crawling"
               PROVE  /\ OpenUrls' \subseteq OpenUrls
                      /\ \A q \in pending :
                           q.url \in OpenUrls /\ (Ends(q) => OpenUrls' = OpenUrls \ {q.url})
    OBVIOUS
  <2>1. \A q \in pending : q.url \in OpenUrls
    BY DEF OpenUrls
  <2>2. CrawlTypeOK
    BY DEF CrawlInv
  <2>3. ASSUME UNCHANGED crawlVars PROVE OpenUrls' = OpenUrls
    BY <2>3 DEF crawlVars, OpenUrls
  <2>4. ASSUME NEW q \in pending, GivenToProvider(q) \/ GivenToNextProvider(q)
        PROVE  OpenUrls' = OpenUrls
    BY <2>2, <2>4, SolveKeepsOpen DEF GivenToProvider, GivenToNextProvider
  <2>5. ASSUME NEW q \in pending, Ends(q) PROVE OpenUrls' \subseteq OpenUrls
    BY <2>5, EndCloses
  <2>6. ~Start /\ ~LoadFails
    BY DEF Start, LoadFails
  <2>7. OpenUrls' \subseteq OpenUrls
    BY <2>3, <2>4, <2>5, <2>6 DEF CrawlNext
  <2>8. QED
    BY <2>1, <2>7, EndCloses
<1>2. QED
  BY CrawlInvariant, <1>1, PTL DEF CrawlSpec
=============================================================================
