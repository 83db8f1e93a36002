-------------------------------- MODULE Crawl --------------------------------
(***************************************************************************)
(* One crawl of GenericSpider (src/spiders/generic_spider.py): from its    *)
(* configuration to the last request.  The spider's callbacks yield        *)
(* requests; Scrapy's scheduler drops one whose URL it has seen, and takes *)
(* the others in any order, several at once.                               *)
(*                                                                         *)
(* What happens to a request between scheduler and callback is the matter  *)
(* of DownloaderChain; here a request ends in one of two ways, as that     *)
(* module shows every request does: it is answered, or it is dropped       *)
(* without a callback (the spider sets no errback).  What the spider has   *)
(* to know of the way is which solver was asked, since a solver with a     *)
(* browser may leave items or snapshots in request.meta.                   *)
(*                                                                         *)
(* The target is outside: any answer may come to any request.  Its URLs    *)
(* are finitely many; on a target that always offers another page the      *)
(* code crawls on for ever.  The fields of an item are data.               *)
(***************************************************************************)
EXTENDS SpiderConfig, Sequences, Naturals, Functions

CONSTANTS
  Urls,           \* the URLs of the target, for cursors those they lead to
  None,           \* Python's None
  SwitchEnacted   \* engine_enabled, and switch_provider_mode is "enact"

ASSUME CrawlAssumption ==
  /\ WarmUps \subseteq Seq(Urls)
  /\ Starts \subseteq Seq(Urls)
  /\ None \notin Urls
  /\ None \notin SpiderProviders
  /\ SwitchEnacted \in BOOLEAN

VARIABLES
  config,    \* self.config
  phase,     \* "loading", "rejected" or "crawling"
  seen,      \* the duplicate filter
  pending,   \* the requests scheduled and not ended
  visited,   \* the warm-up pages that were answered
  read,      \* page -> how often it was parsed, and from what
  wanted,    \* the pages for which a request with callback parse was yielded
  lost       \* the pages whose request was dropped, refused or not parsable

crawlVars == <<config, phase, seen, pending, visited, read, wanted, lost>>

Last(s) == s[Len(s)]

\* A scheduled request; solver is the provider it was last given to.
Requests ==
  [url     : Urls,
   warm    : BOOLEAN,               \* callback=_parse_warm_session_step
   index   : Nat,                   \* meta["warm_session_index"], from 1
   referer : Urls \cup {None},
   solver  : SpiderProviders \cup {None},
   found   : {"nothing", "live", "snapshots"}]   \* what solves left in meta

\* How parse gets at the items of a page.
Sources == {"snapshots", "live", "slots", "rows", "json"}

Unread == [times |-> 0, source |-> "unread"]

\* What reaches a callback: 2xx, 401 or 403, any other status; the JSON in
\* it; the URL its next link or cursor leads to.
Answers ==
  [status : {"ok", "protected", "other"},
   json   : BOOLEAN,
   next   : Urls \cup {None}]

Walks(c) == c.warm_session_urls # <<>> /\ ~c.antibot_needed

WarmRequest(i, referer) ==
  [url |-> config.warm_session_urls[i], warm |-> TRUE, index |-> i,
   referer |-> referer, solver |-> None, found |-> "nothing"]

ParseRequest(url, referer) ==
  [url |-> url, warm |-> FALSE, index |-> 0,
   referer |-> referer, solver |-> None, found |-> "nothing"]

StartRequests(referer) ==
  {ParseRequest(url, referer) : url \in Range(config.start_urls)}

\* A wrong variant: the requests of a callback are sent with dont_filter=True.
ScheduledUnfiltered(rest, requests) ==
  /\ pending' = rest \cup requests
  /\ seen' = seen \cup {q.url : q \in requests}

\* The scheduler takes the requests a callback yielded.
Scheduled(rest, requests) ==
  /\ pending' = rest \cup {q \in requests : q.url \notin seen}
  /\ seen' = seen \cup {q.url : q \in requests}

Wants(requests) ==
  wanted' = wanted \cup {q.url : q \in {p \in requests : ~p.warm}}
-----------------------------------------------------------------------------
(* From the file to the first requests.                                    *)

\* _build_start_requests.
FirstRequests ==
  IF Walks(config) THEN {WarmRequest(1, None)} ELSE StartRequests(None)

\* __init__: the configuration is loaded and found valid.
Start ==
  /\ phase = "loading"
  /\ Accepted(config)
  /\ phase' = "crawling"
  /\ Scheduled({}, FirstRequests)
  /\ Wants(FirstRequests)
  /\ UNCHANGED <<config, visited, read, lost>>

\* __init__ raises ConfigError: the file cannot be read or is not valid.
LoadFails ==
  /\ phase = "loading"
  /\ phase' = "rejected"
  /\ UNCHANGED <<config, seen, pending, visited, read, wanted, lost>>
-----------------------------------------------------------------------------
(* A request on its way.                                                   *)

\* _next_in_rotation.
ProviderAfter(p) ==
  CASE p = "byparr"     -> "camoufox"
    [] p = "camoufox"   -> "patchright"
    [] p = "patchright" -> "byparr"

\* meta["antibot_provider"]; the warm-up's requests have none.
ProviderOf(q) == IF q.warm THEN "byparr" ELSE config.antibot_provider

\* What a solution leaves in request.meta: only a provider with a browser
\* extracts from the live page or collects snapshots.
Found(p) ==
  CASE p \in BrowserProviders /\ config.extraction_mode = "live_dom" -> "live"
    [] p \in BrowserProviders /\ config.extraction_mode # "live_dom"
         /\ config.progressive_extraction -> "snapshots"
    [] OTHER -> "nothing"

\* Provider p is asked for request q, and answers or not; what an earlier
\* solve left in request.meta stays there.
Solve(q, p, answers) ==
  /\ pending' = (pending \ {q}) \cup
       {[q EXCEPT !.solver = p,
                  !.found = IF answers /\ Found(p) # "nothing" /\ ~q.warm
                              THEN Found(p) ELSE @]}
  /\ UNCHANGED <<config, phase, seen, visited, read, wanted, lost>>

\* Byparr's process_request: the target needs a solver, or the circuit breaker
\* sent the request there after a challenge.
GivenToProvider(q) ==
  /\ q.solver = None
  /\ \E answers \in BOOLEAN : Solve(q, ProviderOf(q), answers)

\* The copy made for a challenge names the next provider, if the engine says so.
GivenToNextProvider(q) ==
  /\ SwitchEnacted
  /\ \/ q.solver = ProviderOf(q)
     \/ q.solver = None /\ (q.warm \/ ~config.antibot_needed)
  /\ \E answers \in BOOLEAN : Solve(q, ProviderAfter(ProviderOf(q)), answers)

\* A wrong variant: the request is made anew as often as it is dropped.
DroppedRetried(q) ==
  /\ pending' = (pending \ {q}) \cup {[q EXCEPT !.solver = None, !.found = "nothing"]}
  /\ lost' = lost \cup {q.url}
  /\ UNCHANGED <<config, phase, seen, visited, read, wanted>>

\* Dropped, or answered with a status that the spider gets to see only with
\* handle_httpstatus_list, which the warm-up's requests lack.
Dropped(q) ==
  /\ pending' = pending \ {q}
  /\ lost' = lost \cup {q.url}
  /\ UNCHANGED <<config, phase, seen, visited, read, wanted>>
-----------------------------------------------------------------------------
(* The callbacks.                                                          *)

\* A wrong variant: the start URLs follow the first page of the path.
NextHopLast(q) == Len(config.warm_session_urls) + 1

NextHop(q) == q.index + 1

\* What _parse_warm_session_step yields.
AfterWarmUp(q) ==
  IF NextHop(q) <= Len(config.warm_session_urls)
    THEN {WarmRequest(NextHop(q), q.url)}
    ELSE StartRequests(q.url)

ParseWarmSessionStep(q) ==
  /\ q.warm
  /\ visited' = visited \cup {q.url}
  /\ Scheduled(pending \ {q}, AfterWarmUp(q))
  /\ Wants(AfterWarmUp(q))
  /\ UNCHANGED <<config, phase, read, lost>>

\* Where _parse_html takes the items from.
HtmlSource(q) ==
  CASE q.found # "nothing" -> q.found
    [] q.found = "nothing" /\ Grouped(config) -> "slots"
    [] OTHER -> "rows"

\* A 401 or 403, which _parse_html logs.
ProtectedPage(answer) == answer.status = "protected"

\* extract_positional_html_items raises: an offset does not fit the group.
Misfit(q) == HtmlSource(q) = "slots" /\ config.selectors = "misfit"

\* A body that is no JSON, which _parse_json logs.
InvalidJson(answer) == ~answer.json

\* parse gives up before it reads the page.
Unreadable(q, answer) ==
  IF config.response_format = "json"
    THEN InvalidJson(answer)
    ELSE ProtectedPage(answer) \/ Misfit(q)

\* The next page that an HTML page or a JSON answer leads to, if any.
HtmlNext(answer) == config.next_page /\ answer.next # None

JsonNext(answer) == config.json_selectors = "paged" /\ answer.next # None

NextPage(q, answer) == {ParseRequest(answer.next, q.url)}

\* The page is read from source, and requests are yielded.
Reads(q, source, requests) ==
  /\ read' = [read EXCEPT ![q.url] = [times |-> @.times + 1, source |-> source]]
  /\ Scheduled(pending \ {q}, requests)
  /\ Wants(requests)
  /\ UNCHANGED <<config, phase, visited, lost>>

\* _parse_html.
ParseHtml(q, answer) ==
  /\ config.response_format = "html"
  /\ ~ProtectedPage(answer) /\ ~Misfit(q)
  /\ Reads(q, HtmlSource(q), IF HtmlNext(answer) THEN NextPage(q, answer) ELSE {})

\* _parse_json.
ParseJson(q, answer) ==
  /\ config.response_format = "json"
  /\ ~InvalidJson(answer)
  /\ Reads(q, "json", IF JsonNext(answer) THEN NextPage(q, answer) ELSE {})

Parse(q, answer) ==
  /\ ~q.warm
  /\ \/ ParseHtml(q, answer)
     \/ ParseJson(q, answer)
     \/ Unreadable(q, answer) /\ Dropped(q)

\* HttpErrorMiddleware lets 2xx through, and 401 and 403 for parse.
ReachesCallback(q, answer) ==
  \/ answer.status = "ok"
  \/ answer.status = "protected" /\ ~q.warm

\* Request q ends.
Ends(q) ==
  \/ Dropped(q)
  \/ \E answer \in Answers :
       /\ ReachesCallback(q, answer)
       /\ ParseWarmSessionStep(q) \/ Parse(q, answer)
-----------------------------------------------------------------------------
CrawlInit ==
  /\ config \in Configs
  /\ phase = "loading"
  /\ seen = {} /\ pending = {} /\ visited = {} /\ wanted = {} /\ lost = {}
  /\ read = [u \in Urls |-> Unread]

CrawlNext ==
  \/ Start \/ LoadFails
  \/ \E q \in pending :
       GivenToProvider(q) \/ GivenToNextProvider(q) \/ Ends(q)

CrawlSpec == CrawlInit /\ [][CrawlNext]_crawlVars

\* Every request ends, as DownloaderChain shows (EveryRequestEnds).
FairCrawlSpec == CrawlSpec /\ WF_crawlVars(\E q \in pending : Ends(q))
-----------------------------------------------------------------------------
\* The requests of a crawl are well formed, and each of them, as every page
\* that was answered or lost, is on record in the duplicate filter.
CrawlTypeOK ==
  /\ config \in Configs
  /\ phase \in {"loading", "rejected", "crawling"}
  /\ seen \subseteq Urls /\ visited \subseteq seen /\ lost \subseteq seen
  /\ wanted \subseteq seen
  /\ pending \subseteq Requests
  /\ \A q \in pending : q.url \in seen
  /\ read \in [Urls -> [times : Nat, source : Sources \cup {"unread"}]]

\* A plain target with warm-up pages is reached on its path only: a start URL
\* is requested after all of them were answered, each reached from the one
\* before, and with the last as its referer.  (_parse_warm_session_step: "the
\* real target is reached having already browsed a real, connected path".)
WarmPathFirst ==
  Walks(config) =>
    LET path == config.warm_session_urls
    IN \A q \in pending :
         IF q.warm
           THEN /\ q.referer = IF q.index = 1 THEN None ELSE path[q.index - 1]
                /\ \A i \in 1..(q.index - 1) : path[i] \in visited
           ELSE /\ Range(path) \subseteq visited
                /\ q.referer = Last(path) \/ read[q.referer].times > 0

\* What the validators promise the rest of the program: what needs a browser
\* is given to a provider with one, unless the engine rotates past the last
\* of them; the selectors that parse asserts are there; and a page is read
\* in the way its configuration means, above all positions as positions.
\* (The model validators of SpiderConfig.)
FitForConfig ==
  /\ \A q \in pending :
       q.solver # None /\ NeedsBrowser(config) =>
         \/ q.solver \in BrowserProviders
         \/ q.warm
         \/ SwitchEnacted /\ config.antibot_provider = "patchright"
  /\ \A u \in Urls :
       /\ read[u].source = "json"      => config.json_selectors # "absent"
       /\ read[u].source = "slots"     => config.selectors = "slots"
       /\ read[u].source = "rows"      => config.selectors = "rows"
       /\ read[u].source = "live"      => config.extraction_mode = "live_dom"
       /\ read[u].source = "snapshots" => config.progressive_extraction

\* A path on which no page comes twice.
Straight(path) == \A i, j \in 1..Len(path) : path[i] = path[j] => i = j

\* No page is parsed twice, however the target links its pages; and a crawl
\* that ended and lost no page has parsed every start page and every page
\* linked from one it parsed.  Excepted are warm-up pages, which the filter has
\* seen already, and paths that visit a page twice and end there.
\* (Callbacks that yield requests, and Scrapy's duplicate filter.)
EveryPageReadOnce ==
  /\ \A u \in Urls : read[u].times <= 1
  /\ phase = "crawling" /\ pending = {} /\ lost = {} /\ Straight(config.warm_session_urls) =>
       \A u \in wanted \cup Range(config.start_urls) :
         read[u].times = 1 \/ (Walks(config) /\ u \in Range(config.warm_session_urls))

\* Every crawl ends, also on a target whose pages link in circles.
CrawlEnds == phase = "crawling" ~> pending = {}
=============================================================================
