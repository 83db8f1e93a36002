---------------------------- MODULE BrowserSolve ----------------------------
(***************************************************************************)
(* One call of a provider's solve: up to MaxCrashAttempts attempts, each   *)
(* driving a browser of its own through warm-up pages, a login and the     *)
(* target, scrolling and reading it, and closing the browser.              *)
(*                                                                         *)
(* CamoufoxProvider and PatchrightProvider drive the browser alike, but    *)
(* they differ in where an error of the browser library is caught:         *)
(*                                                                         *)
(*   patchright  around the navigation of the target, inside the finally   *)
(*               that closes the browser: the error is classified before   *)
(*               the browser is closed, and errors of the warm-up are not  *)
(*               caught;                                                   *)
(*   camoufox    around everything, outside that finally: the error is     *)
(*               classified when the browser has been closed.              *)
(*                                                                         *)
(* ByparrProvider asks a service over HTTP and has one step.  The renderer *)
(* of PlaywrightMiddleware ("playwright") is a single attempt that visits  *)
(* and scrolls the target, with Patchright's way of catching errors.       *)
(*                                                                         *)
(* The browser's engine and the pages it loads are outside.  The engine    *)
(* may die at any moment, any call on it may fail, and a page goes on      *)
(* loading while the thread waits.  Playwright fires "disconnected" when   *)
(* the engine dies and also when browser.close() is called.                *)
(***************************************************************************)
EXTENDS Naturals

CONSTANTS
  MaxCrashAttempts,  \* max_browser_crash_attempts
  MaxScrolls,        \* DEFAULT_MAX_SCROLL_ATTEMPTS
  Tasks              \* the arguments that solve may be called with

DrivingProviders == {"camoufox", "patchright"}

ASSUME SolveAssumption ==
  /\ MaxCrashAttempts \in Nat \ {0}
  /\ MaxScrolls \in Nat \ {0}
  /\ Tasks \subseteq [provider    : DrivingProviders \cup {"byparr", "playwright"},
                      warm        : BOOLEAN,   \* warm_session_urls; its hops are alike
                      login       : BOOLEAN,   \* login_flow
                      probe       : BOOLEAN,   \* login_flow.session_expiry_probe_url
                      profile     : BOOLEAN,   \* use_accumulated_profile
                      progressive : BOOLEAN,   \* progressive_extraction
                      live        : BOOLEAN,   \* extraction_selectors
                      odd         : BOOLEAN,   \* a field that _extract_field refuses
                      traced      : BOOLEAN]   \* TITAN_TRACE_DIR is set
  \* The renderer has no parameter for any of them.
  /\ \A t \in Tasks : t.provider = "playwright" =>
       ~(\/ t.warm \/ t.login \/ t.probe \/ t.profile
         \/ t.progressive \/ t.live \/ t.odd \/ t.traced)

VARIABLES
  task,    \* the arguments of this call
  call,    \* the thread: its stage, the attempt, the rounds of scrolling, the
           \* exception on its way
  engine,  \* the browser: its process, the flag browser_crashed, and whether
           \* it has really died in this attempt (for the properties only)
  page,    \* the document shown, the last main-frame response, the login POST
  result   \* login_ok, the documents that html and status were read from,
           \* and how often the session was recorded

solveVars == <<task, call, engine, page, result>>

\* The stages in which a call on the browser is made.  Patchright and the
\* renderer catch errors in the Driving ones only.
Driving  == {"login", "submitted", "probe", "target", "settle", "scroll", "extract", "read"}
Browsing == {"open", "warm"} \cup Driving

Stages == Browsing \cup {"post", "launch", "response", "record", "stop_trace",
                         "close", "returned", "solved", "failed"}

\* "render" is a RenderError, "library" an error of Playwright, Patchright or
\* http.client that nothing has translated, "value" a ValueError, "unbound"
\* Python's error for a local variable that has not been assigned.
Errors == {"none", "antibot", "crash", "render", "library", "value", "unbound"}

Refusals == {"refused", "denied"}   \* documents with a status of 400 or more

Documents == Refusals \cup {"blank", "warm", "form", "account", "probe",
                            "challenge", "target"}

FreshEngine == [process |-> "none", crashed |-> FALSE, died |-> FALSE]
BlankPage   == [shown |-> "blank", answer |-> "blank", post |-> "none"]
NoResult    == [login |-> "none", html |-> "blank", status |-> "blank", recordings |-> 0]

Goes(stage) == call' = [call EXCEPT !.stage = stage]

Raises(error, stage) == call' = [call EXCEPT !.error = error, !.stage = stage]
-----------------------------------------------------------------------------
(* The order of the stages.                                                *)

AfterWarmUp == IF task.login THEN "login" ELSE "target"
AfterOpen   == IF task.warm THEN "warm" ELSE AfterWarmUp
AfterLogin  == IF task.probe THEN "probe" ELSE "target"
AfterScroll ==
  CASE task.provider = "playwright" -> "read"
    [] task.provider # "playwright" /\ task.live -> "extract"
    [] OTHER -> "response"
\* The finally of the driving part.
AfterDriving == IF task.traced THEN "stop_trace" ELSE "close"

\* The collection hands over its snapshots of the page, not items.
TakesSnapshots == task.progressive /\ ~task.live

\* _classify_solve_exception.
Classified(crashed) == IF crashed THEN "crash" ELSE "antibot"

\* What an error of the browser library becomes inside the driver.
Caught(stage) ==
  CASE task.provider = "playwright" /\ stage \in Driving -> "render"
    [] task.provider = "patchright" /\ stage \in Driving -> Classified(engine.crashed)
    [] OTHER -> "library"
-----------------------------------------------------------------------------
(* One attempt.                                                            *)

Launch ==
  /\ call.stage = "launch"
  /\ engine' = [FreshEngine EXCEPT !.process = "running"]
  /\ page' = BlankPage
  /\ Goes("open")
  /\ UNCHANGED <<task, result>>

\* The browser is not installed, or does not start.  Camoufox's handler of
\* the second case reads browser_crashed, which is assigned only once the
\* browser runs.
LaunchFails ==
  /\ call.stage = "launch"
  /\ \/ Raises(IF task.provider = "playwright" THEN "render" ELSE "antibot", "returned")
     \/ task.provider = "camoufox" /\ Raises("unbound", "returned")
  /\ UNCHANGED <<task, engine, page, result>>

\* A call on the browser returns and the thread goes on.
Proceeds(from, to) ==
  /\ call.stage = from
  /\ engine.process = "running"
  /\ Goes(to)
  /\ UNCHANGED <<task, engine>>

\* page.goto: the document's response becomes the last one.  A form that is
\* still being submitted is given up.
Visits(document) ==
  page' = [page EXCEPT !.shown = document, !.answer = document,
                       !.post = IF @ = "sent" THEN "aborted" ELSE @]

\* new_context and new_page.
Open == Proceeds("open", AfterOpen) /\ UNCHANGED <<page, result>>

\* The listener for responses is not attached yet.
WarmUp ==
  /\ Proceeds("warm", AfterWarmUp)
  /\ page' = [page EXCEPT !.shown = "warm"]
  /\ UNCHANGED result

\* submit_login_form.
SubmitLogin ==
  /\ Proceeds("login", "submitted")
  /\ page' = [shown |-> "form", answer |-> "form", post |-> "sent"]
  /\ UNCHANGED result

\* A wrong variant: the target is visited whatever the login led to.
JudgeLoginAnyway ==
  /\ Proceeds("submitted", AfterLogin)
  /\ result' = [result EXCEPT !.login = IF page.answer \in Refusals THEN "failed" ELSE "ok"]
  /\ UNCHANGED page

\* perform_login_and_navigate, when its wait is over.
JudgeLogin ==
  \/ /\ page.answer \in Refusals
     /\ Proceeds("submitted", "settle")
     /\ result' = [result EXCEPT !.login = "failed"]
     /\ UNCHANGED page
  \/ /\ page.answer \notin Refusals
     /\ Proceeds("submitted", AfterLogin)
     /\ result' = [result EXCEPT !.login = "ok"]
     /\ UNCHANGED page

VisitProbe == Proceeds("probe", "target") /\ Visits("probe") /\ UNCHANGED result

\* The renderer takes the status from this first response.
VisitTarget ==
  /\ Proceeds("target", "settle")
  /\ \E document \in {"challenge", "target", "denied"} :
       /\ Visits(document)
       /\ result' = [result EXCEPT !.status =
            IF task.provider = "playwright" THEN document ELSE @]

\* The click and the wait past load.
Settle == Proceeds("settle", "scroll") /\ UNCHANGED <<page, result>>

\* The loop of scroll_to_load_lazy_content goes on while the page has grown,
\* up to a limit.
ScrollsOn(grown) == grown /\ call.scrolls + 1 < MaxScrolls

\* One round of it.
Scroll ==
  /\ ~task.progressive
  /\ call.stage = "scroll" /\ engine.process = "running"
  /\ \E grown \in BOOLEAN :
       call' = IF ScrollsOn(grown)
                 THEN [call EXCEPT !.scrolls = @ + 1]
                 ELSE [call EXCEPT !.scrolls = 0, !.stage = AfterScroll]
  /\ UNCHANGED <<task, engine, page, result>>

\* The progressive collection, which scrolls by itself (FeedCollection).  The
\* last snapshot stands for the page.
Collect ==
  /\ task.progressive
  /\ Proceeds("scroll", "response")
  /\ result' = [result EXCEPT !.html = IF TakesSnapshots THEN page.shown ELSE @]
  /\ UNCHANGED page

\* extract_live_dom_items.
Extract == ~task.odd /\ Proceeds("extract", "response") /\ UNCHANGED <<page, result>>

\* _extract_field meets an expression it does not support.
ExtractionRefused ==
  /\ task.odd
  /\ \/ call.stage = "extract"
     \/ call.stage = "scroll" /\ task.progressive /\ task.live
  /\ Raises("value", AfterDriving)
  /\ UNCHANGED <<task, engine, page, result>>

\* A wrong variant: the session is recorded before the page is read.
ReadResponseAndRecord ==
  /\ call.stage = "response"
  /\ result' = [result EXCEPT !.status = page.answer,
                              !.recordings = IF task.profile THEN @ + 1 ELSE @]
  /\ Goes("read")
  /\ UNCHANGED <<task, engine, page>>

\* final_response, which needs no call on the browser.
ReadResponse ==
  /\ call.stage = "response"
  /\ result' = [result EXCEPT !.status = page.answer]
  /\ Goes("read")
  /\ UNCHANGED <<task, engine, page>>

\* page.content(), or of a JSON answer its body, which the renderer does not
\* look for; or the last snapshot, taken before.  And the cookies.
ReadPage ==
  /\ Proceeds("read", IF task.profile THEN "record" ELSE AfterDriving)
  /\ \E document \in {page.shown, result.status} :
       /\ task.provider = "playwright" => document = page.shown
       /\ result' = [result EXCEPT !.html = IF TakesSnapshots THEN @ ELSE document]
  /\ UNCHANGED page

\* record_new_session.  That it fails, for the disk's sake or because the
\* engine is gone, is logged and nothing else.
Record ==
  /\ call.stage = "record"
  /\ Goes(AfterDriving)
  /\ \/ engine.process = "running" /\ result' = [result EXCEPT !.recordings = @ + 1]
     \/ UNCHANGED result
  /\ UNCHANGED <<task, engine, page>>

\* A call on the browser fails: a timeout, a refused navigation, or because
\* the engine is gone.
BrowserCallFails ==
  /\ call.stage \in Browsing
  /\ Raises(Caught(call.stage),
            IF call.stage \in Driving THEN AfterDriving ELSE "close")
  /\ UNCHANGED <<task, engine, page, result>>

\* tracing.stop(), whose error takes the place of the one on its way.
StopTrace ==
  /\ call.stage = "stop_trace"
  /\ \/ engine.process = "running" /\ Goes("close")
     \/ Raises("library", "close")
  /\ UNCHANGED <<task, engine, page, result>>

\* A wrong variant: an attempt that failed early leaves its browser behind.
CloseUnlessEarly ==
  /\ call.stage = "close"
  /\ engine' = [engine EXCEPT !.process =
                  IF call.error = "library" /\ page.answer = "blank" THEN @ ELSE "none"]
  /\ Goes("returned")
  /\ UNCHANGED <<task, page, result>>

\* page.close() and browser.close(), which do not mind a browser that is
\* gone, and Camoufox's except clause.  The event of closing may be handled
\* before close() returns.
CloseBrowser ==
  /\ call.stage = "close"
  /\ \E seen \in BOOLEAN :
       LET crashed == engine.crashed \/ seen
       IN  /\ engine' = [engine EXCEPT !.process = "none", !.crashed = crashed]
           /\ Raises(IF task.provider = "camoufox" /\ call.error = "library"
                       THEN Classified(crashed) ELSE call.error,
                     "returned")
  /\ UNCHANGED <<task, page, result>>

\* The request to Byparr: answered well, or failed in a way that is caught, or
\* ended by an exception of http.client or of decoding, which is not.
AskByparr ==
  /\ call.stage = "post"
  /\ \E error \in {"none", "antibot", "library"} : Raises(error, "returned")
  /\ UNCHANGED <<task, engine, page, result>>
-----------------------------------------------------------------------------
(* The loop of solve.                                                      *)

\* Wrong variants: one attempt too few, or too many.
RetriesLess == call.error = "crash" /\ call.attempt + 1 < MaxCrashAttempts
RetriesMore == call.error = "crash" /\ call.attempt <= MaxCrashAttempts

Retries == call.error = "crash" /\ call.attempt < MaxCrashAttempts

\* A wrong variant: the attempt is not counted.
RetryForEver ==
  /\ call.stage = "returned" /\ call.error = "crash"
  /\ call' = [call EXCEPT !.stage = "launch", !.error = "none"]
  /\ engine' = [FreshEngine EXCEPT !.process = engine.process]
  /\ result' = [NoResult EXCEPT !.recordings = result.recordings]
  /\ UNCHANGED <<task, page>>

Retry ==
  /\ call.stage = "returned" /\ Retries
  /\ call' = [stage |-> "launch", attempt |-> call.attempt + 1, scrolls |-> 0,
              error |-> "none"]
  /\ engine' = [FreshEngine EXCEPT !.process = engine.process]
  /\ result' = [NoResult EXCEPT !.recordings = result.recordings]
  /\ UNCHANGED <<task, page>>

Return ==
  /\ call.stage = "returned" /\ ~Retries
  /\ Goes(IF call.error = "none" THEN "solved" ELSE "failed")
  /\ UNCHANGED <<task, engine, page, result>>
-----------------------------------------------------------------------------
(* The engine and the pages.                                               *)

\* A wrong variant: the listener waits for an event that never comes.
EngineDiesUnseen ==
  /\ engine.process = "running"
  /\ engine' = [engine EXCEPT !.process = "dead", !.died = TRUE]
  /\ UNCHANGED <<task, call, page, result>>

\* page.on("crash") or browser.on("disconnected").
EngineDies ==
  /\ engine.process = "running"
  /\ engine' = [process |-> "dead", crashed |-> TRUE, died |-> TRUE]
  /\ UNCHANGED <<task, call, page, result>>

PageChanges(new) ==
  /\ engine.process = "running"
  /\ page' = new
  /\ UNCHANGED <<task, call, engine, result>>

\* The response to the login form is there, which may have taken its time.  The
\* listener for responses sees it before its document is shown.
LoginAnswered ==
  /\ page.post = "sent"
  /\ \E accepted \in BOOLEAN :
       PageChanges([page EXCEPT !.answer = IF accepted THEN "account" ELSE "refused",
                                !.post   = IF accepted THEN "accepted" ELSE "refused"])

\* A challenge that is passed leads to the target, whose response is there.
ChallengePassed ==
  /\ page.answer = "challenge"
  /\ PageChanges([page EXCEPT !.answer = "target"])

\* The document of such a response takes the place of the form or challenge.
AnswerShown ==
  /\ page.answer \in {"account", "refused", "target"}
  /\ page.shown # page.answer
  /\ PageChanges([page EXCEPT !.shown = page.answer])
-----------------------------------------------------------------------------
SolveInit ==
  /\ task \in Tasks
  /\ call = [stage   |-> IF task.provider = "byparr" THEN "post" ELSE "launch",
             attempt |-> 1, scrolls |-> 0, error |-> "none"]
  /\ engine = FreshEngine
  /\ page = BlankPage
  /\ result = NoResult

\* A step of the thread.
SolveStep ==
  \/ Launch \/ LaunchFails \/ Open \/ WarmUp
  \/ SubmitLogin \/ JudgeLogin \/ VisitProbe \/ VisitTarget
  \/ Settle \/ Scroll \/ Collect \/ Extract \/ ExtractionRefused \/ ReadResponse \/ ReadPage \/ Record
  \/ BrowserCallFails \/ StopTrace \/ CloseBrowser
  \/ AskByparr \/ Retry \/ Return

SolveNext ==
  \/ SolveStep
  \/ EngineDies \/ LoginAnswered \/ ChallengePassed \/ AnswerShown

\* Every call on the browser returns: navigations, clicks, hovers and the
\* waits have timeouts.
SolveSpec == SolveInit /\ [][SolveNext]_solveVars /\ WF_solveVars(SolveStep)
-----------------------------------------------------------------------------
\* Type correctness; recordings are at most one an attempt.
SolveTypeOK ==
  /\ task \in Tasks
  /\ call \in [stage : Stages, attempt : 1..MaxCrashAttempts, scrolls : 0..(MaxScrolls - 1),
              error : Errors]
  /\ engine \in [process : {"none", "running", "dead"}, crashed : BOOLEAN, died : BOOLEAN]
  /\ page \in [shown : Documents, answer : Documents,
               post : {"none", "sent", "accepted", "refused", "aborted"}]
  /\ result \in [login : {"none", "ok", "failed"}, html : Documents,
                 status : Documents, recordings : 0..MaxCrashAttempts]

\* No attempt leaves a browser behind, wherever it failed: there is none when
\* the next attempt launches its own, and none when solve ends.  (A provider
\* "must release any external resource", antibot_provider.py:293; the nested
\* finally clauses of _default_camoufox_solve and _default_patchright_solve.)
NoBrowserLeft ==
  call.stage \in {"launch", "solved", "failed"} => engine.process = "none"

\* "Only on a genuinely successful solve" (camoufox_provider.py:1487): the
\* session is recorded at most once however often the solve is retried, and
\* not at all when it fails.  With tracing on, closing the trace can still
\* fail an attempt that has recorded.
RecordedOnlyOnSuccess ==
  ~task.traced =>
    /\ result.recordings <= 1
    /\ call.stage = "failed" => result.recordings = 0

\* A solve gives up because of a crash only when its attempts are used up.
\* (The loop of CamoufoxProvider.solve and PatchrightProvider.solve.)
GivesUpExhausted ==
  call.stage = "failed" /\ call.error = "crash" => call.attempt = MaxCrashAttempts

\* An attempt whose engine died before the error was classified is not put
\* down to the target's defence, so it is retried and not recorded as a
\* rejection.  (_classify_solve_exception.)
CrashNotBlamedOnTarget ==
  [][call'.error = "antibot" /\ call.error # "antibot" => ~engine.died]_solveVars

\* After a login that was judged refused nothing else is visited: the browser
\* stays with the form until the refusal's document takes its place, and a
\* solution has the refusal's status, with the one document or the other as
\* its HTML.  (perform_login_and_navigate.)
RefusedLoginStaysOut ==
  result.login = "failed" =>
    /\ page.answer = "refused" /\ page.shown \in {"form", "refused"}
    /\ call.stage = "solved" =>
         result.status = "refused" /\ result.html \in {"form", "refused"}

\* Every solve ends, however often the engine dies.
EverySolveEnds == <>(call.stage \in {"solved", "failed"})
=============================================================================
