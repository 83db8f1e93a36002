------------------------- MODULE BrowserSolveProofs -------------------------
(***************************************************************************)
(* Theorems about BrowserSolve, for every limit of attempts and every set  *)
(* of arguments.                                                           *)
(*                                                                         *)
(* The invariants need a common strengthening, SolveInv: in which stages a *)
(* browser runs, that an exception is on its way only from the failing     *)
(* call to the end of the attempt, what has been recorded when, and what   *)
(* the page shows while a login is judged and after it was refused.        *)
(***************************************************************************)
EXTENDS BrowserSolve, TLAPS

\* Stages without a browser.
Outside == {"post", "launch", "returned", "solved", "failed"}

\* Stages that come before the recording.
Unrecorded == Browsing \cup {"post", "launch", "response", "record"}

\* Stages after a login that was refused.
Refused == {"settle", "scroll", "extract", "response", "read", "record", "stop_trace",
            "close", "returned", "solved", "failed"}

\* A browser runs or has died only between launch and close.
BrowserInv == call.stage \in Outside => engine.process = "none"

\* No exception is on its way while the thread goes on.
ErrorInv == call.stage \in Unrecorded \cup {"solved"} => call.error = "none"

\* An attempt records at most once.
CountInv ==
  /\ result.recordings <= call.attempt
  /\ call.stage \in Unrecorded => result.recordings < call.attempt

\* What an untraced call has recorded was recorded by the attempt under way,
\* which has only its browser to close.
RecordInv ==
  ~task.traced =>
    /\ call.stage # "stop_trace"
    /\ result.recordings \in {0, 1}
    /\ result.recordings = 1 =>
         call.stage \in {"close", "returned", "solved"} /\ call.error = "none"

\* Every answer to a login form is one that perform_login_and_navigate can
\* judge, and nothing takes the place of a refusal.  Only a call with a login
\* has one to judge, and only one with selectors extracts from the live page.
LoginInv ==
  /\ call.stage \in {"login", "submitted", "probe"} \/ result.login # "none" => task.login
  /\ call.stage = "extract" => task.live
  /\ call.stage = "submitted" =>
       /\ page.answer \in {"form", "account", "refused"}
       /\ page.shown \in {"form", page.answer}
       /\ page.post = "sent" => page.answer = "form"
       /\ page.answer = "refused" => page.post = "refused"
  /\ result.login = "failed" =>
       /\ page.answer = "refused" /\ page.post = "refused"
       /\ page.shown \in {"form", "refused"}
       /\ call.stage \in Refused
       /\ TakesSnapshots /\ call.stage \in {"response", "read"} =>
            result.html \in {"form", "refused"}
       /\ call.stage = "read" => result.status = "refused"
       /\ call.stage \in {"record", "stop_trace", "close", "returned", "solved"}
          /\ call.error = "none"
            => result.html \in {"form", "refused"} /\ result.status = "refused"

SolveInv ==
  /\ SolveTypeOK
  /\ BrowserInv
  /\ ErrorInv
  /\ CountInv
  /\ RecordInv
  /\ LoginInv
  /\ GivesUpExhausted
-----------------------------------------------------------------------------
LEMMA SolveInvInit == SolveInit => SolveInv
BY SolveAssumption
DEF SolveInit, SolveInv, SolveTypeOK, BrowserInv, ErrorInv, CountInv, RecordInv, LoginInv,
    GivesUpExhausted, FreshEngine, BlankPage, NoResult, Stages, Errors, Browsing, Driving,
    Documents, Outside, Unrecorded, Refused

\* An attempt that fails, at any call that may, is over but for the closing.
LEMMA FailurePreserves ==
  ASSUME SolveInv, NEW error \in Errors, error # "none",
         NEW stage \in {"stop_trace", "close", "returned"}, Raises(error, stage),
         stage = "stop_trace" => task.traced,
         stage = "returned" => engine.process = "none",
         ~task.traced => result.recordings = 0,
         result.login = "failed" => call.stage \in Refused,
         UNCHANGED <<task, engine, page, result>>
  PROVE  SolveInv'
<1> USE DEF SolveInv
<1>1. call' = [call EXCEPT !.error = error, !.stage = stage]
  BY DEF Raises
<1>2. call'.error = error /\ call'.stage = stage /\ call'.attempt = call.attempt
  BY <1>1 DEF SolveTypeOK
<1>3. SolveTypeOK'
  BY <1>1 DEF SolveTypeOK, Stages
<1>4. BrowserInv'
  BY <1>2 DEF BrowserInv, Outside
<1>5. ErrorInv'
  BY <1>2 DEF ErrorInv, Unrecorded, Browsing, Driving
<1>6. CountInv'
  BY <1>2 DEF CountInv, Unrecorded, Browsing, Driving
<1>7. RecordInv'
  BY <1>2 DEF RecordInv
<1>8. LoginInv'
  BY <1>2 DEF LoginInv, Refused
<1>9. GivesUpExhausted'
  BY <1>2 DEF GivesUpExhausted
<1> QED
  BY <1>3, <1>4, <1>5, <1>6, <1>7, <1>8, <1>9

LEMMA SolveInvNext == SolveInv /\ [SolveNext]_solveVars => SolveInv'
<1> SUFFICES ASSUME SolveInv, [SolveNext]_solveVars PROVE SolveInv'
  OBVIOUS
<1> USE SolveAssumption DEF SolveInv, SolveTypeOK, BrowserInv, ErrorInv, CountInv, RecordInv,
    LoginInv, GivesUpExhausted, Stages, Errors, Browsing, Driving, Documents, Outside,
    Unrecorded, Refused, TakesSnapshots
<1>1. CASE Launch
  <2>1. call.stage = "launch" /\ call' = [call EXCEPT !.stage = "open"]
    BY <1>1 DEF Launch, Goes
  <2>2. /\ engine' = [process |-> "running", crashed |-> FALSE, died |-> FALSE]
        /\ page' = [shown |-> "blank", answer |-> "blank", post |-> "none"]
        /\ UNCHANGED <<task, result>>
    BY <1>1 DEF Launch, FreshEngine, BlankPage
  <2> QED
    BY <2>1, <2>2
<1>2. CASE LaunchFails
  <2>1. PICK error \in {"antibot", "render", "unbound"} : Raises(error, "returned")
    BY <1>2 DEF LaunchFails
  <2> QED
    BY <1>2, <2>1, FailurePreserves DEF LaunchFails
<1>3. CASE Open
  BY <1>3 DEF Open, Proceeds, Goes, AfterOpen, AfterWarmUp
<1>4. CASE WarmUp
  BY <1>4 DEF WarmUp, Proceeds, Goes, AfterWarmUp
<1>5. CASE SubmitLogin
  BY <1>5 DEF SubmitLogin, Proceeds, Goes
<1>6. CASE JudgeLogin
  BY <1>6 DEF JudgeLogin, Proceeds, Goes, AfterLogin, Refusals
<1>7. CASE VisitProbe
  <2>1. PICK post \in {"none", "sent", "accepted", "refused", "aborted"} :
          page' = [shown |-> "probe", answer |-> "probe", post |-> post]
    BY <1>7 DEF VisitProbe, Visits
  <2> QED
    BY <1>7, <2>1 DEF VisitProbe, Proceeds, Goes
<1>8. CASE VisitTarget
  <2>1. PICK document \in {"challenge", "target", "denied"} :
          Visits(document) /\ result' \in {result, [result EXCEPT !.status = document]}
    BY <1>8 DEF VisitTarget
  <2>2. page' \in [shown : {document}, answer : {document},
                   post : {"none", "sent", "accepted", "refused", "aborted"}]
    BY <2>1 DEF Visits
  <2>3. /\ call.stage = "target"
        /\ call' = [call EXCEPT !.stage = "settle"]
        /\ UNCHANGED <<task, engine>>
    BY <1>8 DEF VisitTarget, Proceeds, Goes
  <2>4. /\ result' \in [login : {"none", "ok"}, html : Documents, status : Documents,
                        recordings : {result.recordings}]
        /\ result.recordings \in 0..MaxCrashAttempts
        /\ result'.login = result.login
    BY <2>1, <2>3 DEF Refusals
  <2>5. SolveTypeOK'
    <3>1. call' \in [stage : Stages, attempt : 1..MaxCrashAttempts,
                  scrolls : 0..(MaxScrolls - 1), error : Errors]
      BY <2>3
    <3>2. page' \in [shown : Documents, answer : Documents,
                 post : {"none", "sent", "accepted", "refused", "aborted"}]
      BY <2>2 DEF Refusals
    <3> QED
      BY <2>2, <2>3, <2>4, <3>1, <3>2
  <2>6. BrowserInv'
    BY <2>2, <2>3, <2>4
  <2>7. ErrorInv'
    BY <2>2, <2>3, <2>4
  <2>8. CountInv'
    BY <2>2, <2>3, <2>4
  <2>9. RecordInv'
    BY <2>2, <2>3, <2>4
  <2>10. LoginInv'
    BY <2>2, <2>3, <2>4
  <2>11. GivesUpExhausted'
    BY <2>2, <2>3, <2>4
  <2> QED
    BY <2>5, <2>6, <2>7, <2>8, <2>9, <2>10, <2>11
<1>9. CASE Settle
  BY <1>9 DEF Settle, Proceeds, Goes
<1>9a. CASE Scroll
  <2>1. PICK stage \in {"scroll", "read", "extract", "response"}, n \in 0..(MaxScrolls - 1) :
          /\ call' = [call EXCEPT !.scrolls = n, !.stage = stage]
          /\ stage = "read" => ~task.login
          /\ stage = "extract" => task.live
    <3>1. AfterScroll \in {"read", "extract", "response"}
          /\ (AfterScroll = "read" => ~task.login)
          /\ (AfterScroll = "extract" => task.live)
      BY DEF AfterScroll
    <3>2. \/ call' = [call EXCEPT !.scrolls = call.scrolls + 1] /\ call.scrolls + 1 < MaxScrolls
          \/ call' = [call EXCEPT !.scrolls = 0, !.stage = AfterScroll]
      BY <1>9a DEF Scroll, ScrollsOn
    <3>3. call.stage = "scroll" /\ call.scrolls \in Nat
      BY <1>9a DEF Scroll
    <3>4. CASE call' = [call EXCEPT !.scrolls = call.scrolls + 1] /\ call.scrolls + 1 < MaxScrolls
      <4>1. call' = [call EXCEPT !.scrolls = call.scrolls + 1, !.stage = "scroll"]
        BY <3>3, <3>4
      <4>2. call.scrolls + 1 \in 0..(MaxScrolls - 1)
        BY <3>3, <3>4
      <4> QED
        BY <4>1, <4>2
    <3>5. CASE call' = [call EXCEPT !.scrolls = 0, !.stage = AfterScroll]
      <4>1. 0 \in 0..(MaxScrolls - 1)
        OBVIOUS
      <4> QED
        BY <3>1, <3>5, <4>1
    <3> QED
      BY <3>2, <3>4, <3>5
  <2>2. call.stage = "scroll" /\ ~task.progressive /\ UNCHANGED <<task, engine, page, result>>
    BY <1>9a DEF Scroll
  <2>3. call'.stage = stage /\ call'.attempt = call.attempt /\ call'.error = call.error
    BY <2>1
  <2>4. SolveTypeOK'
    <3>1. call' \in [stage : Stages, attempt : 1..MaxCrashAttempts,
                     scrolls : 0..(MaxScrolls - 1), error : Errors]
      BY <2>1
    <3> QED
      BY <2>2, <3>1
  <2>5. BrowserInv' /\ ErrorInv' /\ CountInv' /\ RecordInv' /\ GivesUpExhausted'
    <3>1. engine.process = engine'.process /\ call.error = "none"
      BY <2>2
    <3> QED
      BY <2>2, <2>3, <3>1
  <2>6. LoginInv'
    BY <2>1, <2>2, <2>3
  <2> QED
    BY <2>4, <2>5, <2>6
<1>9b. CASE Collect
  BY <1>9b DEF Collect, Proceeds, Goes
<1>9c. CASE Extract
  BY <1>9c DEF Extract, Proceeds, Goes
<1>10. CASE ExtractionRefused
  <2>1. PICK stage \in {"stop_trace", "close"} :
          (stage = "stop_trace" => task.traced) /\ Raises("value", stage)
    BY <1>10 DEF ExtractionRefused, AfterDriving
  <2> QED
    BY <1>10, <2>1, FailurePreserves DEF ExtractionRefused
<1>11. CASE ReadResponse
  BY <1>11 DEF ReadResponse, Goes
<1>12. CASE ReadPage
  BY <1>12 DEF ReadPage, Proceeds, Goes, AfterDriving
<1>13. CASE Record
  BY <1>13 DEF Record, Goes, AfterDriving
<1>14. CASE BrowserCallFails
  <2>1. PICK stage \in {"stop_trace", "close"}, error \in {"library", "crash", "antibot", "render"} :
          (stage = "stop_trace" => task.traced) /\ Raises(error, stage)
    BY <1>14 DEF BrowserCallFails, Caught, Classified, AfterDriving
  <2>2. ~task.traced => result.recordings = 0
    BY <1>14 DEF BrowserCallFails
  <2>3. result.login = "failed" => call.stage \in Refused
    OBVIOUS
  <2> QED
    BY <1>14, <2>1, <2>2, <2>3, FailurePreserves DEF BrowserCallFails
<1>15. CASE StopTrace
  <2>1. CASE Goes("close")
    BY <1>15, <2>1 DEF StopTrace, Goes
  <2>2. CASE Raises("library", "close")
    BY <1>15, <2>2, FailurePreserves DEF StopTrace
  <2> QED
    BY <1>15, <2>1, <2>2 DEF StopTrace
<1>16. CASE CloseBrowser
  <2>1. PICK error \in Errors :
          /\ call' = [call EXCEPT !.error = error, !.stage = "returned"]
          /\ error = "none" <=> call.error = "none"
    BY <1>16 DEF CloseBrowser, Raises, Classified
  <2>2. call.stage = "close" /\ UNCHANGED <<task, page, result>>
    BY <1>16 DEF CloseBrowser
  <2>3. /\ engine'.process = "none"
        /\ engine' \in [process : {"none", "running", "dead"}, crashed : BOOLEAN, died : BOOLEAN]
    BY <1>16 DEF CloseBrowser
  <2>4. call'.error = error /\ call'.stage = "returned" /\ call'.attempt = call.attempt
    BY <2>1
  <2>5. SolveTypeOK'
    <3>1. call' \in [stage : Stages, attempt : 1..MaxCrashAttempts,
                  scrolls : 0..(MaxScrolls - 1), error : Errors]
      BY <2>1
    <3> QED
      BY <2>1, <2>2, <2>3, <2>4, <3>1
  <2>6. BrowserInv'
    BY <2>1, <2>2, <2>3, <2>4
  <2>7. ErrorInv'
    BY <2>1, <2>2, <2>3, <2>4
  <2>8. CountInv'
    BY <2>1, <2>2, <2>3, <2>4
  <2>9. RecordInv'
    BY <2>1, <2>2, <2>3, <2>4
  <2>10. LoginInv'
    BY <2>1, <2>2, <2>3, <2>4
  <2>11. GivesUpExhausted'
    BY <2>1, <2>2, <2>3, <2>4
  <2> QED
    BY <2>5, <2>6, <2>7, <2>8, <2>9, <2>10, <2>11
<1>17. CASE AskByparr
  <2>1. UNCHANGED <<task, engine, page, result>> /\ call.stage = "post"
    BY <1>17 DEF AskByparr
  <2>2. ASSUME NEW error \in {"antibot", "library"}, Raises(error, "returned")
        PROVE  SolveInv'
    BY <2>1, <2>2, FailurePreserves
  <2>3. CASE Raises("none", "returned")
    <3>1. call'.error = "none" /\ call'.stage = "returned" /\ call'.attempt = call.attempt
      BY <2>3 DEF Raises
    <3>2. call' = [call EXCEPT !.error = "none", !.stage = "returned"]
      BY <2>3 DEF Raises
    <3>3. SolveTypeOK'
      <4>1. call' \in [stage : Stages, attempt : 1..MaxCrashAttempts,
                  scrolls : 0..(MaxScrolls - 1), error : Errors]
        BY <3>2
      <4> QED
        BY <2>1, <3>1, <3>2, <4>1
    <3>4. BrowserInv'
      BY <2>1, <3>1, <3>2
    <3>5. ErrorInv'
      BY <2>1, <3>1, <3>2
    <3>6. CountInv'
      BY <2>1, <3>1, <3>2
    <3>7. RecordInv'
      BY <2>1, <3>1, <3>2
    <3>8. LoginInv'
      BY <2>1, <3>1, <3>2
    <3>9. GivesUpExhausted'
      BY <2>1, <3>1, <3>2
    <3> QED
      BY <3>3, <3>4, <3>5, <3>6, <3>7, <3>8, <3>9
  <2> QED
    BY <1>17, <2>2, <2>3 DEF AskByparr
<1>18. CASE Retry
  <2>1. call.stage = "returned" /\ engine.process = "none"
    BY <1>18 DEF Retry
  <2>2. engine' = [process |-> "none", crashed |-> FALSE, died |-> FALSE]
    BY <1>18, <2>1 DEF Retry, FreshEngine
  <2>3. UNCHANGED <<task, page>> /\ call.error = "crash" /\ call.attempt < MaxCrashAttempts
    BY <1>18 DEF Retry, Retries
  <2>4. call' = [stage |-> "launch", attempt |-> call.attempt + 1, scrolls |-> 0,
                 error |-> "none"]
    BY <1>18 DEF Retry
  <2>5. result' = [login |-> "none", html |-> "blank", status |-> "blank",
                   recordings |-> result.recordings]
    BY <1>18 DEF Retry, NoResult
  <2> QED
    BY <2>1, <2>2, <2>3, <2>4, <2>5
<1>19. CASE Return
  BY <1>19 DEF Return, Retries, Goes
<1>20. CASE EngineDies
  BY <1>20 DEF EngineDies
<1>21. CASE LoginAnswered
  <2>1. UNCHANGED <<task, call, engine, result>> /\ page.post = "sent"
    BY <1>21 DEF LoginAnswered, PageChanges
  <2>2. \/ page' = [shown |-> page.shown, answer |-> "account", post |-> "accepted"]
        \/ page' = [shown |-> page.shown, answer |-> "refused", post |-> "refused"]
    BY <1>21 DEF LoginAnswered, PageChanges
  <2>3. result.login # "failed"
    BY <2>1
  <2>4. SolveTypeOK'
    <3>1. page' \in [shown : Documents, answer : Documents,
                 post : {"none", "sent", "accepted", "refused", "aborted"}]
      BY <2>2 DEF Refusals
    <3> QED
      BY <2>1, <2>2, <2>3, <3>1
  <2>5. BrowserInv'
    BY <2>1, <2>2, <2>3
  <2>6. ErrorInv'
    BY <2>1, <2>2, <2>3
  <2>7. CountInv'
    BY <2>1, <2>2, <2>3
  <2>8. RecordInv'
    BY <2>1, <2>2, <2>3
  <2>9. LoginInv'
    BY <2>1, <2>2, <2>3
  <2>10. GivesUpExhausted'
    BY <2>1, <2>2, <2>3
  <2> QED
    BY <2>4, <2>5, <2>6, <2>7, <2>8, <2>9, <2>10
<1>22. CASE ChallengePassed
  BY <1>22 DEF ChallengePassed, PageChanges
<1>23. CASE AnswerShown
  <2>1. /\ UNCHANGED <<task, call, engine, result>>
        /\ page' = [page EXCEPT !.shown = page.answer]
    BY <1>23 DEF AnswerShown, PageChanges
  <2>2. /\ page'.shown = page.answer /\ page'.answer = page.answer
        /\ page'.post = page.post
    BY <2>1
  <2> QED
    BY <2>1, <2>2
<1>24. CASE UNCHANGED solveVars
  BY <1>24 DEF solveVars
<1> QED
  BY <1>1, <1>2, <1>3, <1>4, <1>5, <1>6, <1>7, <1>8, <1>9, <1>10, <1>11, <1>12,
     <1>13, <1>14, <1>15, <1>16, <1>17, <1>18, <1>19, <1>20, <1>21, <1>22, <1>23, <1>24,
     <1>9a, <1>9b, <1>9c
  DEF SolveNext, SolveStep

\* The types, and the strengthening of the properties below.
\* (_default_camoufox_solve, _default_patchright_solve and their callers.)
THEOREM SolveInvariant == SolveSpec => []SolveInv
BY SolveInvInit, SolveInvNext, PTL DEF SolveSpec

\* The types hold; in particular an attempt records at most once.
THEOREM SolveTypeCorrect == SolveSpec => []SolveTypeOK
<1>1. SolveInv => SolveTypeOK
  BY DEF SolveInv
<1> QED
  BY <1>1, SolveInvariant, PTL

\* An attempt never leaves a browser behind, wherever it fails.
\* (The nested finally clauses of the two drivers.)
THEOREM NoBrowserStays == SolveSpec => []NoBrowserLeft
<1>1. SolveInv => NoBrowserLeft
  BY DEF SolveInv, BrowserInv, Outside, NoBrowserLeft
<1> QED
  BY <1>1, SolveInvariant, PTL

\* A session is recorded once, by a solve that succeeds, whatever fails or is
\* retried.  (record_new_session at the end of an attempt.)
THEOREM OnlySuccessesRecorded == SolveSpec => []RecordedOnlyOnSuccess
<1>1. SolveInv => RecordedOnlyOnSuccess
  BY DEF SolveInv, RecordInv, RecordedOnlyOnSuccess
<1> QED
  BY <1>1, SolveInvariant, PTL

\* A crash ends a solve only in its last attempt.
\* (The loop of CamoufoxProvider.solve and PatchrightProvider.solve.)
THEOREM CrashesUseUpAttempts == SolveSpec => []GivesUpExhausted
<1>1. SolveInv => GivesUpExhausted
  BY DEF SolveInv
<1> QED
  BY <1>1, SolveInvariant, PTL

\* After a refused login nothing else is visited, and the solution has the
\* refusal's status and shows the refusal, or still the form.
\* (perform_login_and_navigate.)
THEOREM RefusalIsTheAnswer == SolveSpec => []RefusedLoginStaysOut
<1>1. SolveInv => RefusedLoginStaysOut
  BY DEF SolveInv, ErrorInv, LoginInv, RefusedLoginStaysOut
<1> QED
  BY <1>1, SolveInvariant, PTL
-----------------------------------------------------------------------------
(* Crashes.                                                                *)

\* An engine that died was seen to, and an attempt that has not launched its
\* browser has none that did.
DiedInv ==
  /\ engine.died => engine.crashed
  /\ call.stage \in {"post", "launch"} => ~engine.died

\* The steps that decide of an error, of a new engine, or of its death.
Deciding == Launch \/ LaunchFails \/ ExtractionRefused \/ BrowserCallFails \/ StopTrace
            \/ CloseBrowser \/ AskByparr \/ Retry \/ EngineDies

\* Every other step leaves engine and error alone and goes on to no launch.
LEMMA OtherSteps ==
  ASSUME SolveTypeOK, [SolveNext]_solveVars, ~Deciding
  PROVE  /\ UNCHANGED engine
         /\ call'.error = call.error
         /\ call' = call \/ call'.stage \notin {"post", "launch"}
<1> USE DEF SolveTypeOK, Goes, Proceeds
<1>1. CASE Open \/ WarmUp \/ SubmitLogin \/ VisitProbe \/ Settle \/ Extract
  BY <1>1 DEF Open, WarmUp, SubmitLogin, VisitProbe, Settle, Extract, AfterOpen, AfterWarmUp
<1>2. CASE JudgeLogin
  BY <1>2 DEF JudgeLogin, AfterLogin
<1>3. CASE VisitTarget
  BY <1>3 DEF VisitTarget
<1>4. CASE Scroll
  <2>1. \/ call' = [call EXCEPT !.scrolls = call.scrolls + 1]
        \/ call' = [call EXCEPT !.scrolls = 0, !.stage = AfterScroll]
    BY <1>4 DEF Scroll
  <2>2. call.stage = "scroll" /\ UNCHANGED engine
    BY <1>4 DEF Scroll
  <2>3. AfterScroll \in {"read", "extract", "response"}
    BY DEF AfterScroll
  <2> QED BY <2>1, <2>2, <2>3
<1>5. CASE Collect
  BY <1>5 DEF Collect
<1>6. CASE ReadResponse
  BY <1>6 DEF ReadResponse
<1>7. CASE ReadPage
  BY <1>7 DEF ReadPage, AfterDriving
<1>8. CASE Record
  BY <1>8 DEF Record, AfterDriving
<1>9. CASE Return
  BY <1>9 DEF Return
<1>10. CASE LoginAnswered \/ ChallengePassed \/ AnswerShown
  BY <1>10 DEF LoginAnswered, ChallengePassed, AnswerShown, PageChanges
<1>11. CASE UNCHANGED solveVars
  BY <1>11 DEF solveVars
<1> QED
  BY <1>1, <1>2, <1>3, <1>4, <1>5, <1>6, <1>7, <1>8, <1>9, <1>10, <1>11
  DEF Deciding, SolveNext, SolveStep

LEMMA DiedInvNext == SolveInv /\ DiedInv /\ [SolveNext]_solveVars => DiedInv'
<1> SUFFICES ASSUME SolveInv, DiedInv, [SolveNext]_solveVars PROVE DiedInv'
  OBVIOUS
<1>0. SolveTypeOK /\ BrowserInv
  BY DEF SolveInv
<1>1. CASE Launch
  BY <1>1 DEF Launch, DiedInv, FreshEngine
<1>2. CASE LaunchFails \/ ExtractionRefused \/ BrowserCallFails
  <2>1. UNCHANGED engine
    BY <1>2 DEF LaunchFails, ExtractionRefused, BrowserCallFails
  <2>2. call'.stage \in {"returned", "stop_trace", "close"}
    BY <1>0, <1>2 DEF LaunchFails, ExtractionRefused, BrowserCallFails, Raises, AfterDriving,
                      SolveTypeOK
  <2> QED BY <2>1, <2>2 DEF DiedInv
<1>3. CASE StopTrace
  BY <1>0, <1>3 DEF StopTrace, Goes, Raises, SolveTypeOK, DiedInv
<1>4. CASE CloseBrowser
  <2>1. /\ engine'.died = engine.died
        /\ engine.crashed => engine'.crashed
        /\ call'.stage = "returned"
    BY <1>0, <1>4 DEF CloseBrowser, Raises, SolveTypeOK
  <2> QED BY <2>1 DEF DiedInv
<1>5. CASE AskByparr
  BY <1>0, <1>5 DEF AskByparr, Raises, SolveTypeOK, DiedInv
<1>6. CASE Retry
  BY <1>6 DEF Retry, FreshEngine, DiedInv
<1>7. CASE EngineDies
  BY <1>0, <1>7 DEF EngineDies, DiedInv, BrowserInv, Outside
<1>8. CASE ~Deciding
  BY <1>0, <1>8, OtherSteps DEF DiedInv
<1> QED BY <1>1, <1>2, <1>3, <1>4, <1>5, <1>6, <1>7, <1>8 DEF Deciding

\* An engine's death is known before an error is judged by it, whichever
\* driver catches the error and whichever call fails
\* (_classify_solve_exception and the handlers of crash and disconnected).
THEOREM CrashesAreNotBlamed == SolveSpec => CrashNotBlamedOnTarget
<1>1. SolveInit => DiedInv
  BY DEF SolveInit, DiedInv, FreshEngine
<1>2. SolveInv /\ DiedInv /\ [SolveNext]_solveVars =>
        [call'.error = "antibot" /\ call.error # "antibot" => ~engine.died]_solveVars
  <2> SUFFICES ASSUME SolveInv, DiedInv, [SolveNext]_solveVars,
                      call'.error = "antibot", call.error # "antibot", engine.died
               PROVE  FALSE
    OBVIOUS
  <2>0. SolveTypeOK /\ engine.crashed = TRUE /\ call.stage \notin {"post", "launch"}
    BY DEF SolveInv, DiedInv, SolveTypeOK
  <2>1. CASE Launch \/ LaunchFails \/ AskByparr
    BY <2>0, <2>1 DEF Launch, LaunchFails, AskByparr
  <2>2. CASE ExtractionRefused \/ StopTrace \/ Retry
    <3>1. CASE ExtractionRefused
      BY <2>0, <3>1 DEF ExtractionRefused, Raises, SolveTypeOK
    <3>2. CASE StopTrace
      BY <2>0, <3>2 DEF StopTrace, Goes, Raises, SolveTypeOK
    <3>3. CASE Retry
      BY <3>3 DEF Retry
    <3> QED BY <2>2, <3>1, <3>2, <3>3
  <2>3. CASE BrowserCallFails
    <3>1. call'.error = Caught(call.stage)
      BY <2>0, <2>3 DEF BrowserCallFails, Raises, SolveTypeOK
    <3>2. Caught(call.stage) \in {"render", "crash", "library"}
      BY <2>0 DEF Caught, Classified
    <3> QED BY <3>1, <3>2
  <2>4. CASE CloseBrowser
    <3>1. call'.error \in {"crash", call.error}
      BY <2>0, <2>4 DEF CloseBrowser, Raises, Classified, SolveTypeOK
    <3> QED BY <3>1
  <2>5. CASE EngineDies
    BY <2>5 DEF EngineDies
  <2>6. CASE ~Deciding
    BY <2>0, <2>6, OtherSteps
  <2> QED BY <2>1, <2>2, <2>3, <2>4, <2>5, <2>6 DEF Deciding
<1> QED
  BY <1>1, <1>2, SolveInvariant, DiedInvNext, PTL DEF SolveSpec, CrashNotBlamedOnTarget
-----------------------------------------------------------------------------
(* How far an attempt is from its end.                                     *)

StageRank(stage) ==
  CASE stage = "launch"     -> 20
    [] stage = "open"       -> 19
    [] stage = "warm"       -> 18
    [] stage = "login"      -> 17
    [] stage = "submitted"  -> 16
    [] stage = "probe"      -> 15
    [] stage = "target"     -> 14
    [] stage = "settle"     -> 13
    [] stage = "scroll"     -> 12
    [] stage = "extract"    -> 11
    [] stage = "response"   -> 10
    [] stage = "read"       -> 9
    [] stage = "record"     -> 8
    [] stage = "stop_trace" -> 7
    [] stage = "close"      -> 6
    [] stage = "post"       -> 6
    [] stage = "returned"   -> 5
    [] OTHER                -> 0

\* The rounds of scrolling are before whoever has not yet scrolled.
StepsLeft(c) ==
  StageRank(c.stage) +
    (IF StageRank(c.stage) > 12 THEN MaxScrolls
     ELSE IF c.stage = "scroll" THEN MaxScrolls - c.scrolls
     ELSE 0)

Calls == [stage : Stages, attempt : 1..MaxCrashAttempts, scrolls : 0..(MaxScrolls - 1),
          error : Errors]

\* A step to a later stage.
LEMMA LaterIsCloser ==
  ASSUME NEW c \in Calls, NEW d \in Calls, StageRank(d.stage) < StageRank(c.stage)
  PROVE  StepsLeft(d) < StepsLeft(c)
<1>1. /\ StageRank(c.stage) \in Nat /\ StageRank(d.stage) \in Nat
      /\ c.scrolls \in 0..(MaxScrolls - 1) /\ d.scrolls \in 0..(MaxScrolls - 1)
      /\ MaxScrolls \in Nat \ {0}
  BY SolveAssumption DEF Calls, StageRank
<1>2. /\ c.stage = "scroll" => StageRank(c.stage) = 12
      /\ d.stage = "scroll" => StageRank(d.stage) = 12
  BY DEF StageRank
<1> QED BY <1>1, <1>2 DEF StepsLeft

\* The steps that go to a later stage of the same attempt: all but the loops.
Onward ==
  \/ Launch \/ LaunchFails \/ Open \/ WarmUp
  \/ SubmitLogin \/ JudgeLogin \/ VisitProbe \/ VisitTarget
  \/ Settle \/ Collect \/ Extract \/ ExtractionRefused \/ ReadResponse \/ ReadPage \/ Record
  \/ BrowserCallFails \/ StopTrace \/ CloseBrowser \/ AskByparr \/ Return

LEMMA OnwardIsLater ==
  ASSUME SolveInv, Onward
  PROVE  call'.attempt = call.attempt /\ StageRank(call'.stage) < StageRank(call.stage)
<1>1. call \in Calls
  BY DEF SolveInv, SolveTypeOK, Calls
<1>2. \A from, to : Proceeds(from, to) =>
        call.stage = from /\ call'.stage = to /\ call'.attempt = call.attempt
  BY <1>1 DEF Proceeds, Goes, Calls
<1>3. /\ \A to : Goes(to) => call'.stage = to /\ call'.attempt = call.attempt
      /\ \A error, to : Raises(error, to) => call'.stage = to /\ call'.attempt = call.attempt
  BY <1>1 DEF Goes, Raises, Calls
<1>4. CASE Launch \/ LaunchFails \/ AskByparr \/ Return
  BY <1>3, <1>4 DEF Launch, LaunchFails, AskByparr, Return, StageRank
<1>5. CASE Open \/ WarmUp
  BY <1>2, <1>5 DEF Open, WarmUp, AfterOpen, AfterWarmUp, StageRank
<1>6. CASE SubmitLogin \/ JudgeLogin
  BY <1>2, <1>6 DEF SubmitLogin, JudgeLogin, AfterLogin, StageRank
<1>7. CASE VisitProbe \/ VisitTarget \/ Settle
  BY <1>2, <1>7 DEF VisitProbe, VisitTarget, Settle, StageRank
<1>8. CASE Collect \/ Extract
  BY <1>2, <1>8 DEF Collect, Extract, StageRank
<1>9. CASE ReadPage
  BY <1>2, <1>9 DEF ReadPage, AfterDriving, StageRank
<1>10. CASE ExtractionRefused \/ ReadResponse \/ Record
  BY <1>3, <1>10 DEF ExtractionRefused, ReadResponse, Record, AfterDriving, StageRank
<1>11. CASE BrowserCallFails
  <2>1. call'.stage \in {"stop_trace", "close"} /\ call'.attempt = call.attempt
    BY <1>3, <1>11 DEF BrowserCallFails, AfterDriving
  <2>2. call.stage \in Browsing
    BY <1>11 DEF BrowserCallFails
  <2> QED BY <2>1, <2>2 DEF Browsing, Driving, StageRank
<1>12. CASE StopTrace \/ CloseBrowser
  <2>1. \/ call.stage = "stop_trace" /\ call'.stage = "close"
        \/ call.stage = "close" /\ call'.stage = "returned"
    BY <1>3, <1>12 DEF StopTrace, CloseBrowser
  <2>2. call'.attempt = call.attempt
    BY <1>3, <1>12 DEF StopTrace, CloseBrowser
  <2> QED BY <2>1, <2>2 DEF StageRank
<1> QED BY <1>4, <1>5, <1>6, <1>7, <1>8, <1>9, <1>10, <1>11, <1>12 DEF Onward
\* The loop over attempts, and the stages and rounds of scrolling in each,
\* only go forward, whatever the engine and its pages do in between: a solve
\* makes at most MaxCrashAttempts times 20 + MaxScrolls steps.  What is left
\* to fairness is that a call on the browser returns (solve of both browser
\* providers; scroll_to_load_lazy_content).
THEOREM SolveApproachesItsEnd ==
  SolveSpec =>
    [][/\ call.attempt \in 1..MaxCrashAttempts /\ StepsLeft(call) \in 0..(20 + MaxScrolls)
       /\ SolveStep => \/ call'.attempt = call.attempt + 1
                       \/ call'.attempt = call.attempt /\ StepsLeft(call') < StepsLeft(call)
       /\ SolveStep \/ UNCHANGED call]_solveVars
<1>1. SolveInv => /\ call \in Calls /\ call.attempt \in 1..MaxCrashAttempts
                  /\ StepsLeft(call) \in 0..(20 + MaxScrolls)
  <2> SUFFICES ASSUME SolveInv
               PROVE  /\ call \in Calls /\ call.attempt \in 1..MaxCrashAttempts
                      /\ StepsLeft(call) \in 0..(20 + MaxScrolls)
    OBVIOUS
  <2>1. call \in Calls /\ call.attempt \in 1..MaxCrashAttempts
    BY DEF SolveInv, SolveTypeOK, Calls
  <2>2. StageRank(call.stage) \in 0..20 /\ call.scrolls \in 0..(MaxScrolls - 1)
    BY <2>1 DEF StageRank, Calls
  <2> QED BY <2>1, <2>2, SolveAssumption DEF StepsLeft
<1>2. ASSUME SolveInv, SolveInv', SolveStep
      PROVE  \/ call'.attempt = call.attempt + 1
             \/ call'.attempt = call.attempt /\ StepsLeft(call') < StepsLeft(call)
  <2>1. call \in Calls /\ call' \in Calls
    BY <1>1, <1>2 DEF SolveInv, SolveTypeOK, Calls
  <2>2. CASE Onward
    BY <1>2, <2>1, <2>2, OnwardIsLater, LaterIsCloser
  <2>3. CASE Retry
    BY <2>3 DEF Retry
  <2>4. CASE Scroll
    <3>1. call.stage = "scroll"
      BY <2>4 DEF Scroll
    <3>2. CASE call' = [call EXCEPT !.scrolls = @ + 1]
      <4>1. /\ call'.stage = call.stage /\ call'.attempt = call.attempt
            /\ call'.scrolls = call.scrolls + 1 /\ call.scrolls \in Nat
        BY <2>1, <3>2 DEF Calls
      <4>2. StageRank(call.stage) = 12
        BY <3>1 DEF StageRank
      <4> QED BY <3>1, <4>1, <4>2, SolveAssumption DEF StepsLeft
    <3>3. CASE call' = [call EXCEPT !.scrolls = 0, !.stage = AfterScroll]
      <4>1. call'.stage = AfterScroll /\ call'.attempt = call.attempt
        BY <2>1, <3>3 DEF Calls
      <4>2. StageRank(call'.stage) < StageRank(call.stage)
        BY <3>1, <4>1 DEF StageRank, AfterScroll
      <4> QED BY <2>1, <4>1, <4>2, LaterIsCloser
    <3> QED BY <2>4, <3>2, <3>3 DEF Scroll
  <2> QED BY <1>2, <2>2, <2>3, <2>4 DEF SolveStep, Onward
<1>3. ASSUME [SolveNext]_solveVars PROVE SolveStep \/ UNCHANGED call
  BY <1>3 DEF SolveNext, EngineDies, LoginAnswered, ChallengePassed, AnswerShown, PageChanges,
              solveVars
<1>4. SolveInv /\ SolveInv' /\ [SolveNext]_solveVars =>
        [/\ call.attempt \in 1..MaxCrashAttempts /\ StepsLeft(call) \in 0..(20 + MaxScrolls)
         /\ SolveStep => \/ call'.attempt = call.attempt + 1
                         \/ call'.attempt = call.attempt /\ StepsLeft(call') < StepsLeft(call)
         /\ SolveStep \/ UNCHANGED call]_solveVars
  BY <1>1, <1>2, <1>3
<1> QED BY <1>4, SolveInvariant, PTL DEF SolveSpec
=============================================================================
