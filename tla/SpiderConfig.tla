---------------------------- MODULE SpiderConfig ----------------------------
(***************************************************************************)
(* A target's configuration (src/spiders/spider_config.py): the fields     *)
(* that decide how a crawl runs, and the validators that decide which      *)
(* combinations of them a spider is ever built with.                       *)
(*                                                                         *)
(* A selectors block is modelled by what the spider asks of it: whether it *)
(* is there, whether it reads rows or groups of slots (item_group_size),   *)
(* whether a JSON block names the two paths that paging needs.  Fields     *)
(* that only tune another component (rate_limit, render_js, ...) are left  *)
(* to the module of that component.                                        *)
(***************************************************************************)
CONSTANTS
  WarmUps,  \* the lists of warm_session_urls considered
  Starts    \* the lists of start_urls considered

BrowserProviders == {"camoufox", "patchright"}

\* Literal["byparr", "camoufox", "patchright"].
SpiderProviders == BrowserProviders \cup {"byparr"}

\* SelectorsConfig: absent, without item_group_size, or with it and then with
\* field offsets that all lie within a group, or not (nothing here looks).
Selectors == {"absent", "rows", "slots", "misfit"}

Grouped(c) == c.selectors \in {"slots", "misfit"}

\* JsonSelectorsConfig: absent, without or with the paths of cursor and flag.
JsonSelectors == {"absent", "single", "paged"}

\* LoginConfig: absent, or there with all its fields but the test probe.
Logins == BOOLEAN

Configs ==
  [response_format         : {"html", "json"},
   selectors               : Selectors,
   json_selectors          : JsonSelectors,
   next_page               : BOOLEAN,
   antibot_needed          : BOOLEAN,
   antibot_provider        : SpiderProviders,
   extraction_mode         : {"parsed_html", "live_dom"},
   progressive_extraction  : BOOLEAN,
   login                   : Logins,
   use_accumulated_profile : BOOLEAN,
   warm_session_urls       : WarmUps,
   start_urls              : Starts]

OnBrowser(c) == c.antibot_needed /\ c.antibot_provider \in BrowserProviders
-----------------------------------------------------------------------------
(* The validators, in their order.                                         *)

ExactlyOneSelectorsBlockForFormat(c) ==
  \/ c.response_format = "html" /\ c.selectors # "absent" /\ c.json_selectors = "absent"
  \/ c.response_format = "json" /\ c.selectors = "absent" /\ c.json_selectors # "absent"

LiveDomRequiresARealBrowserProvider(c) ==
  c.extraction_mode = "live_dom" => c.response_format = "html" /\ OnBrowser(c)

\* A wrong variant: the provider is not looked at.
ProgressiveExtractionRequiresAntibot(c) ==
  c.progressive_extraction => c.response_format = "html" /\ c.antibot_needed

ProgressiveExtractionRequiresARealBrowserProvider(c) ==
  c.progressive_extraction => c.response_format = "html" /\ OnBrowser(c)

LoginRequiresARealBrowserProvider(c) == c.login => OnBrowser(c)

ItemGroupSizeNotYetSupportedWithLiveDomOrProgressive(c) ==
  Grouped(c) => c.extraction_mode # "live_dom" /\ ~c.progressive_extraction

UseAccumulatedProfileRequiresARealBrowserProvider(c) ==
  c.use_accumulated_profile => OnBrowser(c)

\* model_validate succeeds.
Accepted(c) ==
  /\ ExactlyOneSelectorsBlockForFormat(c)
  /\ LiveDomRequiresARealBrowserProvider(c)
  /\ ProgressiveExtractionRequiresARealBrowserProvider(c)
  /\ LoginRequiresARealBrowserProvider(c)
  /\ ItemGroupSizeNotYetSupportedWithLiveDomOrProgressive(c)
  /\ UseAccumulatedProfileRequiresARealBrowserProvider(c)

\* What only a provider with a browser of its own can do for a target.
NeedsBrowser(c) ==
  \/ c.extraction_mode = "live_dom"
  \/ c.progressive_extraction
  \/ c.login
  \/ c.use_accumulated_profile
=============================================================================
