------------------------- MODULE MCDownloaderChain -------------------------
(* Small instances of DownloaderChain for TLC. *)
EXTENDS DownloaderChain, TLC

MCDefaultOverrides == << >>

MCMultipliers == {None, 2}

MCScopes == {"t1"}

MCLevelOf == [s \in MCScopes |-> "target"]

\* Requests that the target level counts, and a limiter without levels.
MCLimited == {MCScopes}
MCUnlimited == {{}}

MCMaxRequests == [target |-> 1]

MCWindow == [target |-> 2]

MCDomainOf == [r \in Requests |-> CHOOSE d \in Domains : TRUE]

MCScopesOf == [r \in Requests |-> CHOOSE S \in Presentable : TRUE]

\* A plain target, and one that needs a solver and is rendered when the
\* solver gives up.
MCPlain == [antibot |-> FALSE, provider |-> None, multiplier |-> None, playwright |-> FALSE]

MCPlainProfiles == {MCPlain}

MCSolvedProfiles ==
  {MCPlain, [MCPlain EXCEPT !.antibot = TRUE, !.provider = "camoufox", !.playwright = TRUE]}
=============================================================================
