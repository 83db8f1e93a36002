--------------------------- MODULE MCBrowserSolve ---------------------------
(* Small instances of BrowserSolve for TLC. *)
EXTENDS BrowserSolve

MCArguments(providers) ==
  [provider : providers, warm : BOOLEAN, login : BOOLEAN, probe : BOOLEAN, profile : BOOLEAN,
   progressive : BOOLEAN, live : BOOLEAN, odd : BOOLEAN, traced : BOOLEAN]

\* A probe belongs to a login, a field to the selectors of a live page.
MCDriving ==
  {t \in MCArguments(DrivingProviders) :
     /\ t.probe => t.login
     /\ t.odd => t.live
     /\ t.progressive => ~t.warm /\ ~t.traced
     /\ t.live => ~t.warm \/ ~t.probe}

\* The provider and the renderer that have none of the arguments.
MCPlain ==
  {t \in MCArguments({"byparr", "playwright"}) :
     ~(\/ t.warm \/ t.login \/ t.probe \/ t.profile
       \/ t.progressive \/ t.live \/ t.odd \/ t.traced)}

MCTasks == MCDriving \cup MCPlain
=============================================================================
