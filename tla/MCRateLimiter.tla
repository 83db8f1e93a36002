--------------------------- MODULE MCRateLimiter ---------------------------
(* A small instance of RateLimiter for TLC: a target and an account, and    *)
(* requests that belong to the target alone or also to the account.         *)
EXTENDS RateLimiter

MCScopes == {"t1", "acc"}

MCLevelOf == [s \in MCScopes |-> IF s = "acc" THEN "account" ELSE "target"]

\* A target without login has no account key: its requests skip that level.
MCPresentable == {{"t1"}, {"t1", "acc"}}

MCMaxRequests == [target |-> 3, account |-> 1]

MCWindow == [target |-> 4, account |-> 2]
=============================================================================
