------------------------- MODULE ResponseClassifier -------------------------
(***************************************************************************)
(* The protection classifier (src/response_classifier.py): how a response  *)
(* already known to be a rejection (401, 403, 407, 429) is named, and what *)
(* the circuit breaker is told to do about it.                             *)
(*                                                                         *)
(* A response is reduced to the three facts classify_response reads: does  *)
(* it carry one of the known blocking headers, is its body blank, does its *)
(* body contain one of the known challenge markers.                        *)
(***************************************************************************)

Patterns == {"header-fingerprinted", "silent-block", "challenge-page", "unrecognized"}

Strategies == {"immediate-long-backoff", "try-antibot-provider", "standard"}

\* The shapes a rejected response can have: a blank body holds no marker.
Shapes == { s \in [blockHeader : BOOLEAN, blank : BOOLEAN, marker : BOOLEAN] :
              ~(s.blank /\ s.marker) }

\* classify_response: a known header wins over the body, blank over marker.
Classify(s) ==
  CASE s.blockHeader                            -> "header-fingerprinted"
    [] ~s.blockHeader /\ s.blank                -> "silent-block"
    [] ~s.blockHeader /\ ~s.blank /\ s.marker   -> "challenge-page"
    [] ~s.blockHeader /\ ~s.blank /\ ~s.marker  -> "unrecognized"

\* DEFAULT_STRATEGY_FOR_PATTERN.
DefaultStrategy(pattern) ==
  CASE pattern = "silent-block"         -> "immediate-long-backoff"
    [] pattern = "challenge-page"       -> "try-antibot-provider"
    [] pattern = "header-fingerprinted" -> "standard"
    [] pattern = "unrecognized"         -> "standard"

\* strategy_for: the overrides first, then the default.
StrategyFor(pattern, overrides) ==
  IF pattern \in DOMAIN overrides THEN overrides[pattern]
                                  ELSE DefaultStrategy(pattern)
=============================================================================
