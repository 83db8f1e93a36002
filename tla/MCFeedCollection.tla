-------------------------- MODULE MCFeedCollection --------------------------
(* Small instances of FeedCollection for TLC. *)
EXTENDS FeedCollection

\* Windows that cut batches down, keep posts of the batch before, and keep all.
MCWindows == {1, 3, 6}

\* Pages on which a turn of the wheel loads at most one batch, or two.
MCBursts == {1, 2}
=============================================================================
