-------------------------- MODULE RequestLifecycle --------------------------
(***************************************************************************)
(* What the downloader middlewares together promise about a request the    *)
(* spider yields: it is handed out, and after an unsuccessful turn may be  *)
(* put back to be handed out again, at the cost of one of a fixed number   *)
(* of reissues; it ends once, by an answer for which it was handed out or  *)
(* by being dropped.  Who refuses, retries or escalates it, and where it   *)
(* waits meanwhile, is left to DownloaderChain, which implements this.     *)
(***************************************************************************)
EXTENDS Naturals

CONSTANTS
  Requests,  \* the requests, each of which may be yielded again once it ended
  Reissues   \* how often one yielded request may be put back: a natural number

VARIABLES
  phase,     \* request -> where it is
  reissues   \* request -> how often it may still be put back

lifecycleVars == <<phase, reissues>>

Outcomes == {"idle", "delivered", "dropped"}

\* Request r goes from one phase to another, with n reissues left.
Goes(r, from, to, n) ==
  /\ phase[r] = from
  /\ phase' = [phase EXCEPT ![r] = to]
  /\ reissues' = [reissues EXCEPT ![r] = n]

Yield(r) == \E outcome \in Outcomes : Goes(r, outcome, "ready", Reissues)

HandOut(r) == Goes(r, "ready", "working", reissues[r])

PutBack(r) ==
  /\ reissues[r] > 0
  /\ Goes(r, "working", "ready", reissues[r] - 1)

Deliver(r) == Goes(r, "working", "delivered", 0)

\* A request may be refused before it is handed out.
Drop(r) == \E from \in {"ready", "working"} : Goes(r, from, "dropped", 0)

LifecycleInit ==
  /\ phase = [r \in Requests |-> "idle"]
  /\ reissues = [r \in Requests |-> 0]

LifecycleNext ==
  \E r \in Requests : Yield(r) \/ HandOut(r) \/ PutBack(r) \/ Deliver(r) \/ Drop(r)

LifecycleSpec == LifecycleInit /\ [][LifecycleNext]_lifecycleVars
=============================================================================
