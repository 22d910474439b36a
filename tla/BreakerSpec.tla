---------------------------- MODULE BreakerSpec ----------------------------
(***************************************************************************)
(* What the breaker of one channel promises (docs/OPERATIONS.md, "Circuit   *)
(* Breaker"): it changes only by whole verdicts of processing cycles, and   *)
(* no cycle has a verdict while it is open.                                 *)
(***************************************************************************)
EXTENDS Circuit

VARIABLE breaker

Init == breaker = InitialBreaker

\* The cooldown is over: one cycle is let through to probe.
Probe == breaker.mode = "open" /\ ~Skips(breaker) /\ breaker' = Admit(breaker)

\* A cycle ends in a counted failure, or in a finished download.
Failure == breaker.mode # "open" /\ breaker' = Fail(breaker)
Success == breaker.mode # "open" /\ breaker' = Reset(breaker)

Time == breaker' = Cooled(breaker)

Next == Probe \/ Failure \/ Success \/ Time

Spec == Init /\ [][Next]_breaker
============================================================================
