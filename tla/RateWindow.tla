----------------------------- MODULE RateWindow -----------------------------
(***************************************************************************)
(* What both rate limiters of backend/server/middleware.go promise of the   *)
(* requests of one IP address: a request that was let in is a record whose   *)
(* field "at" is its time, and a window is a stretch of time of the length  *)
(* RATE_LIMIT_WINDOW_SECONDS, open at its old end.                          *)
(***************************************************************************)
EXTENDS Integers, FiniteSets

CONSTANTS
    RequestsPerIP,  \* RATE_LIMIT_REQUESTS_PER_IP
    Window,         \* RATE_LIMIT_WINDOW_SECONDS, in ticks
    MaxTime, MaxRequests

ASSUME WindowAssumption == RequestsPerIP \in Nat \ {0} /\ Window \in Nat \ {0}
ASSUME BoundsAssumption == MaxTime \in Nat /\ MaxRequests \in Nat

VARIABLE now   \* the clock

Tick == now < MaxTime /\ now' = now + 1

\* cleanupMultiplier
CleanupMultiplier == 2

Since(requests, cutoff) == {r \in requests : r.at > cutoff}

\* The requests of the window that ends at t.
Within(requests, t) == {q \in requests : t - Window < q.at /\ q.at <= t}

\* No window ends up with more requests than the limit.
LimitKept(requests) ==
    \A r \in requests : Cardinality(Within(requests, r.at)) <= RequestsPerIP
=============================================================================
