--------------------------- MODULE MemoryLimiter ---------------------------
(***************************************************************************)
(* ipRateLimiter: the rate limiter in memory.  allow and cleanup run under   *)
(* the mutex from their first read to their last write, the reading of the   *)
(* clock included, so each of them is one step.                             *)
(***************************************************************************)
EXTENDS RateWindow

CONSTANT IPs

VARIABLES
    visitors,   \* the addresses in the map
    requests,   \* the requests kept for each of them
    lastClean,  \* when they were last filtered
    granted,    \* history: the requests let in
    refusedAt   \* history: when each of them was last refused, or Never

memory == <<visitors, requests, lastClean, granted, refusedAt>>
memoryVars == <<memory, now>>

Never == -1

MemoryInit ==
    /\ visitors = {}
    /\ requests = [ip \in IPs |-> {}] /\ lastClean = [ip \in IPs |-> 0]
    /\ now = 0 /\ granted = [ip \in IPs |-> {}]
    /\ refusedAt = [ip \in IPs |-> Never]

\* Requests made at the same moment are told apart by a number.
Request(ip) == [at |-> now, number |-> Cardinality(granted[ip])]

Grant(ip, kept) ==
    /\ Cardinality(granted[ip]) < MaxRequests
    /\ requests' = [requests EXCEPT ![ip] = kept \cup {Request(ip)}]
    /\ granted' = [granted EXCEPT ![ip] = @ \cup {Request(ip)}]
    /\ UNCHANGED refusedAt

Reject(ip, kept) ==
    /\ requests' = [requests EXCEPT ![ip] = kept]
    /\ refusedAt' = [refusedAt EXCEPT ![ip] = now]
    /\ UNCHANGED granted

\* Mutant: the cutoff is kept in place of the time.
AllowNewBug(ip) ==
    /\ ip \notin visitors
    /\ visitors' = visitors \cup {ip}
    /\ lastClean' = [lastClean EXCEPT ![ip] = now - Window]
    /\ Grant(ip, {})
    /\ UNCHANGED now

\* The first request of an address that is not in the map is never refused.
AllowNew(ip) ==
    /\ ip \notin visitors
    /\ visitors' = visitors \cup {ip}
    /\ lastClean' = [lastClean EXCEPT ![ip] = now]
    /\ Grant(ip, {})
    /\ UNCHANGED now

\* Mutant: requests are kept as long as cleanup keeps addresses.
RecentBug(ip) == Since(requests[ip], now - Window * CleanupMultiplier)

Recent(ip) == Since(requests[ip], now - Window)

AllowKnown(ip) ==
    /\ ip \in visitors
    /\ lastClean' = [lastClean EXCEPT ![ip] = now]
    /\ IF Cardinality(Recent(ip)) >= RequestsPerIP
       THEN Reject(ip, Recent(ip))
       ELSE Grant(ip, Recent(ip))
    /\ UNCHANGED <<visitors, now>>

\* Mutant: an address is forgotten while its last request is in the window.
StaleBug(ip) == now - lastClean[ip] >= Window - 1

Stale(ip) == now - lastClean[ip] > Window * CleanupMultiplier

CleanupMemory ==
    /\ \E ip \in visitors : Stale(ip)
    /\ visitors' = {ip \in visitors : ~Stale(ip)}
    /\ requests' = [ip \in IPs |-> IF ip \in visitors' THEN requests[ip] ELSE {}]
    /\ UNCHANGED <<lastClean, now, granted, refusedAt>>

MemoryNext ==
    \/ \E ip \in IPs : AllowNew(ip) \/ AllowKnown(ip)
    \/ CleanupMemory
    \/ Tick /\ UNCHANGED memory

MemorySpec == MemoryInit /\ [][MemoryNext]_memoryVars

-----------------------------------------------------------------------------
MemoryTypeOK ==
    /\ visitors \subseteq IPs
    /\ now \in Nat /\ lastClean \in [IPs -> Nat]
    /\ requests \in [IPs -> SUBSET [at : Nat, number : Nat]]
    /\ granted \in [IPs -> SUBSET [at : Nat, number : Nat]]
    /\ refusedAt \in [IPs -> Nat \cup {Never}]

(***************************************************************************)
(* No address gets more requests through than the limit in any window,      *)
(* whatever cleanup has forgotten of it.                                    *)
(***************************************************************************)
MemoryWindowKept == \A ip \in IPs : LimitKept(granted[ip])

(***************************************************************************)
(* And the limiter is not stricter than that: it refuses a request only when *)
(* the window that ends with it is full of requests it has let in; neither   *)
(* what is kept from earlier windows nor a refused request is held against   *)
(* an address.                                                              *)
(***************************************************************************)
RefusedOnlyWhenFull ==
    \A ip \in IPs :
        refusedAt[ip] # Never
        => Cardinality(Within(granted[ip], refusedAt[ip])) >= RequestsPerIP
=============================================================================
