---------------------------- MODULE RateLimiter ----------------------------
(***************************************************************************)
(* The rate limiter NewMux builds for the server: RATE_LIMIT_BACKEND chooses *)
(* the one with a table in PostgreSQL, which instances share, or the one in  *)
(* memory, which is also taken if the first cannot be built.  It stays the   *)
(* same for the life of the process.                                        *)
(***************************************************************************)
EXTENDS MemoryLimiter, PostgresLimiter

VARIABLE backend

vars == <<backend, memory, tables, now>>

Init == MemoryInit /\ TableInit /\ backend \in {"memory", "postgres"}

Next ==
    \/ backend = "memory" /\ MemoryNext /\ UNCHANGED <<backend, tables>>
    \/ backend = "postgres" /\ TableNext /\ UNCHANGED <<backend, memory>>

Spec == Init /\ [][Next]_vars

TypeOK == MemoryTypeOK /\ TableTypeOK /\ backend \in {"memory", "postgres"}
=============================================================================
