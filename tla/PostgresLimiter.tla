--------------------------- MODULE PostgresLimiter ---------------------------
(***************************************************************************)
(* postgresRateLimiter, for one IP address: requests that run at once in any *)
(* number of processes, the transaction each of them makes under an advisory *)
(* lock of the address, and the cleanup of old rows.  A request takes its    *)
(* time before it waits for the lock, so it may judge and record with a time *)
(* that is past; rateLimitDBTimeout bounds by how much.  The processes read   *)
(* their own clocks: each is some ticks ahead of the slowest, which is now.   *)
(*                                                                         *)
(* PostgreSQL (external) gives the lock to one transaction at a time and     *)
(* frees it after the rows of a commit are visible; under READ COMMITTED     *)
(* the COUNT sees every row committed before it runs.                       *)
(***************************************************************************)
EXTENDS RateWindow

CONSTANTS
    Workers,    \* the goroutines that serve requests
    None,
    DBTimeout,  \* rateLimitDBTimeout, in ticks
    Skew        \* bound: how far the clocks of two processes are apart

ASSUME WorkersAssumption == None \notin Workers
ASSUME TimeoutAssumption == DBTimeout \in Nat /\ Skew \in Nat

VARIABLES
    table,     \* rate_limit_requests
    lock,      \* the worker whose transaction holds the advisory lock
    pc, stamp, \* of each worker: where it is, and the time of its request
    ahead,     \* by how much the clock of its process is ahead
    recorded,  \* history: every request ever recorded
    failed     \* history: every request let in without a row, because a step failed

tables == <<table, lock, pc, stamp, ahead, recorded, failed>>
tableVars == <<tables, now>>

TableInit ==
    /\ table = {} /\ lock = None
    /\ pc = [w \in Workers |-> "idle"] /\ stamp = [w \in Workers |-> 0]
    /\ ahead \in [Workers -> 0 .. Skew]
    /\ now = 0 /\ recorded = {} /\ failed = {}

-----------------------------------------------------------------------------
GoTo(w, label) == pc' = [pc EXCEPT ![w] = label]

Clock(w) == now + ahead[w]

\* The context of the request has not run out.
InTime(w) == Clock(w) - stamp[w] <= DBTimeout

Counted(w) == Since(table, stamp[w] - Window)

\* Mutant: the cutoff is kept in place of the time.
ArriveBug(w) ==
    /\ pc[w] = "idle" /\ GoTo(w, "lock")
    /\ stamp' = [stamp EXCEPT ![w] = Clock(w) - Window]
    /\ UNCHANGED <<table, lock, ahead, now, recorded, failed>>

Arrive(w) ==
    /\ pc[w] = "idle" /\ GoTo(w, "lock")
    /\ stamp' = [stamp EXCEPT ![w] = Clock(w)]
    /\ UNCHANGED <<table, lock, ahead, now, recorded, failed>>

\* Mutant: the lock is not waited for.
LockBug(w) ==
    /\ pc[w] = "lock" /\ InTime(w)
    /\ lock' = w /\ GoTo(w, "count")
    /\ UNCHANGED <<table, stamp, ahead, now, recorded, failed>>

Lock(w) ==
    /\ pc[w] = "lock" /\ InTime(w)
    /\ lock = None /\ lock' = w
    /\ GoTo(w, "count")
    /\ UNCHANGED <<table, stamp, ahead, now, recorded, failed>>

\* The end of the transaction, by Commit or by the deferred Rollback.
EndTx(w) == lock' = IF lock = w THEN None ELSE lock

Return(w) == GoTo(w, "idle") /\ stamp' = [stamp EXCEPT ![w] = 0]

Refuse(w) ==
    /\ pc[w] = "count" /\ InTime(w)
    /\ Cardinality(Counted(w)) >= RequestsPerIP
    /\ EndTx(w) /\ Return(w)
    /\ UNCHANGED <<table, ahead, now, recorded, failed>>

Count(w) ==
    /\ pc[w] = "count" /\ InTime(w)
    /\ Cardinality(Counted(w)) < RequestsPerIP
    /\ GoTo(w, "insert")
    /\ UNCHANGED <<table, lock, stamp, ahead, now, recorded, failed>>

LetIn == recorded \cup failed

At(t) == {r \in LetIn : r.at = t}

\* A request that is let in; the id tells requests of the same time apart.
Row(w) == [at |-> stamp[w], id |-> Cardinality(At(stamp[w]))]

Record(w) ==
    /\ Cardinality(LetIn) < MaxRequests
    /\ table' = table \cup {Row(w)} /\ recorded' = recorded \cup {Row(w)}
    /\ UNCHANGED failed

LeaveNoRow(w) ==
    /\ Cardinality(LetIn) < MaxRequests
    /\ failed' = failed \cup {Row(w)}
    /\ UNCHANGED <<table, recorded>>

\* INSERT and Commit: the row shows with the commit.
Commit(w) ==
    /\ pc[w] = "insert" /\ InTime(w)
    /\ Record(w) /\ EndTx(w) /\ Return(w)
    /\ UNCHANGED <<ahead, now>>

\* Any statement fails, or the time is up: the request is let in.  Only of a
\* commit is it unknown what became of the row.
FailOpen(w) ==
    /\ pc[w] # "idle"
    /\ \/ LeaveNoRow(w)
       \/ pc[w] = "insert" /\ InTime(w) /\ Record(w)
    /\ EndTx(w) /\ Return(w)
    /\ UNCHANGED <<ahead, now>>

\* Mutant: rows are deleted as soon as they leave the window of the clock.
CleanupTableBug ==
    /\ \E d \in 0 .. Skew : table' = {r \in table : r.at >= now + d - Window}
    /\ UNCHANGED <<lock, pc, stamp, ahead, now, recorded, failed>>

\* cleanup deletes what is older than two windows by the clock of its process.
CleanupTable ==
    /\ \E d \in 0 .. Skew :
        table' = {r \in table : r.at >= now + d - Window * CleanupMultiplier}
    /\ UNCHANGED <<lock, pc, stamp, ahead, now, recorded, failed>>

Allow(w) == Arrive(w) \/ Lock(w) \/ Refuse(w) \/ Count(w) \/ Commit(w) \/ FailOpen(w)

TableNext ==
    \/ \E w \in Workers : Allow(w)
    \/ CleanupTable
    \/ Tick /\ UNCHANGED tables

TableSpec == TableInit /\ [][TableNext]_tableVars

-----------------------------------------------------------------------------
TableTypeOK ==
    /\ table \subseteq recorded
    /\ LetIn \subseteq [at : Nat, id : Nat]
    /\ lock \in Workers \cup {None}
    /\ pc \in [Workers -> {"idle", "lock", "count", "insert"}]
    /\ stamp \in [Workers -> Nat] /\ ahead \in [Workers -> 0 .. Skew] /\ now \in Nat

(***************************************************************************)
(* The requests let in in any window are never more than the limit and, on   *)
(* top of it, those of the same window that a failed step let in without a   *)
(* row: though the requests judge with times that lie behind the clock, out  *)
(* of order and read off different clocks, though cleanup deletes rows       *)
(* between a COUNT and its INSERT, and though a commit that reports an error *)
(* may have left its row.                                                   *)
(***************************************************************************)
TableWindowKept ==
    \A r \in LetIn :
        Cardinality(Within(LetIn, r.at)) <= RequestsPerIP + Cardinality(Within(failed, r.at))

(***************************************************************************)
(* The transactions of an address exclude one another from the COUNT to the  *)
(* commit, and the lock is free whenever none is under way.                 *)
(***************************************************************************)
OneAtATime == \A w \in Workers : pc[w] \in {"count", "insert"} <=> lock = w
=============================================================================
