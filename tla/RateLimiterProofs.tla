-------------------------- MODULE RateLimiterProofs --------------------------
(***************************************************************************)
(* Theorems about the rate limiters: the one in memory, for every limit,      *)
(* every window and any set of addresses; the one in PostgreSQL, for every    *)
(* number of workers, every limit and every window that is not shorter than   *)
(* rateLimitDBTimeout and the distance of the processes' clocks together; and *)
(* the server's, which is one of the two.                                    *)
(***************************************************************************)
EXTENDS RateLimiter, FiniteSetTheorems, TLAPS

(***************************************************************************)
(* One more request keeps the limit of any window if fewer than the limit    *)
(* lie less than a window behind it, later ones counted in: it need not be   *)
(* the latest.                                                              *)
(***************************************************************************)
LEMMA AddKeepsWindow ==
    ASSUME NEW S, IsFiniteSet(S), \A r \in S : r.at \in Int,
           NEW x, x.at \in Int, NEW t \in Int,
           Cardinality(Within(S, t)) <= RequestsPerIP,
           Cardinality(Since(S, x.at - Window)) < RequestsPerIP
    PROVE  Cardinality(Within(S \cup {x}, t)) <= RequestsPerIP
<1> DEFINE recent == Since(S, x.at - Window)
<1> USE WindowAssumption
<1>1. recent \subseteq S /\ IsFiniteSet(recent) /\ Cardinality(recent) \in Nat
  BY FS_Subset, FS_CardinalityType DEF Since
<1>2. CASE t - Window < x.at /\ x.at <= t
  <2>1. Within(S \cup {x}, t) \subseteq recent \cup {x}
    BY <1>2 DEF Within, Since
  <2> HIDE DEF recent
  <2>2. IsFiniteSet(recent \cup {x})
        /\ Cardinality(recent \cup {x}) <= Cardinality(recent) + 1
    <3>1. /\ IsFiniteSet(recent \cup {x})
          /\ Cardinality(recent \cup {x})
             = IF x \in recent THEN Cardinality(recent) ELSE Cardinality(recent) + 1
      BY <1>1, FS_AddElement, Zenon
    <3> QED
      BY <3>1, <1>1
  <2>3. Cardinality(Within(S \cup {x}, t)) \in Nat
        /\ Cardinality(recent \cup {x}) \in Nat
        /\ Cardinality(Within(S \cup {x}, t)) <= Cardinality(recent \cup {x})
    BY <2>1, <2>2, FS_Subset, FS_CardinalityType
  <2> QED
    BY <1>1, <2>2, <2>3 DEF recent
<1>3. CASE ~(t - Window < x.at /\ x.at <= t)
  <2>1. Within(S \cup {x}, t) = Within(S, t)
    BY <1>3 DEF Within
  <2> QED
    BY <2>1
<1> QED
  BY <1>2, <1>3

\* So it keeps the limit of all the windows that end with a request.
LEMMA AddKeepsLimit ==
    ASSUME NEW S, IsFiniteSet(S), \A r \in S : r.at \in Int,
           NEW x, x.at \in Int,
           LimitKept(S), Cardinality(Since(S, x.at - Window)) < RequestsPerIP
    PROVE  LimitKept(S \cup {x})
<1> SUFFICES ASSUME NEW r \in S \cup {x}
             PROVE  Cardinality(Within(S \cup {x}, r.at)) <= RequestsPerIP
  BY DEF LimitKept
<1>1. Cardinality(Within(S, r.at)) <= RequestsPerIP
  <2>1. CASE r \in S
    BY <2>1 DEF LimitKept
  <2>2. CASE r = x
    <3>1. Within(S, x.at) \subseteq Since(S, x.at - Window)
          /\ IsFiniteSet(Since(S, x.at - Window))
      BY FS_Subset DEF Within, Since
    <3>2. /\ Cardinality(Within(S, x.at)) \in Nat
          /\ Cardinality(Since(S, x.at - Window)) \in Nat
          /\ Cardinality(Within(S, x.at)) <= Cardinality(Since(S, x.at - Window))
      BY <3>1, FS_Subset, FS_CardinalityType
    <3> QED
      BY <2>2, <3>2, WindowAssumption
  <2> QED
    BY <2>1, <2>2
<1>2. r.at \in Int
  OBVIOUS
<1> QED
  BY <1>1, <1>2, AddKeepsWindow

-----------------------------------------------------------------------------
(* The limiter in memory                                                    *)

(***************************************************************************)
(* Everything keeps its type, and an address has finitely many requests.     *)
(***************************************************************************)
MemoryTypes == MemoryTypeOK /\ \A ip \in IPs : IsFiniteSet(granted[ip])

\* What a request that is let in adds.
LEMMA RequestIsNew ==
    ASSUME MemoryTypes, NEW ip \in IPs
    PROVE  /\ Request(ip) \in [at : Nat, number : Nat] /\ Request(ip).at = now
           /\ IsFiniteSet(granted[ip] \cup {Request(ip)})
BY FS_CardinalityType, FS_AddElement DEF MemoryTypes, MemoryTypeOK, Request

\* Whatever the requests and the cleaning do in turn.
THEOREM MemoryTypesHold == MemorySpec => []MemoryTypes
<1> USE WindowAssumption
<1>1. MemoryInit => MemoryTypes
  BY FS_EmptySet DEF MemoryInit, MemoryTypes, MemoryTypeOK
<1>2. MemoryTypes /\ [MemoryNext]_memoryVars => MemoryTypes'
  <2> SUFFICES ASSUME MemoryTypes, [MemoryNext]_memoryVars PROVE MemoryTypes'
    OBVIOUS
  <2>1. ASSUME NEW ip \in IPs, AllowNew(ip) PROVE MemoryTypes'
    BY <2>1, RequestIsNew DEF AllowNew, Grant, Never, MemoryTypes, MemoryTypeOK
  <2>2. ASSUME NEW ip \in IPs, AllowKnown(ip) PROVE MemoryTypes'
    <3>1. Recent(ip) \subseteq [at : Nat, number : Nat]
      BY DEF Recent, Since, MemoryTypes, MemoryTypeOK
    <3>2. Request(ip) \in [at : Nat, number : Nat]
          /\ IsFiniteSet(granted[ip] \cup {Request(ip)})
      BY RequestIsNew
    <3>3. CASE Reject(ip, Recent(ip))
      BY <2>2, <3>1, <3>3 DEF AllowKnown, Reject, Never, MemoryTypes, MemoryTypeOK
    <3>4. CASE Grant(ip, Recent(ip))
      BY <2>2, <3>1, <3>2, <3>4 DEF AllowKnown, Grant, MemoryTypes, MemoryTypeOK
    <3> QED
      BY <2>2, <3>3, <3>4 DEF AllowKnown
  <2>3. CASE CleanupMemory
    BY <2>3 DEF CleanupMemory, MemoryTypes, MemoryTypeOK
  <2>4. CASE Tick /\ UNCHANGED memory
    BY <2>4 DEF Tick, memory, MemoryTypes, MemoryTypeOK
  <2>5. CASE UNCHANGED memoryVars
    BY <2>5 DEF memoryVars, memory, MemoryTypes, MemoryTypeOK
  <2> QED
    BY <2>1, <2>2, <2>3, <2>4, <2>5 DEF MemoryNext
<1> QED
  BY <1>1, <1>2, PTL DEF MemorySpec

-----------------------------------------------------------------------------
(* What the limiter keeps of an address is what it needs: every request of    *)
(* the window that ends now.  An address it has forgotten has none there.    *)

Remembered ==
    \A ip \in IPs :
        /\ \A r \in granted[ip] : r.at <= now /\ (ip \in visitors => r.at <= lastClean[ip])
        /\ Since(granted[ip], now - Window) \subseteq requests[ip]
        /\ requests[ip] \subseteq granted[ip]
        /\ ip \notin visitors => requests[ip] = {}
        /\ lastClean[ip] <= now

MemoryInv == Remembered /\ MemoryWindowKept

\* It remembers what it needs, however often cleanup runs in between.
LEMMA MemoryRemembers == MemorySpec => []MemoryInv
<1> USE WindowAssumption
<1>1. MemoryInit => MemoryInv
  BY DEF MemoryInit, MemoryInv, Remembered, MemoryWindowKept, LimitKept, Since
<1>2. MemoryTypes /\ MemoryInv /\ [MemoryNext]_memoryVars => MemoryInv'
  <2> SUFFICES ASSUME MemoryTypes, MemoryInv, [MemoryNext]_memoryVars PROVE MemoryInv'
    OBVIOUS
  <2>1. ASSUME NEW ip \in IPs, NEW kept, Grant(ip, kept), now' = now,
               kept \subseteq granted[ip], Since(granted[ip], now - Window) \subseteq kept,
               Cardinality(Since(granted[ip], now - Window)) < RequestsPerIP,
               visitors' = visitors \cup {ip}, lastClean' = [lastClean EXCEPT ![ip] = now]
        PROVE  MemoryInv'
    <3>1. LimitKept(granted[ip] \cup {Request(ip)})
      <4>1. Request(ip).at = now
        BY RequestIsNew
      <4>2. now \in Int /\ \A r \in granted[ip] : r.at \in Int
        BY DEF MemoryTypes, MemoryTypeOK
      <4> QED
        BY <2>1, <4>1, <4>2, AddKeepsLimit DEF MemoryInv, MemoryWindowKept, MemoryTypes
    <3>2. MemoryWindowKept'
      BY <2>1, <3>1 DEF Grant, MemoryInv, MemoryWindowKept, MemoryTypes, MemoryTypeOK
    <3>3. Remembered'
      <4>1. Request(ip).at = now
        BY RequestIsNew
      <4>2. /\ requests' = [requests EXCEPT ![ip] = kept \cup {Request(ip)}]
            /\ granted' = [granted EXCEPT ![ip] = @ \cup {Request(ip)}]
        BY <2>1 DEF Grant
      <4> QED
        BY <2>1, <4>1, <4>2 DEF MemoryInv, Remembered, Since, MemoryTypes, MemoryTypeOK
    <3> QED
      BY <3>2, <3>3 DEF MemoryInv
  <2>2. ASSUME NEW ip \in IPs, AllowNew(ip) PROVE MemoryInv'
    <3>1. Since(granted[ip], now - Window) = {}
      BY <2>2 DEF AllowNew, MemoryInv, Remembered
    <3>2. Cardinality(Since(granted[ip], now - Window)) < RequestsPerIP
      BY <3>1, FS_EmptySet
    <3> QED
      BY <2>1, <2>2, <3>1, <3>2 DEF AllowNew
  <2>3. ASSUME NEW ip \in IPs, AllowKnown(ip) PROVE MemoryInv'
    <3>1. Recent(ip) = Since(granted[ip], now - Window)
      BY DEF Recent, Since, MemoryInv, Remembered
    <3>2. visitors' = visitors \cup {ip}
      BY <2>3 DEF AllowKnown
    <3>3. CASE Cardinality(Recent(ip)) >= RequestsPerIP
      BY <2>3, <3>1, <3>3 DEF AllowKnown, Reject, MemoryInv, Remembered, MemoryWindowKept, Since,
                                 MemoryTypes, MemoryTypeOK
    <3>4. CASE ~(Cardinality(Recent(ip)) >= RequestsPerIP)
      <4>1. Cardinality(Recent(ip)) \in Nat
        BY <3>1, FS_Subset, FS_CardinalityType DEF Since, MemoryTypes
      <4>2. Cardinality(Recent(ip)) < RequestsPerIP
        BY <3>4, <4>1
      <4>3. Grant(ip, Recent(ip)) /\ now' = now /\ lastClean' = [lastClean EXCEPT ![ip] = now]
        BY <2>3, <3>4 DEF AllowKnown
      <4>4. Recent(ip) \subseteq granted[ip]
        BY <3>1 DEF Since
      <4> QED
        BY <2>1, <3>1, <3>2, <4>2, <4>3, <4>4
    <3> QED
      BY <3>3, <3>4
  <2>4. CASE CleanupMemory
    <3>1. \A ip \in IPs : Stale(ip) /\ ip \in visitors
                          => Since(granted[ip], now - Window) = {}
      BY DEF Stale, Since, CleanupMultiplier, MemoryInv, Remembered, MemoryTypes, MemoryTypeOK
    <3> QED
      BY <2>4, <3>1 DEF CleanupMemory, MemoryInv, Remembered, MemoryWindowKept, MemoryTypes, MemoryTypeOK
  <2>5. CASE Tick /\ UNCHANGED memory
    BY <2>5 DEF Tick, memory, MemoryInv, Remembered, MemoryWindowKept, Since, MemoryTypes, MemoryTypeOK
  <2>6. CASE UNCHANGED memoryVars
    BY <2>6 DEF memoryVars, memory, MemoryInv, Remembered, MemoryWindowKept
  <2> QED
    BY <2>2, <2>3, <2>4, <2>5, <2>6 DEF MemoryNext
<1> QED
  BY <1>1, <1>2, MemoryTypesHold, PTL DEF MemorySpec

(***************************************************************************)
(* No address gets more than RATE_LIMIT_REQUESTS_PER_IP requests through in   *)
(* any window, with any cleaning in between.                                *)
(***************************************************************************)
THEOREM MemoryLimitHolds == MemorySpec => []MemoryWindowKept
<1>1. MemoryInv => MemoryWindowKept
  BY DEF MemoryInv
<1> QED
  BY <1>1, MemoryRemembers, PTL

-----------------------------------------------------------------------------
(* A refusal that was due stays due: a request let in later, at the same       *)
(* moment, only adds to its window.                                         *)

\* More requests never empty a window.
LEMMA WindowGrows ==
    ASSUME NEW S, NEW T, IsFiniteSet(T), S \subseteq T, NEW t, Cardinality(Within(S, t)) >= RequestsPerIP
    PROVE  Cardinality(Within(T, t)) >= RequestsPerIP
<1>1. Within(S, t) \subseteq Within(T, t) /\ Within(T, t) \subseteq T
  BY DEF Within
<1>2. /\ IsFiniteSet(Within(T, t)) /\ IsFiniteSet(Within(S, t))
      /\ Cardinality(Within(S, t)) <= Cardinality(Within(T, t))
  BY <1>1, FS_Subset
<1>3. Cardinality(Within(T, t)) \in Nat /\ Cardinality(Within(S, t)) \in Nat
  BY <1>2, FS_CardinalityType
<1> QED
  BY <1>2, <1>3, WindowAssumption

(***************************************************************************)
(* A request is refused only when the window that ends with it is full of     *)
(* requests let in: what the limiter has kept from earlier windows is never   *)
(* held against it, and no refusal is.                                      *)
(***************************************************************************)
THEOREM RefusalsAreDue == MemorySpec => []RefusedOnlyWhenFull
<1>1. MemoryInit => RefusedOnlyWhenFull
  BY DEF MemoryInit, RefusedOnlyWhenFull
<1>2. MemoryTypes /\ MemoryTypes' /\ Remembered /\ RefusedOnlyWhenFull /\ [MemoryNext]_memoryVars
        => RefusedOnlyWhenFull'
  <2> SUFFICES ASSUME MemoryTypes, MemoryTypes', Remembered, RefusedOnlyWhenFull,
                      [MemoryNext]_memoryVars, NEW ip \in IPs, refusedAt'[ip] # Never
               PROVE  Cardinality(Within(granted'[ip], refusedAt'[ip])) >= RequestsPerIP
    BY DEF RefusedOnlyWhenFull
  <2>1. ASSUME granted[ip] \subseteq granted'[ip], refusedAt'[ip] = refusedAt[ip]
        PROVE  Cardinality(Within(granted'[ip], refusedAt'[ip])) >= RequestsPerIP
    BY <2>1, WindowGrows DEF RefusedOnlyWhenFull, MemoryTypes
  <2>2. ASSUME NEW jp \in IPs, NEW kept, Grant(jp, kept)
        PROVE  granted[ip] \subseteq granted'[ip] /\ refusedAt'[ip] = refusedAt[ip]
    BY <2>2 DEF Grant, MemoryTypes, MemoryTypeOK
  <2>3. ASSUME NEW jp \in IPs, AllowKnown(jp), Cardinality(Recent(jp)) >= RequestsPerIP
        PROVE  Cardinality(Within(granted'[ip], refusedAt'[ip])) >= RequestsPerIP
    <3>1. granted' = granted /\ refusedAt' = [refusedAt EXCEPT ![jp] = now]
      BY <2>3 DEF AllowKnown, Reject
    <3>2. CASE jp = ip
      <4>1. refusedAt'[ip] = now
        BY <3>1, <3>2 DEF MemoryTypes, MemoryTypeOK
      <4>2. Recent(ip) = Within(granted[ip], now)
        BY DEF Recent, Since, Within, Remembered, MemoryTypes, MemoryTypeOK
      <4> QED
        BY <2>3, <3>1, <3>2, <4>1, <4>2
    <3>3. CASE jp # ip
      BY <2>1, <3>1, <3>3 DEF MemoryTypes, MemoryTypeOK
    <3> QED
      BY <3>2, <3>3
  <2>4. ASSUME UNCHANGED <<granted, refusedAt>>
        PROVE  Cardinality(Within(granted'[ip], refusedAt'[ip])) >= RequestsPerIP
    BY <2>1, <2>4
  <2>5. \/ UNCHANGED <<granted, refusedAt>>
        \/ \E jp \in IPs : Grant(jp, {}) \/ Grant(jp, Recent(jp))
        \/ \E jp \in IPs : AllowKnown(jp) /\ Cardinality(Recent(jp)) >= RequestsPerIP
    BY DEF MemoryNext, AllowNew, AllowKnown, CleanupMemory, memoryVars, memory
  <2> QED
    BY <2>1, <2>2, <2>3, <2>4, <2>5
<1>3. MemoryInv => Remembered
  BY DEF MemoryInv
<1> QED
  BY <1>1, <1>2, <1>3, MemoryTypesHold, MemoryRemembers, PTL DEF MemorySpec

-----------------------------------------------------------------------------
(* The limiter in PostgreSQL                                                *)

\* What the assumptions say of the constants.
LEMMA Constants == RequestsPerIP \in Nat \ {0} /\ Window \in Nat \ {0} /\ DBTimeout \in Nat
                   /\ Skew \in Nat /\ None \notin Workers
BY WindowAssumption, TimeoutAssumption, WorkersAssumption

(***************************************************************************)
(* Everything keeps its type; the rows in the table have all been recorded.  *)
(***************************************************************************)
TableTypes == TableTypeOK /\ IsFiniteSet(recorded) /\ IsFiniteSet(failed)

\* What a request that is let in adds, to either set.
LEMMA RowIsNew ==
    ASSUME TableTypes, NEW w \in Workers
    PROVE  /\ Row(w) \in [at : Nat, id : Nat]
           /\ IsFiniteSet(recorded \cup {Row(w)}) /\ IsFiniteSet(failed \cup {Row(w)})
<1>1. IsFiniteSet(LetIn)
  BY FS_Union DEF LetIn, TableTypes
<1>2. Cardinality(At(stamp[w])) \in Nat
  BY <1>1, FS_Subset, FS_CardinalityType DEF At
<1> QED
  BY <1>2, FS_AddElement DEF TableTypes, TableTypeOK, Row

\* Whatever the workers, their failures and the cleaning do in turn.
THEOREM TableTypesHold == TableSpec => []TableTypes
<1> USE Constants
<1>1. TableInit => TableTypes
  BY FS_EmptySet DEF TableInit, TableTypes, TableTypeOK, LetIn
<1>2. TableTypes /\ [TableNext]_tableVars => TableTypes'
  <2> SUFFICES ASSUME TableTypes, [TableNext]_tableVars PROVE TableTypes'
    OBVIOUS
  <2>1. ASSUME NEW w \in Workers, Arrive(w) PROVE TableTypes'
    BY <2>1 DEF Arrive, Clock, GoTo, TableTypes, TableTypeOK, LetIn
  <2>2. ASSUME NEW w \in Workers, Lock(w) PROVE TableTypes'
    BY <2>2 DEF Lock, GoTo, TableTypes, TableTypeOK, LetIn
  <2>3. ASSUME NEW w \in Workers, Refuse(w) PROVE TableTypes'
    BY <2>3 DEF Refuse, EndTx, Return, GoTo, TableTypes, TableTypeOK, LetIn
  <2>4. ASSUME NEW w \in Workers, Count(w) PROVE TableTypes'
    BY <2>4 DEF Count, GoTo, TableTypes, TableTypeOK, LetIn
  <2>5. ASSUME NEW w \in Workers, Commit(w) PROVE TableTypes'
    BY <2>5, RowIsNew DEF Commit, Record, EndTx, Return, GoTo, TableTypes, TableTypeOK, LetIn
  <2>6. ASSUME NEW w \in Workers, FailOpen(w) PROVE TableTypes'
    BY <2>6, RowIsNew DEF FailOpen, LeaveNoRow, Record, EndTx, Return, GoTo, TableTypes, TableTypeOK, LetIn
  <2>7. CASE CleanupTable
    BY <2>7 DEF CleanupTable, TableTypes, TableTypeOK, LetIn
  <2>8. CASE Tick /\ UNCHANGED tables
    BY <2>8 DEF Tick, tables, TableTypes, TableTypeOK, LetIn
  <2>9. CASE UNCHANGED tableVars
    BY <2>9 DEF tableVars, tables, TableTypes, TableTypeOK, LetIn
  <2> QED
    BY <2>1, <2>2, <2>3, <2>4, <2>5, <2>6, <2>7, <2>8, <2>9 DEF TableNext, Allow
<1> QED
  BY <1>1, <1>2, PTL DEF TableSpec

(***************************************************************************)
(* The advisory lock makes a COUNT and its INSERT one critical section.      *)
(***************************************************************************)
THEOREM Exclusive == TableSpec => []OneAtATime
<1> USE Constants
<1>1. TableInit => OneAtATime
  BY DEF TableInit, OneAtATime
<1>2. TableTypes /\ OneAtATime /\ [TableNext]_tableVars => OneAtATime'
  BY DEF TableTypes, TableTypeOK, OneAtATime, TableNext, Allow, Arrive, Lock, Refuse, Count, Commit,
         FailOpen, LeaveNoRow, CleanupTable, Tick, tableVars, tables, GoTo, EndTx, Return
<1> QED
  BY <1>1, <1>2, TableTypesHold, PTL DEF TableSpec

-----------------------------------------------------------------------------
(* The table lacks only requests of more than two windows ago, by the clock    *)
(* that is furthest ahead; so a worker that is still in time counts all there *)
(* are in the window behind its own time, and whoever is about to insert has  *)
(* found room.                                                              *)

Forgotten == \A r \in recorded \ table : r.at < now + Skew - Window * CleanupMultiplier

Room(w) == Cardinality(Since(recorded, stamp[w] - Window)) < RequestsPerIP

\* No window holds more rows than the limit, whether or not it ends with one.
RecordedKept == \A t \in Int : Cardinality(Within(recorded, t)) <= RequestsPerIP

RoomInv ==
    /\ Forgotten
    /\ \A w \in Workers : pc[w] = "insert" /\ InTime(w) => Room(w)
    /\ RecordedKept

\* A worker in time sees every recorded request of its window in the table.
LEMMA CountsAll ==
    ASSUME DBTimeout + Skew <= Window, TableTypes, Forgotten, NEW w \in Workers, InTime(w)
    PROVE  Counted(w) = Since(recorded, stamp[w] - Window)
<1>1. ASSUME NEW r \in recorded, r.at > stamp[w] - Window PROVE r \in table
  BY <1>1, Constants DEF TableTypes, TableTypeOK, LetIn, Forgotten, InTime, Clock, CleanupMultiplier
<1> QED
  BY <1>1 DEF Counted, Since, TableTypes, TableTypeOK

\* A request that has found room keeps the limit.
LEMMA RecordKeepsLimit ==
    ASSUME TableTypes, RecordedKept, NEW w \in Workers, Room(w), NEW t \in Int
    PROVE  Cardinality(Within(recorded \cup {Row(w)}, t)) <= RequestsPerIP
<1>1. Row(w).at = stamp[w] /\ stamp[w] \in Int /\ \A r \in recorded : r.at \in Int
  BY DEF Row, TableTypes, TableTypeOK, LetIn
<1>2. Cardinality(Within(recorded, t)) <= RequestsPerIP
  BY DEF RecordedKept
<1> QED
  BY <1>1, <1>2, AddKeepsWindow DEF TableTypes, Room

\* With those that left no row, the windows hold that many requests more.
LEMMA FailedOnTop ==
    ASSUME TableTypes, RecordedKept
    PROVE  TableWindowKept
<1> SUFFICES ASSUME NEW r \in LetIn
             PROVE  Cardinality(Within(LetIn, r.at))
                    <= RequestsPerIP + Cardinality(Within(failed, r.at))
  BY DEF TableWindowKept
<1>1. r.at \in Int
  BY DEF TableTypes, TableTypeOK
<1> DEFINE rows == Within(recorded, r.at)
           rest == Within(failed, r.at)
<1>2. Cardinality(rows) <= RequestsPerIP
  BY <1>1 DEF RecordedKept
<1>3. Within(LetIn, r.at) = rows \cup rest
  BY DEF Within, LetIn
<1>4. IsFiniteSet(rows) /\ IsFiniteSet(rest)
  BY FS_Subset DEF Within, TableTypes
<1> HIDE DEF rows, rest
<1>5. /\ Cardinality(rows \cup rest)
         = Cardinality(rows) + Cardinality(rest) - Cardinality(rows \cap rest)
      /\ IsFiniteSet(rows \cap rest)
  BY <1>4, FS_Union, FS_Intersection
<1>6. /\ Cardinality(rows) \in Nat /\ Cardinality(rest) \in Nat
      /\ Cardinality(rows \cap rest) \in Nat
  BY <1>4, <1>5, FS_CardinalityType
<1>7. Cardinality(rows \cup rest) <= RequestsPerIP + Cardinality(rest)
  BY <1>2, <1>5, <1>6, Constants
<1> QED
  BY <1>3, <1>7 DEF rest

(***************************************************************************)
(* In no window are more requests of an address let in than                  *)
(* RATE_LIMIT_REQUESTS_PER_IP, and on top of it those that left no row.       *)
(***************************************************************************)
THEOREM TableLimitHolds == ASSUME DBTimeout + Skew <= Window PROVE TableSpec => []TableWindowKept
<1> USE Constants
<1>1. TableInit => RoomInv
  <2>1. ASSUME TableInit, NEW t \in Int PROVE Cardinality(Within(recorded, t)) = 0
    BY <2>1, FS_EmptySet DEF TableInit, Within
  <2> QED
    BY <2>1 DEF TableInit, RoomInv, Forgotten, RecordedKept
<1>2. TableTypes /\ OneAtATime /\ RoomInv /\ [TableNext]_tableVars => RoomInv'
  <2> SUFFICES ASSUME TableTypes, OneAtATime, RoomInv, [TableNext]_tableVars PROVE RoomInv'
    OBVIOUS
  <2>1. ASSUME NEW w \in Workers, Arrive(w) PROVE RoomInv'
    BY <2>1 DEF Arrive, GoTo, RoomInv, Forgotten, Room, InTime, Clock, RecordedKept,
                TableTypes, TableTypeOK
  <2>2. ASSUME NEW w \in Workers, Lock(w) PROVE RoomInv'
    BY <2>2 DEF Lock, GoTo, RoomInv, Forgotten, Room, InTime, Clock, RecordedKept,
                TableTypes, TableTypeOK
  <2>3. ASSUME NEW w \in Workers, Refuse(w) PROVE RoomInv'
    BY <2>3 DEF Refuse, Return, GoTo, RoomInv, Forgotten, Room, InTime, Clock, RecordedKept,
                TableTypes, TableTypeOK
  <2>4. ASSUME NEW w \in Workers, Count(w) PROVE RoomInv'
    <3>1. Room(w)
      BY <2>4, CountsAll DEF Count, Room, RoomInv
    <3> QED
      BY <2>4, <3>1 DEF Count, GoTo, RoomInv, Forgotten, Room, InTime, Clock, RecordedKept,
                        TableTypes, TableTypeOK
  <2>5. ASSUME NEW w \in Workers, pc[w] = "insert", InTime(w), Record(w), EndTx(w), Return(w),
               now' = now
        PROVE  RoomInv'
    <3>1. RecordedKept'
      BY <2>5, RecordKeepsLimit DEF RoomInv, Record, RecordedKept
    <3>2. Forgotten'
      BY <2>5 DEF Record, Return, GoTo, RoomInv, Forgotten, TableTypes, TableTypeOK
    <3>3. \A v \in Workers : pc'[v] # "insert"
      BY <2>5 DEF OneAtATime, Return, GoTo, TableTypes, TableTypeOK
    <3> QED
      BY <3>1, <3>2, <3>3 DEF RoomInv
  <2>6. ASSUME NEW w \in Workers, Commit(w) PROVE RoomInv'
    BY <2>5, <2>6 DEF Commit
  <2>7. ASSUME NEW w \in Workers, FailOpen(w) PROVE RoomInv'
    <3>1. CASE LeaveNoRow(w)
      BY <2>7, <3>1 DEF FailOpen, LeaveNoRow, Return, GoTo, RoomInv, Forgotten, Room, InTime, Clock,
                        RecordedKept, TableTypes, TableTypeOK
    <3>2. CASE pc[w] = "insert" /\ InTime(w) /\ Record(w)
      BY <2>5, <2>7, <3>2 DEF FailOpen
    <3> QED
      BY <2>7, <3>1, <3>2 DEF FailOpen
  <2>8. CASE CleanupTable
    BY <2>8 DEF CleanupTable, RoomInv, Forgotten, Room, InTime, Clock, RecordedKept,
                CleanupMultiplier, TableTypes, TableTypeOK, LetIn
  <2>9. CASE Tick /\ UNCHANGED tables
    BY <2>9 DEF Tick, tables, RoomInv, Forgotten, Room, InTime, Clock, RecordedKept,
                CleanupMultiplier, TableTypes, TableTypeOK, LetIn
  <2>10. CASE UNCHANGED tableVars
    BY <2>10 DEF tableVars, tables, RoomInv, Forgotten, Room, InTime, Clock, RecordedKept
  <2> QED
    BY <2>1, <2>2, <2>3, <2>4, <2>6, <2>7, <2>8, <2>9, <2>10 DEF TableNext, Allow
<1>3. TableTypes /\ RoomInv => TableWindowKept
  BY FailedOnTop DEF RoomInv
<1> QED
  BY <1>1, <1>2, <1>3, TableTypesHold, Exclusive, PTL DEF TableSpec

-----------------------------------------------------------------------------
(* The server's limiter                                                      *)

(***************************************************************************)
(* Whichever of the two NewMux has built, the one in use behaves as it does   *)
(* on its own, and time passes over the other: what is proved of each of     *)
(* them holds of the server's.                                              *)
(***************************************************************************)
LEMMA EitherOnItsOwn == Spec => MemorySpec /\ TableSpec
<1>1. Init => MemoryInit /\ TableInit
  BY DEF Init
<1>2. [Next]_vars => [MemoryNext]_memoryVars
  <2>1. CASE backend = "memory" /\ MemoryNext
    BY <2>1
  <2>2. CASE TableNext /\ UNCHANGED memory
    BY <2>2 DEF TableNext, MemoryNext, memoryVars, Allow, Arrive, Lock, Refuse, Count, Commit, FailOpen,
       CleanupTable
  <2>3. UNCHANGED vars => UNCHANGED memoryVars
    BY DEF vars, memoryVars
  <2> QED
    BY <2>1, <2>2, <2>3 DEF Next
<1>3. [Next]_vars => [TableNext]_tableVars
  <2>1. CASE backend = "postgres" /\ TableNext
    BY <2>1
  <2>2. CASE MemoryNext /\ UNCHANGED tables
    BY <2>2 DEF TableNext, MemoryNext, tableVars, AllowNew, AllowKnown, CleanupMemory
  <2>3. UNCHANGED vars => UNCHANGED tableVars
    BY DEF vars, tableVars
  <2> QED
    BY <2>1, <2>2, <2>3 DEF Next
<1> QED
  BY <1>1, <1>2, <1>3, PTL DEF Spec, MemorySpec, TableSpec

(***************************************************************************)
(* The server's limiter keeps its types, and its kind, for the life of the    *)
(* process.                                                                *)
(***************************************************************************)
THEOREM TypeCorrect == Spec => []TypeOK
<1> DEFINE Kind == backend \in {"memory", "postgres"}
<1>1. MemoryTypes /\ TableTypes /\ Kind => TypeOK
  BY DEF MemoryTypes, TableTypes, TypeOK
<1>2. Init => Kind
  BY DEF Init
<1>3. Kind /\ [Next]_vars => Kind'
  BY DEF Next, vars
<1> HIDE DEF Kind
<1> QED
  BY <1>1, <1>2, <1>3, EitherOnItsOwn, MemoryTypesHold, TableTypesHold, PTL DEF Spec

(***************************************************************************)
(* What the server lets in of an address.  With the limiter in memory: never  *)
(* more requests than the limit in any window.  With the one in PostgreSQL:   *)
(* never more than the limit and, on top of it, those of the window that a    *)
(* failed step of the database let in without a row; so that the limit holds  *)
(* as it stands as long as no step fails.                                   *)
(***************************************************************************)
THEOREM LimitsHold ==
    ASSUME DBTimeout + Skew <= Window
    PROVE  Spec => [](MemoryWindowKept /\ TableWindowKept /\ (failed = {} => LimitKept(LetIn)))
<1>1. TableWindowKept /\ failed = {} => LimitKept(LetIn)
  <2> SUFFICES ASSUME TableWindowKept, failed = {}, NEW r \in LetIn
               PROVE  Cardinality(Within(LetIn, r.at)) <= RequestsPerIP
    BY DEF LimitKept
  <2>1. Cardinality(Within(failed, r.at)) = 0
    BY FS_EmptySet DEF Within
  <2> QED
    BY <2>1, Constants DEF TableWindowKept
<1> QED
  BY <1>1, EitherOnItsOwn, MemoryLimitHolds, TableLimitHolds, PTL

==============================================================================
