--------------------------- MODULE CatalogProofs ---------------------------
(***************************************************************************)
(* Theorems about the catalog backfill and the Helix client under it, for     *)
(* every archive, page size and limit, any number of callers, and any number *)
(* of attempts and failures.                                                *)
(***************************************************************************)
EXTENDS Catalog, FiniteSetTheorems, TLAPS

CallStates == {"none", "get", "send", "ok", "error"}
RunStates == {"idle", "user", "list", "insert"}

Calling == [st : CallStates, attempt : 1 .. MaxRetries, refreshed : BOOLEAN, unused : BOOLEAN]

Running == [pc : RunStates, max : Nat, recent : Nat, after : 0 .. Archive,
            collected : SUBSET Videos]

-----------------------------------------------------------------------------
(* The inductive invariant, in parts.                                       *)

HelixTypes ==
    /\ call \in [Callers -> Calling]
    /\ token \in [Callers -> {"none", "good", "revoked"}]
    /\ revoked \in BOOLEAN /\ blips \in 0 .. MaxBlips /\ faults \in 0 .. MaxFaults

CatalogTypes ==
    /\ run \in [Callers -> Running]
    /\ known \in SUBSET Videos /\ saved \in 0 .. Archive /\ broken \in BOOLEAN

Types == HelixTypes /\ CatalogTypes

\* What has been refused is replaced at once, and Twitch revokes only once.
TokenInv ==
    \A c \in Callers :
        /\ token[c] = "revoked" => revoked
        /\ call[c].refreshed => revoked /\ token[c] # "revoked"

\* A replaced token is on its way to Twitch.
UnusedInv ==
    \A c \in Callers : call[c].unused => call[c].st \in {"get", "send"} \/ faults > 0

\* Every attempt but the first is owed to a passing failure or to the revocation.
AttemptsInv ==
    \A c \in Callers :
        call[c].attempt <= 1 + blips + (IF call[c].refreshed THEN 1 ELSE 0)

\* So the budget is not used up while the failures are fewer than the attempts.
Absorbed == faults = 0 /\ blips + (IF revoked THEN 1 ELSE 0) < MaxRetries

BudgetInv == Absorbed => ~broken /\ \A c \in Callers : call[c].st # "error"

IdleInv == \A c \in Callers : run[c].pc = "idle" => run[c] = NoRun

Held(v) == v \in known \/ \E c \in Callers : v \in run[c].collected

\* What a run that reads the whole archive has passed is held, by itself or by others.
PassedInv ==
    ~broken => \A c \in Callers : run[c].recent = 0 => \A v \in 1 .. run[c].after : Held(v)

ClientInv == TokenInv /\ UnusedInv /\ AttemptsInv /\ BudgetInv

CursorInv == IdleInv /\ PassedInv /\ NothingSkipped

-----------------------------------------------------------------------------
(* The operators the steps are built from.                                  *)

\* A request starts with the first attempt and the flag cleared.
LEMMA FreshCalls ==
    /\ NoCall \in Calling /\ Request \in Calling
    /\ NoCall.st = "none" /\ Request.st = "get"
    /\ NoCall.attempt = 1 /\ ~NoCall.refreshed /\ ~NoCall.unused
    /\ Request.attempt = 1 /\ ~Request.refreshed /\ ~Request.unused
<1>1. 1 \in 1 .. MaxRetries /\ "none" \in CallStates /\ "get" \in CallStates
  BY HelixAssumption DEF CallStates
<1>2. NoCall \in Calling
  BY <1>1, Zenon DEF NoCall, Calling
<1>3. /\ NoCall.st = "none" /\ NoCall.attempt = 1 /\ ~NoCall.refreshed /\ ~NoCall.unused
      /\ [NoCall EXCEPT !.st = "get"].attempt = NoCall.attempt
      /\ [NoCall EXCEPT !.st = "get"].refreshed = NoCall.refreshed
      /\ [NoCall EXCEPT !.st = "get"].unused = NoCall.unused
      /\ [NoCall EXCEPT !.st = "get"].st = "get"
  BY DEF NoCall
<1>4. [NoCall EXCEPT !.st = "get"] \in Calling
  BY <1>1, <1>2 DEF Calling
<1> QED
  BY <1>2, <1>3, <1>4 DEF Request

\* A request that has been sent keeps the flag and has used the token.
LEMMA SentCall ==
    ASSUME Types, NEW c \in Callers, NEW st \in CallStates, NEW attempt \in 1 .. MaxRetries
    PROVE  /\ Sent(c, st, attempt) \in Calling
           /\ Sent(c, st, attempt).st = st /\ Sent(c, st, attempt).attempt = attempt
           /\ Sent(c, st, attempt).refreshed = call[c].refreshed /\ ~Sent(c, st, attempt).unused
<1>1. call[c] \in Calling
  BY DEF Types, HelixTypes
<1>2. /\ [call[c] EXCEPT !.st = st] \in Calling
      /\ [call[c] EXCEPT !.st = st].st = st
      /\ [call[c] EXCEPT !.st = st].refreshed = call[c].refreshed
  BY <1>1 DEF Calling
<1>3. ASSUME NEW x \in Calling
      PROVE  /\ [x EXCEPT !.attempt = attempt] \in Calling
             /\ [x EXCEPT !.attempt = attempt].st = x.st
             /\ [x EXCEPT !.attempt = attempt].attempt = attempt
             /\ [x EXCEPT !.attempt = attempt].refreshed = x.refreshed
  BY DEF Calling
<1>4. ASSUME NEW x \in Calling
      PROVE  /\ [x EXCEPT !.unused = FALSE] \in Calling
             /\ [x EXCEPT !.unused = FALSE].st = x.st
             /\ [x EXCEPT !.unused = FALSE].attempt = x.attempt
             /\ [x EXCEPT !.unused = FALSE].refreshed = x.refreshed
             /\ ~[x EXCEPT !.unused = FALSE].unused
  BY DEF Calling
<1> QED
  BY <1>2, <1>3, <1>4 DEF Sent

\* The counter never passes the last attempt, so that the loop goes on after a 401.
LEMMA RolledBack ==
    ASSUME NEW attempt \in 1 .. MaxRetries
    PROVE  /\ NextAttempt(attempt) \in 1 .. MaxRetries /\ NextAttempt(attempt) <= attempt + 1
           /\ Loops(NextAttempt(attempt)) = "get"
BY HelixAssumption DEF NextAttempt, Loops

\* The call after the first 401.
LEMMA ReplacedCall ==
    ASSUME Types, NEW c \in Callers
    PROVE  LET next == NextAttempt(call[c].attempt)
               x == [Sent(c, Loops(next), next) EXCEPT !.refreshed = TRUE, !.unused = TRUE]
           IN  /\ x \in Calling /\ x.st = "get" /\ x.refreshed
               /\ x.attempt <= call[c].attempt + 1
<1> DEFINE next == NextAttempt(call[c].attempt)
           x == Sent(c, Loops(next), next)
<1>1. call[c].attempt \in 1 .. MaxRetries
  BY DEF Types, HelixTypes, Calling
<1>2. next \in 1 .. MaxRetries /\ next <= call[c].attempt + 1 /\ Loops(next) = "get"
  BY <1>1, RolledBack
<1> HIDE DEF next
<1>3. x \in Calling /\ x.st = "get" /\ x.attempt = next
  BY <1>2, SentCall DEF CallStates
<1> HIDE DEF x
<1>4. /\ [x EXCEPT !.refreshed = TRUE] \in Calling
      /\ [x EXCEPT !.refreshed = TRUE].st = "get" /\ [x EXCEPT !.refreshed = TRUE].refreshed
      /\ [x EXCEPT !.refreshed = TRUE].attempt = next
  BY <1>3 DEF Calling
<1>5. ASSUME NEW y \in Calling
      PROVE  /\ [y EXCEPT !.unused = TRUE] \in Calling
             /\ [y EXCEPT !.unused = TRUE].st = y.st
             /\ [y EXCEPT !.unused = TRUE].attempt = y.attempt
             /\ [y EXCEPT !.unused = TRUE].refreshed = y.refreshed
  BY DEF Calling
<1> QED
  BY <1>2, <1>4, <1>5 DEF next, x

\* A page is an interval that starts behind the cursor; its last VOD is the new cursor.
LEMMA PageIsInterval ==
    ASSUME NEW r \in Running
    PROVE  /\ Cardinality(Page(r)) \in Nat
           /\ Page(r) # {} => r.after + Cardinality(Page(r)) \in Videos
           /\ \A v \in Videos : v > r.after /\ v <= r.after + Cardinality(Page(r)) => v \in Page(r)
<1> DEFINE size == IF r.max \in 1 .. PageSize THEN r.max ELSE PageSize
           end == IF r.after + size <= Archive THEN r.after + size ELSE Archive
<1>1. r.after \in 0 .. Archive /\ size \in Nat \ {0} /\ Archive \in Nat
  BY CatalogAssumption DEF Running
<1>2. Page(r) = (r.after + 1) .. end
  BY <1>1 DEF Page, Videos
<1>3. end \in Nat /\ end >= r.after /\ end <= Archive
  BY <1>1
<1>4. Cardinality(Page(r)) = end - r.after
  <2>1. Cardinality((r.after + 1) .. end)
        = IF r.after + 1 > end THEN 0 ELSE end - (r.after + 1) + 1
    <3>1. r.after + 1 \in Int /\ end \in Int
      BY <1>1, <1>3
    <3> QED
      BY <3>1, FS_Interval, Zenon
  <2> QED
    BY <1>1, <1>2, <1>3, <2>1
<1> QED
  BY <1>1, <1>2, <1>3, <1>4 DEF Videos

\* Taken is part of the page, a page of the archive.
LEMMA TakenFromPage == \A r : Taken(r) \subseteq Page(r) /\ Page(r) \subseteq Videos
BY DEF Taken, Page

\* A page that is not the last leads to one of the archive's VODs.
LEMMA NextCursor ==
    ASSUME NEW r \in Running, Page(r) # {}, NEW cursor \in Cursors(r), ~Last(r, cursor)
    PROVE  /\ cursor \in Videos /\ Page(r) \subseteq Taken(r)
           /\ \A v \in Videos : v > r.after /\ v <= cursor => v \in Page(r)
BY PageIsInterval DEF Cursors, Last

-----------------------------------------------------------------------------
(* Types.                                                                   *)

\* The steps of a call keep the types.
LEMMA HelixStepTypes ==
    ASSUME Types, NEW c \in Callers, HelixStep(c), UNCHANGED catalog
    PROVE  Types'
<1> USE HelixAssumption DEF Types, HelixTypes
<1>1. call[c] \in Calling /\ call[c].attempt \in 1 .. MaxRetries
  BY DEF Calling
<1>2. CatalogTypes'
  BY DEF catalog, CatalogTypes
<1>3. ASSUME NEW st \in CallStates
      PROVE  [call EXCEPT ![c].st = st] \in [Callers -> Calling]
  <2>1. [call[c] EXCEPT !.st = st] \in Calling
    BY <1>1 DEF Calling
  <2> QED
    BY <2>1
<1>4. CASE Get(c)
  BY <1>2, <1>3, <1>4 DEF Get, Fault, Fails, CallStates
<1>5. CASE Succeeds(c)
  BY <1>1, <1>2, <1>5, SentCall DEF Succeeds, CallStates
<1>6. CASE Unauthorized(c)
  <2>1. Sent(c, "error", call[c].attempt) \in Calling
    BY <1>1, SentCall DEF CallStates
  <2>2. PICK x \in Calling : call' = [call EXCEPT ![c] = x]
    BY <1>6, <2>1, ReplacedCall DEF Unauthorized
  <2> QED
    BY <1>2, <1>6, <2>2 DEF Unauthorized
<1>7. CASE Blip(c)
  <2>1. Sent(c, "error", call[c].attempt) \in Calling
    BY <1>1, SentCall DEF CallStates
  <2>2. ASSUME Retries(call[c].attempt)
        PROVE  Sent(c, "get", call[c].attempt + 1) \in Calling
    <3>1. call[c].attempt + 1 \in 1 .. MaxRetries
      BY <1>1, <2>2 DEF Retries
    <3> QED
      BY <3>1, SentCall DEF CallStates
  <2>3. PICK x \in Calling : call' = [call EXCEPT ![c] = x]
    BY <1>7, <2>1, <2>2 DEF Blip
  <2> QED
    BY <1>2, <1>7, <2>3 DEF Blip
<1>8. CASE Refused(c)
  BY <1>1, <1>2, <1>8, SentCall DEF Refused, Fault, CallStates
<1> QED
  BY <1>4, <1>5, <1>6, <1>7, <1>8 DEF HelixStep

\* What a run becomes stays one.
LEMMA RunFields ==
    ASSUME NEW r \in Running, NEW pc \in RunStates, NEW after \in 0 .. Archive,
           NEW S \in SUBSET Videos
    PROVE  /\ [r EXCEPT !.pc = pc] \in Running
           /\ [r EXCEPT !.after = after] \in Running
           /\ [r EXCEPT !.collected = S] \in Running
           /\ [r EXCEPT !.pc = pc].after = r.after /\ [r EXCEPT !.pc = pc].collected = r.collected
           /\ [r EXCEPT !.pc = pc].recent = r.recent /\ [r EXCEPT !.pc = pc].pc = pc
           /\ [r EXCEPT !.after = after].after = after
           /\ [r EXCEPT !.after = after].collected = r.collected
           /\ [r EXCEPT !.after = after].recent = r.recent
           /\ [r EXCEPT !.collected = S].collected = S
           /\ [r EXCEPT !.collected = S].after = r.after
           /\ [r EXCEPT !.collected = S].recent = r.recent
BY DEF Running

\* The run that is not under way.
LEMMA NoRunFields ==
    /\ NoRun \in Running /\ NoRun.pc = "idle" /\ NoRun.after = 0 /\ NoRun.collected = {}
<1>1. 0 \in Nat /\ 0 \in 0 .. Archive /\ {} \in SUBSET Videos /\ "idle" \in RunStates
  BY CatalogAssumption DEF RunStates
<1> QED
  BY <1>1, Zenon DEF NoRun, Running

\* What each step makes of the caller's run.
LEMMA BeginRun ==
    ASSUME Types, NEW c \in Callers, Begin(c)
    PROVE  \E x \in Running :
               /\ run' = [run EXCEPT ![c] = x]
               /\ x.pc = "user" /\ x.after = 0 /\ x.collected = {}
<1>1. PICK m \in [max : Nat, recent : Nat] :
          Calls(c, [NoRun EXCEPT !.max = m.max, !.recent = m.recent], "user")
  <2>1. [max |-> JobMax, recent |-> 0] \in [max : Nat, recent : Nat]
    BY CatalogAssumption
  <2> QED
    BY <2>1, CatalogAssumption DEF Begin
<1>2. ASSUME NEW r \in Running, NEW n \in Nat, NEW k \in Nat
      PROVE  /\ [r EXCEPT !.max = n, !.recent = k] = [[r EXCEPT !.max = n] EXCEPT !.recent = k]
             /\ [r EXCEPT !.max = n] \in Running /\ [r EXCEPT !.recent = n] \in Running
             /\ [r EXCEPT !.max = n].after = r.after /\ [r EXCEPT !.recent = n].after = r.after
             /\ [r EXCEPT !.max = n].collected = r.collected
             /\ [r EXCEPT !.recent = n].collected = r.collected
  BY DEF Running
<1> DEFINE r == [NoRun EXCEPT !.max = m.max, !.recent = m.recent]
<1>3. r \in Running /\ r.after = 0 /\ r.collected = {}
  <2>1. m.max \in Nat /\ m.recent \in Nat
    OBVIOUS
  <2>2. r = [[NoRun EXCEPT !.max = m.max] EXCEPT !.recent = m.recent]
    BY <1>2, <2>1, NoRunFields
  <2> HIDE DEF r
  <2> DEFINE y == [NoRun EXCEPT !.max = m.max]
  <2>3. y \in Running /\ y.after = 0 /\ y.collected = {}
    BY <1>2, <2>1, NoRunFields
  <2>4. r = [y EXCEPT !.recent = m.recent]
    BY <2>2
  <2> HIDE DEF y
  <2> QED
    BY <1>2, <2>1, <2>3, <2>4
<1> HIDE DEF r
<1>4. "user" \in RunStates
  BY DEF RunStates
<1>5. /\ [r EXCEPT !.pc = "user"] \in Running /\ [r EXCEPT !.pc = "user"].pc = "user"
      /\ [r EXCEPT !.pc = "user"].after = 0 /\ [r EXCEPT !.pc = "user"].collected = {}
  BY <1>3, <1>4 DEF Running
<1> QED
  BY <1>1, <1>5 DEF Calls, r

\* The first page sets where a run reads on, and nothing else of it.
LEMMA FirstPageRun ==
    ASSUME Types, NEW c \in Callers, FirstPage(c)
    PROVE  \E x \in Running :
               /\ run' = [run EXCEPT ![c] = x]
               /\ x.pc = "list" /\ x.recent = run[c].recent /\ x.collected = run[c].collected
               /\ x.after \in {0, Resume(run[c])}
<1>0. PICK n \in {0, Resume(run[c])} : Calls(c, [run[c] EXCEPT !.after = n], "list")
  BY DEF FirstPage
<1> DEFINE r == [run[c] EXCEPT !.after = n]
<1>1. run[c] \in Running /\ n \in 0 .. Archive
  BY CatalogAssumption DEF Types, CatalogTypes, Resume
<1>2. /\ r \in Running /\ r.after = n
      /\ r.recent = run[c].recent /\ r.collected = run[c].collected
  BY <1>1 DEF Running
<1> HIDE DEF r
<1>3. "list" \in RunStates
  BY DEF RunStates
<1>4. /\ [r EXCEPT !.pc = "list"] \in Running /\ [r EXCEPT !.pc = "list"].pc = "list"
      /\ [r EXCEPT !.pc = "list"].after = r.after /\ [r EXCEPT !.pc = "list"].recent = r.recent
      /\ [r EXCEPT !.pc = "list"].collected = r.collected
  BY <1>2, <1>3 DEF Running
<1> QED
  BY <1>0, <1>2, <1>4 DEF Calls, r

\* A further page adds its VODs and moves the cursor past them, over nothing.
LEMMA NextPageRun ==
    ASSUME Types, NEW c \in Callers, NextPage(c)
    PROVE  \E x \in Running :
               /\ run' = [run EXCEPT ![c] = x]
               /\ x.pc = "list" /\ x.recent = run[c].recent
               /\ x.collected = run[c].collected \cup Taken(run[c])
               /\ x.after \in Videos
               /\ \A v \in Videos : v > run[c].after /\ v <= x.after => v \in Taken(run[c])
               /\ saved' \in {saved, x.after}
               /\ saved' = saved \/ run[c].recent = 0
<1>1. run[c] \in Running
  BY DEF Types, CatalogTypes
<1>2. PICK cursor \in Cursors(run[c]) :
          /\ ~Last(run[c], cursor)
          /\ \/ saved' = (IF run[c].recent = 0 THEN cursor ELSE saved) /\ faults' = faults
             \/ Fault /\ saved' = saved
          /\ Calls(c, [run[c] EXCEPT !.after = cursor,
                                     !.collected = @ \cup Taken(run[c])], "list")
  BY DEF NextPage
<1>3. /\ cursor \in Videos
      /\ \A v \in Videos : v > run[c].after /\ v <= cursor => v \in Taken(run[c])
  BY <1>1, <1>2, NextCursor DEF NextPage
<1> DEFINE r == [run[c] EXCEPT !.after = cursor, !.collected = @ \cup Taken(run[c])]
<1>4. /\ r \in Running /\ r.after = cursor
      /\ r.recent = run[c].recent /\ r.collected = run[c].collected \cup Taken(run[c])
  <2>1. cursor \in 0 .. Archive
    BY <1>3, CatalogAssumption DEF Videos
  <2>2. run[c].collected \cup Taken(run[c]) \in SUBSET Videos
    BY <1>1, TakenFromPage DEF Running
  <2>3. /\ [run[c] EXCEPT !.after = cursor] \in Running
        /\ [run[c] EXCEPT !.after = cursor].after = cursor
        /\ [run[c] EXCEPT !.after = cursor].recent = run[c].recent
        /\ [run[c] EXCEPT !.after = cursor].collected = run[c].collected
    BY <1>1, <2>1 DEF Running
  <2>4. ASSUME NEW y \in Running, NEW S \in SUBSET Videos
        PROVE  /\ [y EXCEPT !.collected = S] \in Running
               /\ [y EXCEPT !.collected = S].after = y.after
               /\ [y EXCEPT !.collected = S].recent = y.recent
               /\ [y EXCEPT !.collected = S].collected = S
    BY DEF Running
  <2>5. r = [[run[c] EXCEPT !.after = cursor] EXCEPT
                 !.collected = run[c].collected \cup Taken(run[c])]
    BY <1>1 DEF Running
  <2> HIDE DEF r
  <2> QED
    BY <2>2, <2>3, <2>4, <2>5
<1> HIDE DEF r
<1>5. "list" \in RunStates
  BY DEF RunStates
<1>6. /\ [r EXCEPT !.pc = "list"] \in Running /\ [r EXCEPT !.pc = "list"].pc = "list"
      /\ [r EXCEPT !.pc = "list"].after = r.after /\ [r EXCEPT !.pc = "list"].recent = r.recent
      /\ [r EXCEPT !.pc = "list"].collected = r.collected
  BY <1>4, <1>5 DEF Running
<1>7. run' = [run EXCEPT ![c] = [r EXCEPT !.pc = "list"]]
  BY <1>2 DEF Calls, r
<1>8. saved' \in {saved, cursor} /\ (saved' = saved \/ run[c].recent = 0)
  BY <1>2
<1> QED
  BY <1>3, <1>4, <1>6, <1>7, <1>8

\* The last page adds its VODs and leaves the cursor; the inserts begin.
LEMMA LastPageRun ==
    ASSUME Types, NEW c \in Callers, LastPage(c)
    PROVE  \E x \in Running :
               /\ run' = [run EXCEPT ![c] = x]
               /\ x.pc = "insert" /\ x.recent = run[c].recent /\ x.after = run[c].after
               /\ x.collected = run[c].collected \cup Taken(run[c])
<1> DEFINE S == run[c].collected \cup Taken(run[c])
           r == [run[c] EXCEPT !.pc = "insert"]
<1>1. run[c] \in Running /\ "insert" \in RunStates
  BY DEF Types, CatalogTypes, RunStates
<1>2. /\ r \in Running /\ r.pc = "insert"
      /\ r.recent = run[c].recent /\ r.after = run[c].after
  BY <1>1 DEF Running
<1>3. S \in SUBSET Videos
  BY <1>1, TakenFromPage DEF Running
<1>4. run' = [run EXCEPT ![c] = [r EXCEPT !.collected = S]]
  BY <1>1 DEF LastPage, Collect, Types, CatalogTypes, Running
<1> HIDE DEF r, S
<1>5. /\ [r EXCEPT !.collected = S] \in Running /\ [r EXCEPT !.collected = S].pc = "insert"
      /\ [r EXCEPT !.collected = S].after = r.after /\ [r EXCEPT !.collected = S].recent = r.recent
      /\ [r EXCEPT !.collected = S].collected = S
  BY <1>2, <1>3 DEF Running
<1> QED
  BY <1>2, <1>4, <1>5 DEF S

\* An insert takes one VOD out of the run's hands.
LEMMA InsertRun ==
    ASSUME Types, NEW c \in Callers, Insert(c)
    PROVE  \E x \in Running, v \in Videos :
               /\ run' = [run EXCEPT ![c] = x]
               /\ x.pc = "insert" /\ x.recent = run[c].recent /\ x.after = run[c].after
               /\ x.collected = run[c].collected \ {v}
               /\ v \in run[c].collected
               /\ \/ known' = known \cup {v} /\ faults' = faults /\ broken' = broken
                  \/ Fault /\ known' = known /\ broken' = TRUE
<1>1. run[c] \in Running
  BY DEF Types, CatalogTypes
<1>2. PICK v \in run[c].collected :
          /\ run' = [run EXCEPT ![c].collected = @ \ {v}]
          /\ \/ known' = known \cup {v} /\ faults' = faults /\ broken' = broken
             \/ Fault /\ known' = known /\ broken' = TRUE
  BY DEF Insert
<1> DEFINE x == [run[c] EXCEPT !.collected = run[c].collected \ {v}]
<1>3. /\ x \in Running /\ x.pc = run[c].pc /\ x.recent = run[c].recent /\ x.after = run[c].after
      /\ x.collected = run[c].collected \ {v}
  BY <1>1 DEF Running
<1>4. run' = [run EXCEPT ![c] = x]
  BY <1>2 DEF Types, CatalogTypes
<1>5. v \in Videos /\ run[c].pc = "insert"
  BY <1>1, <1>2 DEF Running, Insert
<1> HIDE DEF x
<1> QED
  BY <1>2, <1>3, <1>4, <1>5

\* A run's next call, or its end.
LEMMA CallsTypes ==
    ASSUME Types, NEW c \in Callers, NEW r, NEW pc, Calls(c, r, pc)
    PROVE  call' \in [Callers -> Calling]
BY FreshCalls DEF Calls, Types, HelixTypes

\* A run that ends leaves caller, run and app token well typed.
LEMMA EndsTypes ==
    ASSUME Types, NEW c \in Callers, Ends(c)
    PROVE  /\ call' \in [Callers -> Calling] /\ run' \in [Callers -> Running]
           /\ token' \in [Callers -> {"none", "good", "revoked"}]
BY FreshCalls, NoRunFields DEF Ends, Types, HelixTypes, CatalogTypes

\* Every step keeps the types.
LEMMA TypesKept ==
    ASSUME Types, [Next]_vars
    PROVE  Types'
<1> USE HelixAssumption DEF Types, HelixTypes
<1>1. ASSUME NEW c \in Callers, Begin(c) PROVE Types'
  <2>1. run' \in [Callers -> Running]
    BY <1>1, BeginRun DEF CatalogTypes
  <2>2. call' \in [Callers -> Calling]
    BY <1>1, CallsTypes DEF Begin
  <2> QED
    BY <1>1, <2>1, <2>2 DEF Begin, CatalogTypes
<1>2. ASSUME NEW c \in Callers, FirstPage(c) PROVE Types'
  <2>1. run' \in [Callers -> Running]
    BY <1>2, FirstPageRun DEF CatalogTypes
  <2>2. call' \in [Callers -> Calling]
    BY <1>2, CallsTypes DEF FirstPage
  <2>3. faults' \in 0 .. MaxFaults
    BY <1>2 DEF FirstPage, Fault
  <2> QED
    BY <1>2, <2>1, <2>2, <2>3 DEF FirstPage, CatalogTypes
<1>3. ASSUME NEW c \in Callers, LastPage(c) PROVE Types'
  <2>1. run' \in [Callers -> Running]
    BY <1>3, LastPageRun DEF CatalogTypes
  <2> QED
    BY <1>3, <2>1 DEF LastPage, helix, CatalogTypes
<1>4. ASSUME NEW c \in Callers, NextPage(c) PROVE Types'
  <2>1. run' \in [Callers -> Running] /\ saved' \in 0 .. Archive
    BY <1>4, NextPageRun, CatalogAssumption DEF CatalogTypes, Videos
  <2>2. call' \in [Callers -> Calling]
    BY <1>4, CallsTypes DEF NextPage
  <2> QED
    BY <1>4, <2>1, <2>2 DEF NextPage, Fault, CatalogTypes
<1>5. ASSUME NEW c \in Callers, Insert(c) PROVE Types'
  <2>1. /\ run' \in [Callers -> Running] /\ known' \in SUBSET Videos /\ broken' \in BOOLEAN
        /\ faults' \in 0 .. MaxFaults
    <3>1. PICK x \in Running, v \in Videos :
              /\ run' = [run EXCEPT ![c] = x]
              /\ \/ known' = known \cup {v} /\ faults' = faults /\ broken' = broken
                 \/ Fault /\ known' = known /\ broken' = TRUE
      BY <1>5, InsertRun
    <3>2. run' \in [Callers -> Running]
      BY <3>1 DEF CatalogTypes
    <3>3. known' \in SUBSET Videos /\ broken' \in BOOLEAN
      BY <3>1, Zenon DEF CatalogTypes
    <3>4. faults' \in 0 .. MaxFaults
      BY <3>1 DEF Fault
    <3> QED
      BY <3>2, <3>3, <3>4
  <2> QED
    BY <1>5, <2>1 DEF Insert, helix, CatalogTypes
<1>6. ASSUME NEW c \in Callers, Finish(c) PROVE Types'
  BY <1>6, EndsTypes DEF Finish, CatalogTypes
<1>7. ASSUME NEW c \in Callers, Error(c) PROVE Types'
  BY <1>7, EndsTypes DEF Error, CatalogTypes
<1>8. ASSUME NEW c \in Callers, CutOff(c) PROVE Types'
  BY <1>8, EndsTypes DEF CutOff, Fault, CatalogTypes
<1>9. ASSUME NEW c \in Callers, HelixStep(c), UNCHANGED catalog PROVE Types'
  BY <1>9, HelixStepTypes
<1>10. CASE Revoke /\ UNCHANGED catalog
  BY <1>10 DEF Revoke, catalog, CatalogTypes
<1>11. CASE UNCHANGED vars
  BY <1>11 DEF vars, helix, catalog, CatalogTypes
<1> QED
  BY <1>1, <1>2, <1>3, <1>4, <1>5, <1>6, <1>7, <1>8, <1>9, <1>10, <1>11 DEF Next, Backfill

\* The types, with the fields of a call and of a run.
LEMMA TypesHold == Spec => []Types
<1>1. Init => Types
  <2>1. 0 \in 0 .. MaxBlips /\ 0 \in 0 .. MaxFaults /\ 0 \in 0 .. Archive
    BY HelixAssumption, CatalogAssumption
  <2> QED
    BY <2>1, FreshCalls, NoRunFields, Zenon
       DEF Init, HelixInit, Types, HelixTypes, CatalogTypes
<1>2. Types /\ [Next]_vars => Types'
  BY TypesKept
<1> QED
  BY <1>1, <1>2, PTL DEF Spec

(***************************************************************************)
(* Everything keeps its type: the counter of attempts of the client stays     *)
(* within its range, and the cursor within the archive.                      *)
(***************************************************************************)
THEOREM TypeCorrect == Spec => []TypeOK
<1>1. Types => TypeOK
  BY CatalogAssumption DEF Types, HelixTypes, CatalogTypes, TypeOK, HelixTypeOK, Calling, Running,
                           CallStates, RunStates, Videos
<1> QED
  BY <1>1, TypesHold, PTL

-----------------------------------------------------------------------------
(* The client.                                                              *)

\* What a step of a run does to the caller's call: a new one, none, or nothing.
LEMMA RunStep ==
    ASSUME Types, NEW c \in Callers,
           \/ Begin(c) \/ FirstPage(c) \/ LastPage(c) \/ NextPage(c)
           \/ Insert(c) \/ Finish(c) \/ Error(c) \/ CutOff(c)
    PROVE  /\ revoked' = revoked /\ blips' = blips
           /\ \/ call' = call /\ token' = token
              \/ call' = [call EXCEPT ![c] = Request] /\ token' = token
              \/ call' = [call EXCEPT ![c] = NoCall] /\ token' = [token EXCEPT ![c] = "none"]
           /\ faults' \in {faults, faults + 1}
           /\ broken' = broken \/ call[c].st = "error" \/ faults' = faults + 1
<1> USE DEF Calls, Ends, Fault
<1>1. CASE Begin(c)
  BY <1>1 DEF Begin
<1>2. CASE FirstPage(c)
  BY <1>2 DEF FirstPage
<1>3. CASE LastPage(c)
  BY <1>3 DEF LastPage, helix
<1>4. CASE NextPage(c)
  BY <1>4 DEF NextPage
<1>5. CASE Insert(c)
  BY <1>5 DEF Insert, helix
<1>6. CASE Finish(c)
  BY <1>6 DEF Finish
<1>7. CASE Error(c)
  BY <1>7 DEF Error
<1>8. CASE CutOff(c)
  BY <1>8 DEF CutOff
<1> QED
  BY <1>1, <1>2, <1>3, <1>4, <1>5, <1>6, <1>7, <1>8

\* A refused token is replaced by one that Twitch does not refuse.
LEMMA TokenKept ==
    ASSUME Types, TokenInv, [Next]_vars
    PROVE  TokenInv'
<1> USE DEF Types, HelixTypes, TokenInv
<1>1. ASSUME NEW c \in Callers,
             \/ Begin(c) \/ FirstPage(c) \/ LastPage(c) \/ NextPage(c)
             \/ Insert(c) \/ Finish(c) \/ Error(c) \/ CutOff(c)
      PROVE  TokenInv'
  BY <1>1, RunStep, FreshCalls
<1>2. ASSUME NEW c \in Callers, HelixStep(c) PROVE TokenInv'
  <2>1. call[c].attempt \in 1 .. MaxRetries
    BY DEF Calling
  <2>2. CASE Get(c)
    <3>1. PICK st \in CallStates : call' = [call EXCEPT ![c].st = st]
      BY <2>2 DEF Get, Fails, CallStates
    <3>2. \A d \in Callers : call'[d].refreshed = call[d].refreshed
      BY <3>1 DEF Calling
    <3>3. revoked' = revoked /\ \A d \in Callers : token'[d] = "revoked" => token[d] = "revoked"
      BY <2>2 DEF Get
    <3> QED
      BY <3>2, <3>3
  <2>3. CASE Succeeds(c)
    BY <2>1, <2>3, SentCall DEF Succeeds, CallStates
  <2>4. CASE Unauthorized(c)
    <3>1. CASE call[c].refreshed
      BY <2>1, <2>4, <3>1, SentCall DEF Unauthorized, CallStates
    <3>2. CASE ~call[c].refreshed
      BY <2>4, <3>2 DEF Unauthorized
    <3> QED
      BY <3>1, <3>2
  <2>5. CASE Blip(c)
    <3>1. PICK st \in CallStates, a \in 1 .. MaxRetries : call' = [call EXCEPT ![c] = Sent(c, st, a)]
      <4>1. Retries(call[c].attempt) => call[c].attempt + 1 \in 1 .. MaxRetries
        BY <2>1, HelixAssumption DEF Retries
      <4> QED
        BY <2>1, <2>5, <4>1 DEF Blip, CallStates
    <3> QED
      BY <2>5, <3>1, SentCall DEF Blip
  <2>6. CASE Refused(c)
    BY <2>1, <2>6, SentCall DEF Refused, CallStates
  <2> QED
    BY <1>2, <2>2, <2>3, <2>4, <2>5, <2>6 DEF HelixStep
<1>3. CASE Revoke
  BY <1>3 DEF Revoke
<1>4. CASE UNCHANGED vars
  BY <1>4 DEF vars, helix
<1> QED
  BY <1>1, <1>2, <1>3, <1>4 DEF Next, Backfill

\* The steps of a call keep it: each attempt is paid for, and the last is not followed by another.
LEMMA HelixStepClient ==
    ASSUME Types, ClientInv, NEW c \in Callers, HelixStep(c), UNCHANGED catalog
    PROVE  UnusedInv' /\ AttemptsInv' /\ BudgetInv'
<1> USE HelixAssumption DEF Types, HelixTypes, ClientInv, UnusedInv, AttemptsInv, BudgetInv, Absorbed
<1>1. call[c] \in Calling /\ call[c].attempt \in 1 .. MaxRetries /\ broken' = broken
  BY DEF Calling, catalog
<1>2. \A d \in Callers \ {c} : call'[d] = call[d]
  BY DEF HelixStep, Get, Fails, Succeeds, Unauthorized, Blip, Refused
<1>3. CASE Get(c)
  <2>1. CASE call' = [call EXCEPT ![c].st = "send"] /\ faults' = faults
    <3>1. /\ call'[c].st = "send" /\ call'[c].attempt = call[c].attempt
          /\ call'[c].refreshed = call[c].refreshed /\ call'[c].unused = call[c].unused
      BY <1>1, <2>1 DEF Calling
    <3> QED
      BY <1>1, <1>2, <1>3, <2>1, <3>1 DEF Get
  <2>2. CASE call' = [call EXCEPT ![c].st = "error"] /\ faults' = faults + 1
    <3>1. /\ call'[c].attempt = call[c].attempt /\ call'[c].refreshed = call[c].refreshed
      BY <1>1, <2>2 DEF Calling
    <3> QED
      BY <1>1, <1>2, <1>3, <2>2, <3>1 DEF Get
  <2> QED
    BY <1>3, <2>1, <2>2 DEF Get, Fault, Fails
<1>4. CASE Succeeds(c)
  <2>1. /\ call'[c].st = "ok" /\ call'[c].attempt = call[c].attempt
        /\ call'[c].refreshed = call[c].refreshed /\ ~call'[c].unused
    BY <1>1, <1>4, SentCall DEF Succeeds, CallStates
  <2> QED
    BY <1>1, <1>2, <1>4, <2>1 DEF Succeeds
<1>5. CASE Unauthorized(c)
  <2>1. ~call[c].refreshed /\ revoked
    BY <1>5 DEF Unauthorized, TokenInv
  <2>2. /\ call'[c].st = "get" /\ call'[c].refreshed
        /\ call'[c].attempt <= call[c].attempt + 1 /\ call'[c].attempt \in 1 .. MaxRetries
    <3> DEFINE next == NextAttempt(call[c].attempt)
               x == [Sent(c, Loops(next), next) EXCEPT !.refreshed = TRUE, !.unused = TRUE]
    <3>1. call' = [call EXCEPT ![c] = x]
      BY <1>5, <2>1 DEF Unauthorized
    <3>2. x \in Calling /\ x.st = "get" /\ x.refreshed /\ x.attempt <= call[c].attempt + 1
      BY ReplacedCall
    <3> HIDE DEF x
    <3> QED
      BY <3>1, <3>2 DEF Calling
  <2>3. revoked' = revoked /\ blips' = blips /\ faults' = faults
    BY <1>5 DEF Unauthorized
  <2> QED
    BY <1>1, <1>2, <2>1, <2>2, <2>3
<1>6. CASE Blip(c)
  <2>3. /\ blips' = blips + 1 /\ revoked' = revoked /\ faults' = faults
        /\ \A d \in Callers : call[d].attempt \in Nat
    BY <1>6 DEF Blip, Calling
  <2>1. CASE Retries(call[c].attempt)
    <3>1. call[c].attempt + 1 \in 1 .. MaxRetries
      BY <1>1, <2>1 DEF Retries
    <3>2. /\ call'[c].st = "get" /\ call'[c].attempt = call[c].attempt + 1
          /\ call'[c].refreshed = call[c].refreshed /\ ~call'[c].unused
      BY <1>6, <2>1, <3>1, SentCall DEF Blip, CallStates
    <3> QED
      BY <1>1, <1>2, <2>3, <3>2
  <2>2. CASE ~Retries(call[c].attempt)
    <3>1. /\ call'[c].st = "error" /\ call'[c].attempt = call[c].attempt
          /\ call'[c].refreshed = call[c].refreshed /\ ~call'[c].unused
      BY <1>1, <1>6, <2>2, SentCall DEF Blip, CallStates
    <3>2. call[c].attempt = MaxRetries
      BY <1>1, <2>2 DEF Retries
    <3>3. ~Absorbed'
      BY <1>1, <2>3, <3>2 DEF TokenInv
    <3> QED
      BY <1>1, <1>2, <2>3, <3>1, <3>3
  <2> QED
    BY <2>1, <2>2
<1>7. CASE Refused(c)
  <2>1. /\ call'[c].attempt = call[c].attempt
        /\ call'[c].refreshed = call[c].refreshed /\ ~call'[c].unused
    BY <1>1, <1>7, SentCall DEF Refused, CallStates
  <2> QED
    BY <1>1, <1>2, <1>7, <2>1 DEF Refused, Fault
<1> QED
  BY <1>3, <1>4, <1>5, <1>6, <1>7 DEF HelixStep

\* Every step keeps the client's invariant.
LEMMA ClientKept ==
    ASSUME Types, ClientInv, [Next]_vars
    PROVE  ClientInv'
<1>1. TokenInv'
  BY TokenKept DEF ClientInv
<1>2. UnusedInv' /\ AttemptsInv' /\ BudgetInv'
  <2> USE HelixAssumption DEF Types, HelixTypes, ClientInv, UnusedInv, AttemptsInv, BudgetInv, Absorbed
  <2>1. ASSUME NEW c \in Callers,
               \/ Begin(c) \/ FirstPage(c) \/ LastPage(c) \/ NextPage(c)
               \/ Insert(c) \/ Finish(c) \/ Error(c) \/ CutOff(c)
        PROVE  UnusedInv' /\ AttemptsInv' /\ BudgetInv'
    BY <2>1, RunStep, FreshCalls
  <2>2. ASSUME NEW c \in Callers, HelixStep(c), UNCHANGED catalog
        PROVE  UnusedInv' /\ AttemptsInv' /\ BudgetInv'
    BY <2>2, HelixStepClient
  <2>3. CASE Revoke /\ UNCHANGED catalog
    BY <2>3 DEF Revoke, catalog
  <2>4. CASE UNCHANGED vars
    BY <2>4 DEF vars, helix, catalog
  <2> QED
    BY <2>1, <2>2, <2>3, <2>4 DEF Next, Backfill
<1> QED
  BY <1>1, <1>2 DEF ClientInv

\* What the client promises follows from this.
LEMMA ClientCorrect == Spec => []ClientInv
<1>1. Init => ClientInv
  BY FreshCalls, HelixAssumption
     DEF Init, HelixInit, ClientInv, TokenInv, UnusedInv, AttemptsInv, BudgetInv, Absorbed
<1>2. Types /\ ClientInv /\ [Next]_vars => ClientInv'
  BY ClientKept
<1> QED
  BY <1>1, <1>2, TypesHold, PTL DEF Spec

(***************************************************************************)
(* helix.go: "the refreshed token still gets at least one more request": a    *)
(* token that replaces a refused one is sent before the call gives up,        *)
(* whatever the number of attempts and on whichever of them the 401 came.     *)
(***************************************************************************)
THEOREM ReplacementIsTried == Spec => []RefreshedIsTried
<1>1. ClientInv => RefreshedIsTried
  BY DEF ClientInv, UnusedInv, RefreshedIsTried
<1> QED
  BY <1>1, ClientCorrect, PTL

(***************************************************************************)
(* No run of the backfill ends early while the failures of Twitch, and the    *)
(* revocation of the token, are fewer than the attempts of one request,       *)
(* however many callers meet them.                                          *)
(***************************************************************************)
THEOREM FailuresAreAbsorbed == Spec => []BlipsAreAbsorbed
<1>1. ClientInv => BlipsAreAbsorbed
  BY DEF ClientInv, BudgetInv, Absorbed, BlipsAreAbsorbed
<1> QED
  BY <1>1, ClientCorrect, PTL

-----------------------------------------------------------------------------
(* The cursor.                                                              *)

\* A VOD that is held stays so in a step that changes one run, unless the step breaks off
\* the run: what the run gives up has its row.
LEMMA HeldStays ==
    ASSUME Types, NEW c \in Callers, NEW x \in Running, run' = [run EXCEPT ![c] = x],
           \A v \in known : v \in known',
           \A v \in run[c].collected : v \in x.collected \/ v \in known',
           NEW v, Held(v)
    PROVE  Held(v)'
<1>1. CASE v \in known
  BY <1>1 DEF Held
<1>2. ASSUME NEW d \in Callers, v \in run[d].collected PROVE Held(v)'
  <2>1. CASE d = c
    BY <1>2, <2>1 DEF Held, Types, CatalogTypes
  <2>2. CASE d # c
    <3>1. run'[d] = run[d]
      BY <2>2 DEF Types, CatalogTypes
    <3> QED
      BY <1>2, <3>1 DEF Held
  <2> QED
    BY <2>1, <2>2
<1> QED
  BY <1>1, <1>2 DEF Held

\* If nothing that is held gets lost, if the run that moved passed only what is held, and if
\* the saved cursor is the old one or that run's, the invariant holds again.
LEMMA CursorStep ==
    ASSUME Types, CursorInv, broken' = broken,
           NEW c \in Callers, NEW x \in Running, run' = [run EXCEPT ![c] = x],
           x.pc = "idle" => x = NoRun,
           ~broken => \A v : Held(v) => Held(v)',
           ~broken /\ x.recent = 0 => \A v \in 1 .. x.after : Held(v)',
           saved' = saved \/ (saved' = x.after /\ x.recent = 0)
    PROVE  CursorInv'
<1>1. \A d \in Callers : run'[d] = IF d = c THEN x ELSE run[d]
  BY DEF Types, CatalogTypes
<1>2. IdleInv'
  BY <1>1 DEF CursorInv, IdleInv
<1>3. PassedInv'
  <2> SUFFICES ASSUME ~broken, NEW d \in Callers, run'[d].recent = 0, NEW v \in 1 .. run'[d].after
               PROVE  Held(v)'
    BY DEF PassedInv
  <2>1. CASE d = c
    BY <1>1, <2>1
  <2>2. CASE d # c
    BY <1>1, <2>2 DEF CursorInv, PassedInv
  <2> QED
    BY <2>1, <2>2
<1>4. NothingSkipped'
  <2> SUFFICES ASSUME ~broken, NEW v \in 1 .. saved' PROVE Held(v)'
    BY DEF NothingSkipped, Held
  <2>1. CASE saved' = saved
    BY <2>1 DEF CursorInv, NothingSkipped, Held
  <2>2. CASE saved' = x.after /\ x.recent = 0
    BY <2>2
  <2> QED
    BY <2>1, <2>2
<1> QED
  BY <1>2, <1>3, <1>4 DEF CursorInv

\* Every step keeps the cursor's invariant.
LEMMA CursorKept ==
    ASSUME Types, CursorInv, [Next]_vars
    PROVE  CursorInv'
<1> USE DEF Types, CatalogTypes
<1>1. ASSUME NEW c \in Callers, Begin(c) PROVE CursorInv'
  <2>1. PICK x \in Running : /\ run' = [run EXCEPT ![c] = x]
                             /\ x.pc = "user" /\ x.after = 0 /\ x.collected = {}
    BY <1>1, BeginRun
  <2>2. run[c].collected = {}
    BY <1>1, NoRunFields DEF Begin, CursorInv, IdleInv
  <2>3. known' = known /\ saved' = saved /\ broken' = broken
    BY <1>1 DEF Begin
  <2>4. \A v : Held(v) => Held(v)'
    BY <2>1, <2>2, <2>3, HeldStays
  <2>5. \A v \in 1 .. x.after : Held(v)'
    <3>1. \A v : v \notin 1 .. 0
      OBVIOUS
    <3> QED
      BY <2>1, <3>1
  <2> QED
    BY <2>1, <2>3, <2>4, <2>5, CursorStep
<1>2. ASSUME NEW c \in Callers, FirstPage(c) PROVE CursorInv'
  <2>1. PICK x \in Running :
            /\ run' = [run EXCEPT ![c] = x]
            /\ x.pc = "list" /\ x.recent = run[c].recent /\ x.collected = run[c].collected
            /\ x.after \in {0, Resume(run[c])}
    BY <1>2, FirstPageRun
  <2>2. known' = known /\ saved' = saved /\ broken' = broken
    BY <1>2 DEF FirstPage
  <2>3. \A v : Held(v) => Held(v)'
    BY <2>1, <2>2, HeldStays
  <2>4. ~broken /\ x.recent = 0 => \A v \in 1 .. x.after : Held(v)'
    <3>1. x.recent = 0 => x.after \in {0, saved}
      BY <2>1 DEF Resume
    <3>2. ~broken => \A v \in 1 .. saved : Held(v)
      BY DEF CursorInv, NothingSkipped, Held
    <3> QED
      BY <2>3, <3>1, <3>2
  <2> QED
    BY <2>1, <2>2, <2>3, <2>4, CursorStep
<1>3. ASSUME NEW c \in Callers, LastPage(c) PROVE CursorInv'
  <2>1. PICK x \in Running :
            /\ run' = [run EXCEPT ![c] = x]
            /\ x.pc = "insert" /\ x.recent = run[c].recent /\ x.after = run[c].after
            /\ x.collected = run[c].collected \cup Taken(run[c])
    BY <1>3, LastPageRun
  <2>2. known' = known /\ saved' = saved /\ broken' = broken
    BY <1>3 DEF LastPage
  <2>3. \A v : Held(v) => Held(v)'
    BY <2>1, <2>2, HeldStays
  <2>4. ~broken /\ x.recent = 0 => \A v \in 1 .. x.after : Held(v)'
    BY <2>1, <2>3 DEF CursorInv, PassedInv
  <2> QED
    BY <2>1, <2>2, <2>3, <2>4, CursorStep
<1>4. ASSUME NEW c \in Callers, NextPage(c) PROVE CursorInv'
  <2>1. PICK x \in Running :
            /\ run' = [run EXCEPT ![c] = x]
            /\ x.pc = "list" /\ x.recent = run[c].recent
            /\ x.collected = run[c].collected \cup Taken(run[c])
            /\ x.after \in Videos
            /\ \A v \in Videos : v > run[c].after /\ v <= x.after => v \in Taken(run[c])
            /\ saved' \in {saved, x.after}
            /\ saved' = saved \/ run[c].recent = 0
    BY <1>4, NextPageRun
  <2>2. known' = known /\ broken' = broken
    BY <1>4 DEF NextPage
  <2>3. \A v : Held(v) => Held(v)'
    BY <2>1, <2>2, HeldStays
  <2>4. ~broken /\ x.recent = 0 => \A v \in 1 .. x.after : Held(v)'
    <3> SUFFICES ASSUME ~broken, x.recent = 0, NEW v \in 1 .. x.after PROVE Held(v)'
      OBVIOUS
    <3>1. run[c].after \in Nat /\ v \in Videos
      BY <2>1, CatalogAssumption DEF Running, Videos
    <3>2. CASE v <= run[c].after
      <4>1. v \in 1 .. run[c].after
        BY <3>1, <3>2 DEF Videos
      <4> QED
        BY <2>1, <2>3, <4>1 DEF CursorInv, PassedInv
    <3>3. CASE v > run[c].after
      <4>1. v \in x.collected
        BY <2>1, <3>1, <3>3
      <4> QED
        BY <2>1, <4>1 DEF Held
    <3> QED
      BY <3>1, <3>2, <3>3 DEF Videos
  <2>5. saved' = saved \/ (saved' = x.after /\ x.recent = 0)
    BY <2>1
  <2> QED
    BY <2>1, <2>2, <2>3, <2>4, <2>5, CursorStep
<1>5. ASSUME NEW c \in Callers, Insert(c) PROVE CursorInv'
  <2>1. PICK x \in Running, w \in Videos :
            /\ run' = [run EXCEPT ![c] = x]
            /\ x.pc = "insert" /\ x.recent = run[c].recent /\ x.after = run[c].after
            /\ x.collected = run[c].collected \ {w}
            /\ w \in run[c].collected
            /\ \/ known' = known \cup {w} /\ faults' = faults /\ broken' = broken
               \/ Fault /\ known' = known /\ broken' = TRUE
    BY <1>5, InsertRun
  <2>2. saved' = saved
    BY <1>5 DEF Insert
  <2>3. CASE known' = known \cup {w} /\ broken' = broken
    <3>1. \A v : Held(v) => Held(v)'
      BY <2>1, <2>3, HeldStays
    <3>2. ~broken /\ x.recent = 0 => \A v \in 1 .. x.after : Held(v)'
      BY <2>1, <3>1 DEF CursorInv, PassedInv
    <3> QED
      BY <2>1, <2>2, <2>3, <3>1, <3>2, CursorStep
  <2>4. CASE broken'
    <3>1. x.pc # "idle"
      BY <2>1
    <3>2. IdleInv'
      BY <2>1, <3>1 DEF CursorInv, IdleInv
    <3> QED
      BY <2>4, <3>2 DEF CursorInv, PassedInv, NothingSkipped
  <2> QED
    BY <2>1, <2>3, <2>4
<1>6. ASSUME NEW c \in Callers, Finish(c) PROVE CursorInv'
  <2>1. run' = [run EXCEPT ![c] = NoRun] /\ run[c].collected = {}
    BY <1>6 DEF Finish, Ends
  <2>2. known' = known /\ saved' = saved /\ broken' = broken
    BY <1>6 DEF Finish
  <2>3. \A v : Held(v) => Held(v)'
    BY <2>1, <2>2, HeldStays, NoRunFields
  <2>4. \A v \in 1 .. NoRun.after : Held(v)'
    <3>1. \A v : v \notin 1 .. 0
      OBVIOUS
    <3> QED
      BY <3>1, NoRunFields
  <2> QED
    BY <2>1, <2>2, <2>3, <2>4, NoRunFields, CursorStep
<1>7. ASSUME NEW c \in Callers, Error(c) \/ CutOff(c) PROVE CursorInv'
  <2>1. run' = [run EXCEPT ![c] = NoRun] /\ broken'
    BY <1>7 DEF Error, CutOff, Ends
  <2> QED
    BY <2>1 DEF CursorInv, IdleInv, PassedInv, NothingSkipped
<1>8. CASE UNCHANGED catalog
  BY <1>8 DEF catalog, CursorInv, IdleInv, PassedInv, NothingSkipped, Held
<1> QED
  BY <1>1, <1>2, <1>3, <1>4, <1>5, <1>6, <1>7, <1>8 DEF Next, Backfill, vars

(***************************************************************************)
(* The job and the requests of administrators move one cursor, forwards and  *)
(* back, ahead of the rows they insert; still no VOD is passed over: as long  *)
(* as no run ends early, whatever the cursor has passed has a row or is in    *)
(* the hands of a run.  For any number of requests, archives and pages.       *)
(***************************************************************************)
THEOREM CursorSkipsNothing == Spec => []NothingSkipped
<1>1. Init => CursorInv
  <2>1. \A v : v \notin 1 .. 0
    OBVIOUS
  <2> QED
    BY <2>1, NoRunFields DEF Init, CursorInv, IdleInv, PassedInv, NothingSkipped
<1>2. Types /\ CursorInv /\ [Next]_vars => CursorInv'
  BY CursorKept
<1>3. CursorInv => NothingSkipped
  BY DEF CursorInv
<1> QED
  BY <1>1, <1>2, <1>3, TypesHold, PTL DEF Spec

=============================================================================
