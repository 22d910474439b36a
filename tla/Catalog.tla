------------------------------ MODULE Catalog ------------------------------
(***************************************************************************)
(* The catalog backfill of backend/vod/catalog.go: the job of a channel and    *)
(* the request of an administrator run the same function at the same time.    *)
(* It pages through the archive, newest first, from the cursor in kv, saves   *)
(* the cursor after each page, and inserts what it has collected at the end.  *)
(***************************************************************************)
EXTENDS HelixClient, FiniteSets

CONSTANTS
    Job,       \* the caller that is the job; the others are requests
    Archive,   \* how many VODs the channel has, 1 being the newest
    PageSize,  \* 100
    JobMax,    \* VOD_CATALOG_MAX, 0 if there is no limit
    Modes      \* what requests ask for: maxCount, and how many VODs are within maxAge, 0 if unset

ASSUME CatalogAssumption ==
    /\ Job \in Callers /\ Archive \in Nat /\ PageSize \in Nat \ {0} /\ JobMax \in Nat
    /\ Modes \subseteq [max : Nat, recent : Nat]

Videos == 1 .. Archive

VARIABLES
    known,  \* the VODs that have a row
    saved,  \* kv's catalog_after: the last VOD of a page, 0 if there is none
    run,    \* a caller's BackfillCatalog
    broken  \* a run ended before it had inserted what it had passed

catalog == <<known, saved, run, broken>>
vars == <<helix, faults, catalog>>

NoRun == [pc |-> "idle", max |-> 0, recent |-> 0, after |-> 0, collected |-> {}]

Init ==
    /\ HelixInit
    /\ known = {} /\ saved = 0 /\ broken = FALSE
    /\ run = [c \in Callers |-> NoRun]

\* A caller's next call, and where it goes on when that has an answer.
Calls(c, r, pc) ==
    /\ run' = [run EXCEPT ![c] = [r EXCEPT !.pc = pc]]
    /\ call' = [call EXCEPT ![c] = Request]

Ends(c) ==
    /\ run' = [run EXCEPT ![c] = NoRun]
    /\ call' = [call EXCEPT ![c] = NoCall] /\ token' = [token EXCEPT ![c] = "none"]

Answered(c, pc) == run[c].pc = pc /\ call[c].st = "ok"

-----------------------------------------------------------------------------
\* GetUserID, with a client of its own
Begin(c) ==
    /\ run[c].pc = "idle"
    /\ \E m \in IF c = Job THEN {[max |-> JobMax, recent |-> 0]} ELSE Modes :
           Calls(c, [NoRun EXCEPT !.max = m.max, !.recent = m.recent], "user")
    /\ UNCHANGED <<token, revoked, blips, faults, known, saved, broken>>

\* Mutant: the cursor is never read back.
ResumeBug(r) == 0

\* The cursor is read unless only recent VODs are wanted.
Resume(r) == IF r.recent = 0 THEN saved ELSE 0

\* If the read fails the run starts at the newest VOD.
FirstPage(c) ==
    /\ Answered(c, "user")
    /\ \/ Calls(c, [run[c] EXCEPT !.after = Resume(run[c])], "list") /\ faults' = faults
       \/ Calls(c, [run[c] EXCEPT !.after = 0], "list") /\ Fault
    /\ UNCHANGED <<token, revoked, blips, known, saved, broken>>

\* The page Helix answers with.
Page(r) ==
    LET size == IF r.max \in 1 .. PageSize THEN r.max ELSE PageSize
    IN  {v \in Videos : v > r.after /\ v <= r.after + size}

\* What is taken from it: nothing older than maxAge, and maxCount in all.
Taken(r) ==
    {v \in Page(r) :
        /\ r.recent > 0 => v <= r.recent
        /\ r.max > 0 => Cardinality(r.collected) + v - r.after <= r.max}

Full(r) == r.max > 0 /\ Cardinality(r.collected \cup Taken(r)) >= r.max

\* Mutant: the cursor goes on though maxCount cut the page short.
LastBug(r, cursor) == cursor = 0 \/ (r.recent > 0 /\ ~(Page(r) \subseteq Taken(r)))

\* This page is the last one: empty, cut by either limit, or without a cursor.
Last(r, cursor) == cursor = 0 \/ Full(r) \/ ~(Page(r) \subseteq Taken(r))

Collect(c) ==
    run' = [run EXCEPT ![c].pc = "insert", ![c].collected = @ \cup Taken(run[c])]

\* At the end of the archive Helix gives no cursor, or one to an empty page.
Cursors(r) ==
    {r.after + Cardinality(Page(r))} \cup (IF Archive \in Page(r) THEN {0} ELSE {})

LastPage(c) ==
    /\ Answered(c, "list")
    /\ Page(run[c]) = {} \/ \E cursor \in Cursors(run[c]) : Last(run[c], cursor)
    /\ Collect(c)
    /\ UNCHANGED <<helix, faults, known, saved, broken>>

\* The cursor is saved (or not: the error is ignored), and after a while the next
\* page is asked for.
NextPage(c) ==
    /\ Answered(c, "list") /\ Page(run[c]) # {}
    /\ \E cursor \in Cursors(run[c]) :
           /\ ~Last(run[c], cursor)
           /\ \/ saved' = (IF run[c].recent = 0 THEN cursor ELSE saved) /\ faults' = faults
              \/ Fault /\ saved' = saved
           /\ Calls(c, [run[c] EXCEPT !.after = cursor,
                                      !.collected = @ \cup Taken(run[c])], "list")
    /\ UNCHANGED <<token, revoked, blips, known, broken>>

\* One INSERT, whose error is ignored.
Insert(c) ==
    /\ run[c].pc = "insert" /\ run[c].collected # {}
    /\ \E v \in run[c].collected :
           /\ \A w \in run[c].collected : v <= w
           /\ run' = [run EXCEPT ![c].collected = @ \ {v}]
           /\ \/ known' = known \cup {v} /\ faults' = faults /\ broken' = broken
              \/ Fault /\ known' = known /\ broken' = TRUE
    /\ UNCHANGED <<helix, saved>>

Finish(c) ==
    /\ run[c].pc = "insert" /\ run[c].collected = {}
    /\ Ends(c)
    /\ UNCHANGED <<revoked, blips, faults, known, saved, broken>>

\* FetchAllChannelVODs returns an error: what was collected is not inserted.
Error(c) ==
    /\ call[c].st = "error" /\ Ends(c) /\ broken' = TRUE
    /\ UNCHANGED <<revoked, blips, faults, known, saved>>

\* The process dies, or the client of a request goes away.
CutOff(c) ==
    /\ run[c].pc # "idle" /\ Fault /\ Ends(c) /\ broken' = TRUE
    /\ UNCHANGED <<revoked, blips, known, saved>>

Backfill(c) ==
    \/ Begin(c) \/ FirstPage(c) \/ LastPage(c) \/ NextPage(c)
    \/ Insert(c) \/ Finish(c) \/ Error(c)
    \/ HelixStep(c) /\ UNCHANGED catalog

Next ==
    \/ \E c \in Callers : Backfill(c) \/ CutOff(c)
    \/ Revoke /\ UNCHANGED catalog

Spec == Init /\ [][Next]_vars

\* The job's ticker starts run after run, and calls and statements end.  Nobody has
\* to make a request.
FairSpec ==
    /\ Spec
    /\ WF_vars(Backfill(Job))
    /\ \A c \in Callers \ {Job} : WF_vars(Backfill(c) /\ run[c].pc # "idle")

-----------------------------------------------------------------------------
TypeOK ==
    /\ HelixTypeOK
    /\ known \subseteq Videos /\ saved \in {0} \cup Videos /\ broken \in BOOLEAN
    /\ \A c \in Callers :
           /\ run[c].pc \in {"idle", "user", "list", "insert"}
           /\ run[c].max \in Nat /\ run[c].recent \in Nat
           /\ run[c].after \in {0} \cup Videos /\ run[c].collected \subseteq Videos

(***************************************************************************)
(* The cursor runs ahead of the rows, and the job and requests move it for     *)
(* each other, forwards and back.  Still no VOD is skipped for ever, as long   *)
(* as no run ends early: whatever the saved cursor has passed has a row or is *)
(* held by a run that will insert it.                                        *)
(***************************************************************************)
NothingSkipped ==
    ~broken => \A v \in 1 .. saved : v \in known \/ \E c \in Callers : v \in run[c].collected

(***************************************************************************)
(* Runs do not end early for what the Helix client is there to absorb: fewer  *)
(* failing answers than it has attempts, the replacement of a token that     *)
(* Twitch revoked among them.                                               *)
(***************************************************************************)
BlipsAreAbsorbed ==
    faults = 0 /\ blips + (IF revoked THEN 1 ELSE 0) < MaxRetries => ~broken

(***************************************************************************)
(* The job comes to the end of the archive, also when VOD_CATALOG_MAX stops    *)
(* each of its runs on the way (if it is more than a page), unless a run     *)
(* ended early.                                                             *)
(***************************************************************************)
AllIsKnown == <>(broken \/ known = Videos)
=============================================================================
