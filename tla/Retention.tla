----------------------------- MODULE Retention -----------------------------
(***************************************************************************)
(* The retention job of backend/vod/retention.go: one more goroutine per      *)
(* channel, beside the pipeline and on its rows and files.  It reads what a   *)
(* policy keeps, then what is active, then the rows with a file, and then    *)
(* takes these one by one: stat, remove, UPDATE.  Nothing it has read is      *)
(* looked at again.                                                         *)
(***************************************************************************)
EXTENDS VodProcessing

CONSTANTS
    Young,      \* the VODs of the last RETENTION_KEEP_DAYS, as long as it is a policy
    KeepCount,  \* RETENTION_KEEP_COUNT, 0 if that is no policy (one of the two is)
    DryRun,     \* RETENTION_DRY_RUN
    Hour        \* in ticks

ASSUME RetentionAssumption ==
    /\ Young \subseteq Vods /\ KeepCount \in Nat /\ DryRun \in BOOLEAN
    /\ Hour \in 1 .. AgeCap

VARIABLES
    job,       \* where the retention goroutine of each channel is
    retained,  \* retainedIDs
    doomed     \* the rows of the last query that are still to be handled

retention == <<job, retained, doomed>>
allVars == <<vars, retention>>

\* Where a goroutine stands after a restart, and after each run.
Waiting == [c \in Channels |-> "idle"]
Nothing == [c \in Channels |-> {}]

RetentionInit == Init /\ job = Waiting /\ retained = Nothing /\ doomed = Nothing

-----------------------------------------------------------------------------
At(c, label) == job[c] = label
Step(c, label) == job' = [job EXCEPT ![c] = label]

\* The run ends; its locals are gone.
EndRun(c) ==
    /\ Step(c, "idle")
    /\ retained' = [retained EXCEPT ![c] = {}] /\ doomed' = [doomed EXCEPT ![c] = {}]

KnownOf(c) == {v \in Vods : Home[v] = c /\ vods[v].known}

Newest(c) ==
    {v \in KnownOf(c) : Cardinality({w \in KnownOf(c) : Date[w] > Date[v]}) < KeepCount}

\* What either policy keeps.
Kept(c) == (KnownOf(c) \cap Young) \cup Newest(c)

\* Two queries; a VOD inserted between them has no file yet.
ReadPolicies(c) ==
    /\ At(c, "idle") /\ Step(c, "active")
    /\ retained' = [retained EXCEPT ![c] = Kept(c)]
    /\ UNCHANGED <<vars, doomed>>

\* Mutant: everything not yet uploaded counts as active.
ActiveBug(c) == {v \in KnownOf(c) : vods[v].path /\ ~vods[v].youtube}

\* download_state is never "downloading" or "processing", so that part of the
\* condition finds nothing.
Active(c) ==
    {v \in KnownOf(c) : vods[v].path /\ \/ ~vods[v].processed
                                        \/ vods[v].age < Hour /\ ~vods[v].youtube}

ReadActive(c) ==
    /\ At(c, "active") /\ Step(c, "rows")
    /\ retained' = [retained EXCEPT ![c] = @ \cup Active(c)]
    /\ UNCHANGED <<vars, doomed>>

\* Mutant: what is retained is not passed over.
RowsBug(c) == {v \in KnownOf(c) : vods[v].path}

\* The rows with a file; those in retained are passed over.
Rows(c) == {v \in KnownOf(c) : vods[v].path} \ retained[c]

ReadRows(c) ==
    /\ At(c, "rows")
    /\ IF Rows(c) = {} THEN EndRun(c)
       ELSE Step(c, "stat") /\ doomed' = [doomed EXCEPT ![c] = Rows(c)] /\ retained' = retained
    /\ UNCHANGED vars

\* Any of the queries fails: the run is over.
QueryFails(c) ==
    /\ job[c] \in {"idle", "active", "rows"} /\ Fault
    /\ EndRun(c)
    /\ UNCHANGED <<vods, disk, active, breaker, worker, videos, upAge, edits>>

\* The rows come in the order of their dates.
Victim(c, v) == v \in doomed[c] /\ \A w \in doomed[c] : ~(Date[w] < Date[v])

NextRow(c, v) ==
    IF doomed[c] = {v} THEN EndRun(c)
    ELSE /\ Step(c, "stat") /\ retained' = retained
         /\ doomed' = [doomed EXCEPT ![c] = @ \ {v}]

Stat(c, v) ==
    /\ At(c, "stat") /\ Victim(c, v)
    /\ IF DryRun THEN NextRow(c, v)
       ELSE Step(c, IF OnDisk(v) THEN "unlink" ELSE "forget") /\ UNCHANGED <<retained, doomed>>
    /\ UNCHANGED vars

\* The file was gone already: its path goes, without a new updated_at.
Forget(c, v) ==
    /\ At(c, "forget") /\ Victim(c, v)
    /\ Update(v, [vods[v] EXCEPT !.path = FALSE])
    /\ NextRow(c, v)
    /\ UNCHANGED <<disk, active, breaker, worker, videos, upAge, edits>>

\* os.Remove; if the file has gone meanwhile the row is left as it is.
Unlink(c, v) ==
    /\ At(c, "unlink") /\ Victim(c, v)
    /\ disk' = [disk EXCEPT ![v] = NoFile]
    /\ IF OnDisk(v) THEN Step(c, "clear") /\ UNCHANGED <<retained, doomed>>
       ELSE NextRow(c, v)
    /\ UNCHANGED <<vods, active, breaker, worker, videos, upAge, faults, edits>>

Clear(c, v) ==
    /\ At(c, "clear") /\ Victim(c, v)
    /\ Update(v, [vods[v] EXCEPT !.path = FALSE, !.age = 0])
    /\ NextRow(c, v)
    /\ UNCHANGED <<disk, active, breaker, worker, videos, upAge, edits>>

Handle(c, v) == Stat(c, v) \/ Forget(c, v) \/ Unlink(c, v) \/ Clear(c, v)

Retain(c) ==
    \/ ReadPolicies(c) \/ ReadActive(c) \/ ReadRows(c) \/ QueryFails(c)
    \/ \E v \in Vods : Handle(c, v)

\* The process dies while the pipeline works, or the retention job alone.
CrashAll ==
    /\ job' = Waiting /\ retained' = Nothing /\ doomed' = Nothing
    /\ \/ Crash
       \/ /\ Fault /\ job # Waiting /\ \A c \in Channels : pc[c] = "idle"
          /\ UNCHANGED <<vods, disk, active, breaker, worker, videos, upAge, edits>>

Pipeline ==
    \/ \E c \in Channels : Process(c)
    \/ \E v \in Vods : CatalogInsert(v) \/ Requests(v)
    \/ Tick

RetentionNext ==
    \/ Pipeline /\ UNCHANGED retention
    \/ \E c \in Channels : Retain(c)
    \/ CrashAll

RetentionSpec == RetentionInit /\ [][RetentionNext]_allVars

\* The job's ticker starts run after run, a run goes on, and time passes.  Of the
\* pipeline nothing is assumed.
FairRetention ==
    /\ RetentionSpec
    /\ WF_allVars(Tick /\ UNCHANGED retention)
    /\ \A c \in Channels : WF_allVars(Retain(c))

-----------------------------------------------------------------------------
RetentionTypeOK ==
    /\ TypeOK
    /\ job \in [Channels -> {"idle", "active", "rows", "stat", "unlink", "forget", "clear"}]
    /\ retained \in [Channels -> SUBSET Vods] /\ doomed \in [Channels -> SUBSET Vods]
    /\ \A c \in Channels : doomed[c] \cap retained[c] = {}

(***************************************************************************)
(* The disk does not fill up: a VOD that is processed and that no policy      *)
(* keeps loses its path in the end, and its file first, though a crash or a   *)
(* lost statement comes between the two.  Only after a fault can the file     *)
(* have come back, by a second download, before the job took its path away;  *)
(* that file is left to the sweeper.                                         *)
(***************************************************************************)
Reclaimed ==
    \A v \in Vods :
        vods[v].processed /\ vods[v].path /\ v \notin Kept(Home[v])
        ~> ~vods[v].processed \/ (~vods[v].path /\ (faults = 0 => ~OnDisk(v)))

(***************************************************************************)
(* retention.go: "Never delete VODs that are currently being processed or    *)
(* uploaded".                                                               *)
(***************************************************************************)
Busy(v) == \E c \in Channels : cur[c] = v /\ pc[c] \in {"downloaded", "decide", "upload"}

ActiveIsSpared ==
    [][\A v \in Vods : Busy(v) /\ OnDisk(v) => OnDisk(v)']_allVars
=============================================================================
