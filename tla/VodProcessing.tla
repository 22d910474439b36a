--------------------------- MODULE VodProcessing ---------------------------
(***************************************************************************)
(* The processing pipeline of backend/vod/processing.go: one goroutine per  *)
(* channel runs processOnce over and over; all of them share the table      *)
(* vods, the data directory, the download semaphore and the YouTube account. *)
(* Beside them run the catalog backfill, the administration requests, time,  *)
(* and crashes of the process.                                              *)
(*                                                                         *)
(* A step ends where another goroutine or a crash can come between two       *)
(* statements and be noticed.  The attempts inside a download are those of   *)
(* DownloadSpec (module DownloadVOD refines it), the breaker of a channel is *)
(* the value Circuit describes (module CircuitBreaker refines it).           *)
(*                                                                         *)
(* Times are ages: how many ticks ago updated_at, a file's modification or   *)
(* an upload was, up to the largest age any test of the code looks at.       *)
(* Faults are crashes, statements whose ignored error made them have no      *)
(* effect, and uploads whose answer was lost; MaxFaults bounds them, and     *)
(* MaxEdits the administration requests.                                     *)
(***************************************************************************)
EXTENDS Circuit, FiniteSets

CONSTANTS
    Channels, Vods, NoVod,
    Home,           \* the channel of each VOD
    Date,           \* its recording date, only compared
    Old,            \* the VODs dated before the backfill cutoff
    MaxSlots,       \* MAX_CONCURRENT_DOWNLOADS
    MaxAttempts,    \* DOWNLOAD_MAX_ATTEMPTS
    MaxUploads,     \* UPLOAD_MAX_ATTEMPTS
    UploadsOn,      \* uploads enabled and the ownership setting valid
    DailyLimit,     \* UPLOAD_DAILY_LIMIT
    BackfillLimit,  \* BACKFILL_UPLOAD_DAILY_LIMIT
    BatchLimit,     \* the LIMIT 20 of the candidate query
    Day,            \* 24 hours, in ticks
    RetryCooldown,  \* PROCESSING_RETRY_COOLDOWN, in ticks
    SweepOn,        \* RETAIN_KEEP_NEWER_THAN_DAYS is set, so the sweeper runs
    SweepAge,       \* and this is its value, in ticks
    Priorities,     \* the values administrators give the column priority
    MaxFaults, MaxEdits

ASSUME VodsAssumption ==
    /\ NoVod \notin Vods /\ IsFiniteSet(Channels) /\ IsFiniteSet(Vods)
    /\ Home \in [Vods -> Channels] /\ Date \in [Vods -> Nat] /\ Old \subseteq Vods
ASSUME LimitsAssumption ==
    /\ {MaxSlots, MaxAttempts, MaxUploads, DailyLimit, BackfillLimit, BatchLimit, Day,
        RetryCooldown} \subseteq Nat \ {0}
    /\ {SweepAge, MaxFaults, MaxEdits} \subseteq Nat /\ Priorities \subseteq Nat
    /\ UploadsOn \in BOOLEAN /\ SweepOn \in BOOLEAN

VARIABLES
    vods,     \* the table
    disk,     \* VODs whose complete file is in the data directory, with its age
    active,   \* length of the download semaphore
    breaker,  \* circuit breaker of each channel
    pc,       \* where the goroutine of each channel is
    cur,      \* the VOD it has selected
    skip,     \* and that VOD's skip_upload, as selected
    spent,    \* failed attempts of its download
    tries,    \* failed attempts of its upload
    videos,   \* videos on YouTube, by the VOD they were made from (external)
    upAge,    \* history: age of the last upload of each VOD, Day if older or none
    faults,   \* history: faults so far
    edits     \* history: administration requests so far

worker == <<pc, cur, skip, spent, tries>>
vars == <<vods, disk, active, breaker, worker, videos, upAge, faults, edits>>

Larger(a, b) == IF a > b THEN a ELSE b
AgeCap == Larger(Day, RetryCooldown)
NoFile == SweepAge + 1
Row == [known : BOOLEAN, processed : BOOLEAN, error : {"none", "download", "auth", "upload"},
        retries : Nat, path : BOOLEAN, youtube : BOOLEAN, skip_upload : BOOLEAN,
        priority : Nat, age : 0 .. AgeCap]

NewRow == [known |-> FALSE, processed |-> FALSE, error |-> "none", retries |-> 0,
           path |-> FALSE, youtube |-> FALSE, skip_upload |-> FALSE, priority |-> 0,
           age |-> AgeCap]

Init ==
    /\ vods = [v \in Vods |-> NewRow]
    /\ disk = [v \in Vods |-> NoFile]
    /\ active = 0
    /\ breaker = [c \in Channels |-> InitialBreaker]
    /\ pc = [c \in Channels |-> "idle"] /\ cur = [c \in Channels |-> NoVod]
    /\ skip = [c \in Channels |-> FALSE]
    /\ spent = [c \in Channels |-> 0] /\ tries = [c \in Channels |-> 0]
    /\ videos = [v \in Vods |-> 0] /\ upAge = [v \in Vods |-> Day]
    /\ faults = 0 /\ edits = 0

-----------------------------------------------------------------------------
OnDisk(v) == disk[v] # NoFile

NoFault == faults' = faults
Fault == faults < MaxFaults /\ faults' = faults + 1

\* An UPDATE whose error is ignored: it takes effect, or it is lost.
Update(v, row) ==
    \/ vods' = [vods EXCEPT ![v] = row] /\ NoFault
    \/ vods' = vods /\ Fault

GoTo(c, label) == pc' = [pc EXCEPT ![c] = label]

\* processOnce returns: its locals are gone.
Leave(c) ==
    /\ pc' = [pc EXCEPT ![c] = "idle"] /\ cur' = [cur EXCEPT ![c] = NoVod]
    /\ skip' = [skip EXCEPT ![c] = FALSE]
    /\ spent' = [spent EXCEPT ![c] = 0] /\ tries' = [tries EXCEPT ![c] = 0]

\* releaseDownloadSlot never blocks, not even on an empty semaphore.
Release == active' = IF active > 0 THEN active - 1 ELSE 0

\* Mutant: a return that forgets the slot.
FinishBug(c) == Leave(c) /\ active' = active

\* From the slot on, every return of processOnce runs the deferred release.
Finish(c) == Leave(c) /\ Release

-----------------------------------------------------------------------------
(* A cycle up to the download slot.                                         *)

Referenced(c) == {v \in Vods : Home[v] = c /\ vods[v].path}

\* Mutant: the rows are not looked at.
SweptBug(spared) == [v \in Vods |-> IF disk[v] = SweepAge THEN NoFile ELSE disk[v]]

Swept(spared) ==
    [v \in Vods |-> IF disk[v] = SweepAge /\ v \notin spared THEN NoFile ELSE disk[v]]

\* The sweeper of stale files spares those the channel's rows name.  If the query
\* for them fails, the set is empty and every file in the directory is stale.
Sweep(c) ==
    \/ ~SweepOn /\ disk' = disk /\ NoFault
    \/ SweepOn /\ disk' = Swept(Referenced(c)) /\ NoFault
    \/ SweepOn /\ disk' = Swept({}) /\ Fault

\* A cycle that the circuit breaker does not skip.
StartCycle(c) ==
    /\ pc[c] = "idle" /\ ~Skips(breaker[c])
    /\ breaker' = [breaker EXCEPT ![c] = Admit(@)]
    /\ Sweep(c)
    /\ GoTo(c, "discover")
    /\ UNCHANGED <<vods, active, cur, skip, spent, tries, videos, upAge, edits>>

Unknown(c) == {v \in Vods : Home[v] = c /\ ~vods[v].known}

Insert(new) ==
    vods' = [v \in Vods |-> IF v \in new THEN [NewRow EXCEPT !.known = TRUE, !.age = 0]
                            ELSE vods[v]]

\* DiscoverAndUpsert: the newest VODs Helix lists, those inserted without an error.
Discover(c) ==
    /\ pc[c] = "discover"
    /\ \E new \in SUBSET Unknown(c) : Insert(new)
    /\ GoTo(c, "select")
    /\ UNCHANGED <<disk, active, breaker, cur, skip, spent, tries, videos, upAge,
                   faults, edits>>

DiscoverFails(c) ==
    /\ pc[c] = "discover"
    /\ Leave(c)
    /\ UNCHANGED <<vods, disk, active, breaker, videos, upAge, faults, edits>>

\* COUNT of the uploads recorded in the last 24 hours, as the query sees them:
\* rows with a youtube_url that were updated since, whatever the update was.
Uploaded24(c, among) ==
    Cardinality({v \in among : Home[v] = c /\ vods[v].youtube /\ vods[v].age < Day})

Throttled(c) == Uploaded24(c, Vods) >= DailyLimit

\* Mutant: one upload too many.
BackfillThrottledBug(c) == Uploaded24(c, Old) > BackfillLimit

BackfillThrottled(c) == Uploaded24(c, Old) >= BackfillLimit

Eligible(c) ==
    {v \in Vods :
        /\ Home[v] = c /\ vods[v].known /\ ~vods[v].processed
        /\ \/ vods[v].error = "none"
           \/ vods[v].retries < MaxAttempts /\ vods[v].age >= RetryCooldown}

\* ORDER BY priority DESC, date ASC
Before(v, w) ==
    \/ vods[v].priority > vods[w].priority
    \/ vods[v].priority = vods[w].priority /\ Date[v] < Date[w]

\* The candidates fetched, and of those the ones the throttle lets pass.
Batch(c) ==
    {v \in Eligible(c) : Cardinality({w \in Eligible(c) : Before(w, v)}) < BatchLimit}
Usable(c, throttled) == {v \in Batch(c) : ~(throttled /\ v \in Old)}

\* A count that cannot be read is taken to be 0.
Select(c) ==
    /\ pc[c] = "select"
    /\ \E daily \in {Throttled(c), FALSE}, backfill \in {BackfillThrottled(c), FALSE} :
          /\ ~daily
          /\ \E v \in Usable(c, backfill) :
                /\ \A w \in Usable(c, backfill) : ~Before(w, v)
                /\ cur' = [cur EXCEPT ![c] = v]
                /\ skip' = [skip EXCEPT ![c] = vods[v].skip_upload]
          /\ IF Throttled(c) \/ backfill # BackfillThrottled(c) THEN Fault ELSE NoFault
    /\ GoTo(c, "slot")
    /\ UNCHANGED <<vods, disk, active, breaker, spent, tries, videos, upAge, edits>>

\* Nothing to select, or the query for the candidates fails.
SelectNothing(c) ==
    /\ pc[c] = "select"
    /\ IF Throttled(c) \/ Usable(c, BackfillThrottled(c)) = {} THEN NoFault ELSE Fault
    /\ Leave(c)
    /\ UNCHANGED <<vods, disk, active, breaker, videos, upAge, edits>>

AcquireSlot(c) ==
    /\ pc[c] = "slot" /\ active < MaxSlots
    /\ active' = active + 1
    /\ GoTo(c, "download")
    /\ UNCHANGED <<vods, disk, breaker, cur, skip, spent, tries, videos, upAge, faults, edits>>

-----------------------------------------------------------------------------
(* The download (DownloadSpec), and what processOnce makes of its outcome.  *)

Mine(c) == vods[cur[c]]

\* Mutant: one attempt too many.
AttemptFailsBug(c) ==
    /\ pc[c] = "download" /\ spent[c] <= MaxAttempts
    /\ spent' = [spent EXCEPT ![c] = @ + 1]
    /\ Update(cur[c], [Mine(c) EXCEPT !.retries = @ + 1])
    /\ UNCHANGED <<disk, active, breaker, pc, cur, skip, tries, videos, upAge, edits>>

AttemptFails(c) ==
    /\ pc[c] = "download" /\ spent[c] < MaxAttempts
    /\ spent' = [spent EXCEPT ![c] = @ + 1]
    /\ Update(cur[c], [Mine(c) EXCEPT !.retries = @ + 1])
    /\ UNCHANGED <<disk, active, breaker, pc, cur, skip, tries, videos, upAge, edits>>

\* The file is complete, and yt-dlp leaves one alone that was already there;
\* downloadVOD records its path.
DownloadOk(c) ==
    /\ pc[c] = "download" /\ spent[c] < MaxAttempts
    /\ disk' = [disk EXCEPT ![cur[c]] = IF OnDisk(cur[c]) THEN @ ELSE 0]
    /\ Update(cur[c], [Mine(c) EXCEPT !.path = TRUE])
    /\ GoTo(c, "downloaded")
    /\ UNCHANGED <<active, breaker, cur, skip, spent, tries, videos, upAge, edits>>

\* All attempts failed, or yt-dlp did not start; the circuit breaker counts it.
DownloadFails(c) ==
    /\ pc[c] = "download"
    /\ Update(cur[c], [Mine(c) EXCEPT !.error = "download", !.age = 0])
    /\ breaker' = [breaker EXCEPT ![c] = Fail(@)]
    /\ Finish(c)
    /\ UNCHANGED <<disk, videos, upAge, edits>>

\* The last attempt says that a subscription is required.
AuthRequired(c) ==
    /\ pc[c] = "download" /\ spent[c] = MaxAttempts
    /\ Update(cur[c], [Mine(c) EXCEPT !.error = "auth", !.retries = MaxAttempts, !.age = 0])
    /\ Finish(c)
    /\ UNCHANGED <<disk, breaker, videos, upAge, edits>>

\* processOnce resets the breaker and records the path again.
Downloaded(c) ==
    /\ pc[c] = "downloaded"
    /\ breaker' = [breaker EXCEPT ![c] = Reset(@)]
    /\ Update(cur[c], [Mine(c) EXCEPT !.path = TRUE, !.age = 0])
    /\ GoTo(c, "decide")
    /\ UNCHANGED <<disk, active, cur, skip, spent, tries, videos, upAge, edits>>

-----------------------------------------------------------------------------
(* The upload.                                                              *)

Done(row) == [row EXCEPT !.processed = TRUE, !.error = "none", !.age = 0]

\* The URL is there already: nothing to upload.
AlreadyUploaded(c) ==
    /\ pc[c] = "decide" /\ Mine(c).youtube
    /\ Update(cur[c], Done(Mine(c)))
    /\ GoTo(c, "remove")
    /\ UNCHANGED <<disk, active, breaker, cur, skip, spent, tries, videos, upAge, edits>>

\* Policy forbids the upload.  That a URL is there goes unseen if its read fails.
SkipUpload(c) ==
    /\ pc[c] = "decide" /\ (skip[c] \/ ~UploadsOn)
    /\ IF Mine(c).youtube
       THEN Fault /\ vods' \in {vods, [vods EXCEPT ![cur[c]] = Done(Mine(c))]}
       ELSE Update(cur[c], Done(Mine(c)))
    /\ Finish(c)
    /\ UNCHANGED <<disk, breaker, videos, upAge, edits>>

\* Mutant: the URL is not looked for.
DecideUploadBug(c) ==
    /\ pc[c] = "decide" /\ ~skip[c] /\ UploadsOn
    /\ NoFault
    /\ GoTo(c, "upload")
    /\ UNCHANGED <<vods, disk, active, breaker, cur, skip, spent, tries, videos, upAge, edits>>

DecideUpload(c) ==
    /\ pc[c] = "decide" /\ ~skip[c] /\ UploadsOn
    /\ IF Mine(c).youtube THEN Fault ELSE NoFault
    /\ GoTo(c, "upload")
    /\ UNCHANGED <<vods, disk, active, breaker, cur, skip, spent, tries, videos, upAge, edits>>

\* YouTube has one more video made from the VOD.
Publish(c) ==
    /\ OnDisk(cur[c])
    /\ videos' = [videos EXCEPT ![cur[c]] = @ + 1]
    /\ upAge' = [upAge EXCEPT ![cur[c]] = 0]

UploadOk(c) ==
    /\ pc[c] = "upload" /\ tries[c] < MaxUploads
    /\ Publish(c)
    /\ GoTo(c, "record")
    /\ UNCHANGED <<vods, disk, active, breaker, cur, skip, spent, tries, faults, edits>>

UploadFails(c) ==
    /\ pc[c] = "upload" /\ tries[c] < MaxUploads
    /\ tries' = [tries EXCEPT ![c] = @ + 1]
    /\ \/ NoFault /\ UNCHANGED <<videos, upAge>>
       \/ Fault /\ Publish(c)         \* the video was made, its answer was lost
    /\ UNCHANGED <<vods, disk, active, breaker, pc, cur, skip, spent, edits>>

\* Mutant: the failure is not counted among the retries.
GiveUpUploadBug(c) ==
    /\ pc[c] = "upload" /\ tries[c] > 0
    /\ Update(cur[c], [Mine(c) EXCEPT !.error = "upload", !.age = 0])
    /\ Finish(c)
    /\ UNCHANGED <<disk, breaker, videos, upAge, edits>>

\* The attempts are used up, or the title is refused after at least one.  Only the
\* row learns of it; the circuit breaker does not.
GiveUpUpload(c) ==
    /\ pc[c] = "upload" /\ tries[c] > 0
    /\ Update(cur[c], [Mine(c) EXCEPT !.error = "upload", !.retries = @ + 1, !.age = 0])
    /\ Finish(c)
    /\ UNCHANGED <<disk, breaker, videos, upAge, edits>>

RecordUpload(c) ==
    /\ pc[c] = "record"
    /\ Update(cur[c], [Done(Mine(c)) EXCEPT !.youtube = TRUE])
    /\ GoTo(c, "remove")
    /\ UNCHANGED <<disk, active, breaker, cur, skip, spent, tries, videos, upAge, edits>>

\* The local file of an uploaded VOD goes; without one the path stays.
RemoveFile(c) ==
    /\ pc[c] = "remove"
    /\ disk' = [disk EXCEPT ![cur[c]] = NoFile]
    /\ IF OnDisk(cur[c])
       THEN GoTo(c, "clear") /\ UNCHANGED <<active, cur, skip, spent, tries>>
       ELSE Finish(c)
    /\ UNCHANGED <<vods, breaker, videos, upAge, faults, edits>>

ClearPath(c) ==
    /\ pc[c] = "clear"
    /\ Update(cur[c], [Mine(c) EXCEPT !.path = FALSE, !.age = 0])
    /\ Finish(c)
    /\ UNCHANGED <<disk, breaker, videos, upAge, edits>>

-----------------------------------------------------------------------------
(* What happens beside the pipeline.                                        *)

\* The catalog backfill job finds an older VOD.
CatalogInsert(v) ==
    /\ ~vods[v].known /\ Insert({v})
    /\ UNCHANGED <<disk, active, breaker, worker, videos, upAge, faults, edits>>

\* An administration request changes a row, and with it updated_at.
Edit(v, row) ==
    /\ vods[v].known /\ edits < MaxEdits
    /\ edits' = edits + 1
    /\ vods' = [vods EXCEPT ![v] = [row EXCEPT !.age = 0]]
    /\ UNCHANGED <<disk, active, breaker, worker, videos, upAge, faults>>

SetPriority(v, p) == Edit(v, [vods[v] EXCEPT !.priority = p])
SetSkipUpload(v, b) == Edit(v, [vods[v] EXCEPT !.skip_upload = b])
SetDescription(v) == Edit(v, vods[v])

\* An operator's SQL makes a VOD pending again; it leaves updated_at alone.
Reopen(v) ==
    /\ vods[v].processed /\ edits < MaxEdits
    /\ edits' = edits + 1
    /\ vods' = [vods EXCEPT ![v].processed = FALSE, ![v].error = "none"]
    /\ UNCHANGED <<disk, active, breaker, worker, videos, upAge, faults>>

\* Everything in memory is gone; the deferred statements do not run.
Crash ==
    /\ Fault
    /\ \E c \in Channels : pc[c] # "idle"
    /\ active' = 0
    /\ pc' = [c \in Channels |-> "idle"] /\ cur' = [c \in Channels |-> NoVod]
    /\ skip' = [c \in Channels |-> FALSE]
    /\ spent' = [c \in Channels |-> 0] /\ tries' = [c \in Channels |-> 0]
    /\ UNCHANGED <<vods, disk, breaker, videos, upAge, edits>>

Older(age, cap) == IF age < cap THEN age + 1 ELSE age

Tick ==
    /\ vods' = [v \in Vods |-> [vods[v] EXCEPT !.age = Older(@, AgeCap)]]
    /\ disk' = [v \in Vods |-> IF OnDisk(v) THEN Older(disk[v], SweepAge) ELSE disk[v]]
    /\ upAge' = [v \in Vods |-> Older(upAge[v], Day)]
    /\ breaker' = [c \in Channels |-> Cooled(breaker[c])]
    /\ UNCHANGED <<active, worker, videos, faults, edits>>

Pick(c) == StartCycle(c) \/ Discover(c) \/ DiscoverFails(c) \/ Select(c) \/ SelectNothing(c)
Download(c) == AttemptFails(c) \/ DownloadOk(c) \/ DownloadFails(c) \/ AuthRequired(c)
Upload(c) ==
    \/ Downloaded(c) \/ AlreadyUploaded(c) \/ SkipUpload(c) \/ DecideUpload(c)
    \/ UploadOk(c) \/ UploadFails(c) \/ GiveUpUpload(c) \/ RecordUpload(c) \/ RemoveFile(c) \/ ClearPath(c)
Process(c) == Pick(c) \/ AcquireSlot(c) \/ Download(c) \/ Upload(c)

Requests(v) ==
    \/ \E p \in Priorities : SetPriority(v, p)
    \/ \E b \in BOOLEAN : SetSkipUpload(v, b)
    \/ SetDescription(v) \/ Reopen(v)

Next ==
    \/ \E c \in Channels : Process(c)
    \/ \E v \in Vods : CatalogInsert(v) \/ Requests(v)
    \/ Crash \/ Tick

Spec == Init /\ [][Next]_vars

(***************************************************************************)
(* The scheduling behind EveryVodSettles.  A goroutine that can go on does,   *)
(* and time passes.  The semaphore is a Go channel, which serves its waiters *)
(* in turn: a channel that waits again and again is served.  Helix answers    *)
(* again and again, and yt-dlp starts and exits again and again.             *)
(***************************************************************************)
FairSpec ==
    /\ Spec /\ WF_vars(Tick)
    /\ \A c \in Channels :
          /\ WF_vars(Pick(c)) /\ SF_vars(Discover(c)) /\ SF_vars(AcquireSlot(c))
          /\ WF_vars(Download(c)) /\ SF_vars(AttemptFails(c) \/ DownloadOk(c))
          /\ WF_vars(Upload(c))

-----------------------------------------------------------------------------
Holding == {c \in Channels : pc[c] \in {"download", "downloaded", "decide", "upload",
                                        "record", "remove", "clear"}}

TypeOK ==
    /\ vods \in [Vods -> Row]
    /\ disk \in [Vods -> 0 .. NoFile]
    /\ active \in Nat
    /\ breaker \in [Channels -> Breaker]
    /\ pc \in [Channels -> {"idle", "discover", "select", "slot", "download", "downloaded",
                            "decide", "upload", "record", "remove", "clear"}]
    /\ cur \in [Channels -> Vods \cup {NoVod}]
    /\ skip \in [Channels -> BOOLEAN]
    /\ spent \in [Channels -> 0 .. MaxAttempts] /\ tries \in [Channels -> 0 .. MaxUploads]
    /\ videos \in [Vods -> Nat] /\ upAge \in [Vods -> 0 .. Day]
    /\ faults \in 0 .. MaxFaults /\ edits \in 0 .. MaxEdits

(***************************************************************************)
(* Every slot is given back on every way out of processOnce, crash and       *)
(* restart included, and only there: the semaphore counts the channels that  *)
(* hold one, which are never more than MAX_CONCURRENT_DOWNLOADS.             *)
(***************************************************************************)
SlotsBalanced == active = Cardinality(Holding) /\ active <= MaxSlots

(***************************************************************************)
(* A VOD is on YouTube at most once, and each video more was paid for with   *)
(* a fault of its own: a crash, a lost statement, a lost answer.             *)
(***************************************************************************)
NoDuplicateUpload == \A v \in Vods : videos[v] <= 1 + faults

(***************************************************************************)
(* A recorded download that is still to be dealt with keeps its file: no     *)
(* sweep takes it, and the pipeline removes it only after the upload is       *)
(* recorded, not when it is skipped or given up.                             *)
(***************************************************************************)
RecordedFileIsThere ==
    faults = 0 => \A v \in Vods :
        vods[v].path /\ ~vods[v].processed
        => OnDisk(v) \/ \E c \in Channels : pc[c] = "clear" /\ cur[c] = v

(***************************************************************************)
(* In any 24 hours a channel uploads at most UPLOAD_DAILY_LIMIT videos and   *)
(* BACKFILL_UPLOAD_DAILY_LIMIT old ones, though the limits are tested long    *)
(* before the upload, and against updated_at, which other updates move.       *)
(***************************************************************************)
UploadsOfDay(c, among) == Cardinality({v \in among : Home[v] = c /\ upAge[v] < Day})

DailyLimitsKept ==
    faults = 0 => \A c \in Channels : /\ UploadsOfDay(c, Vods) <= DailyLimit
                                      /\ UploadsOfDay(c, Old) <= BackfillLimit

(***************************************************************************)
(* Every known VOD is in the end processed, or has failed so often that it    *)
(* is not tried again, through open circuits, retries, throttling and waits  *)
(* for a slot.                                                              *)
(***************************************************************************)
Settled(v) ==
    vods[v].processed \/ (vods[v].error # "none" /\ vods[v].retries >= MaxAttempts)

EveryVodSettles == \A v \in Vods : vods[v].known ~> Settled(v)
=============================================================================
