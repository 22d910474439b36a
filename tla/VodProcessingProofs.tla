------------------------- MODULE VodProcessingProofs -------------------------
(***************************************************************************)
(* Theorems about the processing pipeline, for any number of channels, VODs, *)
(* slots and attempts, any limits, and any number of faults and requests.    *)
(***************************************************************************)
EXTENDS VodProcessing, FiniteSetTheorems, TLAPS

\* What the assumptions say of the constants.
LEMMA Constants ==
    /\ NoVod \notin Vods /\ IsFiniteSet(Channels) /\ Home \in [Vods -> Channels]
    /\ MaxSlots \in Nat \ {0} /\ MaxAttempts \in Nat \ {0} /\ MaxUploads \in Nat \ {0}
    /\ Day \in Nat \ {0} /\ RetryCooldown \in Nat \ {0} /\ SweepAge \in Nat
    /\ MaxFaults \in Nat /\ MaxEdits \in Nat /\ Priorities \subseteq Nat
BY VodsAssumption, LimitsAssumption

\* A day fits into the ages of rows.
LEMMA Ages == AgeCap \in Nat \ {0} /\ Day <= AgeCap /\ NoFile \in Nat
BY Constants DEF AgeCap, Larger, NoFile

-----------------------------------------------------------------------------
(* Types of the values the steps compute.                                   *)

\* A row stays a row when it is updated now.
LEMMA AgeType == ASSUME NEW r \in Row PROVE [r EXCEPT !.age = 0] \in Row
BY Ages DEF Row

\* A row stays a row when a failure is counted.
LEMMA RetryType == ASSUME NEW r \in Row PROVE [r EXCEPT !.retries = @ + 1] \in Row
BY DEF Row

\* A row stays a row in every UPDATE of the pipeline and of the requests.
LEMMA RowTypes ==
    ASSUME NEW r \in Row
    PROVE  /\ [r EXCEPT !.retries = @ + 1] \in Row
           /\ [r EXCEPT !.path = TRUE] \in Row
           /\ [r EXCEPT !.path = TRUE, !.age = 0] \in Row
           /\ [r EXCEPT !.path = FALSE, !.age = 0] \in Row
           /\ [r EXCEPT !.error = "download", !.age = 0] \in Row
           /\ [r EXCEPT !.error = "auth", !.retries = MaxAttempts, !.age = 0] \in Row
           /\ [r EXCEPT !.error = "upload", !.retries = @ + 1, !.age = 0] \in Row
           /\ [r EXCEPT !.age = Older(@, AgeCap)] \in Row
           /\ Done(r) \in Row /\ [Done(r) EXCEPT !.youtube = TRUE] \in Row
           /\ [r EXCEPT !.age = 0] \in Row
           /\ [r EXCEPT !.processed = FALSE, !.error = "none"] \in Row
           /\ \A p \in Nat : [[r EXCEPT !.priority = p] EXCEPT !.age = 0] \in Row
           /\ \A b \in BOOLEAN : [[r EXCEPT !.skip_upload = b] EXCEPT !.age = 0] \in Row
<1>1. [r EXCEPT !.retries = @ + 1] \in Row
  BY RetryType
<1>2. [r EXCEPT !.path = TRUE] \in Row /\ [r EXCEPT !.path = FALSE] \in Row
  BY DEF Row
<1>3. [r EXCEPT !.error = "download"] \in Row
  BY DEF Row
<1>4. [r EXCEPT !.error = "auth", !.retries = MaxAttempts] \in Row
  BY Constants DEF Row
<1>5. [r EXCEPT !.error = "upload", !.retries = @ + 1] \in Row
  <2>1. [r EXCEPT !.error = "upload"] \in Row
    BY DEF Row
  <2> QED
    BY <2>1, RetryType
<1>6. [r EXCEPT !.age = Older(@, AgeCap)] \in Row
  BY Ages DEF Row, Older
<1>7. Done(r) \in Row
  <2>1. [r EXCEPT !.processed = TRUE, !.error = "none"] \in Row
    BY DEF Row
  <2> QED
    BY <2>1, AgeType DEF Done
<1>8. [Done(r) EXCEPT !.youtube = TRUE] \in Row
  BY <1>7 DEF Row
<1>9. [r EXCEPT !.processed = FALSE, !.error = "none"] \in Row
  BY DEF Row
<1>10. \A p \in Nat : [r EXCEPT !.priority = p] \in Row
  BY DEF Row
<1>11. \A b \in BOOLEAN : [r EXCEPT !.skip_upload = b] \in Row
  BY DEF Row
<1> QED
  BY <1>1, <1>2, <1>3, <1>4, <1>5, <1>6, <1>7, <1>8, <1>9, <1>10, <1>11, AgeType

\* An inserted row is a row.
LEMMA NewRowTypes == NewRow \in Row /\ [NewRow EXCEPT !.known = TRUE, !.age = 0] \in Row
<1>1. NewRow \in Row
  <2>1. AgeCap \in 0 .. AgeCap
    BY Ages
  <2> QED
    BY <2>1 DEF NewRow, Row
<1>2. [NewRow EXCEPT !.known = TRUE] \in Row
  BY <1>1 DEF Row
<1> QED
  BY <1>1, <1>2, AgeType

\* The breaker keeps its type whatever is done to it.
LEMMA BreakerTypes ==
    ASSUME NEW b \in Breaker
    PROVE  /\ Admit(b) \in Breaker /\ Fail(b) \in Breaker /\ Reset(b) \in Breaker
           /\ Cooled(b) \in Breaker /\ InitialBreaker \in Breaker
<1> USE CircuitAssumption DEF Breaker
<1>1. Admit(b) \in Breaker
  BY DEF Admit
<1>2. InitialBreaker \in Breaker /\ Reset(b) \in Breaker
  BY DEF InitialBreaker, Reset
<1>3. Cooled(b) \in Breaker
  BY DEF Cooled
<1>4. Fail(b) \in Breaker
  <2>1. Opened(b) \in Breaker
    BY DEF Opened
  <2>2. [b EXCEPT !.fails = @ + 1] \in Breaker
    OBVIOUS
  <2>3. Opened([b EXCEPT !.fails = @ + 1]) \in Breaker
    BY <2>2 DEF Opened
  <2> HIDE DEF Breaker
  <2> QED
    BY <2>1, <2>2, <2>3 DEF Fail
<1> HIDE DEF Breaker
<1> QED
  BY <1>1, <1>2, <1>3, <1>4

-----------------------------------------------------------------------------
(* The goroutine of a channel works on a VOD of its channel.                 *)

Labels == {"idle", "discover", "select", "slot", "download", "downloaded", "decide",
           "upload", "record", "remove", "clear"}
Choosing == {"idle", "discover", "select"}

WorkerInv ==
    /\ pc \in [Channels -> Labels] /\ cur \in [Channels -> Vods \cup {NoVod}]
    /\ \A c \in Channels : pc[c] \notin Choosing => cur[c] \in Vods /\ Home[cur[c]] = c

\* Only a selection gives the goroutine its VOD, and of its own channel.
LEMMA WorkerInvSteps ==
    /\ Init => WorkerInv
    /\ WorkerInv /\ [Next]_vars => WorkerInv'
<1> USE Constants DEF Labels, Choosing
<1>1. Init => WorkerInv
  BY DEF Init, WorkerInv
<1>2. WorkerInv /\ [Next]_vars => WorkerInv'
  <2> SUFFICES ASSUME WorkerInv, [Next]_vars PROVE WorkerInv'
    OBVIOUS
  <2> USE DEF WorkerInv
  <2>1. ASSUME NEW c \in Channels, Process(c) PROVE WorkerInv'
    <3>1. CASE StartCycle(c) \/ Discover(c)
      BY <3>1 DEF StartCycle, Discover, GoTo
    <3>2. CASE Leave(c)
      BY <3>2 DEF Leave
    <3>3. CASE Select(c)
      <4>1. PICK v \in Vods : cur' = [cur EXCEPT ![c] = v] /\ Home[v] = c
        BY <3>3 DEF Select, Usable, Batch, Eligible
      <4> QED
        BY <3>3, <4>1 DEF Select, GoTo
    <3>4. ASSUME NEW next \in Labels, GoTo(c, next), cur' = cur, pc[c] \notin Choosing
          PROVE  WorkerInv'
      BY <3>4 DEF GoTo
    <3>5. CASE AcquireSlot(c) \/ DownloadOk(c) \/ Downloaded(c) \/ AlreadyUploaded(c)
               \/ DecideUpload(c) \/ UploadOk(c) \/ RecordUpload(c)
      BY <3>4, <3>5 DEF AcquireSlot, DownloadOk, Downloaded, AlreadyUploaded, DecideUpload,
                        UploadOk, RecordUpload
    <3>6. CASE AttemptFails(c) \/ UploadFails(c)
      BY <3>6 DEF AttemptFails, UploadFails
    <3>7. CASE RemoveFile(c)
      BY <3>2, <3>4, <3>7 DEF RemoveFile, Finish
    <3> QED
      BY <2>1, <3>1, <3>2, <3>3, <3>5, <3>6, <3>7
         DEF Process, Pick, Download, Upload, DiscoverFails, SelectNothing, DownloadFails,
             AuthRequired, SkipUpload, GiveUpUpload, ClearPath, Finish
  <2>2. ASSUME NEW v \in Vods, CatalogInsert(v) \/ Requests(v) PROVE WorkerInv'
    BY <2>2 DEF CatalogInsert, Requests, SetPriority, SetSkipUpload, SetDescription, Reopen,
                Edit, worker
  <2>3. CASE Crash
    BY <2>3 DEF Crash
  <2>4. CASE Tick \/ UNCHANGED vars
    BY <2>4 DEF Tick, vars, worker
  <2> QED
    BY <2>1, <2>2, <2>3, <2>4 DEF Next
<1> QED
  BY <1>1, <1>2

\* The goroutines stay with a VOD of their channel.
LEMMA WorkerInvHolds == Spec => []WorkerInv
BY WorkerInvSteps, PTL DEF Spec
-----------------------------------------------------------------------------
(* Type correctness, in parts.                                              *)

RowsInv == vods \in [Vods -> Row]
BreakersInv == breaker \in [Channels -> Breaker]
SkipInv == skip \in [Channels -> BOOLEAN]
FilesInv == disk \in [Vods -> 0 .. NoFile]
UploadsInv == videos \in [Vods -> Nat] /\ upAge \in [Vods -> 0 .. Day]
AttemptsInv ==
    active \in Nat /\ spent \in [Channels -> 0 .. MaxAttempts] /\ tries \in [Channels -> 0 .. MaxUploads]
HistoryInv == faults \in 0 .. MaxFaults /\ edits \in 0 .. MaxEdits

\* Every UPDATE and INSERT leaves rows of their type.
LEMMA RowsInvSteps ==
    /\ Init => RowsInv
    /\ WorkerInv /\ RowsInv /\ [Next]_vars => RowsInv'
<1>1. Init => RowsInv
  BY NewRowTypes DEF Init, RowsInv
<1>2. WorkerInv /\ RowsInv /\ [Next]_vars => RowsInv'
  <2> SUFFICES ASSUME WorkerInv, RowsInv, [Next]_vars PROVE RowsInv'
    OBVIOUS
  <2>1. ASSUME NEW v \in Vods, NEW row \in Row,
               vods' = [vods EXCEPT ![v] = row] \/ vods' = vods
        PROVE  RowsInv'
    BY <2>1 DEF RowsInv
  <2>2. ASSUME NEW c \in Channels, Process(c) PROVE RowsInv'
    <3>1. CASE UNCHANGED vods
      BY <3>1 DEF RowsInv
    <3>2. CASE Discover(c)
      BY <3>2, NewRowTypes DEF Discover, Insert, RowsInv
    <3>3. CASE pc[c] \notin Choosing
      <4>1. cur[c] \in Vods /\ Mine(c) \in Row
        BY <3>3 DEF WorkerInv, Mine, RowsInv
      <4>2. UNCHANGED vods
            \/ \E row \in Row : vods' = [vods EXCEPT ![cur[c]] = row] \/ vods' = vods
        BY <2>2, <3>3, <4>1, RowTypes
           DEF Choosing, Process, Pick, StartCycle, Discover, DiscoverFails, Select,
               SelectNothing, AcquireSlot, Download, AttemptFails, DownloadOk, DownloadFails,
               AuthRequired, Upload, Downloaded, AlreadyUploaded, SkipUpload, DecideUpload,
               UploadOk, UploadFails, GiveUpUpload, RecordUpload, RemoveFile, ClearPath, Update
      <4> QED
        BY <2>1, <3>1, <4>1, <4>2
    <3> QED
      BY <2>2, <3>1, <3>2, <3>3
         DEF Choosing, Process, Pick, StartCycle, DiscoverFails, Select, SelectNothing,
             AcquireSlot, Download, AttemptFails, DownloadOk, DownloadFails, AuthRequired,
             Upload, Downloaded, AlreadyUploaded, SkipUpload, DecideUpload, UploadOk,
             UploadFails, GiveUpUpload, RecordUpload, RemoveFile, ClearPath
  <2>3. ASSUME NEW v \in Vods, CatalogInsert(v) PROVE RowsInv'
    BY <2>3, NewRowTypes DEF CatalogInsert, Insert, RowsInv
  <2>4. ASSUME NEW v \in Vods, Requests(v) PROVE RowsInv'
    <3>1. vods[v] \in Row
      BY DEF RowsInv
    <3>2. \E row \in Row : vods' = [vods EXCEPT ![v] = row]
      <4>1. CASE \E p \in Priorities : SetPriority(v, p)
        BY <3>1, <4>1, RowTypes, Constants DEF SetPriority, Edit
      <4>2. CASE \E b \in BOOLEAN : SetSkipUpload(v, b)
        BY <3>1, <4>2, RowTypes DEF SetSkipUpload, Edit
      <4>3. CASE SetDescription(v)
        BY <3>1, <4>3, RowTypes DEF SetDescription, Edit
      <4>4. CASE Reopen(v)
        <5>1. vods' = [vods EXCEPT ![v] = [vods[v] EXCEPT !.processed = FALSE,
                                                          !.error = "none"]]
          BY <4>4 DEF Reopen, RowsInv
        <5> QED
          BY <3>1, <5>1, RowTypes
      <4> QED
        BY <2>4, <4>1, <4>2, <4>3, <4>4 DEF Requests
    <3> QED
      BY <2>1, <3>2
  <2>5. CASE Tick
    BY <2>5, RowTypes DEF Tick, RowsInv
  <2>6. CASE Crash \/ UNCHANGED vars
    BY <2>6 DEF Crash, vars, RowsInv
  <2> QED
    BY <2>2, <2>3, <2>4, <2>5, <2>6 DEF Next
<1> QED
  BY <1>1, <1>2

\* The rows keep their type.
LEMMA RowsInvHolds == Spec => []RowsInv
BY RowsInvSteps, WorkerInvHolds, PTL DEF Spec

\* Every use of a breaker leaves one.
LEMMA BreakersInvSteps ==
    /\ Init => BreakersInv
    /\ BreakersInv /\ [Next]_vars => BreakersInv'
<1>1. Init => BreakersInv
  <2>1. InitialBreaker \in Breaker
    BY CircuitAssumption DEF InitialBreaker, Breaker
  <2> QED
    BY <2>1 DEF Init, BreakersInv
<1>2. BreakersInv /\ [Next]_vars => BreakersInv'
  BY BreakerTypes
     DEF BreakersInv, Next, Process, Pick, StartCycle, Discover, DiscoverFails, Select,
         SelectNothing, AcquireSlot, Download, AttemptFails, DownloadOk, DownloadFails,
         AuthRequired, Upload, Downloaded, AlreadyUploaded, SkipUpload, DecideUpload,
         UploadOk, UploadFails, GiveUpUpload, RecordUpload, RemoveFile, ClearPath,
         CatalogInsert, Requests, SetPriority, SetSkipUpload, SetDescription, Edit, Reopen,
         Crash, Tick, vars
<1> QED
  BY <1>1, <1>2

\* The breakers keep their type.
LEMMA BreakersInvHolds == Spec => []BreakersInv
BY BreakersInvSteps, PTL DEF Spec

\* What is selected of skip_upload is a flag.
LEMMA SkipInvSteps ==
    /\ Init => SkipInv
    /\ RowsInv /\ SkipInv /\ [Next]_vars => SkipInv'
<1>1. Init => SkipInv
  BY DEF Init, SkipInv
<1>2. RowsInv /\ SkipInv /\ [Next]_vars => SkipInv'
  <2> SUFFICES ASSUME RowsInv, SkipInv, [Next]_vars PROVE SkipInv'
    OBVIOUS
  <2>1. ASSUME NEW c \in Channels, Select(c) PROVE SkipInv'
    <3>1. PICK v \in Vods : skip' = [skip EXCEPT ![c] = vods[v].skip_upload]
      BY <2>1 DEF Select, Usable, Batch, Eligible
    <3>2. vods[v].skip_upload \in BOOLEAN
      BY DEF RowsInv, Row
    <3> QED
      BY <3>1, <3>2 DEF SkipInv
  <2>2. CASE \A c \in Channels : ~Select(c)
    BY <2>2, Zenon
       DEF SkipInv, Leave, Finish, Next, Process, Pick, StartCycle, Discover, DiscoverFails,
           SelectNothing, AcquireSlot, Download, AttemptFails, DownloadOk, DownloadFails,
           AuthRequired, Upload, Downloaded, AlreadyUploaded, SkipUpload, DecideUpload,
           UploadOk, UploadFails, GiveUpUpload, RecordUpload, RemoveFile, ClearPath,
           CatalogInsert, Requests, SetPriority, SetSkipUpload, SetDescription, Edit, Reopen,
           Crash, Tick, vars, worker
  <2> QED
    BY <2>1, <2>2
<1> QED
  BY <1>1, <1>2

\* The selected skip_upload keeps its type.
LEMMA SkipInvHolds == Spec => []SkipInv
BY SkipInvSteps, RowsInvHolds, PTL DEF Spec

\* Downloads, sweeps, removals and time leave files with an age, or none.
LEMMA FilesInvSteps ==
    /\ Init => FilesInv
    /\ FilesInv /\ [Next]_vars => FilesInv'
<1> USE Constants DEF FilesInv, NoFile
<1>1. Init => FilesInv
  BY Ages DEF Init
<1>2. FilesInv /\ [Next]_vars => FilesInv'
  <2> SUFFICES ASSUME FilesInv, [Next]_vars PROVE FilesInv'
    OBVIOUS
  <2>1. CASE UNCHANGED disk
    BY <2>1
  <2>2. CASE \E c \in Channels : StartCycle(c)
    <3>1. PICK S : disk' = disk \/ disk' = Swept(S)
      BY <2>2 DEF StartCycle, Sweep
    <3> QED
      BY <3>1 DEF Swept
  <2>3. CASE \E c \in Channels : DownloadOk(c) \/ RemoveFile(c)
    <3>1. PICK v : \/ disk' = disk
                   \/ \E age \in {0, NoFile} : disk' = [disk EXCEPT ![v] = age]
      <4>1. \A x, a, b, test : [disk EXCEPT ![x] = IF test THEN a ELSE b] \in
                               {[disk EXCEPT ![x] = a], [disk EXCEPT ![x] = b]}
        OBVIOUS
      <4>2. \A x : [disk EXCEPT ![x] = @] = disk
        OBVIOUS
      <4> QED
        BY <2>3, <4>1, <4>2, Zenon DEF DownloadOk, RemoveFile
    <3>2. {0, NoFile} \subseteq 0 .. NoFile
      OBVIOUS
    <3> QED
      BY <3>1, <3>2, Zenon
  <2>4. CASE Tick
    BY <2>4 DEF Tick, OnDisk, Older
  <2> QED
    BY <2>1, <2>2, <2>3, <2>4, Zenon
       DEF Next, Process, Pick, Discover, DiscoverFails, Select, SelectNothing,
           AcquireSlot, Download, AttemptFails, DownloadFails, AuthRequired, Upload,
           Downloaded, AlreadyUploaded, SkipUpload, DecideUpload, UploadOk, UploadFails,
           GiveUpUpload, RecordUpload, ClearPath, CatalogInsert, Requests, SetPriority,
           SetSkipUpload, SetDescription, Edit, Reopen, Crash, vars
<1> QED
  BY <1>1, <1>2

\* The files keep their type.
LEMMA FilesInvHolds == Spec => []FilesInv
BY FilesInvSteps, PTL DEF Spec

\* Uploads are counted and dated.
LEMMA UploadsInvSteps ==
    /\ Init => UploadsInv
    /\ UploadsInv /\ [Next]_vars => UploadsInv'
<1> USE Constants DEF UploadsInv
<1>1. Init => UploadsInv
  BY DEF Init
<1>2. UploadsInv /\ [Next]_vars => UploadsInv'
  <2> SUFFICES ASSUME UploadsInv, [Next]_vars PROVE UploadsInv'
    OBVIOUS
  <2>1. CASE UNCHANGED <<videos, upAge>>
    BY <2>1
  <2>2. CASE \E c \in Channels : Publish(c)
    <3>1. PICK v : /\ videos' = [videos EXCEPT ![v] = @ + 1]
                   /\ upAge' = [upAge EXCEPT ![v] = 0]
      BY <2>2 DEF Publish
    <3>2. videos' \in [Vods -> Nat]
      <4>1. CASE v \in Vods
        <5>1. videos[v] + 1 \in Nat
          BY <4>1
        <5> QED
          BY <3>1, <5>1, Zenon
      <4>2. CASE v \notin Vods
        BY <3>1, <4>2, Zenon
      <4> QED
        BY <4>1, <4>2
    <3>3. 0 \in 0 .. Day
      OBVIOUS
    <3> QED
      BY <3>1, <3>2, <3>3, Zenon
  <2>3. CASE Tick
    BY <2>3 DEF Tick, Older
  <2> QED
    BY <2>1, <2>2, <2>3, Zenon
       DEF Next, Process, Pick, StartCycle, Discover, DiscoverFails, Select,
           SelectNothing, AcquireSlot, Download, AttemptFails, DownloadOk,
           DownloadFails, AuthRequired, Upload, Downloaded, AlreadyUploaded, SkipUpload,
           DecideUpload, UploadOk, UploadFails, GiveUpUpload, RecordUpload, RemoveFile,
           ClearPath, CatalogInsert, Requests, SetPriority, SetSkipUpload,
           SetDescription, Edit, Reopen, Crash, vars
<1> QED
  BY <1>1, <1>2

\* The videos and the ages of the uploads keep their types.
LEMMA UploadsInvHolds == Spec => []UploadsInv
BY UploadsInvSteps, PTL DEF Spec

\* No attempt is counted beyond the limits of download and upload.
LEMMA AttemptsInvSteps ==
    /\ Init => AttemptsInv
    /\ AttemptsInv /\ [Next]_vars => AttemptsInv'
<1> USE Constants DEF AttemptsInv
<1>1. Init => AttemptsInv
  BY DEF Init
<1>2. AttemptsInv /\ [Next]_vars => AttemptsInv'
  <2> SUFFICES ASSUME AttemptsInv, [Next]_vars PROVE AttemptsInv'
    OBVIOUS
  <2>1. CASE UNCHANGED <<active, spent, tries>>
    BY <2>1
  <2>2. CASE \E c \in Channels : Leave(c) /\ (UNCHANGED active \/ Release)
    BY <2>2 DEF Leave, Release
  <2>3. CASE \E c \in Channels : AcquireSlot(c)
    BY <2>3 DEF AcquireSlot
  <2>4. CASE \E c \in Channels : AttemptFails(c) \/ UploadFails(c)
    BY <2>4 DEF AttemptFails, UploadFails
  <2>5. CASE Crash
    BY <2>5 DEF Crash
  <2> QED
    BY <2>1, <2>2, <2>3, <2>4, <2>5, Zenon
       DEF Next, Process, Pick, StartCycle, Discover, DiscoverFails, Select,
           SelectNothing, Download, DownloadOk, DownloadFails, AuthRequired, Upload,
           Downloaded, AlreadyUploaded, SkipUpload, DecideUpload, UploadOk,
           GiveUpUpload, RecordUpload, RemoveFile, ClearPath, CatalogInsert, Requests,
           SetPriority, SetSkipUpload, SetDescription, Edit, Reopen, Tick, Finish,
           worker, vars
<1> QED
  BY <1>1, <1>2

\* The attempts stay within their limits.
LEMMA AttemptsInvHolds == Spec => []AttemptsInv
BY AttemptsInvSteps, PTL DEF Spec

\* A step has one fault at most, and one request.
LEMMA HistoryInvSteps ==
    /\ Init => HistoryInv
    /\ HistoryInv /\ [Next]_vars => HistoryInv'
<1> USE Constants DEF HistoryInv
<1>1. Init => HistoryInv
  BY DEF Init
<1>2. HistoryInv /\ [Next]_vars => HistoryInv'
  <2> SUFFICES ASSUME HistoryInv, [Next]_vars PROVE HistoryInv'
    OBVIOUS
  <2>1. NoFault \/ Fault
    BY Zenon
       DEF NoFault, Update, Sweep, Next, Process, Pick, StartCycle, Discover, DiscoverFails, Select,
           SelectNothing, AcquireSlot, Download, AttemptFails, DownloadOk,
           DownloadFails, AuthRequired, Upload, Downloaded, AlreadyUploaded, SkipUpload,
           DecideUpload, UploadOk, UploadFails, GiveUpUpload, RecordUpload, RemoveFile,
           ClearPath, CatalogInsert, Requests, SetPriority, SetSkipUpload,
           SetDescription, Edit, Reopen, Crash, Tick, vars
  <2>2. edits' = edits \/ (edits < MaxEdits /\ edits' = edits + 1)
    BY Zenon
       DEF Next, Process, Pick, StartCycle, Discover, DiscoverFails, Select,
           SelectNothing, AcquireSlot, Download, AttemptFails, DownloadOk,
           DownloadFails, AuthRequired, Upload, Downloaded, AlreadyUploaded, SkipUpload,
           DecideUpload, UploadOk, UploadFails, GiveUpUpload, RecordUpload, RemoveFile,
           ClearPath, CatalogInsert, Requests, SetPriority, SetSkipUpload,
           SetDescription, Edit, Reopen, Crash, Tick, vars
  <2> QED
    BY <2>1, <2>2 DEF NoFault, Fault
<1> QED
  BY <1>1, <1>2

\* Faults and requests stay within their bounds.
LEMMA HistoryInvHolds == Spec => []HistoryInv
BY HistoryInvSteps, PTL DEF Spec

(***************************************************************************)
(* Every variable keeps its type: above all, a goroutine past the selection   *)
(* works on a VOD, and no attempt is counted past its limit (processOnce and  *)
(* downloadVOD).                                                            *)
(***************************************************************************)
THEOREM TypeCorrect == Spec => []TypeOK
<1>1. WorkerInv /\ RowsInv /\ BreakersInv /\ SkipInv /\ FilesInv /\ UploadsInv
      /\ AttemptsInv /\ HistoryInv => TypeOK
  BY Zenon DEF WorkerInv, RowsInv, BreakersInv, SkipInv, FilesInv, UploadsInv, AttemptsInv,
               HistoryInv, TypeOK, Labels
<1> QED
  BY <1>1, WorkerInvHolds, RowsInvHolds, BreakersInvHolds, SkipInvHolds, FilesInvHolds,
     UploadsInvHolds, AttemptsInvHolds, HistoryInvHolds, PTL

-----------------------------------------------------------------------------
(* The download semaphore.                                                  *)

HoldingLabels == {"download", "downloaded", "decide", "upload", "record", "remove", "clear"}

\* The goroutine that moves is the only one to take or leave a slot.
LEMMA HoldingStep ==
    ASSUME WorkerInv, NEW c \in Channels, NEW label \in Labels, pc' = [pc EXCEPT ![c] = label]
    PROVE  Holding' = IF label \in HoldingLabels THEN Holding \cup {c} ELSE Holding \ {c}
BY Zenon DEF WorkerInv, Holding, HoldingLabels

\* One goroutine more or less changes the number of slots held by one.
LEMMA HoldingCounts ==
    /\ IsFiniteSet(Holding) /\ Cardinality(Holding) \in Nat
    /\ \A c \in Holding : Cardinality(Holding \ {c}) = Cardinality(Holding) - 1
                          /\ Cardinality(Holding \ {c}) \in Nat
    /\ \A c : c \notin Holding => Cardinality(Holding \cup {c}) = Cardinality(Holding) + 1
<1>1. IsFiniteSet(Holding)
  BY Constants, FS_Subset DEF Holding
<1>2. ASSUME NEW c \in Holding
      PROVE  /\ Cardinality(Holding \ {c}) = Cardinality(Holding) - 1
             /\ Cardinality(Holding \ {c}) \in Nat
  BY <1>1, FS_RemoveElement, FS_CardinalityType, Zenon
<1>3. ASSUME NEW c, c \notin Holding
      PROVE  Cardinality(Holding \cup {c}) = Cardinality(Holding) + 1
  BY <1>1, <1>3, FS_AddElement, Zenon
<1> QED
  BY <1>1, <1>2, <1>3, FS_CardinalityType, Zenon

\* acquireDownloadSlot and the deferred release keep the semaphore balanced.
LEMMA SlotsBalancedSteps ==
    /\ Init => SlotsBalanced
    /\ WorkerInv /\ AttemptsInv /\ SlotsBalanced /\ [Next]_vars => SlotsBalanced'
<1>1. Init => SlotsBalanced
  <2> SUFFICES ASSUME Init PROVE SlotsBalanced
    OBVIOUS
  <2>1. Holding = {}
    BY DEF Init, Holding
  <2>2. Cardinality(Holding) = 0
    BY <2>1, FS_EmptySet, Zenon
  <2> QED
    BY <2>2, Constants DEF Init, SlotsBalanced
<1>2. WorkerInv /\ AttemptsInv /\ SlotsBalanced /\ [Next]_vars => SlotsBalanced'
  <2> SUFFICES ASSUME WorkerInv, AttemptsInv, SlotsBalanced, [Next]_vars PROVE SlotsBalanced'
    OBVIOUS
  <2>1. CASE Holding' = Holding /\ active' = active
    BY <2>1 DEF SlotsBalanced
  <2>2. ASSUME NEW c \in Channels, Process(c) PROVE SlotsBalanced'
    <3>1. ASSUME NEW label \in Labels, pc' = [pc EXCEPT ![c] = label], active' = active,
                 label \in HoldingLabels <=> c \in Holding
          PROVE  SlotsBalanced'
      BY <2>1, <3>1, HoldingStep, Zenon DEF Holding
    <3>2. CASE Finish(c) /\ c \in Holding
      <4>1. Holding' = Holding \ {c}
        BY <3>2, HoldingStep, Zenon DEF Finish, Leave, Labels, HoldingLabels
      <4>2. Cardinality(Holding') = Cardinality(Holding) - 1 /\ Cardinality(Holding') \in Nat
        BY <3>2, <4>1, HoldingCounts, Zenon
      <4>3. active' = active - 1
        BY <3>2, <4>2, HoldingCounts DEF Finish, Release, SlotsBalanced, AttemptsInv
      <4> QED
        BY <4>2, <4>3, Constants DEF SlotsBalanced, AttemptsInv
    <3>3. CASE AcquireSlot(c)
      <4>1. c \notin Holding /\ Holding' = Holding \cup {c}
        BY <3>3, HoldingStep, Zenon DEF AcquireSlot, GoTo, Labels, HoldingLabels, Holding
      <4>2. Cardinality(Holding') = Cardinality(Holding) + 1
        BY <4>1, HoldingCounts, Zenon
      <4> QED
        BY <3>3, <4>2, Constants DEF AcquireSlot, SlotsBalanced, AttemptsInv
    <3>4. CASE Pick(c)
      BY <3>1, <3>4, Zenon
         DEF Pick, StartCycle, Discover, DiscoverFails, Select, SelectNothing, Leave, GoTo,
             Labels, Holding, HoldingLabels
    <3>5. CASE AttemptFails(c) \/ UploadFails(c)
      BY <2>1, <3>5, Zenon DEF AttemptFails, UploadFails, Holding
    <3>6. CASE DownloadFails(c) \/ AuthRequired(c) \/ SkipUpload(c) \/ GiveUpUpload(c)
               \/ ClearPath(c)
      BY <3>2, <3>6, Zenon
         DEF DownloadFails, AuthRequired, SkipUpload, GiveUpUpload, ClearPath, Holding
    <3>7. CASE DownloadOk(c) \/ Downloaded(c) \/ AlreadyUploaded(c) \/ DecideUpload(c)
               \/ UploadOk(c) \/ RecordUpload(c)
      BY <3>1, <3>7, Zenon
         DEF DownloadOk, Downloaded, AlreadyUploaded, DecideUpload, UploadOk, RecordUpload,
             GoTo, Labels, Holding, HoldingLabels
    <3>8. CASE RemoveFile(c)
      BY <3>1, <3>2, <3>8, Zenon DEF RemoveFile, GoTo, Labels, Holding, HoldingLabels
    <3> QED
      BY <2>2, <3>3, <3>4, <3>5, <3>6, <3>7, <3>8, Zenon DEF Process, Download, Upload
  <2>3. ASSUME NEW v \in Vods, CatalogInsert(v) \/ Requests(v) PROVE SlotsBalanced'
    BY <2>1, <2>3, Zenon
       DEF CatalogInsert, Requests, SetPriority, SetSkipUpload, SetDescription, Reopen, Edit,
           worker, Holding
  <2>4. CASE Crash
    <3>1. Holding' = {} /\ active' = 0
      BY <2>4 DEF Crash, Holding
    <3>2. Cardinality(Holding') = 0
      BY <3>1, FS_EmptySet, Zenon
    <3> QED
      BY <3>1, <3>2, Constants DEF SlotsBalanced
  <2>5. CASE Tick \/ UNCHANGED vars
    BY <2>1, <2>5, Zenon DEF Tick, vars, worker, Holding
  <2> QED
    BY <2>2, <2>3, <2>4, <2>5 DEF Next
<1> QED
  BY <1>1, <1>2

(***************************************************************************)
(* acquireDownloadSlot and the deferred releaseDownloadSlot (concurrency.go)  *)
(* balance: the semaphore counts the goroutines holding a slot, at most        *)
(* MAX_CONCURRENT_DOWNLOADS.                                                *)
(***************************************************************************)
THEOREM SlotsBalance == Spec => []SlotsBalanced
BY SlotsBalancedSteps, WorkerInvHolds, AttemptsInvHolds, PTL DEF Spec

-----------------------------------------------------------------------------
(* One upload per VOD.  The row's youtube_url answers for the video once it is *)
(* recorded; between the upload and the record, the goroutine's place does.    *)

WorksAt(c, label, v) == pc[c] = label /\ cur[c] = v

SameFlags(r, s) == s.known = r.known /\ s.youtube = r.youtube

\* Of all updates of a row only the record of an upload changes its flags.
LEMMA FlagsKept ==
    ASSUME NEW r \in Row
    PROVE  /\ SameFlags(r, [r EXCEPT !.retries = @ + 1])
           /\ SameFlags(r, [r EXCEPT !.path = TRUE])
           /\ SameFlags(r, [r EXCEPT !.path = TRUE, !.age = 0])
           /\ SameFlags(r, [r EXCEPT !.path = FALSE, !.age = 0])
           /\ SameFlags(r, [r EXCEPT !.error = "download", !.age = 0])
           /\ SameFlags(r, [r EXCEPT !.error = "auth", !.retries = MaxAttempts, !.age = 0])
           /\ SameFlags(r, [r EXCEPT !.error = "upload", !.retries = @ + 1, !.age = 0])
           /\ SameFlags(r, [r EXCEPT !.age = Older(@, AgeCap)])
           /\ SameFlags(r, Done(r))
           /\ SameFlags(r, [r EXCEPT !.age = 0])
           /\ SameFlags(r, [r EXCEPT !.processed = FALSE, !.error = "none"])
           /\ \A p : SameFlags(r, [[r EXCEPT !.priority = p] EXCEPT !.age = 0])
           /\ \A b : SameFlags(r, [[r EXCEPT !.skip_upload = b] EXCEPT !.age = 0])
           /\ [Done(r) EXCEPT !.youtube = TRUE].known = r.known
           /\ [Done(r) EXCEPT !.youtube = TRUE].youtube
BY DEF Row, SameFlags, Done

\* What a step can do to the flags known and youtube of a row.
FlagStep(v) ==
    \/ SameFlags(vods[v], vods'[v])
    \/ ~vods[v].known /\ vods'[v].known /\ ~vods'[v].youtube
    \/ vods'[v].known = vods[v].known /\ vods'[v].youtube /\ WorksAt(Home[v], "record", v)

\* Every step treats the flags of a row in this way.
LEMMA FlagSteps ==
    ASSUME WorkerInv, RowsInv, [Next]_vars, NEW v \in Vods PROVE FlagStep(v)
<1> USE DEF FlagStep
<1>1. CASE UNCHANGED vods
  BY <1>1 DEF SameFlags
<1>2. ASSUME NEW w \in Vods, NEW row, vods' = [vods EXCEPT ![w] = row] \/ vods' = vods,
             SameFlags(vods[w], row)
      PROVE  FlagStep(v)
  BY <1>2, Zenon DEF RowsInv, SameFlags
<1>3. ASSUME NEW new \in SUBSET Vods, Insert(new), \A w \in new : ~vods[w].known
      PROVE  FlagStep(v)
  <2>1. CASE v \in new
    <3>1. vods'[v] = [NewRow EXCEPT !.known = TRUE, !.age = 0]
      BY <1>3, <2>1 DEF Insert
    <3> QED
      BY <1>3, <2>1, <3>1 DEF NewRow
  <2>2. CASE v \notin new
    BY <1>3, <2>2 DEF Insert, SameFlags
  <2> QED
    BY <2>1, <2>2
<1>4. ASSUME NEW c \in Channels, Process(c) PROVE FlagStep(v)
  <2>1. CASE Pick(c) \/ AcquireSlot(c)
    <3>1. CASE Discover(c)
      BY <1>3, <3>1 DEF Discover, Unknown
    <3> QED
      BY <1>1, <2>1, <3>1, Zenon
         DEF Pick, StartCycle, DiscoverFails, Select, SelectNothing, AcquireSlot
  <2>2. CASE Download(c) \/ Upload(c)
    <3>1. cur[c] \in Vods /\ Mine(c) \in Row /\ Mine(c) = vods[cur[c]] /\ Home[cur[c]] = c
      <4>1. pc[c] \notin Choosing
        BY <2>2 DEF Choosing, Download, AttemptFails, DownloadOk, DownloadFails, AuthRequired,
              Upload, Downloaded, AlreadyUploaded, SkipUpload, DecideUpload, UploadOk,
              UploadFails, GiveUpUpload, RecordUpload, RemoveFile, ClearPath
      <4> QED
        BY <4>1 DEF WorkerInv, Mine, RowsInv
    <3>2. CASE RecordUpload(c)
      <4> DEFINE row == [Done(Mine(c)) EXCEPT !.youtube = TRUE]
      <4>1. row.known = vods[cur[c]].known /\ row.youtube
        BY <3>1, FlagsKept
      <4>2. vods' = vods \/ vods' = [vods EXCEPT ![cur[c]] = row]
        BY <3>2 DEF RecordUpload, Update
      <4>3. pc[c] = "record"
        BY <3>2 DEF RecordUpload
      <4> HIDE DEF row
      <4>4. CASE v = cur[c] /\ vods' = [vods EXCEPT ![cur[c]] = row]
        BY <3>1, <4>1, <4>3, <4>4, Zenon DEF RowsInv, WorksAt
      <4>5. CASE v # cur[c] /\ vods' = [vods EXCEPT ![cur[c]] = row]
        BY <4>5, Zenon DEF RowsInv, SameFlags
      <4> QED
        BY <1>1, <4>2, <4>4, <4>5
    <3>3. CASE ~RecordUpload(c)
      <4> DEFINE Changed == \E row : /\ SameFlags(vods[cur[c]], row)
                                     /\ vods' = [vods EXCEPT ![cur[c]] = row] \/ vods' = vods
      <4>1. CASE UNCHANGED vods
        BY <1>1, <4>1
      <4>2. Changed => FlagStep(v)
        BY <1>2, <3>1, Zenon
      <4>3. ASSUME NEW row, SameFlags(Mine(c), row), Update(cur[c], row) PROVE FlagStep(v)
        BY <3>1, <4>2, <4>3, Zenon DEF Update
      <4> HIDE DEF Changed, FlagStep
      <4>4. CASE Download(c)
        <5>1. \E row : SameFlags(Mine(c), row) /\ Update(cur[c], row)
          BY <3>1, <4>4, FlagsKept
             DEF Download, AttemptFails, DownloadOk, DownloadFails, AuthRequired
        <5> QED
          BY <4>3, <5>1, Zenon
      <4>5. CASE Downloaded(c) \/ AlreadyUploaded(c) \/ GiveUpUpload(c) \/ ClearPath(c)
        <5>1. \E row : SameFlags(Mine(c), row) /\ Update(cur[c], row)
          BY <3>1, <4>5, FlagsKept
             DEF Downloaded, AlreadyUploaded, GiveUpUpload, ClearPath
        <5> QED
          BY <4>3, <5>1, Zenon
      <4>6. CASE SkipUpload(c)
        <5>1. vods' = vods \/ vods' = [vods EXCEPT ![cur[c]] = Done(Mine(c))]
          BY <4>6, Zenon DEF SkipUpload, Update
        <5>2. SameFlags(vods[cur[c]], Done(Mine(c)))
          BY <3>1, FlagsKept
        <5> QED
          BY <1>1, <1>2, <3>1, <5>1, <5>2, Zenon
      <4> QED
        BY <2>2, <3>3, <4>1, <4>4, <4>5, <4>6, Zenon
           DEF Upload, DecideUpload, UploadOk, UploadFails, RemoveFile
    <3> QED
      BY <3>2, <3>3
  <2> QED
    BY <1>4, <2>1, <2>2 DEF Process
<1>5. ASSUME NEW w \in Vods, CatalogInsert(w) PROVE FlagStep(v)
  BY <1>3, <1>5 DEF CatalogInsert
<1>6. ASSUME NEW w \in Vods, Requests(w) PROVE FlagStep(v)
  <2>1. vods[w] \in Row
    BY DEF RowsInv
  <2>2. ASSUME Reopen(w)
        PROVE  vods' = [vods EXCEPT ![w] = [vods[w] EXCEPT !.processed = FALSE,
                                                           !.error = "none"]]
    BY <2>2 DEF Reopen, RowsInv
  <2>3. \E row : SameFlags(vods[w], row) /\ vods' = [vods EXCEPT ![w] = row]
    BY <1>6, <2>1, <2>2, FlagsKept, Zenon
       DEF Requests, SetPriority, SetSkipUpload, SetDescription, Edit
  <2> QED
    BY <1>2, <2>3, Zenon
<1>7. CASE Tick
  <2>1. vods'[v] = [vods[v] EXCEPT !.age = Older(@, AgeCap)] /\ vods[v] \in Row
    BY <1>7 DEF Tick, RowsInv
  <2> QED
    BY <2>1, FlagsKept, Zenon
<1>8. CASE Crash \/ UNCHANGED vars
  BY <1>1, <1>8 DEF Crash, vars
<1> QED
  BY <1>4, <1>5, <1>6, <1>7, <1>8 DEF Next

\* A goroutine is past the selection because it was before, or by selecting.
LEMMA WorkGoesOn ==
    ASSUME WorkerInv, [Next]_vars, NEW c \in Channels, pc'[c] \notin Choosing
    PROVE  Select(c) \/ (pc[c] \notin Choosing /\ cur'[c] = cur[c])
<1> DEFINE Goal == Select(c) \/ (pc[c] \notin Choosing /\ cur'[c] = cur[c])
<1>1. CASE UNCHANGED <<pc, cur>>
  BY <1>1
<1>2. ASSUME NEW d \in Channels, Process(d) PROVE Goal
  <2>1. CASE Leave(d)
    BY <2>1, Zenon DEF Leave, WorkerInv, Choosing
  <2>2. ASSUME NEW label, GoTo(d, label), UNCHANGED cur,
               pc[d] \notin Choosing \/ label \in Choosing
        PROVE  Goal
    BY <2>2, Zenon DEF GoTo, WorkerInv
  <2>3. CASE Select(d)
    BY <2>3, Zenon DEF Select, GoTo, WorkerInv
  <2>4. CASE StartCycle(d) \/ Discover(d)
    BY <2>2, <2>4, Zenon DEF StartCycle, Discover, Choosing
  <2>5. CASE AttemptFails(d) \/ UploadFails(d)
    BY <1>1, <2>5, Zenon DEF AttemptFails, UploadFails
  <2>6. CASE AcquireSlot(d) \/ DownloadOk(d) \/ Downloaded(d) \/ AlreadyUploaded(d)
             \/ DecideUpload(d) \/ UploadOk(d) \/ RecordUpload(d)
    <3>1. pc[d] \notin Choosing /\ UNCHANGED cur /\ \E label : GoTo(d, label)
      BY <2>6 DEF AcquireSlot, DownloadOk, Downloaded, AlreadyUploaded, DecideUpload, UploadOk,
                  RecordUpload, Choosing
    <3> QED
      BY <2>2, <3>1, Zenon
  <2>7. CASE RemoveFile(d)
    BY <2>1, <2>2, <2>7, Zenon DEF RemoveFile, Finish, Choosing
  <2> QED
    BY <1>2, <2>1, <2>3, <2>4, <2>5, <2>6, <2>7, Zenon
       DEF Process, Pick, Download, Upload, DiscoverFails, SelectNothing, DownloadFails,
           AuthRequired, SkipUpload, GiveUpUpload, ClearPath, Finish
<1>3. ASSUME NEW v \in Vods, CatalogInsert(v) \/ Requests(v) PROVE Goal
  BY <1>1, <1>3, Zenon
     DEF CatalogInsert, Requests, SetPriority, SetSkipUpload, SetDescription, Reopen, Edit,
         worker
<1>4. CASE Crash
  BY <1>4 DEF Crash, Choosing
<1>5. CASE Tick \/ UNCHANGED vars
  BY <1>1, <1>5, Zenon DEF Tick, vars, worker
<1> QED
  BY <1>2, <1>3, <1>4, <1>5 DEF Next

\* Only rows in the table are selected or have a URL.
KnownInv ==
    /\ \A v \in Vods : vods[v].youtube => vods[v].known
    /\ \A c \in Channels : pc[c] \notin Choosing => vods[cur[c]].known

\* No row is removed, and only known ones are selected.
LEMMA KnownInvSteps ==
    /\ Init => KnownInv
    /\ WorkerInv /\ WorkerInv' /\ RowsInv /\ KnownInv /\ [Next]_vars => KnownInv'
<1>1. Init => KnownInv
  BY DEF Init, KnownInv, NewRow, Choosing
<1>2. WorkerInv /\ WorkerInv' /\ RowsInv /\ KnownInv /\ [Next]_vars => KnownInv'
  <2> SUFFICES ASSUME WorkerInv, WorkerInv', RowsInv, KnownInv, [Next]_vars PROVE KnownInv'
    OBVIOUS
  <2>1. \A v \in Vods : FlagStep(v)
    BY FlagSteps
  <2>2. \A v \in Vods : vods[v].known => vods'[v].known
    BY <2>1, Zenon DEF FlagStep, SameFlags
  <2>3. ASSUME NEW v \in Vods, vods'[v].youtube PROVE vods'[v].known
    <3>1. CASE WorksAt(Home[v], "record", v)
      <4>1. Home[v] \in Channels /\ "record" \notin Choosing
        BY Constants DEF Choosing
      <4> QED
        BY <2>2, <3>1, <4>1, Zenon DEF WorksAt, KnownInv
    <3> QED
      BY <2>1, <2>3, <3>1, Zenon DEF FlagStep, SameFlags, KnownInv
  <2>4. ASSUME NEW c \in Channels, pc'[c] \notin Choosing PROVE vods'[cur'[c]].known
    <3>1. CASE Select(c)
      <4>1. PICK v \in Vods : cur' = [cur EXCEPT ![c] = v] /\ vods[v].known
        BY <3>1 DEF Select, Usable, Batch, Eligible
      <4> QED
        BY <2>2, <4>1, Zenon DEF WorkerInv
    <3>2. CASE ~Select(c)
      <4>1. pc[c] \notin Choosing /\ cur'[c] = cur[c]
        BY <2>4, <3>2, WorkGoesOn
      <4> QED
        BY <2>2, <4>1, Zenon DEF KnownInv, WorkerInv
    <3> QED
      BY <3>1, <3>2
  <2> QED
    BY <2>3, <2>4 DEF KnownInv
<1> QED
  BY <1>1, <1>2

\* Only rows in the table are worked on.
LEMMA KnownInvHolds == Spec => []KnownInv
BY KnownInvSteps, WorkerInvHolds, RowsInvHolds, PTL DEF Spec

\* The faults pay for every video beyond the one its row or its upload vouches for.
Vouched(v) ==
    IF WorksAt(Home[v], "record", v) THEN 1
    ELSE IF WorksAt(Home[v], "upload", v) \/ ~vods[v].youtube THEN 0 ELSE 1

OnceInv == \A v \in Vods : videos[v] <= faults + Vouched(v)

\* A row vouches for one video or none.
LEMMA VouchedIs01 == ASSUME NEW v \in Vods PROVE Vouched(v) \in 0 .. 1 /\ Vouched(v)' \in 0 .. 1
BY DEF Vouched

\* A fault counts as one.
LEMMA FaultIsOne == Fault => faults' = faults + 1
BY DEF Fault

\* Faults are never taken back.
LEMMA FaultsGrow ==
    ASSUME HistoryInv, [Next]_vars PROVE faults' \in Nat /\ (NoFault \/ faults' = faults + 1)
<1>1. NoFault \/ Fault
  BY Zenon
     DEF NoFault, Update, Sweep, Next, Process, Pick, StartCycle, Discover, DiscoverFails,
         Select, SelectNothing, AcquireSlot, Download, AttemptFails, DownloadOk,
         DownloadFails, AuthRequired, Upload, Downloaded, AlreadyUploaded, SkipUpload,
         DecideUpload, UploadOk, UploadFails, GiveUpUpload, RecordUpload, RemoveFile,
         ClearPath, CatalogInsert, Requests, SetPriority, SetSkipUpload, SetDescription, Edit,
         Reopen, Crash, Tick, vars
<1> QED
  BY <1>1, Constants DEF HistoryInv, NoFault, Fault

\* The steps between an upload and its record, where WorksAt(Home[v], ...) changes.
Uploading(c) ==
    DecideUpload(c) \/ UploadOk(c) \/ UploadFails(c) \/ GiveUpUpload(c) \/ RecordUpload(c)

\* Only the steps around its own upload change whether a VOD is being uploaded.
LEMMA PlaceKept ==
    ASSUME WorkerInv, NEW c \in Channels, Process(c), NEW v \in Vods, NEW d \in Channels,
           d # c \/ cur[c] # v \/ ~Uploading(c)
    PROVE  /\ WorksAt(d, "record", v)' <=> WorksAt(d, "record", v)
           /\ WorksAt(d, "upload", v)' <=> WorksAt(d, "upload", v)
<1> DEFINE Goal == /\ WorksAt(d, "record", v)' <=> WorksAt(d, "record", v)
                   /\ WorksAt(d, "upload", v)' <=> WorksAt(d, "upload", v)
           Late == {"record", "upload"}
<1>0. v # NoVod
  BY Constants
<1>1. CASE UNCHANGED <<pc, cur>>
  BY <1>1 DEF WorksAt
<1>2. CASE Leave(c) /\ (pc[c] \notin Late \/ cur[c] # v \/ d # c)
  BY <1>0, <1>2, Zenon DEF Leave, WorkerInv, WorksAt
<1>3. ASSUME NEW label, GoTo(c, label), UNCHANGED cur,
             (pc[c] \notin Late /\ label \notin Late) \/ cur[c] # v \/ d # c
      PROVE  Goal
  BY <1>3, Zenon DEF GoTo, WorkerInv, WorksAt
<1>4. CASE Select(c)
  BY <1>4, Zenon DEF Select, GoTo, WorkerInv, WorksAt
<1>5. CASE AttemptFails(c) \/ UploadFails(c)
  BY <1>1, <1>5, Zenon DEF AttemptFails, UploadFails
<1>6. CASE Pick(c) /\ ~Select(c)
  BY <1>2, <1>3, <1>6, Zenon
     DEF Pick, StartCycle, Discover, DiscoverFails, SelectNothing
<1>7. CASE DownloadFails(c) \/ AuthRequired(c) \/ SkipUpload(c) \/ ClearPath(c)
  BY <1>2, <1>7, Zenon DEF DownloadFails, AuthRequired, SkipUpload, ClearPath, Finish
<1>8. CASE GiveUpUpload(c)
  BY <1>2, <1>8, Zenon DEF GiveUpUpload, Finish, Uploading
<1>9. CASE AcquireSlot(c) \/ DownloadOk(c) \/ Downloaded(c) \/ AlreadyUploaded(c)
  BY <1>3, <1>9, Zenon DEF AcquireSlot, DownloadOk, Downloaded, AlreadyUploaded
<1>10. CASE DecideUpload(c) \/ UploadOk(c) \/ RecordUpload(c)
  BY <1>3, <1>10, Zenon DEF DecideUpload, UploadOk, RecordUpload, Uploading
<1>11. CASE RemoveFile(c)
  BY <1>2, <1>3, <1>11, Zenon DEF RemoveFile, Finish
<1> QED
  BY <1>4, <1>5, <1>6, <1>7, <1>8, <1>9, <1>10, <1>11, Zenon DEF Process, Download, Upload

\* Only the steps around its own upload make a video of a VOD.
LEMMA VideosKept ==
    ASSUME UploadsInv, WorkerInv, NEW c \in Channels, Process(c), NEW v \in Vods,
           cur[c] # v \/ ~Uploading(c)
    PROVE  videos'[v] = videos[v]
<1>1. UNCHANGED videos \/ (Uploading(c) /\ Publish(c))
  BY Zenon
     DEF Uploading, Process, Pick, StartCycle, Discover, DiscoverFails, Select,
         SelectNothing, AcquireSlot, Download, AttemptFails, DownloadOk, DownloadFails,
         AuthRequired, Upload, Downloaded, AlreadyUploaded, SkipUpload, DecideUpload,
         UploadOk, UploadFails, GiveUpUpload, RecordUpload, RemoveFile, ClearPath
<1>2. CASE Publish(c) /\ cur[c] # v
  BY <1>2, Zenon DEF Publish, UploadsInv
<1> QED
  BY <1>1, <1>2

\* Every video that is not vouched for was paid for with a fault.
LEMMA OnceInvSteps ==
    /\ Init => OnceInv
    /\ WorkerInv /\ RowsInv /\ UploadsInv /\ UploadsInv' /\ HistoryInv /\ KnownInv
       /\ OnceInv /\ [Next]_vars => OnceInv'
<1>1. Init => OnceInv
  BY DEF Init, OnceInv, NewRow, Vouched, WorksAt
<1>2. WorkerInv /\ RowsInv /\ UploadsInv /\ UploadsInv' /\ HistoryInv /\ KnownInv /\ OnceInv
      /\ [Next]_vars => OnceInv'
  <2> SUFFICES ASSUME WorkerInv, RowsInv, UploadsInv, UploadsInv', HistoryInv, KnownInv,
                      OnceInv, [Next]_vars, NEW v \in Vods
               PROVE  videos'[v] <= faults' + Vouched(v)'
    BY DEF OnceInv
  <2> DEFINE h == Home[v]
             Goal == videos'[v] <= faults' + Vouched(v)'
  <2>1. /\ videos[v] \in Nat /\ videos'[v] \in Nat /\ faults \in Nat /\ faults' \in Nat
        /\ Vouched(v) \in 0 .. 1 /\ Vouched(v)' \in 0 .. 1
        /\ videos[v] <= faults + Vouched(v)
        /\ faults' = faults \/ faults' = faults + 1
    BY Constants, VouchedIs01, FaultsGrow DEF UploadsInv, HistoryInv, OnceInv, NoFault
  <2>2. FlagStep(v) /\ h \in Channels
    BY FlagSteps, Constants
  <2>3. ASSUME videos'[v] = videos[v], Vouched(v)' = 1 \/ Vouched(v)' = Vouched(v)
        PROVE  Goal
    BY <2>1, <2>3
  <2>4. ASSUME videos'[v] = videos[v], faults' = faults + 1 PROVE Goal
    BY <2>1, <2>4
  <2>5. ASSUME videos'[v] = videos[v],
               WorksAt(h, "record", v)' <=> WorksAt(h, "record", v),
               WorksAt(h, "upload", v)' <=> WorksAt(h, "upload", v)
        PROVE  Goal
    <3>1. vods[v].youtube => vods'[v].youtube
      BY <2>2, Zenon DEF FlagStep, SameFlags, KnownInv
    <3>2. Vouched(v)' = 1 \/ Vouched(v)' = Vouched(v) \/ Vouched(v) = 0
      BY <2>5, <3>1 DEF Vouched
    <3> QED
      BY <2>1, <2>3, <2>5, <3>2
  <2> HIDE DEF Goal
  <2>6. ASSUME NEW c \in Channels, Process(c), cur[c] # v \/ ~Uploading(c) PROVE Goal
    <3>1. videos'[v] = videos[v]
      BY <2>6, VideosKept
    <3>2. /\ WorksAt(h, "record", v)' <=> WorksAt(h, "record", v)
          /\ WorksAt(h, "upload", v)' <=> WorksAt(h, "upload", v)
      BY <2>2, <2>6, PlaceKept
    <3> QED
      BY <2>5, <3>1, <3>2, Zenon
  <2>7. ASSUME NEW c \in Channels, Process(c), cur[c] = v, Uploading(c) PROVE Goal
    <3>1. c = h /\ cur[c] \in Vods /\ Mine(c) = vods[v]
      BY <2>7
         DEF Uploading, DecideUpload, UploadOk, UploadFails, GiveUpUpload, RecordUpload,
             WorkerInv, Choosing, Mine
    <3>2. CASE DecideUpload(c)
      <4>1. videos'[v] = videos[v] /\ ~WorksAt(h, "record", v)
        BY <3>1, <3>2 DEF DecideUpload, WorksAt
      <4>2. CASE vods[v].youtube
        BY <2>4, <3>1, <3>2, <4>1, <4>2, FaultIsOne DEF DecideUpload
      <4>3. CASE ~vods[v].youtube
        <5>1. Vouched(v)' = Vouched(v)
          BY <2>7, <3>1, <3>2, <4>1, <4>3 DEF DecideUpload, GoTo, WorksAt, Vouched, WorkerInv
        <5> QED
          BY <2>3, <4>1, <5>1
      <4> QED
        BY <4>2, <4>3
    <3>3. CASE UploadOk(c)
      <4>1. videos'[v] = videos[v] + 1 /\ faults' = faults
        BY <2>1, <2>7, <3>1, <3>3 DEF UploadOk, Publish, UploadsInv
      <4>2. Vouched(v) = 0 /\ Vouched(v)' = 1
        BY <2>7, <3>1, <3>3 DEF UploadOk, GoTo, WorksAt, Vouched, WorkerInv
      <4> QED
        BY <2>1, <4>1, <4>2 DEF Goal
    <3>4. CASE UploadFails(c)
      <4>1. Vouched(v)' = Vouched(v)
        BY <2>7, <3>4 DEF UploadFails, WorksAt, Vouched
      <4>2. \/ videos'[v] = videos[v]
            \/ videos'[v] = videos[v] + 1 /\ faults' = faults + 1
        BY <2>7, <3>1, <3>4 DEF UploadFails, Publish, Fault, UploadsInv
      <4> QED
        BY <2>1, <4>1, <4>2 DEF Goal
    <3>5. CASE GiveUpUpload(c) \/ RecordUpload(c)
      <4>1. videos'[v] = videos[v]
        BY <3>5 DEF GiveUpUpload, RecordUpload
      <4>2. CASE GiveUpUpload(c)
        <5>1. Vouched(v) = 0
          BY <2>7, <3>1, <4>2 DEF GiveUpUpload, WorksAt, Vouched
        <5> QED
          BY <2>1, <2>3, <4>1, <5>1
      <4>3. CASE RecordUpload(c)
        <5>1. CASE Fault
          BY <2>4, <4>1, <5>1, FaultIsOne
        <5>2. CASE ~Fault
          <6>1. vods' = [vods EXCEPT ![v] = [Done(vods[v]) EXCEPT !.youtube = TRUE]]
            BY <2>7, <3>1, <4>3, <5>2 DEF RecordUpload, Update
          <6>2. vods[v] \in Row
            BY DEF RowsInv
          <6>3. vods'[v].youtube
            BY <6>1, <6>2, FlagsKept DEF RowsInv
          <6>4. ~WorksAt(h, "upload", v)'
            BY <3>1, <4>3 DEF RecordUpload, GoTo, WorksAt, WorkerInv
          <6>5. Vouched(v)' = 1
            BY <6>3, <6>4 DEF Vouched
          <6> QED
            BY <2>3, <4>1, <6>5
        <5> QED
          BY <5>1, <5>2
      <4> QED
        BY <3>5, <4>2, <4>3
    <3> QED
      BY <2>7, <3>2, <3>3, <3>4, <3>5 DEF Uploading
  <2>8. ASSUME NEW w \in Vods, CatalogInsert(w) \/ Requests(w) PROVE Goal
    BY <2>5, <2>8, Zenon
       DEF CatalogInsert, Requests, SetPriority, SetSkipUpload, SetDescription, Reopen, Edit,
           worker, WorksAt
  <2>9. ASSUME Crash PROVE Goal
    BY <2>4, <2>9, FaultIsOne DEF Crash
  <2>10. ASSUME Tick \/ UNCHANGED vars PROVE Goal
    BY <2>5, <2>10, Zenon DEF Tick, vars, worker, WorksAt
  <2> QED
    BY <2>6, <2>7, <2>8, <2>9, <2>10 DEF Next, Goal
<1> QED
  BY <1>1, <1>2

\* The account of videos and faults is right.
LEMMA OnceInvHolds == Spec => []OnceInv
BY OnceInvSteps, WorkerInvHolds, RowsInvHolds, UploadsInvHolds, HistoryInvHolds, KnownInvHolds,
   PTL DEF Spec

(***************************************************************************)
(* Of a VOD there is at most one video on YouTube, plus one per crash, lost    *)
(* statement or lost answer: the check of youtube_url before the upload         *)
(* (processOnce) does its work in every order of the goroutines' steps.        *)
(***************************************************************************)
THEOREM OneVideoPerVod == Spec => []NoDuplicateUpload
<1>1. UploadsInv /\ HistoryInv /\ OnceInv => NoDuplicateUpload
  BY Constants, VouchedIs01 DEF UploadsInv, HistoryInv, OnceInv, NoDuplicateUpload
<1> QED
  BY <1>1, UploadsInvHolds, HistoryInvHolds, OnceInvHolds, PTL

-----------------------------------------------------------------------------
(* The files of recorded downloads.                                         *)

\* A goroutine moves by its own steps only, or dies.
LEMMA OwnSteps ==
    ASSUME WorkerInv, [Next]_vars, NEW c \in Channels
    PROVE  Process(c) \/ Crash \/ (pc'[c] = pc[c] /\ cur'[c] = cur[c])
<1> DEFINE Still == pc'[c] = pc[c] /\ cur'[c] = cur[c]
<1>1. CASE UNCHANGED <<pc, cur>>
  BY <1>1
<1>2. ASSUME NEW d \in Channels, Process(d), d # c PROVE Still
  <2>1. CASE Leave(d)
    BY <1>2, <2>1, Zenon DEF Leave, WorkerInv
  <2>2. ASSUME NEW label, GoTo(d, label), UNCHANGED cur
        PROVE  Still
    BY <1>2, <2>2, Zenon DEF GoTo, WorkerInv
  <2>3. CASE Select(d)
    BY <1>2, <2>3, Zenon DEF Select, GoTo, WorkerInv
  <2>4. CASE StartCycle(d) \/ Discover(d) \/ AcquireSlot(d) \/ DownloadOk(d) \/ Downloaded(d)
             \/ AlreadyUploaded(d) \/ DecideUpload(d) \/ UploadOk(d) \/ RecordUpload(d)
    BY <2>2, <2>4, Zenon
       DEF StartCycle, Discover, AcquireSlot, DownloadOk, Downloaded, AlreadyUploaded,
           DecideUpload, UploadOk, RecordUpload
  <2>5. CASE AttemptFails(d) \/ UploadFails(d)
    BY <1>1, <2>5, Zenon DEF AttemptFails, UploadFails
  <2>6. CASE RemoveFile(d)
    BY <2>1, <2>2, <2>6, Zenon DEF RemoveFile, Finish
  <2> QED
    BY <1>2, <2>1, <2>3, <2>4, <2>5, <2>6, Zenon
       DEF Process, Pick, Download, Upload, DiscoverFails, SelectNothing, DownloadFails,
           AuthRequired, SkipUpload, GiveUpUpload, ClearPath, Finish
<1>3. ASSUME NEW v \in Vods, CatalogInsert(v) \/ Requests(v) PROVE Still
  BY <1>1, <1>3, Zenon
     DEF CatalogInsert, Requests, SetPriority, SetSkipUpload, SetDescription, Reopen, Edit,
         worker
<1>4. CASE Tick \/ UNCHANGED vars
  BY <1>1, <1>4, Zenon DEF Tick, vars, worker
<1> QED
  BY <1>2, <1>3, <1>4, Zenon DEF Next

\* From its download to its removal the file of a goroutine's VOD is there.
Handling == {"downloaded", "decide", "upload", "record", "remove"}

HandlingInv == \A c \in Channels : pc[c] \in Handling => OnDisk(cur[c])

\* A goroutine has a file by downloading it, or has had it in the step before.
LEMMA HandlingGoesOn ==
    ASSUME WorkerInv, [Next]_vars, NEW c \in Channels, pc'[c] \in Handling
    PROVE  DownloadOk(c) \/ (pc[c] \in Handling /\ cur'[c] = cur[c] /\ ~RemoveFile(c))
<1> DEFINE Goal == DownloadOk(c) \/ (pc[c] \in Handling /\ cur'[c] = cur[c] /\ ~RemoveFile(c))
<1>1. CASE Process(c)
  <2>1. CASE Leave(c)
    BY <2>1, Zenon DEF Leave, WorkerInv, Handling
  <2>2. CASE StartCycle(c) \/ Discover(c) \/ Select(c) \/ AcquireSlot(c)
    BY <2>2, Zenon DEF StartCycle, Discover, Select, AcquireSlot, GoTo, WorkerInv, Handling
  <2>3. CASE AttemptFails(c)
    BY <2>3, Zenon DEF AttemptFails, Handling
  <2>4. CASE Downloaded(c) \/ AlreadyUploaded(c) \/ DecideUpload(c) \/ UploadOk(c)
             \/ RecordUpload(c) \/ UploadFails(c)
    <3>1. pc[c] \in Handling /\ pc[c] # "remove" /\ cur' = cur
      BY <2>4 DEF Downloaded, AlreadyUploaded, DecideUpload, UploadOk, RecordUpload, UploadFails,
                  Handling
    <3>2. ~RemoveFile(c)
      BY <3>1 DEF RemoveFile
    <3> QED
      BY <3>1, <3>2
  <2>5. CASE RemoveFile(c)
    BY <2>1, <2>5, Zenon DEF RemoveFile, Finish, GoTo, WorkerInv, Handling
  <2> QED
    BY <1>1, <2>1, <2>2, <2>3, <2>4, <2>5, Zenon
       DEF Process, Pick, Download, Upload, DiscoverFails, SelectNothing, DownloadFails,
           AuthRequired, SkipUpload, GiveUpUpload, ClearPath, Finish
<1>2. CASE Crash
  BY <1>2 DEF Crash, Handling
<1>3. CASE pc'[c] = pc[c] /\ cur'[c] = cur[c] /\ ~Process(c)
  BY <1>3, Zenon DEF Process, Upload
<1> QED
  BY <1>1, <1>2, <1>3, OwnSteps

\* A file goes when its goroutine removes it, or in a sweep.
LEMMA FilesGo ==
    ASSUME FilesInv, [Next]_vars, NEW v \in Vods, OnDisk(v), ~OnDisk(v)'
    PROVE  \/ \E c \in Channels : RemoveFile(c) /\ cur[c] = v
           \/ \E c \in Channels : /\ StartCycle(c) /\ SweepOn
                                  /\ v \in Referenced(c) => Fault
<1> USE DEF OnDisk
<1>1. disk \in [Vods -> 0 .. NoFile] /\ SweepAge \in Nat /\ NoFile = SweepAge + 1
  BY Constants DEF FilesInv, NoFile
<1>2. CASE UNCHANGED disk
  BY <1>2
<1>3. ASSUME NEW c \in Channels, StartCycle(c)
      PROVE  SweepOn /\ (v \in Referenced(c) => Fault)
  BY <1>1, <1>3 DEF StartCycle, Sweep, Swept
<1>4. ASSUME NEW c \in Channels, DownloadOk(c) PROVE FALSE
  BY <1>1, <1>4 DEF DownloadOk
<1>5. ASSUME NEW c \in Channels, RemoveFile(c) PROVE cur[c] = v
  BY <1>1, <1>5 DEF RemoveFile
<1>6. CASE Tick
  BY <1>1, <1>6 DEF Tick, Older
<1> QED
  BY <1>2, <1>3, <1>4, <1>5, <1>6, Zenon
     DEF Next, Process, Pick, Discover, DiscoverFails, Select, SelectNothing,
         AcquireSlot, Download, AttemptFails, DownloadFails, AuthRequired, Upload,
         Downloaded, AlreadyUploaded, SkipUpload, DecideUpload, UploadOk, UploadFails,
         GiveUpUpload, RecordUpload, ClearPath, CatalogInsert, Requests, SetPriority,
         SetSkipUpload, SetDescription, Edit, Reopen, Crash, vars

\* What a step can do to the path of a row: a path comes with a download.
SamePath(r, s) == s.path = r.path

\* Of all updates of a row only those after a download set its path.
LEMMA PathsKept ==
    ASSUME NEW r \in Row
    PROVE  /\ SamePath(r, [r EXCEPT !.retries = @ + 1])
           /\ SamePath(r, [r EXCEPT !.error = "download", !.age = 0])
           /\ SamePath(r, [r EXCEPT !.error = "auth", !.retries = MaxAttempts, !.age = 0])
           /\ SamePath(r, [r EXCEPT !.error = "upload", !.retries = @ + 1, !.age = 0])
           /\ SamePath(r, [r EXCEPT !.age = Older(@, AgeCap)])
           /\ SamePath(r, Done(r))
           /\ SamePath(r, [Done(r) EXCEPT !.youtube = TRUE])
           /\ SamePath(r, [r EXCEPT !.age = 0])
           /\ SamePath(r, [r EXCEPT !.processed = FALSE, !.error = "none"])
           /\ \A p : SamePath(r, [[r EXCEPT !.priority = p] EXCEPT !.age = 0])
           /\ \A b : SamePath(r, [[r EXCEPT !.skip_upload = b] EXCEPT !.age = 0])
           /\ ~[r EXCEPT !.path = FALSE, !.age = 0].path
           /\ ~[NewRow EXCEPT !.known = TRUE, !.age = 0].path
BY DEF Row, SamePath, Done, NewRow

\* A path is set by the goroutine that has downloaded the file.
LEMMA PathSteps ==
    ASSUME WorkerInv, RowsInv, [Next]_vars, NEW v \in Vods, vods'[v].path, ~vods[v].path
    PROVE  \E c \in Channels : cur[c] = v /\ (DownloadOk(c) \/ Downloaded(c))
<1> DEFINE Goal == \E c \in Channels : cur[c] = v /\ (DownloadOk(c) \/ Downloaded(c))
<1>1. ASSUME NEW w \in Vods, NEW row, SamePath(vods[w], row),
             vods' = [vods EXCEPT ![w] = row]
      PROVE  FALSE
  BY <1>1, Zenon DEF RowsInv, SamePath
<1>2. vods' # vods
  OBVIOUS
<1>3. ASSUME NEW new \in SUBSET Vods, Insert(new) PROVE FALSE
  <2>1. vods'[v] \in {vods[v], [NewRow EXCEPT !.known = TRUE, !.age = 0]}
    BY <1>3 DEF Insert
  <2>2. ~[NewRow EXCEPT !.known = TRUE, !.age = 0].path
    BY DEF NewRow
  <2> QED
    BY <2>1, <2>2
<1>4. ASSUME NEW c \in Channels, Process(c) PROVE Goal
  <2>1. CASE Pick(c) \/ AcquireSlot(c)
    <3>1. CASE Discover(c)
      BY <1>3, <3>1 DEF Discover, Unknown
    <3> QED
      BY <1>2, <2>1, <3>1, Zenon
         DEF Pick, StartCycle, DiscoverFails, Select, SelectNothing, AcquireSlot
  <2>2. CASE Download(c) \/ Upload(c)
    <3>1. cur[c] \in Vods /\ Mine(c) \in Row /\ Mine(c) = vods[cur[c]]
      <4>1. pc[c] \notin Choosing
        BY <2>2 DEF Choosing, Download, AttemptFails, DownloadOk, DownloadFails, AuthRequired,
              Upload, Downloaded, AlreadyUploaded, SkipUpload, DecideUpload, UploadOk,
              UploadFails, GiveUpUpload, RecordUpload, RemoveFile, ClearPath
      <4> QED
        BY <4>1 DEF WorkerInv, Mine, RowsInv
    <3>2. ASSUME NEW row, Update(cur[c], row), SamePath(Mine(c), row) PROVE FALSE
      BY <1>1, <1>2, <3>1, <3>2, Zenon DEF Update
    <3>3. CASE AttemptFails(c) \/ DownloadFails(c) \/ AuthRequired(c)
      BY <3>1, <3>2, <3>3, PathsKept, Zenon DEF AttemptFails, DownloadFails, AuthRequired
    <3>4. CASE AlreadyUploaded(c) \/ GiveUpUpload(c) \/ RecordUpload(c)
      BY <3>1, <3>2, <3>4, PathsKept, Zenon DEF AlreadyUploaded, GiveUpUpload, RecordUpload
    <3>5. CASE SkipUpload(c)
      <4>1. vods' = vods \/ vods' = [vods EXCEPT ![cur[c]] = Done(Mine(c))]
        BY <3>5, Zenon DEF SkipUpload, Update
      <4>2. SamePath(vods[cur[c]], Done(Mine(c)))
        BY <3>1, PathsKept, Zenon
      <4> QED
        BY <1>1, <1>2, <3>1, <4>1, <4>2, Zenon
    <3>6. CASE ClearPath(c)
      <4> DEFINE row == [Mine(c) EXCEPT !.path = FALSE, !.age = 0]
      <4>1. ~row.path
        BY <3>1, PathsKept
      <4>2. Update(cur[c], row)
        BY <3>6 DEF ClearPath
      <4> HIDE DEF row
      <4> QED
        BY <1>2, <4>1, <4>2, Zenon DEF Update, RowsInv
    <3>7. CASE DownloadOk(c) \/ Downloaded(c)
      <4>1. cur[c] = v
        <5>1. PICK row : Update(cur[c], row)
          BY <3>7, Zenon DEF DownloadOk, Downloaded
        <5> QED
          BY <5>1, Zenon DEF Update, RowsInv
      <4> QED
        BY <3>7, <4>1
    <3> QED
      BY <1>2, <2>2, <3>3, <3>4, <3>5, <3>6, <3>7, Zenon
         DEF Download, Upload, DecideUpload, UploadOk, UploadFails, RemoveFile
  <2> QED
    BY <1>4, <2>1, <2>2, Zenon DEF Process
<1>5. ASSUME NEW w \in Vods, CatalogInsert(w) PROVE FALSE
  BY <1>3, <1>5 DEF CatalogInsert
<1>6. ASSUME NEW w \in Vods, Requests(w) PROVE FALSE
  <2>1. vods[w] \in Row
    BY DEF RowsInv
  <2>2. ASSUME Reopen(w)
        PROVE  vods' = [vods EXCEPT ![w] = [vods[w] EXCEPT !.processed = FALSE,
                                                           !.error = "none"]]
    BY <2>2 DEF Reopen, RowsInv
  <2>3. \E row : SamePath(vods[w], row) /\ vods' = [vods EXCEPT ![w] = row]
    BY <1>6, <2>1, <2>2, PathsKept, Zenon
       DEF Requests, SetPriority, SetSkipUpload, SetDescription, Edit
  <2> QED
    BY <1>1, <2>3, Zenon
<1>7. CASE Tick
  <2>1. vods'[v] = [vods[v] EXCEPT !.age = Older(@, AgeCap)] /\ vods[v] \in Row
    BY <1>7 DEF Tick, RowsInv
  <2> QED
    BY <2>1, PathsKept, Zenon DEF SamePath
<1>8. CASE Crash \/ UNCHANGED vars
  BY <1>2, <1>8 DEF Crash, vars
<1> QED
  BY <1>4, <1>5, <1>6, <1>7, <1>8 DEF Next

\* The hypothesis of the theorem below: the sweeper is off, or there is one
\* channel.  With more, the sweeper of one takes the files of the others.
SweepsItsOwn == ~SweepOn \/ \A c, d \in Channels : c = d

\* A sweep finds no other goroutine at work, and its own is idle.
LEMMA HandlingInvHolds == ASSUME SweepsItsOwn PROVE Spec => []HandlingInv
<1>1. Init => HandlingInv
  BY DEF Init, HandlingInv, Handling
<1>2. WorkerInv /\ WorkerInv' /\ FilesInv /\ HandlingInv /\ [Next]_vars => HandlingInv'
  <2> SUFFICES ASSUME WorkerInv, WorkerInv', FilesInv, HandlingInv, [Next]_vars,
                      NEW c \in Channels, pc'[c] \in Handling, ~OnDisk(cur[c])'
               PROVE  FALSE
    BY DEF HandlingInv
  <2>1. CASE DownloadOk(c)
    <3>1. cur' = cur /\ cur[c] \in Vods
      BY <2>1 DEF DownloadOk, WorkerInv, Choosing
    <3>2. disk'[cur[c]] = IF OnDisk(cur[c]) THEN disk[cur[c]] ELSE 0
      BY <2>1, <3>1 DEF DownloadOk, FilesInv
    <3> QED
      BY <3>1, <3>2, Constants DEF OnDisk, NoFile
  <2>2. CASE pc[c] \in Handling /\ cur'[c] = cur[c] /\ ~RemoveFile(c)
    <3>1. PICK v \in Vods : v = cur[c] /\ Home[v] = c
      BY <2>2 DEF Handling, WorkerInv, Choosing
    <3>2. OnDisk(v) /\ ~OnDisk(v)'
      BY <2>2, <3>1 DEF HandlingInv, OnDisk
    <3>3. ASSUME NEW d \in Channels, RemoveFile(d), cur[d] = v PROVE FALSE
      <4>1. Home[cur[d]] = d
        BY <3>3 DEF RemoveFile, WorkerInv, Choosing
      <4> QED
        BY <2>2, <3>1, <3>3, <4>1
    <3>4. ASSUME NEW d \in Channels, StartCycle(d), SweepOn PROVE FALSE
      <4>1. d = c
        BY <3>4 DEF SweepsItsOwn
      <4> QED
        BY <2>2, <3>4, <4>1 DEF StartCycle, Handling
    <3> QED
      BY <3>1, <3>2, <3>3, <3>4, FilesGo
  <2> QED
    BY <2>1, <2>2, HandlingGoesOn
<1> QED
  BY <1>1, <1>2, WorkerInvHolds, FilesInvHolds, PTL DEF Spec

\* A path names a file, but for the moment between its removal and clearing the path.
PathInv ==
    faults = 0 => \A v \in Vods : vods[v].path => OnDisk(v) \/ WorksAt(Home[v], "clear", v)

\* Without a fault a goroutine about to clear a path does so.
LEMMA ClearsIt ==
    ASSUME WorkerInv, RowsInv, [Next]_vars, ~Fault, NEW v \in Vods,
           WorksAt(Home[v], "clear", v), vods'[v].path
    PROVE  WorksAt(Home[v], "clear", v)'
<1> DEFINE h == Home[v]
<1>1. h \in Channels
  BY Constants
<1>2. CASE Process(h)
  <2>1. ClearPath(h)
    BY <1>2
       DEF WorksAt, Process, Pick, StartCycle, Discover, DiscoverFails, Select, SelectNothing,
           AcquireSlot, Download, AttemptFails, DownloadOk, DownloadFails, AuthRequired,
           Upload, Downloaded, AlreadyUploaded, SkipUpload, DecideUpload, UploadOk,
           UploadFails, GiveUpUpload, RecordUpload, RemoveFile
  <2> DEFINE row == [Mine(h) EXCEPT !.path = FALSE, !.age = 0]
  <2>2. ~row.path
    BY PathsKept DEF WorksAt, Mine, RowsInv
  <2>3. Update(v, row)
    BY <2>1 DEF ClearPath, WorksAt
  <2> HIDE DEF row
  <2>4. vods' = [vods EXCEPT ![v] = row]
    BY <2>3 DEF Update
  <2> QED
    BY <2>2, <2>4 DEF RowsInv
<1>3. CASE Crash
  BY <1>3 DEF Crash
<1>4. CASE pc'[h] = pc[h] /\ cur'[h] = cur[h]
  BY <1>4 DEF WorksAt
<1> QED
  BY <1>1, <1>2, <1>3, <1>4, OwnSteps

\* A path names a file, or one just removed.
LEMMA PathInvHolds == ASSUME SweepsItsOwn PROVE Spec => []PathInv
<1>1. Init => PathInv
  BY DEF Init, PathInv, NewRow
<1>2. WorkerInv /\ RowsInv /\ FilesInv /\ HistoryInv /\ HandlingInv /\ PathInv
      /\ [Next]_vars => PathInv'
  <2> SUFFICES ASSUME WorkerInv, RowsInv, FilesInv, HistoryInv, HandlingInv, PathInv,
                      [Next]_vars, faults' = 0, NEW v \in Vods, vods'[v].path
               PROVE  OnDisk(v)' \/ WorksAt(Home[v], "clear", v)'
    BY DEF PathInv
  <2>1. faults = 0 /\ ~Fault
    BY FaultsGrow, Constants DEF HistoryInv, NoFault, Fault
  <2>2. CASE ~vods[v].path
    <3>1. PICK c \in Channels : cur[c] = v /\ (DownloadOk(c) \/ Downloaded(c))
      BY <2>2, PathSteps
    <3>2. CASE DownloadOk(c)
      <4>1. disk'[v] = IF OnDisk(v) THEN disk[v] ELSE 0
        BY <3>1, <3>2 DEF DownloadOk, FilesInv
      <4> QED
        BY <4>1, Constants DEF OnDisk, NoFile
    <3>3. CASE Downloaded(c)
      <4>1. OnDisk(v) /\ disk' = disk
        BY <3>1, <3>3 DEF Downloaded, HandlingInv, Handling
      <4> QED
        BY <4>1 DEF OnDisk
    <3> QED
      BY <3>1, <3>2, <3>3
  <2>3. CASE vods[v].path /\ OnDisk(v) /\ ~OnDisk(v)'
    <3>1. ASSUME NEW c \in Channels, RemoveFile(c), cur[c] = v PROVE WorksAt(Home[v], "clear", v)'
      <4>1. Home[v] = c
        BY <3>1 DEF RemoveFile, WorkerInv, Choosing
      <4>2. pc' = [pc EXCEPT ![c] = "clear"] /\ cur' = cur
        BY <2>3, <3>1 DEF RemoveFile, GoTo
      <4> QED
        BY <3>1, <4>1, <4>2 DEF WorksAt, WorkerInv
    <3>2. ASSUME NEW c \in Channels, SweepOn, v \in Referenced(c) => Fault PROVE FALSE
      <4>1. Home[v] = c
        BY <3>2, Constants DEF SweepsItsOwn
      <4> QED
        BY <2>1, <2>3, <3>2, <4>1 DEF Referenced
    <3> QED
      BY <2>3, <3>1, <3>2, FilesGo
  <2>4. CASE vods[v].path /\ ~OnDisk(v)
    <3>1. WorksAt(Home[v], "clear", v)
      BY <2>1, <2>4 DEF PathInv
    <3> QED
      BY <2>1, <3>1, ClearsIt
  <2> QED
    BY <2>2, <2>3, <2>4
<1>3. Spec => []HandlingInv
  BY HandlingInvHolds
<1> QED
  BY <1>1, <1>2, <1>3, WorkerInvHolds, RowsInvHolds, FilesInvHolds, HistoryInvHolds, PTL DEF Spec

(***************************************************************************)
(* Without a fault, a recorded download that is still to be dealt with has its *)
(* file: the pipeline removes it only after the upload is recorded, and the     *)
(* sweeper of stale files (processing.go) spares it.  The sweeper knows only    *)
(* the rows of its own channel, so it must be off where there are several.      *)
(***************************************************************************)
THEOREM FilesStay == ASSUME SweepsItsOwn PROVE Spec => []RecordedFileIsThere
<1>1. PathInv => RecordedFileIsThere
  BY Constants DEF PathInv, RecordedFileIsThere, WorksAt
<1>2. Spec => []PathInv
  BY PathInvHolds
<1> QED
  BY <1>1, <1>2, PTL

-----------------------------------------------------------------------------
(* The upload limits.  The COUNT of the rows uploaded in the last 24 hours is  *)
(* no less than the number of uploads, since a row is never older than its     *)
(* upload, and what was selected under the limit stays under it.              *)

\* What a step can do to the age of a row.
AgeStep(v) ==
    \/ vods'[v].age = vods[v].age
    \/ vods'[v].age = 0
    \/ Tick /\ vods'[v].age = Older(vods[v].age, AgeCap)

SameAge(r, s) == s.age = r.age \/ s.age = 0

\* Of all updates of a row none makes it older.
LEMMA AgesKept ==
    ASSUME NEW r \in Row
    PROVE  /\ SameAge(r, [r EXCEPT !.retries = @ + 1])
           /\ SameAge(r, [r EXCEPT !.path = TRUE])
           /\ SameAge(r, [r EXCEPT !.path = TRUE, !.age = 0])
           /\ SameAge(r, [r EXCEPT !.path = FALSE, !.age = 0])
           /\ SameAge(r, [r EXCEPT !.error = "download", !.age = 0])
           /\ SameAge(r, [r EXCEPT !.error = "auth", !.retries = MaxAttempts, !.age = 0])
           /\ SameAge(r, [r EXCEPT !.error = "upload", !.retries = @ + 1, !.age = 0])
           /\ SameAge(r, Done(r))
           /\ SameAge(r, [Done(r) EXCEPT !.youtube = TRUE])
           /\ SameAge(r, [r EXCEPT !.age = 0])
           /\ SameAge(r, [r EXCEPT !.processed = FALSE, !.error = "none"])
           /\ \A p : SameAge(r, [[r EXCEPT !.priority = p] EXCEPT !.age = 0])
           /\ \A b : SameAge(r, [[r EXCEPT !.skip_upload = b] EXCEPT !.age = 0])
           /\ [r EXCEPT !.age = Older(@, AgeCap)].age = Older(r.age, AgeCap)
           /\ [Done(r) EXCEPT !.youtube = TRUE].age = 0
BY DEF Row, SameAge, Done

\* Every step treats the age of a row in this way.
LEMMA AgeSteps == ASSUME WorkerInv, RowsInv, [Next]_vars, NEW v \in Vods PROVE AgeStep(v)
<1> USE DEF AgeStep
<1>1. CASE UNCHANGED vods
  BY <1>1
<1>2. ASSUME NEW w \in Vods, NEW row, vods' = [vods EXCEPT ![w] = row] \/ vods' = vods,
             SameAge(vods[w], row)
      PROVE  AgeStep(v)
  BY <1>2, Zenon DEF RowsInv, SameAge
<1>3. ASSUME NEW new \in SUBSET Vods, Insert(new) PROVE AgeStep(v)
  <2>1. vods'[v] \in {vods[v], [NewRow EXCEPT !.known = TRUE, !.age = 0]}
    BY <1>3 DEF Insert
  <2>2. [NewRow EXCEPT !.known = TRUE, !.age = 0].age = 0
    BY DEF NewRow
  <2> QED
    BY <2>1, <2>2
<1>4. ASSUME NEW c \in Channels, Process(c) PROVE AgeStep(v)
  <2>1. CASE Pick(c) \/ AcquireSlot(c)
    <3>1. CASE Discover(c)
      BY <1>3, <3>1 DEF Discover, Unknown
    <3> QED
      BY <1>1, <2>1, <3>1, Zenon
         DEF Pick, StartCycle, DiscoverFails, Select, SelectNothing, AcquireSlot
  <2>2. CASE Download(c) \/ Upload(c)
    <3>1. cur[c] \in Vods /\ Mine(c) \in Row /\ Mine(c) = vods[cur[c]]
      <4>1. pc[c] \notin Choosing
        BY <2>2 DEF Choosing, Download, AttemptFails, DownloadOk, DownloadFails, AuthRequired,
              Upload, Downloaded, AlreadyUploaded, SkipUpload, DecideUpload, UploadOk,
              UploadFails, GiveUpUpload, RecordUpload, RemoveFile, ClearPath
      <4> QED
        BY <4>1 DEF WorkerInv, Mine, RowsInv
    <3>2. ASSUME NEW row, Update(cur[c], row), SameAge(Mine(c), row) PROVE AgeStep(v)
      BY <1>2, <3>1, <3>2, Zenon DEF Update
    <3> HIDE DEF AgeStep
    <3>3. CASE Download(c)
      BY <3>1, <3>2, <3>3, AgesKept, Zenon
         DEF Download, AttemptFails, DownloadOk, DownloadFails, AuthRequired
    <3>4. CASE Downloaded(c) \/ AlreadyUploaded(c) \/ GiveUpUpload(c) \/ RecordUpload(c)
               \/ ClearPath(c)
      BY <3>1, <3>2, <3>4, AgesKept, Zenon
         DEF Downloaded, AlreadyUploaded, GiveUpUpload, RecordUpload, ClearPath
    <3>5. CASE SkipUpload(c)
      <4>1. vods' = vods \/ vods' = [vods EXCEPT ![cur[c]] = Done(Mine(c))]
        BY <3>5, Zenon DEF SkipUpload, Update
      <4>2. SameAge(vods[cur[c]], Done(Mine(c)))
        BY <3>1, AgesKept, Zenon
      <4> QED
        BY <1>2, <3>1, <4>1, <4>2, Zenon
    <3> QED
      BY <1>1, <2>2, <3>3, <3>4, <3>5, Zenon
         DEF Upload, DecideUpload, UploadOk, UploadFails, RemoveFile
  <2> QED
    BY <1>4, <2>1, <2>2, Zenon DEF Process
<1>5. ASSUME NEW w \in Vods, CatalogInsert(w) PROVE AgeStep(v)
  BY <1>3, <1>5 DEF CatalogInsert
<1>6. ASSUME NEW w \in Vods, Requests(w) PROVE AgeStep(v)
  <2>1. vods[w] \in Row
    BY DEF RowsInv
  <2>2. ASSUME Reopen(w)
        PROVE  vods' = [vods EXCEPT ![w] = [vods[w] EXCEPT !.processed = FALSE,
                                                           !.error = "none"]]
    BY <2>2 DEF Reopen, RowsInv
  <2>3. \E row : SameAge(vods[w], row) /\ vods' = [vods EXCEPT ![w] = row]
    BY <1>6, <2>1, <2>2, AgesKept, Zenon
       DEF Requests, SetPriority, SetSkipUpload, SetDescription, Edit
  <2> QED
    BY <1>2, <2>3, Zenon
<1>7. CASE Tick
  <2>1. vods'[v] = [vods[v] EXCEPT !.age = Older(@, AgeCap)] /\ vods[v] \in Row
    BY <1>7 DEF Tick, RowsInv
  <2> QED
    BY <1>7, <2>1, AgesKept, Zenon
<1>8. CASE Crash \/ UNCHANGED vars
  BY <1>1, <1>8 DEF Crash, vars
<1> QED
  BY <1>4, <1>5, <1>6, <1>7, <1>8 DEF Next

\* What a step without a fault can do to the age of an upload.
LEMMA UploadSteps ==
    ASSUME WorkerInv, UploadsInv, [Next]_vars, ~Fault, NEW v \in Vods
    PROVE  \/ ~Tick /\ upAge'[v] = upAge[v]
           \/ Tick /\ upAge'[v] = Older(upAge[v], Day)
           \/ UploadOk(Home[v]) /\ cur[Home[v]] = v
<1> DEFINE Uploaded == UploadOk(Home[v]) /\ cur[Home[v]] = v
<1>1. CASE Tick
  BY <1>1 DEF Tick
<1>2. CASE UNCHANGED upAge
  BY <1>1, <1>2
<1>3. ASSUME NEW c \in Channels, UploadOk(c) PROVE Uploaded \/ upAge'[v] = upAge[v]
  <2>1. Home[cur[c]] = c /\ upAge' = [upAge EXCEPT ![cur[c]] = 0]
    BY <1>3 DEF UploadOk, Publish, WorkerInv, Choosing
  <2> QED
    BY <1>3, <2>1, Zenon DEF UploadsInv
<1>4. ASSUME NEW c \in Channels, UploadFails(c) PROVE UNCHANGED upAge
  BY <1>4 DEF UploadFails
<1> QED
  BY <1>1, <1>2, <1>3, <1>4, Zenon
     DEF Next, Process, Pick, StartCycle, Discover, DiscoverFails, Select,
         SelectNothing, AcquireSlot, Download, AttemptFails, DownloadOk,
         DownloadFails, AuthRequired, Upload, Downloaded, AlreadyUploaded, SkipUpload,
         DecideUpload, GiveUpUpload, RecordUpload, RemoveFile,
         ClearPath, CatalogInsert, Requests, SetPriority, SetSkipUpload,
         SetDescription, Edit, Reopen, Crash, vars

\* An upload of the day is in the COUNT, or about to be.
Counted(v) ==
    (vods[v].youtube /\ vods[v].age <= upAge[v]) \/ WorksAt(Home[v], "record", v)
CountedInv == faults = 0 => \A v \in Vods : upAge[v] < Day => Counted(v)

\* Without a fault a goroutine about to record an upload does so.
LEMMA RecordsIt ==
    ASSUME WorkerInv, RowsInv, [Next]_vars, ~Fault, NEW v \in Vods, WorksAt(Home[v], "record", v)
    PROVE  WorksAt(Home[v], "record", v)' \/ (vods'[v].youtube /\ vods'[v].age = 0)
<1> DEFINE h == Home[v]
<1>1. h \in Channels
  BY Constants
<1>2. CASE Process(h)
  <2>1. RecordUpload(h)
    BY <1>2
       DEF WorksAt, Process, Pick, StartCycle, Discover, DiscoverFails, Select, SelectNothing,
           AcquireSlot, Download, AttemptFails, DownloadOk, DownloadFails, AuthRequired,
           Upload, Downloaded, AlreadyUploaded, SkipUpload, DecideUpload, UploadOk,
           UploadFails, GiveUpUpload, RemoveFile, ClearPath
  <2> DEFINE row == [Done(Mine(h)) EXCEPT !.youtube = TRUE]
  <2>2. row.youtube /\ row.age = 0
    <3>1. Mine(h) \in Row
      BY DEF WorksAt, Mine, RowsInv
    <3>2. row.youtube
      BY <3>1, FlagsKept, Zenon
    <3>3. row.age = 0
      BY <3>1, AgesKept, Zenon
    <3> QED
      BY <3>2, <3>3
  <2>3. Update(v, row)
    BY <2>1 DEF RecordUpload, WorksAt
  <2> HIDE DEF row
  <2>4. vods' = [vods EXCEPT ![v] = row]
    BY <2>3 DEF Update
  <2> QED
    BY <2>2, <2>4 DEF RowsInv
<1>3. CASE Crash
  BY <1>3 DEF Crash
<1>4. CASE pc'[h] = pc[h] /\ cur'[h] = cur[h]
  BY <1>4 DEF WorksAt
<1> QED
  BY <1>1, <1>2, <1>3, <1>4, OwnSteps

\* Neither other updates nor time take an upload of the day out of the COUNT.
LEMMA CountedInvSteps ==
    /\ Init => CountedInv
    /\ WorkerInv /\ RowsInv /\ RowsInv' /\ UploadsInv /\ UploadsInv' /\ HistoryInv
       /\ KnownInv /\ CountedInv /\ [Next]_vars => CountedInv'
<1>1. Init => CountedInv
  BY Constants DEF Init, CountedInv
<1>2. WorkerInv /\ RowsInv /\ RowsInv' /\ UploadsInv /\ UploadsInv' /\ HistoryInv /\ KnownInv
      /\ CountedInv /\ [Next]_vars => CountedInv'
  <2> SUFFICES ASSUME WorkerInv, RowsInv, RowsInv', UploadsInv, UploadsInv', HistoryInv,
                      KnownInv, CountedInv, [Next]_vars, faults' = 0, NEW v \in Vods,
                      upAge'[v] < Day
               PROVE  Counted(v)'
    BY DEF CountedInv
  <2>1. faults = 0 /\ ~Fault
    BY FaultsGrow, Constants DEF HistoryInv, NoFault, Fault
  <2>2. /\ upAge[v] \in 0 .. Day /\ upAge'[v] \in 0 .. Day /\ Day \in Nat /\ AgeCap \in Nat
        /\ vods[v].age \in 0 .. AgeCap /\ vods'[v].age \in 0 .. AgeCap
    BY Constants, Ages DEF UploadsInv, RowsInv, Row
  <2>3. CASE UploadOk(Home[v]) /\ cur[Home[v]] = v
    <3>1. WorksAt(Home[v], "record", v)'
      BY <2>3, Constants DEF UploadOk, GoTo, WorksAt, WorkerInv
    <3> QED
      BY <3>1 DEF Counted
  <2>4. CASE ~(UploadOk(Home[v]) /\ cur[Home[v]] = v)
    <3>1. \/ ~Tick /\ upAge'[v] = upAge[v]
          \/ Tick /\ upAge'[v] = Older(upAge[v], Day)
      BY <2>1, <2>4, UploadSteps
    <3>2. upAge[v] < Day
      BY <2>2, <3>1 DEF Older
    <3>3. CASE WorksAt(Home[v], "record", v)
      BY <2>1, <2>2, <3>3, RecordsIt DEF Counted
    <3>4. CASE vods[v].youtube /\ vods[v].age <= upAge[v]
      <4>1. vods'[v].youtube
        BY <3>4, FlagSteps, Zenon DEF FlagStep, SameFlags, KnownInv
      <4>2. AgeStep(v)
        BY AgeSteps
      <4>3. vods'[v].age <= upAge'[v]
        BY <2>2, <3>1, <3>2, <3>4, <4>2 DEF AgeStep, Older
      <4> QED
        BY <4>1, <4>3 DEF Counted
    <3> QED
      BY <2>1, <3>2, <3>3, <3>4 DEF CountedInv, Counted
  <2> QED
    BY <2>3, <2>4
<1> QED
  BY <1>1, <1>2

\* Every upload of the day is counted.
LEMMA CountedInvHolds == Spec => []CountedInv
BY CountedInvSteps, WorkerInvHolds, RowsInvHolds, UploadsInvHolds, HistoryInvHolds, KnownInvHolds,
   PTL DEF Spec

\* The uploads of the day of a channel.
Recent(c, among) == {v \in among : Home[v] = c /\ upAge[v] < Day}

\* Only the upload of a channel adds to them, and it adds its own VOD.
LEMMA RecentSteps ==
    ASSUME WorkerInv, UploadsInv, [Next]_vars, ~Fault, NEW c \in Channels,
           NEW among \in SUBSET Vods
    PROVE  /\ ~UploadOk(c) => Recent(c, among)' \subseteq Recent(c, among)
           /\ Recent(c, among)' \subseteq Recent(c, among) \cup {cur[c]}
           /\ cur[c] \notin among => Recent(c, among)' \subseteq Recent(c, among)
<1>1. ASSUME NEW v \in Recent(c, among)' PROVE v \in Recent(c, among) \/ (UploadOk(c) /\ cur[c] = v)
  <2>1. v \in Vods /\ v \in among /\ Home[v] = c /\ upAge'[v] < Day
    BY <1>1 DEF Recent
  <2>2. upAge[v] \in 0 .. Day /\ Day \in Nat
    BY <2>1, Constants DEF UploadsInv
  <2>3. CASE upAge[v] < Day
    BY <2>1, <2>3 DEF Recent
  <2>4. CASE ~(upAge[v] < Day)
    <3>1. upAge'[v] # upAge[v] /\ upAge'[v] # Older(upAge[v], Day)
      BY <2>1, <2>2, <2>4 DEF Older
    <3> QED
      BY <2>1, <3>1, UploadSteps
  <2> QED
    BY <2>3, <2>4
<1>2. Recent(c, among)' \subseteq among
  BY DEF Recent
<1> QED
  BY <1>1, <1>2, Zenon

\* The uploads of the day are finitely many.
LEMMA RecentCounts ==
    ASSUME NEW c \in Channels, NEW among \in SUBSET Vods
    PROVE  /\ IsFiniteSet(Recent(c, among)) /\ IsFiniteSet(Recent(c, among)')
           /\ UploadsOfDay(c, among) = Cardinality(Recent(c, among))
           /\ UploadsOfDay(c, among)' = Cardinality(Recent(c, among)')
           /\ UploadsOfDay(c, among) \in Nat /\ UploadsOfDay(c, among)' \in Nat
<1>1. Recent(c, among) \subseteq Vods /\ Recent(c, among)' \subseteq Vods
  BY DEF Recent
<1>2. IsFiniteSet(Recent(c, among)) /\ IsFiniteSet(Recent(c, among)')
  BY <1>1, VodsAssumption, FS_Subset, Zenon
<1> QED
  BY <1>2, FS_CardinalityType, Zenon DEF UploadsOfDay, Recent

\* The number of uploads of the day, step by step.
LEMMA UploadCounts ==
    ASSUME WorkerInv, UploadsInv, [Next]_vars, ~Fault, NEW c \in Channels,
           NEW among \in SUBSET Vods
    PROVE  /\ UploadsOfDay(c, among) \in Nat /\ UploadsOfDay(c, among)' \in Nat
           /\ ~UploadOk(c) \/ cur[c] \notin among
              => UploadsOfDay(c, among)' <= UploadsOfDay(c, among)
           /\ UploadsOfDay(c, among)' <= UploadsOfDay(c, among) + 1
<1> DEFINE before == Recent(c, among)
           after == Recent(c, among)'
<1>1. /\ IsFiniteSet(before) /\ UploadsOfDay(c, among) = Cardinality(before)
      /\ UploadsOfDay(c, among)' = Cardinality(after)
      /\ Cardinality(before) \in Nat /\ Cardinality(after) \in Nat
  BY RecentCounts, Zenon
<1>2. /\ ~UploadOk(c) \/ cur[c] \notin among => after \subseteq before
      /\ after \subseteq before \cup {cur[c]}
  BY RecentSteps, Zenon
<1> HIDE DEF before, after
<1>3. after \subseteq before => Cardinality(after) <= Cardinality(before)
  BY <1>1, FS_Subset, Zenon
<1>4. Cardinality(after) <= Cardinality(before) + 1
  <2>1. IsFiniteSet(before \cup {cur[c]})
        /\ (Cardinality(before \cup {cur[c]}) = Cardinality(before)
            \/ Cardinality(before \cup {cur[c]}) = Cardinality(before) + 1)
    BY <1>1, FS_AddElement, Zenon
  <2>2. Cardinality(after) <= Cardinality(before \cup {cur[c]})
    BY <1>2, <2>1, FS_Subset, Zenon
  <2> QED
    BY <1>1, <2>1, <2>2
<1> QED
  BY <1>1, <1>2, <1>3, <1>4

\* A goroutine between the selection and the upload still has room for its VOD.
Chosen == {"slot", "download", "downloaded", "decide", "upload"}
Room(c) ==
    /\ UploadsOfDay(c, Vods) < DailyLimit
    /\ cur[c] \in Old => UploadsOfDay(c, Old) < BackfillLimit
RoomInv == faults = 0 => \A c \in Channels : pc[c] \in Chosen => Room(c)

\* A VOD is on its way to its upload by its selection, or was in the step before.
LEMMA ChosenGoesOn ==
    ASSUME WorkerInv, [Next]_vars, NEW c \in Channels, pc'[c] \in Chosen
    PROVE  Select(c) \/ (pc[c] \in Chosen /\ cur'[c] = cur[c] /\ ~UploadOk(c))
<1> DEFINE Goal == Select(c) \/ (pc[c] \in Chosen /\ cur'[c] = cur[c] /\ ~UploadOk(c))
<1>1. CASE Process(c)
  <2>1. CASE Leave(c)
    BY <2>1, Zenon DEF Leave, WorkerInv, Chosen
  <2>2. CASE StartCycle(c) \/ Discover(c) \/ AlreadyUploaded(c) \/ UploadOk(c) \/ RecordUpload(c)
    BY <2>2, Zenon
       DEF StartCycle, Discover, AlreadyUploaded, UploadOk, RecordUpload, GoTo, WorkerInv, Chosen
  <2>3. CASE AcquireSlot(c) \/ AttemptFails(c) \/ DownloadOk(c) \/ Downloaded(c) \/ DecideUpload(c)
    <3>1. pc[c] \in Chosen /\ pc[c] # "upload" /\ cur' = cur
      BY <2>3 DEF AcquireSlot, AttemptFails, DownloadOk, Downloaded, DecideUpload, Chosen
    <3>2. ~UploadOk(c)
      BY <3>1 DEF UploadOk
    <3> QED
      BY <3>1, <3>2
  <2>4. CASE UploadFails(c)
    <3>1. pc[c] \in Chosen /\ cur' = cur /\ pc' = pc
      BY <2>4 DEF UploadFails, Chosen
    <3>2. pc[c] = "upload"
      BY <2>4 DEF UploadFails
    <3>3. UploadOk(c) => pc'[c] = "record"
      BY DEF UploadOk, GoTo, WorkerInv
    <3> QED
      BY <3>1, <3>2, <3>3
  <2>5. CASE RemoveFile(c)
    BY <2>1, <2>5, Zenon DEF RemoveFile, Finish, GoTo, WorkerInv, Chosen
  <2> QED
    BY <1>1, <2>1, <2>2, <2>3, <2>4, <2>5, Zenon
       DEF Process, Pick, Download, Upload, DiscoverFails, SelectNothing, DownloadFails,
           AuthRequired, SkipUpload, GiveUpUpload, ClearPath, Finish
<1>2. CASE Crash
  BY <1>2 DEF Crash, Chosen
<1>3. CASE pc'[c] = pc[c] /\ cur'[c] = cur[c] /\ ~Process(c)
  BY <1>3, Zenon DEF Process, Upload
<1> QED
  BY <1>1, <1>2, <1>3, OwnSteps

\* The COUNT misses no upload of the day while the goroutine selects.
LEMMA CountedAll ==
    ASSUME WorkerInv, RowsInv, UploadsInv, CountedInv, faults = 0,
           NEW c \in Channels, pc[c] = "select", NEW among \in SUBSET Vods
    PROVE  /\ UploadsOfDay(c, among) \in Nat /\ Uploaded24(c, among) \in Nat
           /\ UploadsOfDay(c, among) <= Uploaded24(c, among)
<1> DEFINE rows == {v \in among : Home[v] = c /\ vods[v].youtube /\ vods[v].age < Day}
<1>1. rows \subseteq Vods
  OBVIOUS
<1>2. IsFiniteSet(rows)
  BY <1>1, VodsAssumption, FS_Subset, Zenon
<1>3. Recent(c, among) \subseteq rows
  <2> SUFFICES ASSUME NEW v \in among, Home[v] = c, upAge[v] < Day
               PROVE  vods[v].youtube /\ vods[v].age < Day
    BY DEF Recent
  <2>1. vods[v].youtube /\ vods[v].age <= upAge[v]
    BY DEF CountedInv, Counted, WorksAt
  <2>2. vods[v].age \in Nat /\ upAge[v] \in Nat /\ Day \in Nat
    BY Constants, Ages DEF RowsInv, Row, UploadsInv
  <2> QED
    BY <2>1, <2>2
<1>4. Uploaded24(c, among) = Cardinality(rows)
  BY Zenon DEF Uploaded24
<1> HIDE DEF rows
<1>5. Cardinality(Recent(c, among)) <= Cardinality(rows) /\ Cardinality(rows) \in Nat
  BY <1>2, <1>3, FS_Subset, FS_CardinalityType, Zenon
<1>6. UploadsOfDay(c, among) = Cardinality(Recent(c, among)) /\ UploadsOfDay(c, among) \in Nat
  BY RecentCounts, Zenon
<1> QED
  BY <1>4, <1>5, <1>6

\* From the COUNT to the upload no other upload uses the channel's room.
LEMMA RoomInvSteps ==
    /\ Init => RoomInv
    /\ WorkerInv /\ WorkerInv' /\ RowsInv /\ UploadsInv /\ HistoryInv /\ CountedInv
       /\ RoomInv /\ [Next]_vars => RoomInv'
<1>1. Init => RoomInv
  BY DEF Init, RoomInv, Chosen
<1>2. WorkerInv /\ WorkerInv' /\ RowsInv /\ UploadsInv /\ HistoryInv /\ CountedInv /\ RoomInv
      /\ [Next]_vars => RoomInv'
  <2> SUFFICES ASSUME WorkerInv, WorkerInv', RowsInv, UploadsInv, HistoryInv, CountedInv,
                      RoomInv, [Next]_vars, faults' = 0, NEW c \in Channels, pc'[c] \in Chosen
               PROVE  Room(c)'
    BY DEF RoomInv
  <2>1. faults = 0 /\ ~Fault
    BY FaultsGrow, Constants DEF HistoryInv, NoFault, Fault
  <2>2. Old \in SUBSET Vods /\ Vods \in SUBSET Vods
    BY VodsAssumption
  <2>3. DailyLimit \in Nat /\ BackfillLimit \in Nat
    BY LimitsAssumption
  <2>4. CASE Select(c)
    <3>1. /\ UploadsOfDay(c, Vods) <= Uploaded24(c, Vods) /\ Uploaded24(c, Vods) \in Nat
          /\ UploadsOfDay(c, Old) <= Uploaded24(c, Old) /\ Uploaded24(c, Old) \in Nat
      BY <2>1, <2>2, <2>4, CountedAll DEF Select
    <3>2. ~Throttled(c) /\ (cur'[c] \in Old => ~BackfillThrottled(c))
      <4>1. PICK backfill \in {BackfillThrottled(c), FALSE} :
               /\ \E v \in Usable(c, backfill) : cur' = [cur EXCEPT ![c] = v]
               /\ IF Throttled(c) \/ backfill # BackfillThrottled(c) THEN Fault ELSE NoFault
        BY <2>4, Zenon DEF Select
      <4>2. ~Throttled(c) /\ backfill = BackfillThrottled(c)
        BY <2>1, <4>1, Zenon
      <4>3. cur'[c] \in Usable(c, BackfillThrottled(c))
        BY <4>1, <4>2, Zenon DEF WorkerInv
      <4> QED
        BY <4>2, <4>3, Zenon DEF Usable
    <3>3. /\ UploadsOfDay(c, Vods) \in Nat /\ UploadsOfDay(c, Old) \in Nat
          /\ UploadsOfDay(c, Vods)' \in Nat /\ UploadsOfDay(c, Old)' \in Nat
          /\ UploadsOfDay(c, Vods)' = UploadsOfDay(c, Vods)
          /\ UploadsOfDay(c, Old)' = UploadsOfDay(c, Old)
      <4>1. upAge' = upAge
        BY <2>4 DEF Select
      <4>2. /\ UploadsOfDay(c, Vods)' = UploadsOfDay(c, Vods)
            /\ UploadsOfDay(c, Old)' = UploadsOfDay(c, Old)
        BY <4>1 DEF UploadsOfDay
      <4> QED
        BY <2>2, <4>2, RecentCounts
    <3> QED
      BY <2>3, <3>1, <3>2, <3>3 DEF Room, Throttled, BackfillThrottled
  <2>5. CASE pc[c] \in Chosen /\ cur'[c] = cur[c] /\ ~UploadOk(c)
    <3>1. /\ UploadsOfDay(c, Vods) \in Nat /\ UploadsOfDay(c, Old) \in Nat
          /\ UploadsOfDay(c, Vods)' \in Nat /\ UploadsOfDay(c, Old)' \in Nat
          /\ UploadsOfDay(c, Vods)' <= UploadsOfDay(c, Vods)
          /\ UploadsOfDay(c, Old)' <= UploadsOfDay(c, Old)
      BY <2>1, <2>2, <2>5, UploadCounts
    <3>2. Room(c)
      BY <2>1, <2>5 DEF RoomInv
    <3> QED
      BY <2>3, <2>5, <3>1, <3>2 DEF Room
  <2> QED
    BY <2>4, <2>5, ChosenGoesOn
<1> QED
  BY <1>1, <1>2

\* Whoever is on the way to an upload has room for it.
LEMMA RoomInvHolds == Spec => []RoomInv
BY RoomInvSteps, WorkerInvHolds, RowsInvHolds, UploadsInvHolds, HistoryInvHolds, CountedInvHolds,
   PTL DEF Spec

\* An upload by a goroutine with room exceeds no limit.
LEMMA DailyLimitsKeptSteps ==
    /\ Init => DailyLimitsKept
    /\ WorkerInv /\ UploadsInv /\ HistoryInv /\ RoomInv /\ DailyLimitsKept
       /\ [Next]_vars => DailyLimitsKept'
<1>1. Init => DailyLimitsKept
  <2> SUFFICES ASSUME Init, NEW c \in Channels, NEW among \in SUBSET Vods
               PROVE  UploadsOfDay(c, among) = 0
    BY VodsAssumption, LimitsAssumption DEF DailyLimitsKept
  <2>1. {v \in among : Home[v] = c /\ upAge[v] < Day} = {}
    BY Constants DEF Init
  <2> QED
    BY <2>1, FS_EmptySet, Zenon DEF UploadsOfDay
<1>2. WorkerInv /\ UploadsInv /\ HistoryInv /\ RoomInv /\ DailyLimitsKept /\ [Next]_vars
      => DailyLimitsKept'
  <2> SUFFICES ASSUME WorkerInv, UploadsInv, HistoryInv, RoomInv, DailyLimitsKept, [Next]_vars,
                      faults' = 0, NEW c \in Channels
               PROVE  /\ UploadsOfDay(c, Vods)' <= DailyLimit
                      /\ UploadsOfDay(c, Old)' <= BackfillLimit
    BY DEF DailyLimitsKept
  <2>1. faults = 0 /\ ~Fault
    BY FaultsGrow, Constants DEF HistoryInv, NoFault, Fault
  <2>2. Old \in SUBSET Vods /\ Vods \in SUBSET Vods
    BY VodsAssumption
  <2>3. DailyLimit \in Nat /\ BackfillLimit \in Nat
    BY LimitsAssumption
  <2>4. /\ UploadsOfDay(c, Vods) \in Nat /\ UploadsOfDay(c, Old) \in Nat
        /\ UploadsOfDay(c, Vods)' \in Nat /\ UploadsOfDay(c, Old)' \in Nat
        /\ UploadsOfDay(c, Vods)' <= UploadsOfDay(c, Vods) + 1
        /\ UploadsOfDay(c, Old)' <= UploadsOfDay(c, Old) + 1
        /\ ~UploadOk(c) => UploadsOfDay(c, Vods)' <= UploadsOfDay(c, Vods)
        /\ ~UploadOk(c) \/ cur[c] \notin Old => UploadsOfDay(c, Old)' <= UploadsOfDay(c, Old)
    BY <2>1, <2>2, UploadCounts
  <2>5. UploadsOfDay(c, Vods) <= DailyLimit /\ UploadsOfDay(c, Old) <= BackfillLimit
    BY <2>1 DEF DailyLimitsKept
  <2>6. UploadOk(c) => Room(c)
    BY <2>1 DEF UploadOk, RoomInv, Chosen
  <2> QED
    BY <2>3, <2>4, <2>5, <2>6 DEF Room
<1> QED
  BY <1>1, <1>2

(***************************************************************************)
(* Without a fault a channel uploads in any 24 hours at most                  *)
(* UPLOAD_DAILY_LIMIT videos, and BACKFILL_UPLOAD_DAILY_LIMIT old ones, though *)
(* processOnce tests the limits before a wait for a slot and a download, and    *)
(* counts by updated_at, which every other update of the row moves.            *)
(***************************************************************************)
THEOREM LimitsAreKept == Spec => []DailyLimitsKept
BY DailyLimitsKeptSteps, WorkerInvHolds, UploadsInvHolds, HistoryInvHolds, RoomInvHolds, PTL DEF Spec
=============================================================================
