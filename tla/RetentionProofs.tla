-------------------------- MODULE RetentionProofs --------------------------
(***************************************************************************)
(* Theorems about the retention job beside the pipeline: its own variables,   *)
(* and what the pipeline promises when the job works on its rows and files.   *)
(* The job leaves the pipeline's goroutines alone; of a row it takes the path, *)
(* and it may renew its age.  The invariants of VodProcessingProofs are kept    *)
(* by such a step as they are by a step of the pipeline.                      *)
(***************************************************************************)
EXTENDS Retention, VodProcessingProofs

\* What the pipeline notices of a step of the retention job.
Beside ==
    /\ UNCHANGED <<active, breaker, worker, videos, upAge, edits>>
    /\ NoFault \/ Fault
    /\ RowsInv' /\ FilesInv'
    /\ \A v \in Vods : SameFlags(vods[v], vods'[v]) /\ SameAge(vods[v], vods'[v])

\* Taking the path of a row is no more than that.
LEMMA PathTaken ==
    ASSUME RowsInv, NEW v \in Vods, NEW row,
           \/ row = [vods[v] EXCEPT !.path = FALSE]
           \/ row = [vods[v] EXCEPT !.path = FALSE, !.age = 0],
           Update(v, row)
    PROVE  /\ RowsInv' /\ (NoFault \/ Fault)
           /\ \A w \in Vods : SameFlags(vods[w], vods'[w]) /\ SameAge(vods[w], vods'[w])
<1>1. vods[v] \in Row
  BY DEF RowsInv
<1>2. row \in Row
  <2>1. [vods[v] EXCEPT !.path = FALSE] \in Row
    BY <1>1 DEF Row
  <2> QED
    BY <1>1, <2>1, RowTypes
<1>3. SameFlags(vods[v], row) /\ SameAge(vods[v], row)
  <2>1. CASE row = [vods[v] EXCEPT !.path = FALSE]
    BY <1>1, <2>1 DEF Row, SameFlags, SameAge
  <2>2. CASE row = [vods[v] EXCEPT !.path = FALSE, !.age = 0]
    BY <1>1, <2>2, FlagsKept, AgesKept, Zenon
  <2> QED
    BY <2>1, <2>2
<1>4. CASE vods' = vods
  BY <1>4 DEF RowsInv, SameFlags, SameAge, Update
<1>5. CASE vods' = [vods EXCEPT ![v] = row]
  <2>1. RowsInv'
    BY <1>2, <1>5 DEF RowsInv
  <2>2. ASSUME NEW w \in Vods PROVE SameFlags(vods[w], vods'[w]) /\ SameAge(vods[w], vods'[w])
    <3>1. CASE w = v
      BY <1>3, <1>5, <3>1, Zenon DEF RowsInv
    <3>2. CASE w # v
      BY <1>5, <3>2, Zenon DEF RowsInv, SameFlags, SameAge
    <3> QED
      BY <3>1, <3>2
  <2> QED
    BY <2>1, <2>2, Zenon DEF Update
<1> QED
  BY <1>4, <1>5 DEF Update

\* A step of the composition is one of the pipeline, or one beside it.
LEMMA RetentionSteps ==
    ASSUME RowsInv, FilesInv, [RetentionNext]_allVars PROVE [Next]_vars \/ Beside
<1> DEFINE Rest == UNCHANGED <<active, breaker, worker, videos, upAge, edits>>
           Same == \A v \in Vods : SameFlags(vods[v], vods'[v]) /\ SameAge(vods[v], vods'[v])
<1>1. CASE Pipeline \/ Crash \/ UNCHANGED vars
  BY <1>1, Zenon DEF Pipeline, Next
<1>2. ASSUME vods' = vods, disk' = disk, Rest, Fault PROVE Beside
  <2>1. RowsInv' /\ FilesInv' /\ Same
    BY <1>2 DEF RowsInv, FilesInv, SameFlags, SameAge
  <2> QED
    BY <1>2, <2>1 DEF Beside
<1>3. ASSUME NEW c \in Channels, Retain(c) PROVE UNCHANGED vars \/ Beside
  <2>1. CASE ReadPolicies(c) \/ ReadActive(c) \/ ReadRows(c)
    BY <2>1 DEF ReadPolicies, ReadActive, ReadRows
  <2>2. CASE QueryFails(c)
    BY <1>2, <2>2 DEF QueryFails
  <2>3. ASSUME NEW v \in Vods, Handle(c, v) PROVE UNCHANGED vars \/ Beside
    <3>1. CASE Stat(c, v)
      BY <3>1 DEF Stat
    <3>2. CASE Forget(c, v) \/ Clear(c, v)
      <4>1. Rest /\ disk' = disk
        BY <3>2 DEF Forget, Clear
      <4>2. \E row : /\ \/ row = [vods[v] EXCEPT !.path = FALSE]
                        \/ row = [vods[v] EXCEPT !.path = FALSE, !.age = 0]
                     /\ Update(v, row)
        BY <3>2, Zenon DEF Forget, Clear
      <4>3. RowsInv' /\ (NoFault \/ Fault) /\ Same
        BY <4>2, PathTaken, Zenon
      <4>4. FilesInv'
        BY <4>1 DEF FilesInv
      <4> QED
        BY <4>1, <4>3, <4>4 DEF Beside
    <3>3. CASE Unlink(c, v)
      <4>1. Rest /\ vods' = vods /\ NoFault /\ disk' = [disk EXCEPT ![v] = NoFile]
        BY <3>3 DEF Unlink, NoFault
      <4>2. RowsInv' /\ Same
        BY <4>1 DEF RowsInv, SameFlags, SameAge
      <4>3. NoFile \in 0 .. NoFile
        BY Ages
      <4>4. FilesInv'
        BY <4>1, <4>3, Zenon DEF FilesInv
      <4> QED
        BY <4>1, <4>2, <4>4 DEF Beside
    <3> QED
      BY <2>3, <3>1, <3>2, <3>3 DEF Handle
  <2> QED
    BY <1>3, <2>1, <2>2, <2>3 DEF Retain
<1>4. CASE CrashAll
  BY <1>1, <1>2, <1>4, Zenon DEF CrashAll
<1> QED
  BY <1>1, <1>3, <1>4, Zenon DEF RetentionNext, allVars

-----------------------------------------------------------------------------
(* The pipeline's invariants are kept beside it.                             *)

\* The variables the job leaves alone.
LEMMA BesideKeepsTypes ==
    ASSUME WorkerInv, BreakersInv, SkipInv, UploadsInv, AttemptsInv, HistoryInv, Beside
    PROVE  /\ WorkerInv' /\ RowsInv' /\ BreakersInv' /\ SkipInv' /\ FilesInv' /\ UploadsInv'
           /\ AttemptsInv' /\ HistoryInv'
<1>1. WorkerInv'
  BY DEF Beside, worker, WorkerInv
<1>2. BreakersInv' /\ SkipInv' /\ UploadsInv' /\ AttemptsInv'
  BY DEF Beside, worker, BreakersInv, SkipInv, UploadsInv, AttemptsInv
<1>3. HistoryInv'
  BY Constants DEF Beside, HistoryInv, NoFault, Fault
<1> QED
  BY <1>1, <1>2, <1>3 DEF Beside

\* The job holds no slot of the semaphore.
LEMMA BesideKeepsSlots == ASSUME SlotsBalanced, Beside PROVE SlotsBalanced'
<1>1. Holding' = Holding /\ active' = active
  BY DEF Beside, worker, Holding
<1> QED
  BY <1>1, Zenon DEF SlotsBalanced

\* The job neither uploads nor takes a youtube_url away.
LEMMA BesideKeepsOnce ==
    ASSUME WorkerInv, RowsInv, UploadsInv, HistoryInv, KnownInv, OnceInv, Beside
    PROVE  KnownInv' /\ OnceInv'
<1>1. \A v \in Vods : (vods'[v].youtube = vods[v].youtube) /\ (vods'[v].known = vods[v].known)
  BY Zenon DEF Beside, SameFlags
<1>2. pc' = pc /\ cur' = cur /\ videos' = videos
  BY DEF Beside, worker
<1>3. KnownInv'
  BY <1>1, <1>2, Zenon DEF KnownInv, WorkerInv
<1>4. ASSUME NEW v \in Vods PROVE videos'[v] <= faults' + Vouched(v)'
  <2>1. Vouched(v)' = Vouched(v)
    BY <1>1, <1>2, Zenon DEF Vouched, WorksAt
  <2>2. faults \in Nat /\ faults' \in Nat /\ faults <= faults'
    BY Constants DEF Beside, HistoryInv, NoFault, Fault
  <2> QED
    BY <1>2, <2>1, <2>2, VouchedIs01 DEF OnceInv, UploadsInv
<1> QED
  BY <1>3, <1>4 DEF OnceInv

\* A row the job renews is no older than its upload.
LEMMA BesideKeepsLimits ==
    ASSUME RowsInv, UploadsInv, HistoryInv, CountedInv, RoomInv, DailyLimitsKept, Beside
    PROVE  CountedInv' /\ RoomInv' /\ DailyLimitsKept'
<1>1. pc' = pc /\ cur' = cur /\ upAge' = upAge
  BY DEF Beside, worker
<1>2. faults' = 0 => faults = 0
  BY Constants DEF Beside, HistoryInv, NoFault, Fault
<1>3. CountedInv'
  <2> SUFFICES ASSUME faults' = 0, NEW v \in Vods, upAge'[v] < Day PROVE Counted(v)'
    BY DEF CountedInv
  <2>1. Counted(v)
    BY <1>1, <1>2 DEF CountedInv
  <2>2. CASE WorksAt(Home[v], "record", v)
    BY <1>1, <2>2, Zenon DEF Counted, WorksAt
  <2>3. CASE vods[v].youtube /\ vods[v].age <= upAge[v]
    <3>1. vods'[v].youtube /\ (vods'[v].age = vods[v].age \/ vods'[v].age = 0)
      BY <2>3, Zenon DEF Beside, SameFlags, SameAge
    <3>2. upAge[v] \in 0 .. Day
      BY DEF UploadsInv
    <3>3. vods'[v].age <= upAge'[v]
      BY <1>1, <2>3, <3>1, <3>2, Constants
    <3> QED
      BY <3>1, <3>3 DEF Counted
  <2> QED
    BY <2>1, <2>2, <2>3 DEF Counted
<1>4. \A c \in Channels : /\ UploadsOfDay(c, Vods)' = UploadsOfDay(c, Vods)
                          /\ UploadsOfDay(c, Old)' = UploadsOfDay(c, Old)
  BY <1>1 DEF UploadsOfDay
<1>5. RoomInv'
  BY <1>1, <1>2, <1>4 DEF RoomInv, Room
<1>6. DailyLimitsKept'
  BY <1>2, <1>4 DEF DailyLimitsKept
<1> QED
  BY <1>3, <1>5, <1>6

-----------------------------------------------------------------------------
(* All of them together.                                                     *)

TypesInv ==
    /\ WorkerInv /\ RowsInv /\ BreakersInv /\ SkipInv /\ FilesInv /\ UploadsInv /\ AttemptsInv
    /\ HistoryInv

PipelineInv ==
    /\ TypesInv /\ SlotsBalanced /\ KnownInv /\ OnceInv /\ CountedInv /\ RoomInv
    /\ DailyLimitsKept

\* The types hold at the start.
LEMMA TypesStart == Init => TypesInv
BY WorkerInvSteps, RowsInvSteps, BreakersInvSteps, SkipInvSteps, FilesInvSteps, UploadsInvSteps,
   AttemptsInvSteps, HistoryInvSteps, Zenon DEF TypesInv

\* The invariants of the pipeline hold at the start.
LEMMA PipelineStarts == Init => PipelineInv
BY TypesStart, SlotsBalancedSteps, KnownInvSteps, OnceInvSteps, CountedInvSteps, RoomInvSteps,
   DailyLimitsKeptSteps, Zenon DEF PipelineInv

\* A step of the pipeline keeps its invariants.
LEMMA PipelineKept == PipelineInv /\ [Next]_vars => PipelineInv'
<1> SUFFICES ASSUME PipelineInv, [Next]_vars PROVE PipelineInv'
  OBVIOUS
<1>1. TypesInv'
  BY WorkerInvSteps, RowsInvSteps, BreakersInvSteps, SkipInvSteps, FilesInvSteps,
     UploadsInvSteps, AttemptsInvSteps, HistoryInvSteps, Zenon DEF PipelineInv, TypesInv
<1>2. SlotsBalanced' /\ KnownInv' /\ OnceInv' /\ CountedInv'
  BY <1>1, SlotsBalancedSteps, KnownInvSteps, OnceInvSteps, CountedInvSteps, Zenon
     DEF PipelineInv, TypesInv
<1>3. RoomInv' /\ DailyLimitsKept'
  BY <1>1, RoomInvSteps, DailyLimitsKeptSteps, Zenon DEF PipelineInv, TypesInv
<1> QED
  BY <1>1, <1>2, <1>3 DEF PipelineInv

\* A step of the job keeps them too.
LEMMA BesideKeeps == PipelineInv /\ Beside => PipelineInv'
<1> SUFFICES ASSUME PipelineInv, Beside PROVE PipelineInv'
  OBVIOUS
<1>1. TypesInv'
  BY BesideKeepsTypes, Zenon DEF PipelineInv, TypesInv
<1>2. SlotsBalanced' /\ KnownInv' /\ OnceInv'
  BY BesideKeepsSlots, BesideKeepsOnce, Zenon DEF PipelineInv, TypesInv
<1>3. CountedInv' /\ RoomInv' /\ DailyLimitsKept'
  BY BesideKeepsLimits, Zenon DEF PipelineInv, TypesInv
<1> QED
  BY <1>1, <1>2, <1>3 DEF PipelineInv

\* The invariants of the pipeline hold beside the retention job as well.
LEMMA PipelineInvHolds == RetentionSpec => []PipelineInv
<1>1. RetentionInit => PipelineInv
  BY PipelineStarts DEF RetentionInit
<1>2. PipelineInv /\ [RetentionNext]_allVars => PipelineInv'
  <2> SUFFICES ASSUME PipelineInv, [RetentionNext]_allVars PROVE PipelineInv'
    OBVIOUS
  <2>1. [Next]_vars \/ Beside
    BY RetentionSteps DEF PipelineInv, TypesInv
  <2> QED
    BY <2>1, PipelineKept, BesideKeeps
<1> QED
  BY <1>1, <1>2, PTL DEF RetentionSpec

(***************************************************************************)
(* What the pipeline promises, it promises beside the retention job, which     *)
(* changes its rows and removes its files at any moment: the semaphore is       *)
(* balanced, no VOD is uploaded twice without a fault, and the upload limits     *)
(* are kept.  (That a recorded file is there is not among them: removing it is   *)
(* what the job is for.)                                                    *)
(***************************************************************************)
THEOREM PipelineUndisturbed ==
    RetentionSpec => [](SlotsBalanced /\ NoDuplicateUpload /\ DailyLimitsKept)
<1>1. PipelineInv => SlotsBalanced /\ NoDuplicateUpload /\ DailyLimitsKept
  <2>1. UploadsInv /\ HistoryInv /\ OnceInv => NoDuplicateUpload
    BY Constants, VouchedIs01 DEF UploadsInv, HistoryInv, OnceInv, NoDuplicateUpload
  <2> QED
    BY <2>1 DEF PipelineInv, TypesInv
<1> QED
  BY <1>1, PipelineInvHolds, PTL

-----------------------------------------------------------------------------
(* The job's own variables.                                                  *)

JobLabels == {"idle", "active", "rows", "stat", "unlink", "forget", "clear"}
Reading == {"idle", "active", "rows"}

\* Until a run has read its rows, it has doomed none.
JobsInv ==
    /\ job \in [Channels -> JobLabels]
    /\ retained \in [Channels -> SUBSET Vods] /\ doomed \in [Channels -> SUBSET Vods]
    /\ \A c \in Channels : /\ job[c] \in Reading => doomed[c] = {}
                           /\ doomed[c] \cap retained[c] = {}

\* A run that ends forgets what it doomed.
LEMMA EndRunKeeps == ASSUME JobsInv, NEW c \in Channels, EndRun(c) PROVE JobsInv'
BY Zenon DEF EndRun, Step, JobsInv, JobLabels, Reading

\* A row that was handled is doomed no more.
LEMMA NextRowKeeps ==
    ASSUME JobsInv, NEW c \in Channels, NEW v \in Vods, NextRow(c, v) PROVE JobsInv'
<1>1. CASE doomed[c] = {v}
  BY <1>1, EndRunKeeps DEF NextRow
<1>2. CASE doomed[c] # {v}
  <2>1. /\ job' = [job EXCEPT ![c] = "stat"] /\ retained' = retained
        /\ doomed' = [doomed EXCEPT ![c] = doomed[c] \ {v}]
    BY <1>2 DEF NextRow, Step
  <2> QED
    BY <2>1, Zenon DEF JobsInv, JobLabels, Reading
<1> QED
  BY <1>1, <1>2

\* The invariant of the job's own variables holds.
LEMMA JobsInvHolds == RetentionSpec => []JobsInv
<1>1. RetentionInit => JobsInv
  BY DEF RetentionInit, JobsInv, Waiting, Nothing, JobLabels, Reading
<1>2. JobsInv /\ [RetentionNext]_allVars => JobsInv'
  <2> SUFFICES ASSUME JobsInv, [RetentionNext]_allVars PROVE JobsInv'
    OBVIOUS
  <2>1. CASE UNCHANGED retention
    BY <2>1 DEF retention, JobsInv
  <2>2. ASSUME NEW c \in Channels, Retain(c) PROVE JobsInv'
    <3>1. CASE ReadPolicies(c) \/ ReadActive(c)
      <4>1. PICK label \in {"active", "rows"}, kept \in SUBSET Vods :
               /\ job[c] \in Reading /\ job' = [job EXCEPT ![c] = label] /\ doomed' = doomed
               /\ retained' = [retained EXCEPT ![c] = kept]
        <5>1. CASE ReadPolicies(c)
          <6>1. Kept(c) \in SUBSET Vods
            BY DEF Kept, KnownOf, Newest
          <6> QED
            BY <5>1, <6>1, Zenon DEF ReadPolicies, At, Step, Reading
        <5>2. CASE ReadActive(c)
          <6>1. retained[c] \cup Active(c) \in SUBSET Vods
            BY DEF JobsInv, Active, KnownOf
          <6> QED
            BY <5>2, <6>1, Zenon DEF ReadActive, At, Step, Reading
        <5> QED
          BY <3>1, <5>1, <5>2
      <4> QED
        BY <4>1, Zenon DEF JobsInv, JobLabels, Reading
    <3>2. CASE ReadRows(c)
      <4>1. Rows(c) \in SUBSET Vods /\ Rows(c) \cap retained[c] = {}
        BY DEF Rows, KnownOf
      <4>2. CASE Rows(c) # {}
        <5>1. /\ job' = [job EXCEPT ![c] = "stat"] /\ retained' = retained
              /\ doomed' = [doomed EXCEPT ![c] = Rows(c)]
          BY <3>2, <4>2 DEF ReadRows, Step
        <5> QED
          BY <4>1, <5>1, Zenon DEF JobsInv, JobLabels, Reading
      <4> QED
        BY <3>2, <4>2, EndRunKeeps DEF ReadRows
    <3>3. CASE QueryFails(c)
      BY <3>3, EndRunKeeps DEF QueryFails
    <3>4. ASSUME NEW v \in Vods, Handle(c, v) PROVE JobsInv'
      <4>1. ASSUME NEW label \in {"unlink", "forget", "clear"}, Step(c, label),
                   job[c] \in {"stat", "unlink"}, UNCHANGED <<retained, doomed>>
            PROVE  JobsInv'
        BY <4>1, Zenon DEF Step, JobsInv, JobLabels, Reading
      <4>2. CASE NextRow(c, v)
        BY <4>2, NextRowKeeps
      <4>3. CASE Stat(c, v) /\ ~NextRow(c, v)
        BY <4>1, <4>3, Zenon DEF Stat, At
      <4>4. CASE Unlink(c, v) /\ ~NextRow(c, v)
        BY <4>1, <4>4, Zenon DEF Unlink, At
      <4> QED
        BY <3>4, <4>2, <4>3, <4>4 DEF Handle, Forget, Clear
    <3> QED
      BY <2>2, <3>1, <3>2, <3>3, <3>4 DEF Retain
  <2>3. CASE CrashAll
    BY <2>3 DEF CrashAll, JobsInv, Waiting, Nothing, JobLabels, Reading
  <2> QED
    BY <2>1, <2>2, <2>3, Zenon DEF RetentionNext, allVars, retention
<1> QED
  BY <1>1, <1>2, PTL DEF RetentionSpec

(***************************************************************************)
(* Every variable keeps its type, and what a run of the retention job            *)
(* (retention.go) is about to remove is none of what it found to be retained      *)
(* by a policy or active.                                                       *)
(***************************************************************************)
THEOREM RetentionTypesHold == RetentionSpec => []RetentionTypeOK
<1>1. TypesInv => TypeOK
  BY Zenon DEF TypesInv, WorkerInv, RowsInv, BreakersInv, SkipInv, FilesInv, UploadsInv,
               AttemptsInv, HistoryInv, TypeOK, Labels
<1>2. PipelineInv /\ JobsInv => RetentionTypeOK
  BY <1>1, Zenon DEF PipelineInv, JobsInv, RetentionTypeOK, JobLabels
<1> QED
  BY <1>2, PipelineInvHolds, JobsInvHolds, PTL
=============================================================================
