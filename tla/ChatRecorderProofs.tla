------------------------- MODULE ChatRecorderProofs -------------------------
(***************************************************************************)
(* Theorems about live detection and chat recording, for any number of        *)
(* streams at any times, reconciliation goroutines, messages, attempts and    *)
(* faults.                                                                  *)
(***************************************************************************)
EXTENDS ChatRecorder, TLAPS

Places == {"none", "wait", "shift", "move", "delete"}

Tasking == [pc : Places, ph : 0 .. MaxStreams, attempt : 0 .. MaxAttempts - 1,
            found : 0 .. MaxStreams, shifted : SUBSET Message, moved : SUBSET Message]

-----------------------------------------------------------------------------
(* The inductive invariant, in parts.                                       *)

\* What TypeOK says, and the shape of a goroutine's variables.
StreamTypes == started \in 0 .. MaxStreams /\ live \in {0, started} /\ published \subseteq 1 .. started

PollTypes ==
    /\ poller \in {"tick", "start"} /\ running \in BOOLEAN /\ reconciled \in BOOLEAN
    /\ overlap \in BOOLEAN
    /\ placeholder \in 0 .. started /\ current \in 0 .. started /\ stray \subseteq 1 .. started

FileTypes ==
    /\ rows \subseteq {"live", "vod"} \X Streams
    /\ said \in 0 .. MaxMessages /\ messages \subseteq Message

TaskTypes ==
    /\ task \in [Tasks -> Tasking]
    /\ \A t \in Tasks : task[t].ph <= started /\ task[t].found <= started

Types == StreamTypes /\ PollTypes /\ FileTypes /\ TaskTypes /\ faults \in 0 .. MaxFaults

\* The poller and the goroutines know a stream when they need one.
PollKnows == running \/ poller = "start" => placeholder # 0

TasksKnow ==
    \A t \in Tasks :
        /\ task[t].pc # "none" => task[t].ph # 0
        /\ task[t].pc \in {"shift", "move", "delete"} => task[t].found # 0

KnownInv == PollKnows /\ TasksKnow

\* No two transactions work on the messages of one placeholder, and only those that are under way
\* have changed anything.
LockInv ==
    /\ \A t, u \in Tasks :
           task[t].pc \in {"move", "delete"} /\ task[u].pc \in {"move", "delete"}
           /\ task[t].ph = task[u].ph => t = u
    /\ \A t \in Tasks :
           /\ task[t].pc \notin {"move", "delete"} => task[t].shifted = {}
           /\ task[t].pc # "delete" => task[t].moved = {}
           /\ task[t].shifted \subseteq messages /\ task[t].moved \subseteq messages

\* A goroutine works on a stream that is over: neither the recorder the poller can stop
\* nor one it is about to start files under its placeholder.
OverInv ==
    \A t \in Tasks : task[t].pc # "none" =>
        /\ live # task[t].ph /\ current # task[t].ph
        /\ poller = "start" => placeholder # task[t].ph

\* What a transaction moves, or is about to move.
Files(k) == IF k.pc = "delete" THEN k.moved ELSE FiledUnder(Ph(k.ph))

\* What the transaction has shifted and what it moves are the same messages, but for late ones,
\* and unless there is nothing to shift by.
Shifts(k) ==
    /\ k.shifted \subseteq Files(k) /\ Files(k) \subseteq FiledUnder(Ph(k.ph))
    /\ \A m \in Files(k) : m.late \/ m \in k.shifted \/ Date[k.found] = Start[k.ph]
    /\ Date[k.found] = Start[k.ph] => k.shifted = {}

ShiftInv == \A t \in Tasks : task[t].pc \in {"move", "delete"} => Shifts(task[t])

AlignedInv == LockInv /\ OverInv /\ ShiftInv /\ Aligned

\* Without an overlap no goroutine is left when a recorder is started, and none is on while one is.
RecorderInv ==
    ~overlap =>
        /\ stray = {}
        /\ current # 0 => running /\ current = placeholder
        /\ Alive # {} => current = 0
        /\ poller = "start" => current = 0 /\ Alive = {}

ChatInv == Types /\ KnownInv /\ AlignedInv /\ RecorderInv

-----------------------------------------------------------------------------
(* The operators the steps are built from.                                  *)

\* The bounds are natural numbers.
LEMMA Bounds == MaxStreams \in Nat /\ MaxMessages \in Nat /\ MaxFaults \in Nat /\ MaxAttempts \in Nat \ {0}
BY ChatAssumption

\* A goroutine's variables, one at a time.
LEMMA TaskFields ==
    ASSUME NEW k \in Tasking
    PROVE  /\ \A pc \in Places :
                  LET x == [k EXCEPT !.pc = pc]
                  IN  /\ x \in Tasking /\ x.pc = pc /\ x.ph = k.ph /\ x.found = k.found
                      /\ x.shifted = k.shifted /\ x.moved = k.moved
           /\ \A n \in 0 .. MaxAttempts - 1 :
                  LET x == [k EXCEPT !.attempt = n]
                  IN  /\ x \in Tasking /\ x.pc = k.pc /\ x.ph = k.ph /\ x.found = k.found
                      /\ x.shifted = k.shifted /\ x.moved = k.moved
           /\ \A v \in 0 .. MaxStreams :
                  LET x == [k EXCEPT !.found = v]
                  IN  /\ x \in Tasking /\ x.pc = k.pc /\ x.ph = k.ph /\ x.found = v
                      /\ x.shifted = k.shifted /\ x.moved = k.moved
           /\ \A S \in SUBSET Message :
                  /\ LET x == [k EXCEPT !.shifted = S]
                     IN  /\ x \in Tasking /\ x.pc = k.pc /\ x.ph = k.ph /\ x.found = k.found
                         /\ x.shifted = S /\ x.moved = k.moved
                  /\ LET x == [k EXCEPT !.moved = S]
                     IN  /\ x \in Tasking /\ x.pc = k.pc /\ x.ph = k.ph /\ x.found = k.found
                         /\ x.shifted = k.shifted /\ x.moved = S
BY DEF Tasking

\* A goroutine that is not there, and one that a poll has started.
LEMMA FreshTasks ==
    ASSUME NEW s \in 0 .. MaxStreams
    PROVE  LET k == [NoTask EXCEPT !.pc = "wait", !.ph = s]
           IN  /\ NoTask \in Tasking /\ NoTask.pc = "none" /\ NoTask.ph = 0 /\ NoTask.found = 0
               /\ NoTask.shifted = {} /\ NoTask.moved = {}
               /\ k \in Tasking /\ k.pc = "wait" /\ k.ph = s /\ k.found = 0
               /\ k.shifted = {} /\ k.moved = {}
<1>1. /\ 0 \in 0 .. MaxStreams /\ 0 \in 0 .. MaxAttempts - 1 /\ {} \in SUBSET Message
      /\ "none" \in Places /\ "wait" \in Places
  <2>1. {} \in SUBSET Message /\ "none" \in Places /\ "wait" \in Places
    BY DEF Places
  <2> QED
    BY <2>1, ChatAssumption
<1>2. NoTask \in Tasking
  BY <1>1, Zenon DEF NoTask, Tasking
<1>3. [NoTask EXCEPT !.pc = "wait", !.ph = s] = [[NoTask EXCEPT !.pc = "wait"] EXCEPT !.ph = s]
  BY <1>2 DEF Tasking
<1>4. /\ [NoTask EXCEPT !.pc = "wait"] \in Tasking /\ [NoTask EXCEPT !.pc = "wait"].pc = "wait"
      /\ [NoTask EXCEPT !.pc = "wait"].found = NoTask.found
      /\ [NoTask EXCEPT !.pc = "wait"].shifted = NoTask.shifted
      /\ [NoTask EXCEPT !.pc = "wait"].moved = NoTask.moved
  BY <1>1, <1>2 DEF Tasking
<1>5. ASSUME NEW k \in Tasking
      PROVE  /\ [k EXCEPT !.ph = s] \in Tasking /\ [k EXCEPT !.ph = s].pc = k.pc
             /\ [k EXCEPT !.ph = s].ph = s /\ [k EXCEPT !.ph = s].found = k.found
             /\ [k EXCEPT !.ph = s].shifted = k.shifted /\ [k EXCEPT !.ph = s].moved = k.moved
  BY DEF Tasking
<1>6. /\ NoTask.pc = "none" /\ NoTask.ph = 0 /\ NoTask.found = 0
      /\ NoTask.shifted = {} /\ NoTask.moved = {}
  BY DEF NoTask
<1> QED
  BY <1>2, <1>3, <1>4, <1>5, <1>6

\* A goroutine that is no more holds nothing.
LEMMA NoTaskFields ==
    /\ NoTask \in Tasking /\ NoTask.pc = "none" /\ NoTask.ph = 0 /\ NoTask.found = 0
    /\ NoTask.shifted = {} /\ NoTask.moved = {}
<1>1. 0 \in 0 .. MaxStreams
  BY Bounds
<1> QED
  BY <1>1, FreshTasks, Zenon

\* Rows are told apart, and each has its origin.
LEMMA RowFacts ==
    /\ \A s : Origin(Ph(s)) = Start[s] /\ Origin(Vod(s)) = Date[s]
    /\ \A s, v : Ph(s) # Vod(v) /\ (Ph(s) = Ph(v) => s = v)
    /\ \A s \in Streams : /\ Ph(s) \in {"live", "vod"} \X Streams /\ Vod(s) \in {"live", "vod"} \X Streams
                          /\ Start[s] \in Int /\ Date[s] \in Int
BY ChatAssumption DEF Origin, Ph, Vod

\* What the transaction makes of a message.
LEMMA MovedFields ==
    ASSUME NEW m \in Message, NEW k \in Tasking, k.ph \in Streams, k.found \in Streams
    PROVE  /\ Moved(m, k) \in Message /\ Moved(m, k).late = m.late
           /\ Moved(m, k).vod = IF m \in k.moved THEN Vod(k.found) ELSE m.vod
           /\ Moved(m, k).from = IF m \in k.shifted THEN m.from + (Date[k.found] - Start[k.ph]) ELSE m.from
<1> DEFINE row == IF m \in k.moved THEN Vod(k.found) ELSE m.vod
           instant == IF m \in k.shifted THEN m.from + (Date[k.found] - Start[k.ph]) ELSE m.from
<1>1. row \in {"live", "vod"} \X Streams
  BY RowFacts DEF Message
<1>2. instant \in Int
  BY RowFacts DEF Message
<1>3. Moved(m, k) = [[m EXCEPT !.vod = row] EXCEPT !.from = instant]
  BY DEF Moved, Message
<1> HIDE DEF row, instant
<1>4. /\ [m EXCEPT !.vod = row] \in Message /\ [m EXCEPT !.vod = row].vod = row
      /\ [m EXCEPT !.vod = row].late = m.late
  BY <1>1 DEF Message
<1>5. ASSUME NEW y \in Message
      PROVE  /\ [y EXCEPT !.from = instant] \in Message /\ [y EXCEPT !.from = instant].vod = y.vod
             /\ [y EXCEPT !.from = instant].late = y.late
             /\ [y EXCEPT !.from = instant].from = instant
  BY <1>2 DEF Message
<1> QED
  BY <1>3, <1>4, <1>5 DEF row, instant

\* It leaves the other messages as they are.
LEMMA OthersStay ==
    ASSUME NEW m \in Message, NEW k, m \notin k.moved, m \notin k.shifted
    PROVE  Moved(m, k) = m
<1>1. Moved(m, k) = [[m EXCEPT !.vod = m.vod] EXCEPT !.from = m.from]
  BY DEF Moved, Message
<1>2. [m EXCEPT !.vod = m.vod] = m
  BY DEF Message
<1>3. [m EXCEPT !.from = m.from] = m
  BY DEF Message
<1> QED
  BY <1>1, <1>2, <1>3

-----------------------------------------------------------------------------
(* What each step makes of a goroutine.                                     *)

\* A poll adds a goroutine for the placeholder, or finds no room for it.
LEMMA SpawnStep ==
    ASSUME Types, Spawn(placeholder)
    PROVE  \/ task' = task
           \/ \E t \in Tasks, x \in Tasking :
                  /\ task[t].pc = "none" /\ task' = [task EXCEPT ![t] = x]
                  /\ x.pc = "wait" /\ x.ph = placeholder /\ x.found = 0
                  /\ x.shifted = {} /\ x.moved = {}
<1>1. placeholder \in 0 .. MaxStreams
  BY ChatAssumption DEF Types, StreamTypes, PollTypes, FileTypes, TaskTypes
<1>2. ASSUME NEW t \in Tasks \ Alive,
             task' = [task EXCEPT ![t] = [NoTask EXCEPT !.pc = "wait", !.ph = placeholder]]
      PROVE  \E x \in Tasking :
                  /\ task[t].pc = "none" /\ task' = [task EXCEPT ![t] = x]
                  /\ x.pc = "wait" /\ x.ph = placeholder /\ x.found = 0
                  /\ x.shifted = {} /\ x.moved = {}
  <2>1. task[t].pc = "none"
    BY DEF Alive
  <2> QED
    BY <1>1, <1>2, <2>1, FreshTasks
<1> QED
  BY <1>2 DEF Spawn

\* A VOD that is found is a published one, and the messages come next.
LEMMA FetchStep ==
    ASSUME Types, NEW t \in Tasks, Fetch(t)
    PROVE  \E x \in Tasking :
               /\ task' = [task EXCEPT ![t] = x]
               /\ x.pc = "shift" /\ x.ph = task[t].ph /\ x.found \in published
               /\ x.shifted = task[t].shifted /\ x.moved = task[t].moved
<1>1. task[t] \in Tasking
  BY DEF Types, StreamTypes, PollTypes, FileTypes, TaskTypes
<1>2. PICK v \in Streams :
          Candidate(task[t].ph, v) /\ task' = [task EXCEPT ![t].pc = "shift", ![t].found = v]
  BY DEF Fetch
<1>3. v \in published /\ v \in 0 .. MaxStreams /\ "shift" \in Places
  BY <1>2 DEF Candidate, Candidates, Streams, Places
<1> DEFINE y == [task[t] EXCEPT !.pc = "shift"]
<1>4. task' = [task EXCEPT ![t] = [y EXCEPT !.found = v]]
  BY <1>1, <1>2 DEF Types, StreamTypes, PollTypes, FileTypes, TaskTypes, Tasking
<1>5. /\ y \in Tasking /\ y.pc = "shift" /\ y.ph = task[t].ph
      /\ y.shifted = task[t].shifted /\ y.moved = task[t].moved
  BY <1>1, <1>3, TaskFields
<1> HIDE DEF y
<1>6. /\ [y EXCEPT !.found = v] \in Tasking /\ [y EXCEPT !.found = v].pc = "shift"
      /\ [y EXCEPT !.found = v].ph = task[t].ph /\ [y EXCEPT !.found = v].found = v
      /\ [y EXCEPT !.found = v].shifted = task[t].shifted
      /\ [y EXCEPT !.found = v].moved = task[t].moved
  BY <1>3, <1>5, TaskFields
<1> QED
  BY <1>3, <1>4, <1>6

\* Without a VOD the goroutine waits for its next attempt, or was at its last.
LEMMA FetchNothingStep ==
    ASSUME Types, NEW t \in Tasks, FetchNothing(t)
    PROVE  \/ Ended(t)
           \/ \E x \in Tasking :
                  /\ task' = [task EXCEPT ![t] = x]
                  /\ x.pc = "wait" /\ x.ph = task[t].ph /\ x.found = task[t].found
                  /\ x.shifted = task[t].shifted /\ x.moved = task[t].moved
<1>1. task[t] \in Tasking /\ task[t].attempt \in 0 .. MaxAttempts - 1
  BY DEF Types, StreamTypes, PollTypes, FileTypes, TaskTypes, Tasking
<1>2. CASE Ended(t)
  BY <1>2
<1>3. CASE Again(t) /\ task' = [task EXCEPT ![t].attempt = @ + 1]
  <2>1. task[t].attempt + 1 \in 0 .. MaxAttempts - 1
    BY <1>1, <1>3, ChatAssumption DEF Again
  <2>2. task' = [task EXCEPT ![t] = [task[t] EXCEPT !.attempt = task[t].attempt + 1]]
    BY <1>3
  <2>3. task[t].pc = "wait"
    BY DEF FetchNothing
  <2> DEFINE n == task[t].attempt + 1
             x == [task[t] EXCEPT !.attempt = n]
  <2>4. task' = [task EXCEPT ![t] = x]
    BY <2>2
  <2> HIDE DEF n
  <2>5. n \in 0 .. MaxAttempts - 1
    BY <2>1 DEF n
  <2>6. /\ x \in Tasking /\ x.pc = task[t].pc /\ x.ph = task[t].ph /\ x.found = task[t].found
        /\ x.shifted = task[t].shifted /\ x.moved = task[t].moved
    BY <1>1, <2>5, TaskFields
  <2> HIDE DEF x
  <2> QED
    BY <2>3, <2>4, <2>6
<1> QED
  BY <1>2, <1>3 DEF FetchNothing

\* The shift locks the messages of the placeholder it changes.
LEMMA ShiftStep ==
    ASSUME Types, NEW t \in Tasks, Shift(t)
    PROVE  \E x \in Tasking :
               /\ task' = [task EXCEPT ![t] = x]
               /\ x.pc = "move" /\ x.ph = task[t].ph /\ x.found = task[t].found
               /\ x.shifted = Shifted(task[t].ph, task[t].found) /\ x.moved = task[t].moved
<1> DEFINE S == Shifted(task[t].ph, task[t].found)
           y == [task[t] EXCEPT !.pc = "move"]
<1>1. task[t] \in Tasking /\ "move" \in Places
  BY DEF Types, StreamTypes, PollTypes, FileTypes, TaskTypes, Places
<1>2. S \in SUBSET Message
  BY DEF Types, StreamTypes, PollTypes, FileTypes, TaskTypes, Shifted, FiledUnder
<1>3. task' = [task EXCEPT ![t] = [y EXCEPT !.shifted = S]]
  BY <1>1 DEF Shift, Types, StreamTypes, PollTypes, FileTypes, TaskTypes, Tasking
<1>4. /\ y \in Tasking /\ y.pc = "move" /\ y.ph = task[t].ph /\ y.found = task[t].found
      /\ y.moved = task[t].moved
  BY <1>1, TaskFields
<1> HIDE DEF y, S
<1>5. /\ [y EXCEPT !.shifted = S] \in Tasking /\ [y EXCEPT !.shifted = S].pc = "move"
      /\ [y EXCEPT !.shifted = S].ph = task[t].ph /\ [y EXCEPT !.shifted = S].found = task[t].found
      /\ [y EXCEPT !.shifted = S].shifted = S /\ [y EXCEPT !.shifted = S].moved = task[t].moved
  BY <1>2, <1>4, TaskFields
<1> QED
  BY <1>3, <1>5 DEF S

\* The move holds every message filed under the placeholder.
LEMMA MoveStep ==
    ASSUME Types, NEW t \in Tasks, Move(t)
    PROVE  \E x \in Tasking :
               /\ task' = [task EXCEPT ![t] = x]
               /\ x.pc = "delete" /\ x.ph = task[t].ph /\ x.found = task[t].found
               /\ x.shifted = task[t].shifted /\ x.moved = FiledUnder(Ph(task[t].ph))
<1> DEFINE S == FiledUnder(Ph(task[t].ph))
           y == [task[t] EXCEPT !.pc = "delete"]
<1>1. task[t] \in Tasking /\ "delete" \in Places
  BY DEF Types, StreamTypes, PollTypes, FileTypes, TaskTypes, Places
<1>2. S \in SUBSET Message
  BY DEF Types, StreamTypes, PollTypes, FileTypes, TaskTypes, FiledUnder
<1>3. task' = [task EXCEPT ![t] = [y EXCEPT !.moved = S]]
  BY <1>1 DEF Move, Types, StreamTypes, PollTypes, FileTypes, TaskTypes, Tasking
<1>4. /\ y \in Tasking /\ y.pc = "delete" /\ y.ph = task[t].ph /\ y.found = task[t].found
      /\ y.shifted = task[t].shifted
  BY <1>1, TaskFields
<1> HIDE DEF y, S
<1>5. /\ [y EXCEPT !.moved = S] \in Tasking /\ [y EXCEPT !.moved = S].pc = "delete"
      /\ [y EXCEPT !.moved = S].ph = task[t].ph /\ [y EXCEPT !.moved = S].found = task[t].found
      /\ [y EXCEPT !.moved = S].moved = S /\ [y EXCEPT !.moved = S].shifted = task[t].shifted
  BY <1>2, <1>4, TaskFields
<1> QED
  BY <1>3, <1>5 DEF S

\* What a recorder files.
LEMMA RecordStep ==
    ASSUME Types, NEW s \in Streams, NEW late \in BOOLEAN, Record(s, late)
    PROVE  \E m \in Message :
               /\ messages' = messages \cup {m} /\ said' \in 0 .. MaxMessages
               /\ m.vod = Ph(s) /\ m.from = Start[s] /\ m.late = late
<1> DEFINE m == [n |-> said + 1, vod |-> Ph(s), from |-> Start[s], late |-> late]
<1>1. said + 1 \in 1 .. MaxMessages /\ said' \in 0 .. MaxMessages
  BY ChatAssumption DEF Types, StreamTypes, PollTypes, FileTypes, TaskTypes, Record
<1>2. m \in Message
  BY <1>1, RowFacts, Zenon DEF Message
<1>3. messages' = messages \cup {m}
  BY DEF Record
<1> QED
  BY <1>1, <1>2, <1>3

-----------------------------------------------------------------------------
(* Types.                                                                   *)

\* Every step keeps them.
LEMMA TypesKept ==
    ASSUME Types, KnownInv, [Next]_vars
    PROVE  Types' /\ KnownInv'
<1> USE DEF Types, KnownInv
<1>1. CASE StreamStarts
  <2>1. /\ started + 1 \in 0 .. MaxStreams /\ \A n \in 0 .. started : n \in 0 .. started + 1
        /\ started + 1 \in Nat /\ \A n \in 1 .. started : n \in 1 .. started + 1
    BY <1>1, ChatAssumption DEF StreamStarts, StreamTypes
  <2>2. StreamTypes' /\ PollTypes' /\ PollKnows'
    BY <1>1, <2>1 DEF StreamStarts, poll, chat, StreamTypes, PollTypes, PollKnows
  <2>3. TaskTypes' /\ TasksKnow'
    BY <1>1, ChatAssumption DEF StreamStarts, StreamTypes, TaskTypes, TasksKnow, Tasking
  <2>4. FileTypes' /\ faults' = faults
    BY <1>1 DEF StreamStarts, chat, FileTypes
  <2> QED
    BY <2>2, <2>3, <2>4
<1>2. CASE StreamEnds
  BY <1>2 DEF StreamEnds, poll, chat, StreamTypes, PollTypes, FileTypes, TaskTypes, PollKnows, TasksKnow
<1>3. CASE Publish
  BY <1>3 DEF Publish, poll, chat, StreamTypes, PollTypes, FileTypes, TaskTypes, PollKnows, TasksKnow
<1>4. CASE PollOffline
  <2>1. TaskTypes' /\ TasksKnow'
    <3>1. CASE task' = task
      BY <1>4, <3>1 DEF PollOffline, twitch, TaskTypes, TasksKnow
    <3>2. ASSUME NEW t \in Tasks, NEW x \in Tasking, task' = [task EXCEPT ![t] = x],
                 x.pc = "wait", x.ph = placeholder, x.found = 0
          PROVE  TaskTypes' /\ TasksKnow'
      BY <1>4, <3>2 DEF PollOffline, twitch, StreamTypes, PollTypes, TaskTypes, PollKnows, TasksKnow
    <3> QED
      BY <1>4, <3>1, <3>2, SpawnStep DEF PollOffline
  <2>2. PollTypes' /\ PollKnows'
    BY <1>4 DEF PollOffline, Cancel, twitch, poll, StreamTypes, PollTypes, PollKnows
  <2> QED
    BY <1>4, <2>1, <2>2 DEF PollOffline, twitch, StreamTypes, FileTypes
<1>5. CASE PollLive
  <2>1. PollTypes' /\ PollKnows'
    <3>1. overlap' \in BOOLEAN
      BY <1>5, Zenon DEF PollLive
    <3>2. placeholder' \in 0 .. started /\ placeholder' # 0
      BY <1>5, Bounds DEF PollLive, StreamTypes
    <3> QED
      BY <1>5, <3>1, <3>2 DEF PollLive, twitch, chat, PollTypes, PollKnows
  <2> QED
    BY <1>5, <2>1 DEF PollLive, twitch, chat, StreamTypes, FileTypes, TaskTypes, TasksKnow
<1>6. CASE StartRecorder
  <2>1. placeholder \in Streams
    BY <1>6, ChatAssumption DEF StartRecorder, StreamTypes, PollTypes, PollKnows, Streams
  <2>2. Ph(placeholder) \in {"live", "vod"} \X Streams
    BY <2>1, RowFacts
  <2>3. rows' \subseteq {"live", "vod"} \X Streams
    BY <1>6, <2>2 DEF StartRecorder, FileTypes
  <2>4. current' \in 0 .. started /\ stray' \subseteq 1 .. started
    BY <1>6 DEF StartRecorder, StreamTypes, PollTypes
  <2>5. faults' \in 0 .. MaxFaults
    BY <1>6, Bounds DEF StartRecorder, Fault
  <2>6. PollTypes' /\ PollKnows'
    BY <1>6, <2>4 DEF StartRecorder, twitch, PollTypes, PollKnows
  <2>7. FileTypes'
    BY <1>6, <2>3 DEF StartRecorder, FileTypes
  <2> QED
    BY <1>6, <2>5, <2>6, <2>7 DEF StartRecorder, twitch, StreamTypes, TaskTypes, TasksKnow
<1>7. CASE Recording
  <2>1. PICK s \in Streams, late \in BOOLEAN : Record(s, late)
    <3>1. \A s \in 1 .. started : s \in Streams
      BY Bounds DEF StreamTypes, Streams
    <3>2. CASE current # 0 /\ Record(current, ~running)
      <4>1. current \in 1 .. started /\ (~running) \in BOOLEAN
        BY <3>2, Bounds DEF StreamTypes, PollTypes
      <4> QED
        BY <3>1, <3>2, <4>1
    <3>3. CASE \E s \in stray : Record(s, TRUE)
      BY <3>1, <3>3 DEF PollTypes
    <3> QED
      BY <1>7, <3>2, <3>3 DEF Recording
  <2>2. messages' \subseteq Message /\ said' \in 0 .. MaxMessages
    BY <2>1, RecordStep DEF FileTypes
  <2>3. FileTypes'
    BY <2>1, <2>2 DEF Record, FileTypes
  <2> QED
    BY <2>1, <2>3 DEF Record, twitch, poll, StreamTypes, PollTypes, TaskTypes, PollKnows, TasksKnow
<1>8. ASSUME NEW t \in Tasks, NEW x \in Tasking, task' = [task EXCEPT ![t] = x],
             x.ph <= started, x.found <= started, x.pc # "none" => x.ph # 0,
             x.pc \in {"shift", "move", "delete"} => x.found # 0, started' = started
      PROVE  TaskTypes' /\ TasksKnow'
  BY <1>8 DEF TaskTypes, TasksKnow
<1>9. ASSUME NEW t \in Tasks, Ended(t), started' = started
      PROVE  TaskTypes' /\ TasksKnow'
  <2>1. 0 \in 0 .. MaxStreams /\ 0 <= started
    BY Bounds DEF StreamTypes
  <2> QED
    BY <1>9, <2>1, FreshTasks DEF Ended, TaskTypes, TasksKnow
<1>10. ASSUME NEW t \in Tasks, UNCHANGED <<twitch, poll, chat, rows, messages>>,
              faults' \in 0 .. MaxFaults, TaskTypes' /\ TasksKnow'
       PROVE  Types' /\ KnownInv'
  BY <1>10 DEF twitch, poll, chat, StreamTypes, PollTypes, FileTypes, PollKnows
<1>11. ASSUME NEW t \in Tasks, Fetch(t) PROVE Types' /\ KnownInv'
  <2>1. PICK x \in Tasking : /\ task' = [task EXCEPT ![t] = x] /\ x.pc = "shift"
                             /\ x.ph = task[t].ph /\ x.found \in published
    BY <1>11, FetchStep
  <2>2. x.ph <= started /\ x.ph # 0 /\ x.found <= started /\ x.found # 0
    BY <1>11, <2>1 DEF Fetch, StreamTypes, TaskTypes, TasksKnow
  <2>3. faults' \in 0 .. MaxFaults /\ UNCHANGED <<twitch, poll, chat, rows, messages>>
    BY <1>11 DEF Fetch
  <2>4. TaskTypes' /\ TasksKnow'
    BY <1>8, <2>1, <2>2, <2>3 DEF twitch
  <2> QED
    BY <1>10, <2>3, <2>4
<1>12. ASSUME NEW t \in Tasks, FetchNothing(t) PROVE Types' /\ KnownInv'
  <2>1. faults' \in 0 .. MaxFaults /\ UNCHANGED <<twitch, poll, chat, rows, messages>>
    BY <1>12, Bounds DEF FetchNothing, Fault
  <2>2. CASE Ended(t)
    BY <1>9, <1>10, <2>1, <2>2 DEF twitch
  <2>3. ASSUME NEW x \in Tasking, task' = [task EXCEPT ![t] = x],
               x.pc = "wait", x.ph = task[t].ph, x.found = task[t].found
        PROVE  Types' /\ KnownInv'
    <3>1. x.ph <= started /\ x.ph # 0 /\ x.found <= started
      BY <1>12, <2>3 DEF FetchNothing, TaskTypes, TasksKnow
    <3>2. TaskTypes' /\ TasksKnow'
      BY <1>8, <2>1, <2>3, <3>1 DEF twitch
    <3> QED
      BY <1>10, <2>1, <3>2
  <2> QED
    BY <1>12, <2>2, <2>3, FetchNothingStep
<1>13. ASSUME NEW t \in Tasks, Shift(t) \/ Move(t) PROVE Types' /\ KnownInv'
  <2>1. PICK x \in Tasking : /\ task' = [task EXCEPT ![t] = x] /\ x.pc \in {"move", "delete"}
                             /\ x.ph = task[t].ph /\ x.found = task[t].found
    BY <1>13, ShiftStep, MoveStep
  <2>2. x.ph <= started /\ x.ph # 0 /\ x.found <= started /\ x.found # 0
    BY <1>13, <2>1 DEF Shift, Move, TaskTypes, TasksKnow
  <2>3. faults' \in 0 .. MaxFaults /\ UNCHANGED <<twitch, poll, chat, rows, messages>>
    BY <1>13 DEF Shift, Move
  <2>4. TaskTypes' /\ TasksKnow'
    BY <1>8, <2>1, <2>2, <2>3 DEF twitch
  <2> QED
    BY <1>10, <2>3, <2>4
<1>14. ASSUME NEW t \in Tasks, Commit(t) PROVE Types' /\ KnownInv'
  <2>1. task[t] \in Tasking /\ task[t].ph \in Streams /\ task[t].found \in Streams
    BY <1>14 DEF Commit, TaskTypes, TasksKnow, Tasking, Streams
  <2>2. messages' \subseteq Message
    BY <1>14, <2>1, MovedFields DEF Commit, FileTypes
  <2>3. Vod(task[t].found) \in {"live", "vod"} \X Streams
    BY <2>1, RowFacts
  <2>4. rows' \subseteq {"live", "vod"} \X Streams
    BY <1>14, <2>3 DEF Commit, FileTypes
  <2>5. TaskTypes' /\ TasksKnow'
    BY <1>9, <1>14 DEF Commit, twitch
  <2>6. FileTypes' /\ faults' = faults
    BY <1>14, <2>2, <2>4 DEF Commit, chat, FileTypes
  <2> QED
    BY <1>14, <2>5, <2>6 DEF Commit, twitch, chat, StreamTypes, PollTypes, PollKnows
<1>15. ASSUME NEW t \in Tasks, Rollback(t) PROVE Types' /\ KnownInv'
  <2>1. faults' \in 0 .. MaxFaults /\ UNCHANGED <<twitch, poll, chat, rows, messages>> /\ Ended(t)
    BY <1>15, Bounds DEF Rollback, Fault
  <2> QED
    BY <1>9, <1>10, <2>1 DEF twitch
<1>16. CASE Crash
  <2>1. 0 \in 0 .. MaxStreams /\ 0 \in 0 .. started /\ 0 <= started
    BY Bounds DEF StreamTypes
  <2>2. \A t \in Tasks : task'[t] = NoTask
    BY <1>16 DEF Crash
  <2>3. task' \in [Tasks -> Tasking]
    BY <1>16, <2>1, FreshTasks DEF Crash
  <2>4. TaskTypes' /\ TasksKnow'
    BY <1>16, <2>1, <2>2, <2>3, FreshTasks DEF Crash, twitch, TaskTypes, TasksKnow
  <2>5. PollTypes' /\ PollKnows'
    BY <1>16, <2>1 DEF Crash, twitch, PollTypes, PollKnows
  <2>6. faults' \in 0 .. MaxFaults
    BY <1>16, Bounds DEF Crash, Fault
  <2> QED
    BY <1>16, <2>4, <2>5, <2>6 DEF Crash, twitch, StreamTypes, FileTypes
<1>17. CASE UNCHANGED vars
  BY <1>17 DEF vars, twitch, poll, chat, StreamTypes, PollTypes, FileTypes, TaskTypes, PollKnows, TasksKnow
<1> QED
  BY <1>1, <1>2, <1>3, <1>4, <1>5, <1>6, <1>7, <1>11, <1>12, <1>13, <1>14, <1>15, <1>16, <1>17
     DEF Next, Poll, Reconcile

-----------------------------------------------------------------------------
(* The times of the messages.                                               *)

\* A message that is filed leaves the transactions alone: it is late, or for a stream no goroutine
\* works on.
LEMMA RecordKeeps ==
    ASSUME Types, AlignedInv, NEW s \in Streams, NEW late \in BOOLEAN, Record(s, late),
           late \/ \A t \in Tasks : task[t].pc # "none" => task[t].ph # s
    PROVE  AlignedInv'
<1>1. PICK m \in Message : messages' = messages \cup {m} /\ m.vod = Ph(s) /\ m.from = Start[s]
                           /\ m.late = late
  BY RecordStep
<1>2. task' = task /\ UNCHANGED <<live, current, poller, placeholder>>
  BY DEF Record, twitch, poll
<1>3. LockInv' /\ OverInv'
  BY <1>1, <1>2 DEF AlignedInv, LockInv, OverInv
<1>4. Aligned'
  BY <1>1, RowFacts DEF AlignedInv, Aligned
<1>5. ShiftInv'
  <2> SUFFICES ASSUME NEW t \in Tasks, task[t].pc \in {"move", "delete"} PROVE Shifts(task[t])'
    BY <1>2 DEF ShiftInv
  <2>1. Shifts(task[t]) /\ FiledUnder(Ph(task[t].ph)) \subseteq FiledUnder(Ph(task[t].ph))'
    BY <1>1, <1>2 DEF AlignedInv, ShiftInv, FiledUnder
  <2>2. CASE task[t].pc = "delete"
    BY <1>2, <2>1, <2>2 DEF Shifts, Files
  <2>3. CASE task[t].pc = "move"
    <3>1. \A x \in FiledUnder(Ph(task[t].ph))' : x \in FiledUnder(Ph(task[t].ph)) \/ x.late
      <4>1. late \/ Ph(task[t].ph) # Ph(s)
        BY <2>3, RowFacts
      <4> QED
        BY <1>1, <1>2, <4>1 DEF FiledUnder
    <3> QED
      BY <1>2, <2>1, <2>3, <3>1 DEF Shifts, Files
  <2> QED
    BY <2>2, <2>3
<1> QED
  BY <1>3, <1>4, <1>5 DEF AlignedInv

\* A step of one goroutine that changes no message and leaves it outside its transaction.
LEMMA OutsideKeeps ==
    ASSUME Types, AlignedInv, NEW t \in Tasks, NEW x \in Tasking, task' = [task EXCEPT ![t] = x],
           x.pc \notin {"move", "delete"}, x.shifted = {}, x.moved = {}, messages' = messages
    PROVE  LockInv' /\ ShiftInv' /\ Aligned'
<1>1. \A u \in Tasks : task'[u] = IF u = t THEN x ELSE task[u]
  BY DEF Types, TaskTypes
<1>2. LockInv'
  BY <1>1 DEF AlignedInv, LockInv
<1>3. ShiftInv'
  BY <1>1 DEF AlignedInv, ShiftInv, Shifts, Files, FiledUnder
<1> QED
  BY <1>2, <1>3 DEF AlignedInv, Aligned

\* The same for the streams it works on.
LEMMA OverKeeps ==
    ASSUME Types, AlignedInv, NEW t \in Tasks, NEW x \in Tasking, task' = [task EXCEPT ![t] = x],
           x.pc # "none" => task[t].pc # "none" /\ x.ph = task[t].ph,
           UNCHANGED <<live, current, poller, placeholder>>
    PROVE  OverInv'
BY DEF AlignedInv, OverInv, Types, TaskTypes

\* A goroutine that ends gives its transaction up.
LEMMA EndedKeeps ==
    ASSUME Types, AlignedInv, NEW t \in Tasks, Ended(t), messages' = messages,
           UNCHANGED <<live, current, poller, placeholder>>
    PROVE  AlignedInv'
<1>1. /\ NoTask \in Tasking /\ NoTask.pc = "none" /\ NoTask.shifted = {} /\ NoTask.moved = {}
      /\ task' = [task EXCEPT ![t] = NoTask]
  BY NoTaskFields DEF Ended
<1>2. LockInv' /\ ShiftInv' /\ Aligned'
  BY <1>1, OutsideKeeps
<1>3. OverInv'
  BY <1>1, OverKeeps
<1> QED
  BY <1>2, <1>3 DEF AlignedInv

\* The shift is prepared for messages nobody else holds.
LEMMA ShiftKeeps ==
    ASSUME Types, AlignedInv, NEW t \in Tasks, Shift(t)
    PROVE  AlignedInv'
<1>1. PICK x \in Tasking :
          /\ task' = [task EXCEPT ![t] = x]
          /\ x.pc = "move" /\ x.ph = task[t].ph /\ x.found = task[t].found
          /\ x.shifted = Shifted(task[t].ph, task[t].found) /\ x.moved = task[t].moved
  BY ShiftStep
<1>2. \A u \in Tasks : task'[u] = IF u = t THEN x ELSE task[u]
  BY <1>1 DEF Types, TaskTypes
<1>3. /\ messages' = messages /\ ~Locked(t) /\ task[t].pc = "shift"
      /\ UNCHANGED <<live, current, poller, placeholder>>
  BY DEF Shift, twitch, poll, chat
<1>4. LockInv'
  <2>1. x.shifted \subseteq messages
    BY <1>1 DEF Shifted, FiledUnder
  <2> QED
    BY <1>1, <1>2, <1>3, <2>1 DEF AlignedInv, LockInv, Locked
<1>5. OverInv'
  BY <1>1, <1>3, OverKeeps
<1>6. ShiftInv'
  <2>1. Shifts(x)'
    BY <1>1, <1>3 DEF Shifts, Files, Shifted, FiledUnder
  <2> QED
    BY <1>2, <1>3, <2>1 DEF AlignedInv, ShiftInv, Shifts, Files, FiledUnder
<1> QED
  BY <1>3, <1>4, <1>5, <1>6 DEF AlignedInv, Aligned

\* The move follows the shift of the same messages.
LEMMA MoveKeeps ==
    ASSUME Types, AlignedInv, NEW t \in Tasks, Move(t)
    PROVE  AlignedInv'
<1>1. PICK x \in Tasking :
          /\ task' = [task EXCEPT ![t] = x]
          /\ x.pc = "delete" /\ x.ph = task[t].ph /\ x.found = task[t].found
          /\ x.shifted = task[t].shifted /\ x.moved = FiledUnder(Ph(task[t].ph))
  BY MoveStep
<1>2. \A u \in Tasks : task'[u] = IF u = t THEN x ELSE task[u]
  BY <1>1 DEF Types, TaskTypes
<1>3. /\ messages' = messages /\ task[t].pc = "move"
      /\ UNCHANGED <<live, current, poller, placeholder>>
  BY DEF Move, twitch, poll, chat
<1>4. LockInv'
  <2>1. x.moved \subseteq messages
    BY <1>1 DEF FiledUnder
  <2> QED
    BY <1>1, <1>2, <1>3, <2>1 DEF AlignedInv, LockInv
<1>5. OverInv'
  BY <1>1, <1>3, OverKeeps
<1>6. ShiftInv'
  <2>1. Shifts(task[t])
    BY <1>3 DEF AlignedInv, ShiftInv
  <2>2. Shifts(x)'
    BY <1>1, <1>3, <2>1 DEF Shifts, Files, FiledUnder
  <2> QED
    BY <1>2, <1>3, <2>2 DEF AlignedInv, ShiftInv, Shifts, Files, FiledUnder
<1> QED
  BY <1>3, <1>4, <1>5, <1>6 DEF AlignedInv, Aligned

\* The difference to the VOD that was found is what takes a message from the one origin to the other.
LEMMA CommitKeeps ==
    ASSUME Types, KnownInv, AlignedInv, NEW t \in Tasks, Commit(t)
    PROVE  AlignedInv'
<1> DEFINE k == task[t]
<1>1. k \in Tasking /\ k.ph \in Streams /\ k.found \in Streams /\ k.pc = "delete"
  BY Bounds DEF Commit, Types, StreamTypes, TaskTypes, KnownInv, TasksKnow, Tasking, Streams
<1>2. messages' = {Moved(m, k) : m \in messages} /\ Ended(t)
      /\ UNCHANGED <<live, current, poller, placeholder>>
  BY DEF Commit, twitch, chat
<1>3. \A u \in Tasks : task'[u] = IF u = t THEN NoTask ELSE task[u]
  BY <1>2 DEF Ended, Types, TaskTypes
<1>4. /\ NoTask \in Tasking /\ NoTask.pc = "none" /\ NoTask.shifted = {} /\ NoTask.moved = {}
  BY NoTaskFields
<1>5. ASSUME NEW u \in Tasks \ {t}, task[u].pc \in {"move", "delete"}
      PROVE  FiledUnder(Ph(task[u].ph))' = FiledUnder(Ph(task[u].ph))
  <2>1. task'[u] = task[u]
    BY <1>3
  <2>2. task[u].ph # k.ph
    BY <1>1, <1>5 DEF AlignedInv, LockInv
  <2>3. k.moved \subseteq FiledUnder(Ph(k.ph)) /\ k.shifted \subseteq FiledUnder(Ph(k.ph))
    BY <1>1 DEF AlignedInv, ShiftInv, Shifts, Files
  <2>4. messages \subseteq Message
    BY DEF Types, FileTypes
  <2> HIDE DEF k
  <2>5. ASSUME NEW m \in messages, m.vod = Ph(task[u].ph) PROVE Moved(m, k) = m
    <3>1. m \notin k.moved /\ m \notin k.shifted
      BY <2>2, <2>3, <2>5, RowFacts DEF FiledUnder
    <3> QED
      BY <2>4, <3>1, OthersStay
  <2>6. ASSUME NEW m \in messages, Moved(m, k).vod = Ph(task[u].ph) PROVE m.vod = Ph(task[u].ph)
    BY <1>1, <2>4, <2>6, MovedFields, RowFacts
  <2> QED
    BY <1>2, <2>1, <2>5, <2>6 DEF FiledUnder
<1>6. LockInv' /\ ShiftInv'
  <2> HIDE DEF k
  <2>1. ASSUME NEW u \in Tasks \ {t}, task[u].pc \in {"move", "delete"}
        PROVE  /\ Shifts(task[u])'
               /\ task[u].shifted \subseteq messages' /\ task[u].moved \subseteq messages'
    <3>1. Shifts(task[u]) /\ task'[u] = task[u]
      BY <1>3, <2>1 DEF AlignedInv, ShiftInv
    <3>2. Files(task[u])' = Files(task[u])
      BY <1>5, <2>1, <3>1 DEF Files
    <3>3. Shifts(task[u])'
      BY <1>5, <2>1, <3>1, <3>2 DEF Shifts
    <3>4. FiledUnder(Ph(task[u].ph)) \subseteq messages'
      BY <1>5, <2>1, <3>1 DEF FiledUnder
    <3>5. task[u].pc # "delete" => task[u].moved = {}
      BY DEF AlignedInv, LockInv
    <3> QED
      BY <3>1, <3>3, <3>4, <3>5 DEF Shifts, Files
  <2>2. LockInv'
    BY <1>3, <1>4, <2>1 DEF AlignedInv, LockInv
  <2>3. ShiftInv'
    BY <1>3, <1>4, <2>1 DEF ShiftInv
  <2> QED
    BY <2>2, <2>3
<1>7. OverInv'
  BY <1>2, <1>4, OverKeeps DEF Ended
<1>8. Aligned'
  <2> SUFFICES ASSUME NEW m \in messages, ~Moved(m, k).late
               PROVE  Moved(m, k).from = Origin(Moved(m, k).vod)
    BY <1>2 DEF Aligned
  <2>1. m \in Message
    BY DEF Types, FileTypes
  <2>2. /\ Moved(m, k).late = m.late
        /\ Moved(m, k).vod = IF m \in k.moved THEN Vod(k.found) ELSE m.vod
        /\ Moved(m, k).from = IF m \in k.shifted THEN m.from + (Date[k.found] - Start[k.ph]) ELSE m.from
    BY <1>1, <2>1, MovedFields
  <2>3. m.from = Origin(m.vod)
    BY <2>2 DEF AlignedInv, Aligned
  <2>4. Shifts(k)
    BY <1>1 DEF AlignedInv, ShiftInv
  <2> HIDE DEF k
  <2>5. CASE m \in k.moved
    <3>1. m.from = Start[k.ph]
      BY <1>1, <2>3, <2>4, <2>5, RowFacts DEF Shifts, Files, FiledUnder
    <3>2. m \in k.shifted \/ (Date[k.found] = Start[k.ph] /\ m \notin k.shifted)
      BY <1>1, <2>2, <2>4, <2>5 DEF Shifts, Files
    <3>3. Moved(m, k).from = Date[k.found]
      BY <1>1, <2>2, <3>1, <3>2, RowFacts
    <3> QED
      BY <2>2, <2>5, <3>3, RowFacts
  <2>6. CASE m \notin k.moved
    BY <1>1, <2>2, <2>3, <2>4, <2>6 DEF Shifts, Files
  <2> QED
    BY <2>5, <2>6
<1> QED
  BY <1>6, <1>7, <1>8 DEF AlignedInv

\* Every step keeps times and rows of the messages in agreement.
LEMMA AlignedKept ==
    ASSUME Types, KnownInv, AlignedInv, [Next]_vars
    PROVE  AlignedInv'
<1>1. ASSUME UNCHANGED <<messages, task>>, OverInv' PROVE AlignedInv'
  BY <1>1 DEF AlignedInv, LockInv, ShiftInv, Shifts, Files, FiledUnder, Aligned
<1>2. CASE StreamStarts
  <2>1. OverInv'
    BY <1>2 DEF StreamStarts, poll, chat, AlignedInv, OverInv, Types, StreamTypes, TaskTypes, Tasking
  <2> QED
    BY <1>1, <1>2, <2>1 DEF StreamStarts
<1>3. CASE StreamEnds
  <2>1. OverInv'
    BY <1>3 DEF StreamEnds, poll, chat, AlignedInv, OverInv, KnownInv, TasksKnow
  <2> QED
    BY <1>1, <1>3, <2>1 DEF StreamEnds
<1>4. CASE Publish
  BY <1>1, <1>4 DEF Publish, poll, chat, AlignedInv, OverInv
<1>5. CASE PollOffline
  <2>1. /\ live = 0 /\ current' = 0 /\ poller = "tick" /\ placeholder # 0 /\ messages' = messages
        /\ UNCHANGED <<live, poller, placeholder>>
    BY <1>5 DEF PollOffline, Cancel, twitch, poll, KnownInv, PollKnows
  <2>2. CASE task' = task
    BY <1>1, <2>1, <2>2 DEF AlignedInv, OverInv, KnownInv, TasksKnow
  <2>3. ASSUME NEW t \in Tasks, NEW x \in Tasking, task[t].pc = "none", task' = [task EXCEPT ![t] = x],
               x.pc = "wait", x.ph = placeholder, x.found = 0, x.shifted = {}, x.moved = {}
        PROVE  AlignedInv'
    <3>1. LockInv' /\ ShiftInv' /\ Aligned'
      BY <2>1, <2>3, OutsideKeeps
    <3>2. OverInv'
      BY <2>1, <2>3 DEF AlignedInv, OverInv, KnownInv, TasksKnow, Types, TaskTypes
    <3> QED
      BY <3>1, <3>2 DEF AlignedInv
  <2> QED
    BY <1>5, <2>2, <2>3, SpawnStep DEF PollOffline
<1>6. CASE PollLive
  <2>1. OverInv'
    BY <1>6 DEF PollLive, twitch, chat, AlignedInv, OverInv
  <2> QED
    BY <1>1, <1>6, <2>1 DEF PollLive
<1>7. CASE StartRecorder
  <2>1. OverInv'
    BY <1>7 DEF StartRecorder, twitch, AlignedInv, OverInv, KnownInv, TasksKnow
  <2> QED
    BY <1>1, <1>7, <2>1 DEF StartRecorder
<1>8. CASE Recording
  <2>1. \A s \in 1 .. started : s \in Streams
    BY Bounds DEF Types, StreamTypes, Streams
  <2>2. CASE current # 0 /\ Record(current, ~running)
    <3>1. current \in 1 .. started /\ (~running) \in BOOLEAN
      BY <2>2, Bounds DEF Types, StreamTypes, PollTypes
    <3> QED
      BY <2>1, <2>2, <3>1, RecordKeeps DEF AlignedInv, OverInv
  <2>3. ASSUME NEW s \in stray, Record(s, TRUE) PROVE AlignedInv'
    BY <2>1, <2>3, RecordKeeps DEF Types, PollTypes
  <2> QED
    BY <1>8, <2>2, <2>3 DEF Recording
<1>9. ASSUME NEW t \in Tasks, Fetch(t) PROVE AlignedInv'
  <2>1. PICK x \in Tasking :
            /\ task' = [task EXCEPT ![t] = x]
            /\ x.pc = "shift" /\ x.ph = task[t].ph /\ x.found \in published
            /\ x.shifted = task[t].shifted /\ x.moved = task[t].moved
    BY <1>9, FetchStep
  <2>2. /\ task[t].pc = "wait" /\ messages' = messages
        /\ UNCHANGED <<live, current, poller, placeholder>>
    BY <1>9 DEF Fetch, twitch, poll, chat
  <2>3. x.shifted = {} /\ x.moved = {}
    BY <2>1, <2>2 DEF AlignedInv, LockInv
  <2> QED
    BY <2>1, <2>2, <2>3, OutsideKeeps, OverKeeps DEF AlignedInv
<1>10. ASSUME NEW t \in Tasks, FetchNothing(t) PROVE AlignedInv'
  <2>1. /\ task[t].pc = "wait" /\ messages' = messages
        /\ UNCHANGED <<live, current, poller, placeholder>>
    BY <1>10 DEF FetchNothing, twitch, poll, chat
  <2>2. CASE Ended(t)
    BY <2>1, <2>2, EndedKeeps
  <2>3. ASSUME NEW x \in Tasking, task' = [task EXCEPT ![t] = x],
               x.pc = "wait", x.ph = task[t].ph, x.found = task[t].found,
               x.shifted = task[t].shifted, x.moved = task[t].moved
        PROVE  AlignedInv'
    <3>1. x.shifted = {} /\ x.moved = {}
      BY <2>1, <2>3 DEF AlignedInv, LockInv
    <3> QED
      BY <2>1, <2>3, <3>1, OutsideKeeps, OverKeeps DEF AlignedInv
  <2> QED
    BY <1>10, <2>2, <2>3, FetchNothingStep
<1>11. ASSUME NEW t \in Tasks, Rollback(t) PROVE AlignedInv'
  BY <1>11, EndedKeeps DEF Rollback, twitch, poll, chat
<1>12. CASE Crash
  <2>1. \A t \in Tasks : task'[t] = NoTask
    BY <1>12 DEF Crash
  <2> QED
    BY <1>12, <2>1, NoTaskFields DEF Crash, AlignedInv, LockInv, OverInv, ShiftInv, Aligned
<1>13. CASE UNCHANGED vars
  BY <1>1, <1>13 DEF vars, twitch, poll, chat, AlignedInv, OverInv
<1> QED
  BY <1>2, <1>3, <1>4, <1>5, <1>6, <1>7, <1>8, <1>9, <1>10, <1>11, <1>12, <1>13,
     ShiftKeeps, MoveKeeps, CommitKeeps DEF Next, Poll, Reconcile

-----------------------------------------------------------------------------
(* The recorders.                                                           *)

\* Every step keeps the recorder known to the poller.
LEMMA RecorderKept ==
    ASSUME Types, KnownInv, RecorderInv, [Next]_vars
    PROVE  RecorderInv'
<1>1. ASSUME NEW t \in Tasks, Ended(t) PROVE Alive' \subseteq Alive
  BY <1>1, NoTaskFields DEF Ended, Alive, Types, TaskTypes
<1>2. ASSUME NEW t \in Tasks, NEW x \in Tasking, task' = [task EXCEPT ![t] = x], task[t].pc # "none"
      PROVE  Alive' \subseteq Alive
  BY <1>2 DEF Alive, Types, TaskTypes
<1>3. CASE StreamStarts \/ StreamEnds \/ Publish \/ Recording
  <2>1. UNCHANGED <<poll, current, stray, task>>
    BY <1>3 DEF StreamStarts, StreamEnds, Publish, Recording, Record, chat
  <2> QED
    BY <2>1 DEF poll, RecorderInv, Alive
<1>4. CASE PollOffline
  BY <1>4 DEF PollOffline, Cancel, poll, RecorderInv
<1>5. CASE PollLive
  BY <1>5 DEF PollLive, chat, RecorderInv, Alive
<1>6. CASE StartRecorder
  BY <1>6 DEF StartRecorder, RecorderInv, Alive
<1>7. ASSUME NEW t \in Tasks, Reconcile(t) PROVE RecorderInv'
  <2>1. t \in Alive
    BY <1>7 DEF Reconcile, Fetch, FetchNothing, Shift, Move, Commit, Rollback, Alive
  <2>2. Alive' \subseteq Alive
    BY <1>1, <1>2, <1>7, <2>1, FetchStep, FetchNothingStep, ShiftStep, MoveStep
       DEF Reconcile, Commit, Rollback, Alive
  <2>3. CASE Commit(t)
    BY <2>1, <2>2, <2>3 DEF Commit, chat, RecorderInv
  <2>4. CASE ~Commit(t)
    <3>1. UNCHANGED <<poll, chat>>
      BY <1>7, <2>4 DEF Reconcile, Fetch, FetchNothing, Shift, Move, Rollback
    <3> QED
      BY <2>2, <3>1 DEF poll, chat, RecorderInv
  <2> QED
    BY <2>3, <2>4
<1>8. CASE Crash
  BY <1>8, NoTaskFields DEF Crash, RecorderInv, Alive
<1>9. CASE UNCHANGED vars
  BY <1>9 DEF vars, poll, chat, RecorderInv, Alive
<1> QED
  BY <1>3, <1>4, <1>5, <1>6, <1>7, <1>8, <1>9 DEF Next, Poll

-----------------------------------------------------------------------------
\* The three invariants hold together: each needs the types and what is known.
LEMMA Invariants == Spec => []ChatInv
<1>1. Init => ChatInv
  <2>1. ASSUME Init PROVE Types /\ KnownInv
    <3>1. 0 \in 0 .. MaxStreams /\ 0 \in 0 .. MaxMessages /\ 0 \in 0 .. MaxFaults
      BY Bounds
    <3>2. task \in [Tasks -> Tasking] /\ \A t \in Tasks : task[t] = NoTask
      BY <2>1, NoTaskFields DEF Init
    <3>3. TaskTypes /\ TasksKnow
      BY <2>1, <3>1, <3>2, NoTaskFields DEF Init, TaskTypes, TasksKnow
    <3>4. StreamTypes /\ PollTypes /\ faults \in 0 .. MaxFaults
      <4>1. 0 \in 0 .. started /\ {} \subseteq 1 .. started
        BY <2>1 DEF Init
      <4>2. StreamTypes /\ faults \in 0 .. MaxFaults
        BY <2>1, <3>1, <4>1 DEF Init, StreamTypes
      <4>3. PollTypes
        BY <2>1, <4>1, Zenon DEF Init, PollTypes
      <4> QED
        BY <4>2, <4>3
    <3>6. PollKnows
      <4>1. ~running /\ poller = "tick"
        BY <2>1, Zenon DEF Init
      <4> QED
        BY <4>1 DEF PollKnows
    <3>5. FileTypes
      BY <2>1, <3>1 DEF Init, FileTypes
    <3> QED
      BY <3>3, <3>4, <3>5, <3>6 DEF Types, KnownInv
  <2>2. ASSUME Init PROVE AlignedInv /\ RecorderInv
    <3>1. \A t \in Tasks : task[t] = NoTask
      BY <2>2 DEF Init
    <3> QED
      BY <2>2, <3>1, NoTaskFields
         DEF Init, AlignedInv, LockInv, OverInv, ShiftInv, Aligned, RecorderInv, Alive
  <2> QED
    BY <2>1, <2>2 DEF ChatInv
<1>2. ChatInv /\ [Next]_vars => ChatInv'
  BY TypesKept, AlignedKept, RecorderKept DEF ChatInv
<1> QED
  BY <1>1, <1>2, PTL DEF Spec

(***************************************************************************)
(* Everything keeps its type; what a transaction has changed are messages     *)
(* that are there, since no other one is under way.                          *)
(***************************************************************************)
THEOREM TypeCorrect == Spec => []TypeOK
<1>1. ChatInv => TypeOK
  <2> SUFFICES ASSUME ChatInv PROVE TypeOK
    OBVIOUS
  <2>1. \A t \in Tasks :
            /\ task[t].pc \in {"none", "wait", "shift", "move", "delete"}
            /\ task[t].ph \in 0 .. started /\ task[t].found \in 0 .. started
            /\ task[t].attempt \in 0 .. MaxAttempts - 1
            /\ task[t].shifted \subseteq messages /\ task[t].moved \subseteq messages
    BY Bounds DEF ChatInv, Types, StreamTypes, TaskTypes, Tasking, Places, AlignedInv, LockInv
  <2> QED
    BY <2>1 DEF ChatInv, Types, StreamTypes, PollTypes, FileTypes, TypeOK
<1> QED
  BY <1>1, Invariants, PTL

(***************************************************************************)
(* However many goroutines reconcile a stream, and whatever fails between      *)
(* their statements, a message's time counts from the row it is filed under. *)
(***************************************************************************)
THEOREM TimesAreRight == Spec => []Aligned
<1>1. ChatInv => Aligned
  BY DEF ChatInv, AlignedInv
<1> QED
  BY <1>1, Invariants, PTL

(***************************************************************************)
(* As long as no stream is taken up while a goroutine of the one before is     *)
(* left, one recorder at most is on, for the stream the poller knows.         *)
(***************************************************************************)
THEOREM RecorderIsKnown == Spec => []OneRecorder
<1>1. ChatInv => OneRecorder
  BY DEF ChatInv, RecorderInv, OneRecorder
<1> QED
  BY <1>1, Invariants, PTL

=============================================================================
