---------------------------- MODULE ChatRecorder ----------------------------
(***************************************************************************)
(* Live detection and chat recording of backend/chat/auto.go and chat.go, for *)
(* one channel.  A poller asks Helix whether the channel is live and starts a *)
(* recorder that files every chat message under a placeholder row of vods.   *)
(* Once the channel is offline each further poll starts one more goroutine    *)
(* that looks for the published VOD, shifts the times of the messages and     *)
(* moves them to its row, in a transaction, and then writes the poller's      *)
(* variables, which no lock protects.                                       *)
(***************************************************************************)
EXTENDS Integers, FiniteSets

CONSTANTS
    MaxStreams,   \* bound: streams of the channel, 1, 2, ...
    Start, Date,  \* when a stream started, by Helix, and the date of its VOD
    Near,         \* how far they may lie apart (10 minutes)
    Tasks,        \* bound: reconciliation goroutines alive at once
    MaxAttempts,  \* 30, or fewer when the window of 15 minutes closes first
    MaxMessages,  \* bound: chat messages
    MaxFaults     \* bound: crashes, failed statements, requests and logins

Streams == 1 .. MaxStreams

ASSUME ChatAssumption ==
    /\ MaxStreams \in Nat /\ Near \in Nat /\ MaxMessages \in Nat /\ MaxFaults \in Nat
    /\ MaxAttempts \in Nat \ {0}
    /\ Start \in [Streams -> Int] /\ Date \in [Streams -> Int]

VARIABLES
    live,         \* the stream the channel is showing, 0 if it is offline
    started,      \* how many streams there were
    published,    \* the streams whose VOD Helix lists
    poller,       \* "tick", or "start" when it has found a new stream
    running, reconciled, placeholder,  \* the poller's variables of these names
    current,      \* the placeholder of the recorder recCancel stops, 0 if none is on
    stray,        \* those of the recorders that no variable stops any more
    rows,         \* the rows of vods the recorder is concerned with
    messages,     \* the rows of chat_messages
    said,         \* how many messages there were
    task,         \* the reconciliation goroutines
    overlap,      \* a stream was taken up before the last of them had ended
    faults

twitch == <<live, started, published>>
poll == <<poller, running, reconciled, placeholder, overlap>>
chat == <<current, stray, said>>
vars == <<twitch, poll, chat, rows, messages, task, faults>>

\* The rows "live-<unix start>" and of the real VOD.
Ph(s) == <<"live", s>>
Vod(s) == <<"vod", s>>

\* The instant from which the times of a row's messages should count.
Origin(row) == IF row[1] = "live" THEN Start[row[2]] ELSE Date[row[2]]

\* rel_timestamp is kept as the instant it counts from; "late" marks the message
\* of a recorder that should have been stopped.
Message == [n : 1 .. MaxMessages, vod : {"live", "vod"} \X Streams, from : Int, late : BOOLEAN]

NoTask == [pc |-> "none", ph |-> 0, attempt |-> 0, found |-> 0, shifted |-> {}, moved |-> {}]

Init ==
    /\ live = 0 /\ started = 0 /\ published = {}
    /\ poller = "tick" /\ running = FALSE /\ reconciled = FALSE /\ placeholder = 0
    /\ current = 0 /\ stray = {} /\ said = 0
    /\ rows = {} /\ messages = {}
    /\ task = [t \in Tasks |-> NoTask]
    /\ overlap = FALSE /\ faults = 0

Fault == faults < MaxFaults /\ faults' = faults + 1

-----------------------------------------------------------------------------
(* Twitch *)

StreamStarts ==
    /\ live = 0 /\ started < MaxStreams
    /\ started' = started + 1 /\ live' = started + 1
    /\ UNCHANGED <<published, poll, chat, rows, messages, task, faults>>

StreamEnds ==
    /\ live # 0 /\ live' = 0
    /\ UNCHANGED <<started, published, poll, chat, rows, messages, task, faults>>

\* Perhaps during the stream, perhaps long after it, perhaps never.
Publish ==
    /\ \E s \in 1 .. started : s \notin published /\ published' = published \cup {s}
    /\ UNCHANGED <<live, started, poll, chat, rows, messages, task, faults>>

-----------------------------------------------------------------------------
(* The poller.  A request that fails changes nothing. *)

Alive == {t \in Tasks : task[t].pc # "none"}

\* Mutant: the recorder is not stopped when the stream has ended.
CancelBug(s) == current

\* recCancel()
Cancel(s) == 0

\* Mutant: one goroutine for each stream, started with the cancel.
SpawnBug(s) ==
    \/ current = 0 /\ task' = task
    \/ /\ current # 0
       /\ \E t \in Tasks \ Alive : task' = [task EXCEPT ![t] = [NoTask EXCEPT !.pc = "wait", !.ph = s]]

\* The goroutine of this poll; past the bound it would be one more of the same.
Spawn(s) ==
    \/ Alive = Tasks /\ task' = task
    \/ \E t \in Tasks \ Alive :
           task' = [task EXCEPT ![t] = [NoTask EXCEPT !.pc = "wait", !.ph = s]]

PollOffline ==
    /\ poller = "tick" /\ live = 0 /\ running /\ ~reconciled
    /\ current' = Cancel(placeholder)
    /\ Spawn(placeholder)
    /\ UNCHANGED <<twitch, poll, stray, said, rows, messages, faults>>

PollLive ==
    /\ poller = "tick" /\ live # 0 /\ ~running
    /\ placeholder' = live /\ reconciled' = FALSE
    /\ overlap' = (overlap \/ Alive # {})
    /\ poller' = "start"
    /\ UNCHANGED <<twitch, running, chat, rows, messages, task, faults>>

\* The row, whose error is ignored, then the recorder, which may fail to log in.
\* The recorder before it, if one is still on, keeps running.
StartRecorder ==
    /\ poller = "start" /\ poller' = "tick"
    /\ running' = TRUE
    /\ stray' = stray \cup ({current} \ {0})
    /\ \/ /\ rows' = rows \cup {Ph(placeholder)} /\ current' = placeholder
          /\ faults' = faults
       \/ /\ Fault
          /\ \/ rows' = rows /\ current' = placeholder
             \/ rows' = rows \cup {Ph(placeholder)} /\ current' = 0
    /\ UNCHANGED <<twitch, reconciled, placeholder, overlap, said, messages, task>>

-----------------------------------------------------------------------------
(* A recorder hears a message.  Without the row it files under, the foreign   *)
(* key refuses the message, and it is lost.                                 *)

Record(s, late) ==
    /\ said < MaxMessages /\ said' = said + 1
    /\ Ph(s) \in rows
    /\ messages' = messages \cup {[n |-> said + 1, vod |-> Ph(s), from |-> Start[s], late |-> late]}
    /\ UNCHANGED <<twitch, poll, current, stray, rows, task, faults>>

Recording ==
    \/ current # 0 /\ Record(current, ~running)
    \/ \E s \in stray : Record(s, TRUE)

-----------------------------------------------------------------------------
(* A reconciliation goroutine.  Helix lists the newest VOD first, so that of  *)
(* several candidates the newest is taken.                                   *)

Candidates(s) ==
    {v \in published : Date[v] - Start[s] \in -Near .. Near}

Candidate(s, v) == v \in Candidates(s) /\ \A w \in Candidates(s) : ~(Date[w] > Date[v])

FiledUnder(row) == {m \in messages : m.vod = row}

\* A transaction holds the row of the VOD it has found, which it writes first, and
\* the rows of the messages it shifts or moves: another one for the same VOD, or with
\* the messages of the same placeholder, waits for it.
Locked(t) ==
    \E u \in Tasks \ {t} :
        /\ task[u].pc \in {"move", "delete"}
        /\ task[u].found = task[t].found \/ task[u].ph = task[t].ph

Ended(t) == task' = [task EXCEPT ![t] = NoTask]

Fetch(t) ==
    /\ task[t].pc = "wait"
    /\ \E v \in Streams :
           Candidate(task[t].ph, v) /\ task' = [task EXCEPT ![t].pc = "shift", ![t].found = v]
    /\ UNCHANGED <<twitch, poll, chat, rows, messages, faults>>

\* Mutant: one attempt more.
AgainBug(t) == task[t].attempt < MaxAttempts

Again(t) == task[t].attempt + 1 < MaxAttempts

\* Nothing is found: another attempt, or the window has closed.
FetchNothing(t) ==
    /\ task[t].pc = "wait"
    /\ \/ Candidates(task[t].ph) = {} /\ faults' = faults
       \/ Fault
    /\ \/ /\ Again(t)
          /\ task' = [task EXCEPT ![t].attempt = @ + 1]
       \/ Ended(t)
    /\ UNCHANGED <<twitch, poll, chat, rows, messages>>

\* Mutant: the shift finds the messages that have been moved already as well.
ShiftedBug(s, v) == FiledUnder(Ph(s)) \cup FiledUnder(Vod(v))

\* UPDATE ... SET rel_timestamp, left out if the dates agree.
Shifted(s, v) == IF Date[v] = Start[s] THEN {} ELSE FiledUnder(Ph(s))

Shift(t) ==
    /\ task[t].pc = "shift" /\ ~Locked(t)
    /\ task' = [task EXCEPT ![t].pc = "move",
                            ![t].shifted = Shifted(task[t].ph, task[t].found)]
    /\ UNCHANGED <<twitch, poll, chat, rows, messages, faults>>

\* UPDATE ... SET vod_id
Move(t) ==
    /\ task[t].pc = "move"
    /\ task' = [task EXCEPT ![t].pc = "delete", ![t].moved = FiledUnder(Ph(task[t].ph))]
    /\ UNCHANGED <<twitch, poll, chat, rows, messages, faults>>

\* What the transaction makes of a message.
Moved(m, k) ==
    [m EXCEPT !.vod = IF m \in k.moved THEN Vod(k.found) ELSE @,
              !.from = IF m \in k.shifted THEN @ + (Date[k.found] - Start[k.ph]) ELSE @]

\* DELETE and COMMIT, and the poller's variables, whatever it is doing by now.
Commit(t) ==
    /\ task[t].pc = "delete" /\ FiledUnder(Ph(task[t].ph)) \subseteq task[t].moved
    /\ messages' = {Moved(m, task[t]) : m \in messages}
    /\ rows' = (rows \ {Ph(task[t].ph)}) \cup {Vod(task[t].found)}
    /\ reconciled' = TRUE /\ running' = FALSE
    /\ Ended(t)
    /\ UNCHANGED <<twitch, poller, placeholder, overlap, chat, faults>>

\* The placeholder has got a message since the move, or a statement fails.
Rollback(t) ==
    /\ \/ /\ task[t].pc = "delete" /\ ~(FiledUnder(Ph(task[t].ph)) \subseteq task[t].moved)
          /\ faults' = faults
       \/ task[t].pc \in {"shift", "move", "delete"} /\ Fault
    /\ Ended(t)
    /\ UNCHANGED <<twitch, poll, chat, rows, messages>>

Reconcile(t) ==
    Fetch(t) \/ FetchNothing(t) \/ Shift(t) \/ Move(t) \/ Commit(t) \/ Rollback(t)

-----------------------------------------------------------------------------
\* A restart begins with the variables of StartAutoChatRecorder anew.
Crash ==
    /\ Fault
    /\ poller' = "tick" /\ running' = FALSE /\ reconciled' = FALSE /\ placeholder' = 0
    /\ current' = 0 /\ stray' = {} /\ task' = [t \in Tasks |-> NoTask]
    /\ UNCHANGED <<twitch, overlap, said, rows, messages>>

Poll == PollOffline \/ PollLive \/ StartRecorder

Next ==
    \/ StreamStarts \/ StreamEnds \/ Publish
    \/ Poll \/ Recording \/ Crash
    \/ \E t \in Tasks : Reconcile(t)

Spec == Init /\ [][Next]_vars

\* The ticker runs, and a goroutine's waits, requests and statements end.  Of
\* Twitch nothing is assumed: a VOD may never be published.
FairSpec == Spec /\ WF_vars(Poll) /\ \A t \in Tasks : WF_vars(Reconcile(t))

-----------------------------------------------------------------------------
TypeOK ==
    /\ started \in 0 .. MaxStreams /\ live \in {0, started} /\ published \subseteq 1 .. started
    /\ poller \in {"tick", "start"} /\ running \in BOOLEAN /\ reconciled \in BOOLEAN
    /\ placeholder \in 0 .. started /\ current \in 0 .. started /\ stray \subseteq 1 .. started
    /\ rows \subseteq {"live", "vod"} \X Streams
    /\ said \in 0 .. MaxMessages /\ messages \subseteq Message
    /\ \A t \in Tasks :
           /\ task[t].pc \in {"none", "wait", "shift", "move", "delete"}
           /\ task[t].ph \in 0 .. started /\ task[t].found \in 0 .. started
           /\ task[t].attempt \in 0 .. MaxAttempts - 1
           /\ task[t].shifted \subseteq messages /\ task[t].moved \subseteq messages
    /\ overlap \in BOOLEAN /\ faults \in 0 .. MaxFaults

(***************************************************************************)
(* However many goroutines reconcile a stream, with however many failures and *)
(* restarts between them, the time of a message is shifted exactly once, and  *)
(* by the difference to the VOD it is moved to: it counts from the start of   *)
(* the row it is filed under, so that a replay shows it where it was said.   *)
(* Not so for a recorder that should have been stopped, whose message can    *)
(* come between the shift and the move.                                      *)
(***************************************************************************)
Aligned == \A m \in messages : m.late \/ m.from = Origin(m.vod)

(***************************************************************************)
(* As long as no stream is taken up while goroutines of the one before it are *)
(* left, a recorder is on only while the poller knows it, for the stream it   *)
(* knows, and there is one at most.  (A goroutine that is left resets running *)
(* under the next stream, whose recorder is then started twice.)             *)
(***************************************************************************)
OneRecorder ==
    ~overlap => stray = {} /\ (current # 0 => running /\ current = placeholder)

(***************************************************************************)
(* Once the channel stays offline, the stream the poller knows is reconciled  *)
(* when its VOD is published, though goroutines gave up before or failed: the *)
(* placeholder row goes.  Excepted are the overlap above and a restart, after *)
(* which the poller does not know the stream any more.                       *)
(***************************************************************************)
EndedIsReconciled ==
    <>[](live = 0) =>
        \A s \in Streams :
            running /\ placeholder = s /\ s \in published
                ~> Ph(s) \notin rows \/ overlap \/ placeholder # s

(***************************************************************************)
(* auto.go: "polls Twitch stream status and automatically starts the chat     *)
(* recorder when the configured channel goes live".                          *)
(***************************************************************************)
LiveIsRecorded ==
    \A s \in Streams : live = s ~> live # s \/ current # 0 \/ stray # {}
=============================================================================
