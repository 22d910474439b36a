--------------------------- MODULE CircuitBreaker ---------------------------
(***************************************************************************)
(* The circuit breaker of one channel, as the code keeps it: three rows of *)
(* table kv (circuit_state, circuit_failures, circuit_open_until), read and *)
(* written one statement at a time by the channel's processing goroutine,   *)
(* with every database error ignored ("_, _ = dbc.ExecContext(...)").       *)
(*                                                                         *)
(* An absent row is "unset", 0 or NoTime.  circuit_open_until is kept as the time *)
(* left until it; Tick is the only clock.  A fault is a statement that has   *)
(* no effect, a query that fails, or a crash of the process, which may fall  *)
(* between any two statements; MaxFaults bounds them.                        *)
(***************************************************************************)
EXTENDS Circuit, Integers

CONSTANT MaxFaults
ASSUME FaultsAssumption == MaxFaults \in Nat

VARIABLES
    circuit_state,
    circuit_failures,
    circuit_open_until,
    pc,       \* where the processing goroutine is
    due,      \* history: time left until the "until" last computed by
              \*   updateCircuitOnFailure; 0 once a download finishes
    streak,   \* history: failures since the last finished download
    faults,   \* history: statements lost, queries failed and crashes so far
    dirty     \* history: one of them came after the last finished download

vars == <<circuit_state, circuit_failures, circuit_open_until, pc, due, streak,
          faults, dirty>>
kv == <<circuit_state, circuit_failures, circuit_open_until>>

NoTime == -1
PC == {"idle", "work", "failed", "count", "setOpen", "setUntil",
       "finished", "setClosed", "dropUntil"}

Init ==
    /\ circuit_state = "unset" /\ circuit_failures = 0 /\ circuit_open_until = NoTime
    /\ pc = "idle" /\ due = 0 /\ streak = 0 /\ faults = 0 /\ dirty = FALSE

Keep == faults' = faults /\ dirty' = dirty
Fault == faults < MaxFaults /\ faults' = faults + 1 /\ dirty' = TRUE

\* A statement whose error is ignored: it takes effect, or it is lost.
Written(var, new) ==
    \/ var' = new /\ Keep
    \/ var' = var /\ Fault

GoTo(label) == pc' = label

-----------------------------------------------------------------------------
(* The start of a cycle (processOnce).                                      *)

Timed == circuit_open_until # NoTime
Skipped == circuit_state = "open" /\ Timed /\ circuit_open_until > 0

\* Mutant: an open circuit without a circuit_open_until counts as still open.
GatePassesBug ==
    /\ pc = "idle" /\ circuit_state # "open"
    /\ GoTo("work") /\ Keep
    /\ UNCHANGED <<kv, due, streak>>

\* Not open, or open without a circuit_open_until: the cycle just goes on.
GatePasses ==
    /\ pc = "idle" /\ ~(circuit_state = "open" /\ Timed)
    /\ GoTo("work") /\ Keep
    /\ UNCHANGED <<kv, due, streak>>

\* Open and past circuit_open_until: half-open, and the cycle goes on.
GateProbes ==
    /\ pc = "idle" /\ circuit_state = "open" /\ Timed /\ ~Skipped
    /\ GoTo("work")
    /\ Written(circuit_state, "half-open")
    /\ UNCHANGED <<circuit_failures, circuit_open_until, due, streak>>

\* The read of circuit_state fails, or that of circuit_open_until: the error is ignored,
\* and the empty string is neither "open" nor a time to wait for.
GateBlind ==
    /\ pc = "idle" /\ circuit_state = "open" /\ Fault
    /\ GoTo("work")
    /\ UNCHANGED <<kv, due, streak>>

\* No verdict: throttled, nothing to do, cancelled, or auth-required.
NoVerdict ==
    /\ pc = "work"
    /\ GoTo("idle") /\ Keep
    /\ UNCHANGED <<kv, due, streak>>

DownloadFails ==
    /\ pc = "work"
    /\ GoTo("failed") /\ Keep
    /\ streak' = IF streak > Threshold THEN streak ELSE streak + 1
    /\ UNCHANGED <<kv, due>>

DownloadFinishes ==
    /\ pc = "work"
    /\ GoTo("finished")
    /\ streak' = 0 /\ due' = 0 /\ dirty' = FALSE
    /\ UNCHANGED <<kv, faults>>

-----------------------------------------------------------------------------
(* updateCircuitOnFailure                                                   *)

\* Mutant: a cooldown one tick too long.
TripBug == GoTo("setOpen") /\ due' = Cooldown + 1

\* The circuit is to open: "until" is computed before either row is written.
Trip == GoTo("setOpen") /\ due' = Cooldown

\* With the threshold unset nothing is done.  Half-open opens at once, unless the
\* read of circuit_state fails: then the failure is counted as if it were closed.
ReadState ==
    /\ pc = "failed"
    /\ IF Threshold = 0 THEN GoTo("idle") /\ due' = due /\ Keep
       ELSE \/ circuit_state = "half-open" /\ Trip /\ Keep
            \/ circuit_state = "half-open" /\ GoTo("count") /\ due' = due /\ Fault
            \/ circuit_state # "half-open" /\ GoTo("count") /\ due' = due /\ Keep
    /\ UNCHANGED <<kv, streak>>

\* Mutant: the circuit opens one failure late.
CountFailureBug ==
    /\ pc = "count"
    /\ Written(circuit_failures, circuit_failures + 1)
    /\ IF circuit_failures + 1 > Threshold THEN Trip ELSE GoTo("idle") /\ due' = due
    /\ UNCHANGED <<circuit_state, circuit_open_until, streak>>

\* The circuit opens if the count has come to the threshold.
Counted(fails) ==
    IF fails >= Threshold THEN Trip ELSE GoTo("idle") /\ due' = due

\* If the read of circuit_failures fails the count starts again at 1.
CountFailure ==
    /\ pc = "count"
    /\ \/ /\ Written(circuit_failures, circuit_failures + 1)
          /\ Counted(circuit_failures + 1)
       \/ /\ Fault
          /\ circuit_failures' \in {1, circuit_failures}
          /\ Counted(1)
    /\ UNCHANGED <<circuit_state, circuit_open_until, streak>>

SetOpen ==
    /\ pc = "setOpen"
    /\ Written(circuit_state, "open")
    /\ GoTo("setUntil")
    /\ UNCHANGED <<circuit_failures, circuit_open_until, due, streak>>

\* Mutant: circuit_open_until is not written.
SetUntilBug ==
    /\ pc = "setUntil" /\ GoTo("idle") /\ Keep
    /\ UNCHANGED <<kv, due, streak>>

SetUntil ==
    /\ pc = "setUntil"
    /\ Written(circuit_open_until, due)
    /\ GoTo("idle")
    /\ UNCHANGED <<circuit_state, circuit_failures, due, streak>>

-----------------------------------------------------------------------------
(* resetCircuit                                                             *)

\* Mutant: a finished download closes the circuit and keeps the counter.
ClearFailuresBug ==
    /\ pc = "finished" /\ GoTo("setClosed") /\ Keep
    /\ UNCHANGED <<kv, due, streak>>

\* Nothing is to be done if the state is closed and the threshold unset.
AlreadyClosed == circuit_state = "closed" /\ Threshold = 0

\* If the read of circuit_state fails the rows are written all the same.
ClearFailures ==
    /\ pc = "finished"
    /\ \/ IF AlreadyClosed THEN GoTo("idle") /\ Keep /\ UNCHANGED circuit_failures
          ELSE GoTo("setClosed") /\ Written(circuit_failures, 0)
       \/ GoTo("setClosed") /\ Fault /\ circuit_failures' \in {0, circuit_failures}
    /\ UNCHANGED <<circuit_state, circuit_open_until, due, streak>>

SetClosed ==
    /\ pc = "setClosed"
    /\ Written(circuit_state, "closed")
    /\ GoTo("dropUntil")
    /\ UNCHANGED <<circuit_failures, circuit_open_until, due, streak>>

DropUntil ==
    /\ pc = "dropUntil"
    /\ Written(circuit_open_until, NoTime)
    /\ GoTo("idle")
    /\ UNCHANGED <<circuit_state, circuit_failures, due, streak>>

-----------------------------------------------------------------------------
\* The process dies and is restarted: only the kv rows survive.
Crash ==
    /\ pc # "idle" /\ Fault
    /\ GoTo("idle")
    /\ UNCHANGED <<kv, due, streak>>

Less(t) == IF t > 0 THEN t - 1 ELSE t

Tick ==
    /\ due' = Less(due)
    /\ circuit_open_until' = Less(circuit_open_until)
    /\ UNCHANGED <<circuit_state, circuit_failures, pc, streak, faults, dirty>>

Gate == GatePasses \/ GateProbes \/ GateBlind
Verdict == NoVerdict \/ DownloadFails \/ DownloadFinishes
OnFailure == ReadState \/ CountFailure \/ SetOpen \/ SetUntil
OnSuccess == ClearFailures \/ SetClosed \/ DropUntil
Cycle == Gate \/ Verdict \/ OnFailure \/ OnSuccess

Next == Cycle \/ Crash \/ Tick

Spec == Init /\ [][Next]_vars

(***************************************************************************)
(* The goroutine's ticker keeps starting cycles, a cycle keeps executing    *)
(* its statements, and time passes.                                         *)
(***************************************************************************)
FairSpec == Spec /\ WF_vars(Cycle) /\ WF_vars(Tick)

-----------------------------------------------------------------------------
TypeOK ==
    /\ circuit_state \in {"unset", "closed", "open", "half-open"}
    /\ circuit_failures \in Nat
    /\ circuit_open_until \in {NoTime} \cup 0 .. Cooldown
    /\ pc \in PC
    /\ due \in 0 .. Cooldown
    /\ streak \in Nat
    /\ faults \in 0 .. MaxFaults
    /\ dirty \in BOOLEAN

(***************************************************************************)
(* Once updateCircuitOnFailure has decided to open the circuit, no cycle    *)
(* works before the cooldown it computed is over, although the decision is  *)
(* written as two rows and read back as two others.  A fault suspends this   *)
(* (one between the two rows leaves an open circuit that the gate lets pass) *)
(* only until the next download that finishes: whatever the three rows hold  *)
(* by then, resetCircuit leaves nothing of it.                               *)
(***************************************************************************)
CooldownHonoured == ~dirty /\ pc = "work" => due = 0

(***************************************************************************)
(* The circuit opens after exactly Threshold failures in a row: between     *)
(* cycles a circuit that is not open or half-open has seen fewer, and the    *)
(* counter kept in kv is that number, unless something was lost since the    *)
(* last finished download.                                                   *)
(***************************************************************************)
ClosedMeansFewFailures ==
    /\ ~dirty /\ Threshold > 0
    /\ pc = "idle" /\ circuit_state \in {"unset", "closed"}
    => streak = circuit_failures /\ streak < Threshold

(***************************************************************************)
(* Whatever is lost, the channel never stops for good: an open circuit is   *)
(* followed by a cycle that works.                                          *)
(***************************************************************************)
OpenIsLeft == (circuit_state = "open") ~> (pc = "work")

(***************************************************************************)
(* The refinement of BreakerSpec: a verdict counts when it is decided, the   *)
(* statements that write it down later are stuttering steps.                 *)
(***************************************************************************)
Mode ==
    IF pc \in {"setOpen", "setUntil"} THEN "open"
    ELSE IF pc \in {"finished", "setClosed", "dropUntil"} THEN "closed"
    ELSE IF circuit_state = "unset" THEN "closed" ELSE circuit_state

Closing == pc \in {"finished", "setClosed", "dropUntil"}

breaker == [mode  |-> Mode,
            fails |-> IF Closing THEN 0 ELSE circuit_failures,
            cool  |-> IF Closing THEN 0 ELSE due]

Abstract == INSTANCE BreakerSpec

(***************************************************************************)
(* The stepwise breaker implements the atomic one, except from a fault to    *)
(* the next finished download: that one puts the breaker back to its initial *)
(* value, from any rows a fault may have left, and from there on every step  *)
(* is again one of the atomic breaker.                                       *)
(***************************************************************************)
ImplementsBreaker == Abstract!Init /\ [][~dirty /\ ~dirty' => Abstract!Next]_breaker
=============================================================================
