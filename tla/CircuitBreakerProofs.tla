----------------------- MODULE CircuitBreakerProofs -----------------------
(***************************************************************************)
(* Theorems about the circuit breaker of one channel, for every threshold   *)
(* and every cooldown.                                                      *)
(***************************************************************************)
EXTENDS CircuitBreaker, TLAPS

\* What the assumptions say of the constants.
LEMMA Constants == Threshold \in Nat /\ Cooldown \in Nat /\ MaxFaults \in Nat
BY CircuitAssumption, FaultsAssumption

(***************************************************************************)
(* Every variable keeps its type: in particular circuit_open_until never    *)
(* lies further ahead than one cooldown.                                    *)
(***************************************************************************)
THEOREM TypeCorrect == Spec => []TypeOK
<1>1. Init => TypeOK
  <2>1. Init => dirty \in BOOLEAN
    BY Zenon DEF Init
  <2>2. Init => /\ circuit_state = "unset" /\ circuit_failures \in Nat
                /\ circuit_open_until = NoTime /\ pc \in PC /\ due \in 0 .. Cooldown
                /\ streak \in Nat /\ faults \in 0 .. MaxFaults
    BY Constants, SMT DEF Init, PC
  <2> QED
    BY <2>1, <2>2, Zenon DEF TypeOK
<1>2. TypeOK /\ [Next]_vars => TypeOK'
  <2> SUFFICES ASSUME TypeOK, [Next]_vars PROVE TypeOK'
    OBVIOUS
  <2> DEFINE Rest == /\ circuit_state \in {"unset", "closed", "open", "half-open"}
                     /\ circuit_failures \in Nat
                     /\ circuit_open_until \in {NoTime} \cup 0 .. Cooldown
                     /\ pc \in PC
                     /\ due \in 0 .. Cooldown
                     /\ streak \in Nat
                     /\ faults \in 0 .. MaxFaults
  <2>1. Rest'
    <3> Rest
      BY DEF TypeOK
    <3> USE Constants DEF PC, NoTime, GoTo, Keep, Fault, Written, kv
    <3>1. CASE Gate
      BY <3>1 DEF Gate, GatePasses, GateProbes, GateBlind
    <3>2. CASE Verdict
      BY <3>2 DEF Verdict, NoVerdict, DownloadFails, DownloadFinishes
    <3>3. CASE OnFailure
      BY <3>3 DEF OnFailure, ReadState, CountFailure, SetOpen, SetUntil, Trip, Counted
    <3>4. CASE OnSuccess
      BY <3>4 DEF OnSuccess, AlreadyClosed, ClearFailures, SetClosed, DropUntil
    <3>5. CASE Crash
      BY <3>5 DEF Crash
    <3>6. CASE Tick
      BY <3>6 DEF Tick, Less
    <3>7. CASE UNCHANGED vars
      BY <3>7 DEF vars
    <3> QED
      BY <3>1, <3>2, <3>3, <3>4, <3>5, <3>6, <3>7 DEF Next, Cycle
  <2>2. dirty' \in {dirty, TRUE, FALSE}
    BY Zenon DEF Next, Cycle, Gate, GatePasses, GateProbes, GateBlind, Verdict, NoVerdict,
       DownloadFails, DownloadFinishes, OnFailure, ReadState, CountFailure, SetOpen,
       SetUntil, OnSuccess, ClearFailures, SetClosed, DropUntil, Crash, Tick, Keep, Fault,
       Written, vars
  <2> QED
    BY <2>1, <2>2, Zenon DEF TypeOK
<1> QED
  BY <1>1, <1>2, PTL DEF Spec

-----------------------------------------------------------------------------
(* The inductive invariant: it holds of every state that no fault has       *)
(* touched since the last finished download.                                *)

\* Whatever was lost, a circuit whose threshold is unset never counts and never opens.
OffStaysOff ==
    Threshold = 0 =>
        /\ circuit_failures = 0
        /\ circuit_state \in {"unset", "closed"}
        /\ pc \notin {"count", "setOpen", "setUntil"}

\* The rows and the time computed last agree, except while they are written.
RowsAgree ==
    /\ pc = "idle" /\ circuit_state = "open" => circuit_open_until = due
    /\ circuit_state # "open" /\ pc # "setOpen" => due = 0
    /\ Closing => due = 0
    /\ pc = "setUntil" => circuit_state = "open"
    /\ circuit_state = "open" => pc \in {"idle", "setUntil", "finished", "setClosed"}
    /\ pc = "dropUntil" => circuit_state = "closed"

\* The counter is the number of failures in a row that have been written down.
CountAgrees ==
    /\ Closing => streak = 0
    /\ pc \in {"setClosed", "dropUntil"} => circuit_failures = 0
    /\ Threshold > 0 /\ circuit_state \in {"unset", "closed"} =>
          /\ pc \in {"idle", "work"} => streak = circuit_failures /\ streak < Threshold
          /\ pc \in {"failed", "count"} =>
                streak = circuit_failures + 1 /\ circuit_failures < Threshold
    /\ pc = "count" => circuit_state \in {"unset", "closed"} /\ Threshold > 0

CleanInv == ~dirty => RowsAgree /\ CountAgrees

\* A breaker whose threshold is unset stays off.
LEMMA OffHolds == Spec => []OffStaysOff
<1> USE Constants
<1>1. Init => OffStaysOff
  BY DEF Init, OffStaysOff
<1>2. TypeOK /\ OffStaysOff /\ [Next]_vars => OffStaysOff'
  <2> SUFFICES ASSUME TypeOK, OffStaysOff, [Next]_vars, Threshold = 0
               PROVE  OffStaysOff'
    BY DEF OffStaysOff
  <2> USE DEF TypeOK, PC, NoTime, GoTo, Keep, Fault, Written, kv, OffStaysOff
  <2>1. CASE Gate
    BY <2>1 DEF Gate, GatePasses, GateProbes, GateBlind, Timed, Skipped
  <2>2. CASE Verdict
    BY <2>2 DEF Verdict, NoVerdict, DownloadFails, DownloadFinishes
  <2>3. CASE OnFailure
    BY <2>3 DEF OnFailure, ReadState, CountFailure, SetOpen, SetUntil, Trip, Counted
  <2>4. CASE OnSuccess
    BY <2>4 DEF OnSuccess, AlreadyClosed, ClearFailures, SetClosed, DropUntil
  <2>5. CASE Crash
    BY <2>5 DEF Crash
  <2>6. CASE Tick
    BY <2>6 DEF Tick, Less
  <2>7. CASE UNCHANGED vars
    BY <2>7 DEF vars
  <2> QED
    BY <2>1, <2>2, <2>3, <2>4, <2>5, <2>6, <2>7 DEF Next, Cycle
<1> QED
  BY <1>1, <1>2, TypeCorrect, PTL DEF Spec

\* Only a finished download leaves faults behind, and it makes no new ones.
LEMMA CleanSteps ==
  ASSUME TypeOK, [Next]_vars, ~dirty'
  PROVE  ~dirty \/ DownloadFinishes
BY DEF TypeOK, Next, Cycle, Gate, GatePasses, GateProbes, GateBlind, Verdict, NoVerdict,
       DownloadFails, OnFailure, ReadState, CountFailure, Counted,
       SetOpen, SetUntil, OnSuccess, AlreadyClosed, ClearFailures, SetClosed, DropUntil,
       Crash, Tick, Keep, Fault, Written, vars

\* A finished download establishes the strengthened invariant, whatever the rows hold.
LEMMA FinishCleans ==
  ASSUME TypeOK, OffStaysOff, DownloadFinishes
  PROVE  RowsAgree' /\ CountAgrees'
BY Constants
DEF TypeOK, OffStaysOff, DownloadFinishes, GoTo, kv, RowsAgree, CountAgrees, Closing, NoTime

\* The strengthened invariant holds until a fault, and again from the next finished download.
LEMMA CleanInvHolds == Spec => []CleanInv
<1> USE Constants
<1>1. Init => CleanInv
  BY DEF Init, CleanInv, RowsAgree, CountAgrees, Closing
<1>2. TypeOK /\ OffStaysOff /\ CleanInv /\ [Next]_vars => CleanInv'
  <2> SUFFICES ASSUME TypeOK, OffStaysOff, CleanInv, [Next]_vars, ~dirty'
               PROVE  RowsAgree' /\ CountAgrees'
    BY DEF CleanInv
  <2>1. CASE DownloadFinishes
    BY <2>1, FinishCleans
  <2>2. CASE ~dirty
    <3>1. RowsAgree /\ CountAgrees
      BY <2>2 DEF CleanInv
    <3> USE <2>2, <3>1 DEF TypeOK, PC, NoTime, GoTo, Keep, Fault, Written, kv,
                           RowsAgree, CountAgrees, Closing, OffStaysOff
    <3>3. CASE Gate
      BY <3>3 DEF Gate, GatePasses, GateProbes, GateBlind, Timed, Skipped
    <3>4. CASE NoVerdict \/ DownloadFails
      BY <3>4 DEF NoVerdict, DownloadFails
    <3>5. CASE OnFailure
      BY <3>5 DEF OnFailure, ReadState, CountFailure, SetOpen, SetUntil, Trip, Counted
    <3>6. CASE OnSuccess
      BY <3>6 DEF OnSuccess, AlreadyClosed, ClearFailures, SetClosed, DropUntil
    <3>7. CASE Crash
      BY <3>7 DEF Crash
    <3>8. CASE Tick
      BY <3>8 DEF Tick, Less
    <3>9. CASE UNCHANGED vars
      BY <3>9 DEF vars
    <3> QED
      BY <2>1, <3>3, <3>4, <3>5, <3>6, <3>7, <3>8, <3>9 DEF Next, Cycle, Verdict
  <2> QED
    BY <2>1, <2>2, CleanSteps
<1> QED
  BY <1>1, <1>2, TypeCorrect, OffHolds, PTL DEF Spec

(***************************************************************************)
(* Unless something was lost since the last finished download, no cycle      *)
(* works during a cooldown, although opening the circuit and looking at it   *)
(* are two statements each.                                                 *)
(***************************************************************************)
THEOREM CooldownIsHonoured == Spec => []CooldownHonoured
<1>1. CleanInv => CooldownHonoured
  BY DEF CleanInv, RowsAgree, CooldownHonoured
<1> QED
  BY <1>1, CleanInvHolds, PTL

(***************************************************************************)
(* Unless something was lost since the last finished download, a closed      *)
(* circuit has seen fewer than Threshold failures in a row, and its counter  *)
(* is their number: it opens neither early nor late.                         *)
(***************************************************************************)
THEOREM OpensOnTime == Spec => []ClosedMeansFewFailures
<1>1. CleanInv => ClosedMeansFewFailures
  BY DEF CleanInv, CountAgrees, ClosedMeansFewFailures
<1> QED
  BY <1>1, CleanInvHolds, PTL

-----------------------------------------------------------------------------
(* Refinement of BreakerSpec.                                               *)

(***************************************************************************)
(* Until a fault, and again from the next finished download, the             *)
(* statement-by-statement breaker implements the atomic one: every verdict   *)
(* takes effect at once and in full.                                        *)
(***************************************************************************)
THEOREM Refinement == Spec => ImplementsBreaker
<1> USE Constants
<1>1. Init => Abstract!Init
  BY DEF Init, Abstract!Init, InitialBreaker, Abstract!InitialBreaker, breaker, Mode, Closing
<1>2. TypeOK /\ OffStaysOff /\ CleanInv /\ [Next]_vars
        => [~dirty /\ ~dirty' => Abstract!Next]_breaker
  <2> SUFFICES ASSUME TypeOK, OffStaysOff, CleanInv, [Next]_vars, ~dirty, ~dirty'
               PROVE  [Abstract!Next]_breaker
    OBVIOUS
  <2>1. ~Fault
    BY DEF Fault
  <2>2. RowsAgree /\ CountAgrees
    BY DEF CleanInv
  <2> USE <2>1, <2>2 DEF TypeOK, PC, NoTime, GoTo, Keep, Written, kv, RowsAgree,
          CountAgrees, breaker, Mode, Closing, OffStaysOff
  <2>3. CASE GateProbes
    <3>1. Abstract!Probe
      BY <2>3 DEF GateProbes, Timed, Skipped, Abstract!Probe, Abstract!Skips, Abstract!Admit
    <3> QED
      BY <3>1 DEF Abstract!Next
  <2>4. CASE GatePasses \/ GateBlind \/ NoVerdict \/ DownloadFails
    BY <2>4 DEF GatePasses, GateBlind, NoVerdict, DownloadFails, Timed
  <2>5. CASE DownloadFinishes
    <3>1. Abstract!Success
      BY <2>5 DEF DownloadFinishes, Abstract!Success, Abstract!Reset, Abstract!InitialBreaker
    <3> QED
      BY <3>1 DEF Abstract!Next
  <2>6. CASE ReadState
    <3>1. CASE circuit_state = "half-open" /\ Threshold > 0
      <4>1. Abstract!Fail(breaker) = Abstract!Opened(breaker)
        BY <2>6, <3>1 DEF ReadState, Abstract!Fail
      <4>2. breaker = [mode |-> "half-open", fails |-> circuit_failures, cool |-> 0]
        BY <2>6, <3>1 DEF ReadState
      <4>3. breaker' = [mode |-> "open", fails |-> circuit_failures, cool |-> Cooldown]
        BY <2>6, <3>1 DEF ReadState, Trip
      <4>4. Abstract!Opened(breaker) = breaker'
        BY <4>2, <4>3 DEF Abstract!Opened
      <4>5. Abstract!Failure
        BY <4>1, <4>2, <4>4 DEF Abstract!Failure
      <4> QED
        BY <4>5 DEF Abstract!Next
    <3>2. CASE circuit_state # "half-open" \/ Threshold = 0
      BY <2>6, <3>2 DEF ReadState
    <3> QED
      BY <3>1, <3>2
  <2>7. CASE CountFailure
    <3> DEFINE counted == [breaker EXCEPT !.fails = @ + 1]
    <3>1. /\ breaker.mode = "closed" /\ Threshold > 0
          /\ counted = [mode |-> "closed", fails |-> circuit_failures + 1, cool |-> 0]
      BY <2>7 DEF CountFailure, Counted
    <3>2. CASE circuit_failures + 1 >= Threshold
      <4>1. Abstract!Fail(breaker) = Abstract!Opened(counted)
        BY <3>1, <3>2 DEF Abstract!Fail
      <4>2. breaker' = [mode |-> "open", fails |-> circuit_failures + 1, cool |-> Cooldown]
        BY <2>7, <3>2 DEF CountFailure, Counted, Trip
      <4>3. Abstract!Opened(counted) = breaker'
        BY <3>1, <4>2 DEF Abstract!Opened
      <4>4. Abstract!Failure
        BY <3>1, <4>1, <4>3 DEF Abstract!Failure
      <4> QED
        BY <4>4 DEF Abstract!Next
    <3>3. CASE ~(circuit_failures + 1 >= Threshold)
      <4>1. Abstract!Fail(breaker) = counted
        BY <3>1, <3>3 DEF Abstract!Fail
      <4>2. breaker' = [mode |-> "closed", fails |-> circuit_failures + 1, cool |-> 0]
        BY <2>7, <3>3 DEF CountFailure, Counted
      <4> QED
        BY <3>1, <4>1, <4>2 DEF Abstract!Failure, Abstract!Next
    <3> QED
      BY <3>2, <3>3
  <2>8. CASE SetOpen \/ SetUntil
    BY <2>8 DEF SetOpen, SetUntil
  <2>9. CASE OnSuccess
    BY <2>9 DEF OnSuccess, AlreadyClosed, ClearFailures, SetClosed, DropUntil
  <2>10. CASE Crash
    BY <2>10 DEF Crash
  <2>11. CASE Tick
    <3>1. Abstract!Time
      BY <2>11 DEF Tick, Less, Abstract!Time, Abstract!Cooled
    <3> QED
      BY <3>1 DEF Abstract!Next
  <2>12. CASE UNCHANGED vars
    BY <2>12 DEF vars
  <2> QED
    BY <2>3, <2>4, <2>5, <2>6, <2>7, <2>8, <2>9, <2>10, <2>11, <2>12
    DEF Next, Cycle, Gate, Verdict, OnFailure
<1> QED
  BY <1>1, <1>2, TypeCorrect, OffHolds, CleanInvHolds, PTL
  DEF Spec, ImplementsBreaker
===========================================================================
