-------------------------- MODULE DownloadVODProofs --------------------------
(***************************************************************************)
(* Theorems about downloadVOD, for every number of attempts and of calls.    *)
(***************************************************************************)
EXTENDS DownloadVOD, TLAPS

\* What the assumptions say of the constants.
LEMMA Constants == MaxAttempts \in Nat \ {0} /\ MaxCalls \in Nat \ {0}
BY AttemptsAssumption, CallsAssumption

(***************************************************************************)
(* What the place in the loop says of the attempt, of its process and of the *)
(* registry; RegistryIsCurrent and NoStrayProcess are parts of it.           *)
(***************************************************************************)
Place ==
    /\ pc \in {"spawn", "register", "wait", "unregister", "decide", "backoff"}
          => attempt \in 1 .. MaxAttempts
    /\ pc = "exhausted" => attempt = MaxAttempts + 1
    /\ pc = "backoff" => entry = 0
    /\ pc \in {"register", "wait"} => proc # "none"
    /\ pc \in {"unregister", "decide"} => proc \in {"ok", "failed", "killed"}

\* TypeOK in three parts: the loop; sets and flags; the rest.
LoopTypes ==
    /\ pc \in {"idle", "backoff", "spawn", "register", "wait", "unregister", "decide",
               "exhausted"}
    /\ attempt \in 0 .. MaxAttempts + 1 /\ entry \in 0 .. MaxAttempts
    /\ proc \in {"none", "running", "ok", "failed", "killed"}

SetTypes ==
    /\ chunks \subseteq Attempts
    /\ ctxDone \in BOOLEAN /\ downloaded_path \in BOOLEAN

OtherTypes ==
    /\ download_state \in {"unset", "progress", "complete", "canceled"}
    /\ download_retries \in Nat /\ missed \in Nat /\ calls \in 0 .. MaxCalls
    /\ result \in {"none", "ok", "canceled", "auth", "failed"}

LoopInv == LoopTypes /\ Place /\ RegistryIsCurrent /\ NoStrayProcess

DownloadInv == LoopInv /\ SetTypes /\ OtherTypes

\* The strengthened invariant of the downloader holds.
LEMMA InvHolds == Spec => []DownloadInv
<1> USE Constants
<1>1. Init => DownloadInv
  <2>1. Init => LoopInv
    BY DEF Init, LoopInv, LoopTypes, Place, RegistryIsCurrent, NoStrayProcess, Running
  <2>2. Init => SetTypes
    BY DEF Init, SetTypes
  <2>3. Init => OtherTypes
    BY DEF Init, OtherTypes
  <2> QED
    BY <2>1, <2>2, <2>3 DEF DownloadInv
<1>2. LoopInv /\ [Next]_vars => LoopInv'
  <2> SUFFICES ASSUME LoopInv, [Next]_vars PROVE LoopInv'
    OBVIOUS
  <2> USE DEF LoopInv, LoopTypes, Place, RegistryIsCurrent, NoStrayProcess, Running
  <2>1. CASE Call
    BY <2>1 DEF Call
  <2>2. CASE Backoff \/ Spawn \/ SpawnFails \/ Register
    BY <2>2 DEF Backoff, Spawn, SpawnFails, Register, Return
  <2>3. CASE Reap \/ Unregister
    BY <2>3 DEF Reap, Unregister
  <2>4. CASE Complete
    BY <2>4 DEF Complete, Return
  <2>5. CASE StopAtShutdown
    BY <2>5 DEF StopAtShutdown, Return
  <2>6. CASE CountRetry
    BY <2>6 DEF CountRetry, AttemptCounted
  <2>7. CASE Exhausted
    BY <2>7 DEF Exhausted, Return
  <2>8. CASE \E how \in {"ok", "failed"} : ProcessExits(how)
    BY <2>8 DEF ProcessExits
  <2>9. CASE ReadChunk \/ \E a \in Attempts : WriteProgress(a)
    BY <2>9 DEF ReadChunk, WriteProgress
  <2>10. CASE Cancel \/ Shutdown \/ ContextKills
    BY <2>10 DEF Cancel, Shutdown, ContextKills
  <2>11. CASE UNCHANGED vars
    BY <2>11 DEF vars
  <2> QED
    BY <2>1, <2>2, <2>3, <2>4, <2>5, <2>6, <2>7, <2>8, <2>9, <2>10, <2>11 DEF Next, Caller
<1>3. LoopInv /\ SetTypes /\ [Next]_vars => SetTypes'
  <2> SUFFICES ASSUME LoopInv, SetTypes, [Next]_vars PROVE SetTypes'
    OBVIOUS
  <2>1. pc = "wait" => attempt \in Attempts
    BY DEF LoopInv, Place, Attempts
  <2>2. entry # 0 => attempt \in Attempts
    BY DEF LoopInv, Place, RegistryIsCurrent, Attempts
  <2> QED
    BY <2>1, <2>2, Zenon DEF SetTypes, row,
         Next, Caller, Call, Backoff, Spawn, SpawnFails, Register, Reap, Unregister,
         Complete, StopAtShutdown, CountRetry, AttemptCounted, Exhausted, ProcessExits, ReadChunk,
         WriteProgress, Cancel, Shutdown, ContextKills, vars
<1>4. OtherTypes /\ [Next]_vars => OtherTypes'
  BY DEF OtherTypes, row,
         Next, Caller, Call, Backoff, Spawn, SpawnFails, Register, Return, Reap, Unregister,
         Complete, StopAtShutdown, CountRetry, AttemptCounted, Exhausted, ProcessExits, ReadChunk,
         WriteProgress, Cancel, Shutdown, ContextKills, vars
<1> QED
  BY <1>1, <1>2, <1>3, <1>4, PTL DEF Spec, DownloadInv

(***************************************************************************)
(* The types of the downloader's state.                                      *)
(***************************************************************************)
THEOREM TypeCorrect == Spec => []TypeOK
<1>1. DownloadInv => TypeOK
  BY DEF DownloadInv, LoopInv, LoopTypes, SetTypes, OtherTypes, TypeOK
<1> QED
  BY <1>1, InvHolds, PTL

(***************************************************************************)
(* activeCancels never holds the function of another attempt than the one     *)
(* downloadVOD waits for, for any number of attempts and calls.              *)
(***************************************************************************)
THEOREM RegistryStaysCurrent == Spec => []RegistryIsCurrent
<1>1. DownloadInv => RegistryIsCurrent
  BY DEF DownloadInv, LoopInv
<1> QED
  BY <1>1, InvHolds, PTL

(***************************************************************************)
(* No yt-dlp runs beyond the attempt that started it.                        *)
(***************************************************************************)
THEOREM NoProcessIsStray == Spec => []NoStrayProcess
<1>1. DownloadInv => NoStrayProcess
  BY DEF DownloadInv, LoopInv
<1> QED
  BY <1>1, InvHolds, PTL

-----------------------------------------------------------------------------
(***************************************************************************)
(* A call does what DownloadSpec says: its failed attempts are counted in    *)
(* download_retries one by one, but for those whose UPDATE is lost, and it   *)
(* ends only as one may end there.                                          *)
(***************************************************************************)
THEOREM Refinement == Spec => ImplementsDownload
<1> USE Constants
<1>1. Init => Abstract!Init
  BY DEF Init, Abstract!Init, busy, spent
<1>2. DownloadInv /\ [Next]_vars => [Abstract!Next]_Abstract!vars
  <2> SUFFICES ASSUME DownloadInv, [Next]_vars
               PROVE  Abstract!Next \/ UNCHANGED Abstract!vars
    OBVIOUS
  <2> USE DEF DownloadInv, LoopInv, LoopTypes, Place, busy, spent, row
  <2>1. CASE Call
    <3>1. Abstract!Begin
      BY <2>1 DEF Call, Abstract!Begin
    <3> QED
      BY <3>1 DEF Abstract!Next
  <2>2. CASE Backoff \/ Spawn \/ Register \/ Reap \/ Unregister
    BY <2>2 DEF Backoff, Spawn, Register, Reap, Unregister, Abstract!vars
  <2>3. CASE SpawnFails
    <3>1. Abstract!Ends
      BY <2>3 DEF SpawnFails, Return, Abstract!Ends, Abstract!End
    <3> QED
      BY <3>1 DEF Abstract!Next
  <2>4. CASE Complete
    <3>1. Abstract!Ends
      BY <2>4 DEF Complete, Return, Abstract!Ends, Abstract!End
    <3> QED
      BY <3>1 DEF Abstract!Next
  <2>5. CASE StopAtShutdown
    <3>1. Abstract!Ends
      BY <2>5 DEF StopAtShutdown, Return, Abstract!Ends, Abstract!End
    <3> QED
      BY <3>1 DEF Abstract!Next
  <2>6. CASE CountRetry
    <3>1. Abstract!AttemptFails
      BY <2>6 DEF CountRetry, AttemptCounted, Abstract!AttemptFails
    <3> QED
      BY <3>1 DEF Abstract!Next
  <2>7. CASE Exhausted
    <3>1. Abstract!Ends
      BY <2>7 DEF Exhausted, Return, Abstract!Ends, Abstract!End
    <3> QED
      BY <3>1 DEF Abstract!Next
  <2>8. ASSUME NEW how \in {"ok", "failed"}, ProcessExits(how) PROVE UNCHANGED Abstract!vars
    BY <2>8 DEF ProcessExits, Abstract!vars
  <2>9. ASSUME NEW a \in Attempts, WriteProgress(a) PROVE UNCHANGED Abstract!vars
    BY <2>9 DEF WriteProgress, Abstract!vars
  <2>10. CASE ReadChunk \/ Cancel \/ Shutdown \/ ContextKills
    BY <2>10 DEF ReadChunk, Cancel, Shutdown, ContextKills, Abstract!vars
  <2>11. CASE UNCHANGED vars
    BY <2>11 DEF vars, Abstract!vars
  <2> QED
    BY <2>1, <2>2, <2>3, <2>4, <2>5, <2>6, <2>7, <2>8, <2>9, <2>10, <2>11 DEF Next, Caller
<1> QED
  BY <1>1, <1>2, InvHolds, PTL DEF Spec, ImplementsDownload, Abstract!Spec
=============================================================================
