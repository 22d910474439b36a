---------------------------- MODULE DownloadVOD ----------------------------
(***************************************************************************)
(* downloadVOD, for one VOD: the loop of yt-dlp attempts, the goroutine     *)
(* that reads each attempt's stderr, the registry through which HTTP        *)
(* requests cancel a download, and the cancellation of the context at       *)
(* shutdown.  At most one call per VOD runs at a time (processOnce of its   *)
(* channel makes it), MaxCalls of them in a behaviour.                      *)
(***************************************************************************)
EXTENDS Naturals, FiniteSets

CONSTANTS MaxAttempts, MaxCalls
ASSUME AttemptsAssumption == MaxAttempts \in Nat \ {0}
ASSUME CallsAssumption == MaxCalls \in Nat \ {0}

VARIABLES
    pc,        \* where the caller's goroutine is
    attempt,   \* the attempt it is in, from 1
    proc,      \* the process of that attempt
    entry,     \* activeCancels[id]: the attempt its function kills, 0 if absent
    chunks,    \* attempts whose reader goroutine holds progress lines it has read
    ctxDone,   \* the context is cancelled (SIGTERM)
    download_state, downloaded_path, download_retries,   \* columns of the row
    result,    \* what the last call returned
    calls,     \* history: calls so far
    missed     \* history: failed attempts whose UPDATE of download_retries was lost

row == <<download_state, downloaded_path, download_retries>>
vars == <<pc, attempt, proc, entry, chunks, ctxDone, row, result, calls, missed>>

Attempts == 1 .. MaxAttempts
Running == proc = "running"

Init ==
    /\ pc = "idle" /\ attempt = 0 /\ proc = "none" /\ entry = 0 /\ chunks = {}
    /\ ctxDone = FALSE
    /\ download_state = "unset" /\ downloaded_path = FALSE /\ download_retries = 0
    /\ result = "none" /\ calls = 0 /\ missed = 0

-----------------------------------------------------------------------------
(* The caller's goroutine.                                                  *)

Call ==
    /\ pc = "idle" /\ calls < MaxCalls
    /\ pc' = "spawn" /\ attempt' = 1 /\ proc' = "none"
    /\ result' = "none" /\ calls' = calls + 1
    /\ UNCHANGED <<entry, chunks, ctxDone, row, missed>>

\* The backoff is slept through; then the entry of the last attempt is deleted.
Backoff ==
    /\ pc = "backoff"
    /\ pc' = "spawn" /\ entry' = 0
    /\ UNCHANGED <<attempt, proc, chunks, ctxDone, row, result, calls, missed>>

\* cmd.Start; it refuses to start under a cancelled context.
Spawn ==
    /\ pc = "spawn" /\ ~ctxDone
    /\ pc' = "register" /\ proc' = "running"
    /\ UNCHANGED <<attempt, entry, chunks, ctxDone, row, result, calls, missed>>

Return(how) == pc' = "idle" /\ result' = how

\* StderrPipe or Start fails: the loop is left and nothing is counted.
SpawnFails ==
    /\ pc = "spawn"
    /\ Return("failed")
    /\ UNCHANGED <<attempt, proc, entry, chunks, ctxDone, row, calls, missed>>

Register ==
    /\ pc = "register"
    /\ pc' = "wait" /\ entry' = attempt
    /\ UNCHANGED <<attempt, proc, chunks, ctxDone, row, result, calls, missed>>

\* Mutant: the call does not wait for the process it has killed.
ReapBug ==
    /\ pc = "wait" /\ (~Running \/ ctxDone)
    /\ pc' = "unregister"
    /\ UNCHANGED <<attempt, proc, entry, chunks, ctxDone, row, result, calls, missed>>

\* cmd.Wait returns once the process is gone.
Reap ==
    /\ pc = "wait" /\ ~Running
    /\ pc' = "unregister"
    /\ UNCHANGED <<attempt, proc, entry, chunks, ctxDone, row, result, calls, missed>>

\* Mutant: the entry of a finished attempt is left behind.
UnregisterBug ==
    /\ pc = "unregister" /\ pc' = "decide"
    /\ UNCHANGED <<attempt, proc, entry, chunks, ctxDone, row, result, calls, missed>>

Unregister ==
    /\ pc = "unregister"
    /\ pc' = "decide" /\ entry' = 0
    /\ UNCHANGED <<attempt, proc, chunks, ctxDone, row, result, calls, missed>>

\* The error of the UPDATE is ignored, as that of every other one here: it may be
\* lost, and under a cancelled context, which it uses, it is.
Complete ==
    /\ pc = "decide" /\ proc = "ok"
    /\ \/ UNCHANGED row
       \/ /\ ~ctxDone
          /\ download_state' = "complete" /\ downloaded_path' = TRUE
          /\ UNCHANGED download_retries
    /\ Return("ok")
    /\ UNCHANGED <<attempt, proc, entry, chunks, ctxDone, calls, missed>>

\* This UPDATE uses context.Background().
StopAtShutdown ==
    /\ pc = "decide" /\ proc # "ok" /\ ctxDone
    /\ download_state' \in {"canceled", download_state}
    /\ Return("canceled")
    /\ UNCHANGED <<attempt, proc, entry, chunks, ctxDone, downloaded_path,
                   download_retries, calls, missed>>

\* The UPDATE that counts a failed attempt takes effect, or it is lost.
AttemptCounted ==
    \/ download_retries' = download_retries + 1 /\ missed' = missed
    \/ download_retries' = download_retries /\ missed' = missed + 1

\* Mutant: the loop runs once too often.
CountRetryOffByOne ==
    /\ pc = "decide" /\ proc # "ok" /\ ~ctxDone
    /\ AttemptCounted
    /\ attempt' = attempt + 1
    /\ pc' = IF attempt <= MaxAttempts THEN "backoff" ELSE "exhausted"
    /\ UNCHANGED <<proc, entry, chunks, ctxDone, download_state, downloaded_path,
                   result, calls>>

\* Mutant: an attempt that a request has killed is not counted.
CountRetryBug ==
    /\ pc = "decide" /\ proc # "ok" /\ ~ctxDone
    /\ IF proc = "killed" THEN UNCHANGED <<download_retries, missed>>
       ELSE AttemptCounted
    /\ attempt' = attempt + 1
    /\ pc' = IF attempt < MaxAttempts THEN "backoff" ELSE "exhausted"
    /\ UNCHANGED <<proc, entry, chunks, ctxDone, download_state, downloaded_path,
                   result, calls>>

CountRetry ==
    /\ pc = "decide" /\ proc # "ok" /\ ~ctxDone
    /\ AttemptCounted
    /\ attempt' = attempt + 1
    /\ pc' = IF attempt < MaxAttempts THEN "backoff" ELSE "exhausted"
    /\ UNCHANGED <<proc, entry, chunks, ctxDone, download_state, downloaded_path,
                   result, calls>>

\* The error carries the tail of stderr, which the reader goroutine fills without
\* synchronisation: the line that tells auth-required may or may not be in it.
Exhausted ==
    /\ pc = "exhausted"
    /\ Return("failed") \/ Return("auth")
    /\ UNCHANGED <<attempt, proc, entry, chunks, ctxDone, row, calls, missed>>

Caller == Backoff \/ Spawn \/ SpawnFails \/ Register \/ Reap \/ Unregister
          \/ Complete \/ StopAtShutdown \/ CountRetry \/ Exhausted

-----------------------------------------------------------------------------
(* Everything that runs beside it.                                          *)

ProcessExits(how) ==
    /\ Running /\ proc' = how
    /\ UNCHANGED <<pc, attempt, entry, chunks, ctxDone, row, result, calls, missed>>

\* The reader goroutine of the current attempt gets a chunk of progress output.
ReadChunk ==
    /\ pc = "wait"
    /\ chunks' = chunks \cup {attempt}
    /\ UNCHANGED <<pc, attempt, proc, entry, ctxDone, row, result, calls, missed>>

\* It writes one line of it, unless the UPDATE is lost; the chunk may hold more.
\* Nothing makes the caller wait for it: cmd.Wait returns when the process is gone.
WriteProgress(a) ==
    /\ a \in chunks
    /\ chunks' \in {chunks, chunks \ {a}}
    /\ download_state' \in IF ctxDone THEN {download_state} ELSE {download_state, "progress"}
    /\ UNCHANGED <<pc, attempt, proc, entry, ctxDone, downloaded_path, download_retries,
                   result, calls, missed>>

\* CancelDownload finds an entry: Kill is called, and has no effect on a process
\* that has exited; the entry goes.  (Without an entry it changes nothing.)
Cancel ==
    /\ entry # 0
    /\ proc' = IF Running THEN "killed" ELSE proc
    /\ entry' = 0
    /\ UNCHANGED <<pc, attempt, chunks, ctxDone, row, result, calls, missed>>

Shutdown ==
    /\ ~ctxDone /\ ctxDone' = TRUE
    /\ UNCHANGED <<pc, attempt, proc, entry, chunks, row, result, calls, missed>>

\* Mutant: the process is not tied to the context.
ContextKillsBug == FALSE /\ UNCHANGED vars

\* exec.CommandContext kills the process of a cancelled context.
ContextKills ==
    /\ ctxDone /\ Running /\ proc' = "killed"
    /\ UNCHANGED <<pc, attempt, entry, chunks, ctxDone, row, result, calls, missed>>

Next ==
    \/ Call \/ Caller
    \/ \E how \in {"ok", "failed"} : ProcessExits(how)
    \/ ReadChunk \/ \E a \in Attempts : WriteProgress(a)
    \/ Cancel \/ Shutdown \/ ContextKills

Spec == Init /\ [][Next]_vars

(***************************************************************************)
(* The caller runs on and a killed process dies.  yt-dlp is called with      *)
(* "--retries infinite": that a process ever exits by itself is not assumed. *)
(***************************************************************************)
FairSpec == Spec /\ WF_vars(Caller) /\ WF_vars(ContextKills)

-----------------------------------------------------------------------------
TypeOK ==
    /\ pc \in {"idle", "backoff", "spawn", "register", "wait", "unregister", "decide",
               "exhausted"}
    /\ attempt \in 0 .. MaxAttempts + 1 /\ entry \in 0 .. MaxAttempts
    /\ proc \in {"none", "running", "ok", "failed", "killed"}
    /\ chunks \subseteq Attempts
    /\ ctxDone \in BOOLEAN /\ downloaded_path \in BOOLEAN
    /\ download_state \in {"unset", "progress", "complete", "canceled"}
    /\ download_retries \in Nat /\ missed \in Nat /\ calls \in 0 .. MaxCalls
    /\ result \in {"none", "ok", "canceled", "auth", "failed"}

(***************************************************************************)
(* The registry never holds the function of another attempt than the one    *)
(* that is being waited for: a cancel request cannot kill the wrong process, *)
(* and none is accepted between attempts or after the call.                 *)
(***************************************************************************)
RegistryIsCurrent == entry # 0 => entry = attempt /\ pc \in {"wait", "unregister"}

(***************************************************************************)
(* No yt-dlp outlives its attempt: not a backoff, not a restart of the loop, *)
(* not the return of downloadVOD.                                           *)
(***************************************************************************)
NoStrayProcess == Running => pc \in {"register", "wait"}

(***************************************************************************)
(* After a shutdown the call returns, however yt-dlp behaves.               *)
(***************************************************************************)
ShutdownEndsCall == ctxDone ~> (pc = "idle")

(***************************************************************************)
(* To processOnce a call is what DownloadSpec says: a number of failed       *)
(* attempts, each one download_retries unless its UPDATE was lost, and one   *)
(* outcome.                                                                 *)
(***************************************************************************)
busy == pc # "idle"
spent == IF attempt = 0 THEN 0 ELSE attempt - 1

Abstract == INSTANCE DownloadSpec WITH retries <- download_retries, outcome <- result

ImplementsDownload == Abstract!Spec

=============================================================================
