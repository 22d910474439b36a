---------------------------- MODULE DownloadSpec ----------------------------
(***************************************************************************)
(* What one call of the downloader does for processOnce: it spends at most  *)
(* MaxAttempts attempts, every attempt that fails is one more               *)
(* download_retries (or one whose UPDATE was lost), and then it ends in one  *)
(* of four ways.                                                            *)
(***************************************************************************)
EXTENDS Naturals

CONSTANT MaxAttempts   \* DOWNLOAD_MAX_ATTEMPTS

VARIABLES
    busy,     \* a call is under way
    spent,    \* its attempts that have failed
    retries,  \* column download_retries
    missed,   \* failed attempts that are not counted in it
    outcome   \* how the last call ended

vars == <<busy, spent, retries, missed, outcome>>

Init == ~busy /\ spent = 0 /\ retries = 0 /\ missed = 0 /\ outcome = "none"

Begin ==
    /\ ~busy /\ busy' /\ spent' = 0 /\ outcome' = "none"
    /\ UNCHANGED <<retries, missed>>

AttemptFails ==
    /\ busy /\ spent < MaxAttempts
    /\ spent' = spent + 1
    /\ \/ retries' = retries + 1 /\ missed' = missed
       \/ retries' = retries /\ missed' = missed + 1
    /\ UNCHANGED <<busy, outcome>>

End(how) == busy /\ ~busy' /\ outcome' = how /\ UNCHANGED <<spent, retries, missed>>

\* "ok" and "canceled" need an attempt that has not failed, "auth" is read off
\* the last one; yt-dlp may fail to start ("failed") at any attempt.
Ends ==
    \/ spent < MaxAttempts /\ (End("ok") \/ End("canceled") \/ End("failed"))
    \/ spent = MaxAttempts /\ (End("auth") \/ End("failed"))

Next == Begin \/ AttemptFails \/ Ends

Spec == Init /\ [][Next]_vars
=============================================================================
