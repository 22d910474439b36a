---------------------------- MODULE HelixClient ----------------------------
(***************************************************************************)
(* requestJSON of backend/twitchapi/helix.go, under every request to Helix,   *)
(* with the app token of token.go.  Each caller has a client and a token of   *)
(* its own.  An attempt that fails for a while is repeated, and after the    *)
(* first 401 the token is replaced.  This module has the steps of a call;     *)
(* Catalog makes the calls.                                                 *)
(***************************************************************************)
EXTENDS Naturals

CONSTANTS
    Callers,
    MaxRetries,  \* helixMaxRetries (4)
    MaxBlips,    \* bound: answers 429 and 5xx, and requests without an answer
    MaxFaults    \* bound: everything else that fails

ASSUME HelixAssumption ==
    MaxRetries \in Nat \ {0} /\ MaxBlips \in Nat /\ MaxFaults \in Nat

VARIABLES
    call,     \* the call a caller waits for
    token,    \* its TokenSource: "none", "good", or "revoked" by Twitch
    revoked,  \* whether Twitch has revoked the tokens; it does so once
    blips, faults

helix == <<call, token, revoked, blips>>

\* unused: a token replaced after a 401 has not been sent yet.
NoCall == [st |-> "none", attempt |-> 1, refreshed |-> FALSE, unused |-> FALSE]

HelixInit ==
    /\ call = [c \in Callers |-> NoCall] /\ token = [c \in Callers |-> "none"]
    /\ revoked = FALSE /\ blips = 0 /\ faults = 0

Fault == faults < MaxFaults /\ faults' = faults + 1

Request == [NoCall EXCEPT !.st = "get"]

Fails(c) == call' = [call EXCEPT ![c].st = "error"]

\* TokenSource.Get: the cached token, or a new one.
Get(c) ==
    /\ call[c].st = "get"
    /\ \/ /\ call' = [call EXCEPT ![c].st = "send"]
          /\ token' = [token EXCEPT ![c] = IF @ = "none" THEN "good" ELSE @]
          /\ faults' = faults
       \/ token[c] = "none" /\ Fault /\ Fails(c) /\ token' = token
    /\ UNCHANGED <<revoked, blips>>

\* The request, with the number of the attempt after it.
Sent(c, st, attempt) ==
    [call[c] EXCEPT !.st = st, !.attempt = attempt, !.unused = FALSE]

Succeeds(c) ==
    /\ call[c].st = "send" /\ token[c] = "good"
    /\ call' = [call EXCEPT ![c] = Sent(c, "ok", call[c].attempt)]
    /\ UNCHANGED <<token, revoked, blips, faults>>

\* Mutant: the last attempt is not given back.
NextAttemptBug(attempt) == attempt + 1

\* After a 401 on the last attempt the counter is rolled back.
NextAttempt(attempt) == IF attempt = MaxRetries THEN attempt ELSE attempt + 1

\* The loop goes on while there are attempts.
Loops(attempt) == IF attempt <= MaxRetries THEN "get" ELSE "error"

Unauthorized(c) ==
    /\ call[c].st = "send" /\ token[c] = "revoked"
    /\ LET next == NextAttempt(call[c].attempt) IN
       IF call[c].refreshed
       THEN call' = [call EXCEPT ![c] = Sent(c, "error", call[c].attempt)] /\ token' = token
       ELSE /\ call' = [call EXCEPT ![c] = [Sent(c, Loops(next), next) EXCEPT
                                               !.refreshed = TRUE, !.unused = TRUE]]
            /\ token' = [token EXCEPT ![c] = "none"]
    /\ UNCHANGED <<revoked, blips, faults>>

\* Mutant: one retry less.
RetriesBug(attempt) == attempt + 1 < MaxRetries

\* Mutant: one retry more.
RetriesMoreBug(attempt) == attempt <= MaxRetries

Retries(attempt) == attempt < MaxRetries

\* No answer, 429 or 5xx: again, after a delay, unless this was the last attempt.
Blip(c) ==
    /\ call[c].st = "send" /\ blips < MaxBlips /\ blips' = blips + 1
    /\ call' = [call EXCEPT ![c] =
                   IF Retries(call[c].attempt)
                   THEN Sent(c, "get", call[c].attempt + 1)
                   ELSE Sent(c, "error", call[c].attempt)]
    /\ UNCHANGED <<token, revoked, faults>>

\* Any other answer, or one that cannot be decoded.
Refused(c) ==
    /\ call[c].st = "send" /\ Fault
    /\ call' = [call EXCEPT ![c] = Sent(c, "error", call[c].attempt)]
    /\ UNCHANGED <<token, revoked, blips>>

\* Twitch: the tokens it has given out are not valid any more.
Revoke ==
    /\ ~revoked /\ revoked' = TRUE
    /\ token' = [c \in Callers |-> IF token[c] = "good" THEN "revoked" ELSE token[c]]
    /\ UNCHANGED <<call, blips, faults>>

HelixStep(c) == Get(c) \/ Succeeds(c) \/ Unauthorized(c) \/ Blip(c) \/ Refused(c)

-----------------------------------------------------------------------------
HelixTypeOK ==
    /\ \A c \in Callers :
           /\ call[c].st \in {"none", "get", "send", "ok", "error"}
           /\ call[c].attempt \in 1 .. MaxRetries
           /\ call[c].refreshed \in BOOLEAN /\ call[c].unused \in BOOLEAN
    /\ token \in [Callers -> {"none", "good", "revoked"}]
    /\ revoked \in BOOLEAN /\ blips \in 0 .. MaxBlips /\ faults \in 0 .. MaxFaults

(***************************************************************************)
(* helix.go: "the refreshed token still gets at least one more request".      *)
(* Unless the request for the token itself fails, a call whose token Twitch   *)
(* refused does not give up before the new one has been tried, on whichever   *)
(* attempt the 401 came.                                                     *)
(***************************************************************************)
RefreshedIsTried ==
    \A c \in Callers : faults = 0 /\ call[c].st = "error" => ~call[c].unused
=============================================================================
