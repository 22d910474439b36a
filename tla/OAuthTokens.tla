---------------------------- MODULE OAuthTokens ----------------------------
(***************************************************************************)
(* The OAuth tokens of one provider: the one row of oauth_tokens they live in  *)
(* and all who write it, each reading the row (or not), talking to the       *)
(* provider, and writing the row back in a later statement.                 *)
(*   - the refreshers of backend/oauth/refresh.go, one in each pod;           *)
(*   - the YouTube clients of backend/youtubeapi, one in each upload;         *)
(*   - the OAuth callbacks of backend/server/handlers_oauth.go;               *)
(*   - the command cmd/migrate-tokens, which encrypts a plaintext row.        *)
(* Twitch replaces the refresh token at each refresh, Google does not.       *)
(***************************************************************************)
EXTENDS Integers, FiniteSets

CONSTANTS
    Refreshers, Clients, Callbacks,  \* who writes; a callback serves one login at a time
    Answers,      \* identities for what the provider has answered, natural numbers
    Lifetime,     \* of an access token, in ticks of some minutes
    Window,       \* the refresher's window
    MinWait, MaxWait, FirstWait,  \* its interval with jitter, and the first one
    Keyed,        \* ENCRYPTION_KEY is set
    CleanEvery, MaxStates,        \* of the store of login states (100 and 10000)
    MaxLogins, MaxFaults          \* bounds

ASSUME OAuthAssumption ==
    /\ Answers \subseteq Nat \ {0} /\ 1 \in Answers
    /\ Lifetime \in Nat /\ Window \in Nat /\ MinWait \in Nat \ {0} /\ FirstWait \in Nat
    /\ MaxWait \in MinWait .. FirstWait
    /\ Keyed \in BOOLEAN
    /\ CleanEvery \in Nat \ {0} /\ MaxStates \in Nat /\ MaxStates % CleanEvery = 0
    /\ MaxLogins \in Nat /\ MaxFaults \in Nat
    /\ Clients \cap Refreshers = {} /\ Callbacks \cap (Refreshers \cup Clients) = {}

VARIABLES
    provider,  \* "twitch" or "youtube"
    row,       \* of oauth_tokens: which answer each column comes from
    sealed,    \* encryption_version
    left,      \* the time an answer's access token has left
    live,      \* the answers whose refresh token the provider takes
    login,     \* the login an answer goes back to
    hand,      \* each writer's step and the token in its hand
    wait,      \* until a refresher's next look
    tool,      \* the same as hand for migrate-tokens
    pending, expired, refused,  \* the store of login states, and whether it refused one
    logins, faults

tokens == <<provider, left, live, login>>
store == <<pending, expired, refused>>
vars == <<tokens, row, sealed, hand, wait, tool, store, logins, faults>>

NoToken == [access |-> 0, refresh |-> 0, expiry |-> 0]
Idle == [pc |-> "idle", tok |-> NoToken]
Writers == Refreshers \cup Clients \cup Callbacks

Init ==
    /\ provider \in {"twitch", "youtube"}
    /\ \E n \in {0, 1} : row = [access |-> n, refresh |-> n, expiry |-> n]
    /\ sealed = FALSE
    /\ \E d \in {0, Lifetime} : left = [n \in Answers |-> IF n = 1 THEN d ELSE 0]
    /\ live = {1} /\ login = [n \in Answers |-> 0]
    /\ hand = [w \in Writers |-> Idle]
    /\ wait \in [Refreshers -> MinWait .. FirstWait]
    /\ tool = Idle
    /\ pending = 0 /\ expired = 0 /\ refused = FALSE
    /\ logins = 0 /\ faults = 0

Fault == faults < MaxFaults /\ faults' = faults + 1

Clients0 == IF provider = "youtube" THEN Clients ELSE {}

-----------------------------------------------------------------------------
(* The provider *)

In(tok) == {tok.access, tok.refresh, tok.expiry}

Used == In(row) \cup In(tool.tok) \cup UNION {In(hand[w].tok) : w \in Writers}

\* An identity nobody holds, the first of them.
New == LET free == Answers \ Used IN {n \in free : \A k \in free : n <= k}

Expired(n) == n # 0 /\ left[n] = 0

\* It answers a refresh; the refresh token stays, unless it is replaced.
Answer(old, n) ==
    /\ left' = [left EXCEPT ![n] = Lifetime]
    /\ login' = [login EXCEPT ![n] = login[old]]
    /\ live' = IF provider = "twitch" THEN (live \ {old}) \cup {n} ELSE live \ {n}
    /\ provider' = provider

-----------------------------------------------------------------------------
(* A writer's steps *)

Goes(w, pc, tok) == hand' = [hand EXCEPT ![w] = [pc |-> pc, tok |-> tok]]

\* It is done, or gives up; a refresher sleeps again.
Done(w) ==
    /\ hand' = [hand EXCEPT ![w] = Idle]
    /\ IF w \in Refreshers
       THEN \E d \in MinWait .. MaxWait : wait' = [wait EXCEPT ![w] = d]
       ELSE wait' = wait

\* Mutant: it comes to refresh only what has expired.
DueBug == row.expiry # 0 /\ left[row.expiry] = 0

\* A server without the key cannot read an encrypted row.
Readable == ~sealed \/ Keyed

Due == row.refresh # 0 /\ left[row.expiry] <= Window

Look(p) ==
    /\ hand[p].pc = "idle" /\ wait[p] = 0
    /\ \/ Readable /\ Due /\ Goes(p, "ask", row) /\ UNCHANGED <<wait, faults>>
       \/ ~(Readable /\ Due) /\ Done(p) /\ faults' = faults
       \/ Fault /\ Done(p)
    /\ UNCHANGED <<tokens, row, sealed, tool, store, logins>>

\* refreshIfNeeded, within two minutes of the end: the library hands the same
\* token back as long as it has not expired, and that is written again.
LookClient(c) ==
    /\ hand[c].pc = "idle" /\ Readable /\ row.access # 0 /\ left[row.expiry] <= 1
    /\ Goes(c, IF Expired(row.expiry) THEN "ask" ELSE "store", row)
    /\ UNCHANGED <<tokens, row, sealed, wait, tool, store, logins, faults>>

\* Mutant: an answer without a refresh token is stored as it is.
RenewedBug(old, n) ==
    [access |-> n, refresh |-> IF provider = "twitch" THEN n ELSE 0, expiry |-> n]

\* Mutant: the old refresh token is stored, though the provider has replaced it.
RenewedOldBug(old, n) == [access |-> n, refresh |-> old, expiry |-> n]

\* Without a new refresh token the old one is kept.
Renewed(old, n) ==
    [access |-> n, refresh |-> IF provider = "twitch" THEN n ELSE old, expiry |-> n]

Ask(w) ==
    /\ hand[w].pc = "ask"
    /\ LET old == hand[w].tok.refresh IN
       \/ /\ old \in live
          /\ \E n \in New : Answer(old, n) /\ Goes(w, "store", Renewed(old, n))
          /\ UNCHANGED <<wait, faults>>
       \/ old \notin live /\ Done(w) /\ UNCHANGED <<tokens, faults>>
       \/ \* no answer in 15 seconds, or it gets lost on its way
          /\ Fault /\ Done(w)
          /\ \/ live' = live
             \/ provider = "twitch" /\ live' = live \ {old}
          /\ UNCHANGED <<provider, left, login>>
    /\ UNCHANGED <<row, sealed, tool, store, logins>>

\* UpsertOAuthToken; an error drops the token.
Store(w) ==
    /\ hand[w].pc = "store"
    /\ \/ row' = hand[w].tok /\ sealed' = Keyed /\ faults' = faults
       \/ Fault /\ UNCHANGED <<row, sealed>>
    /\ Done(w)
    /\ UNCHANGED <<tokens, tool, store, logins>>

\* The process dies; a refresher begins anew.
Die(w) ==
    /\ Fault /\ (w \in Refreshers \/ hand[w].pc # "idle")
    /\ hand' = [hand EXCEPT ![w] = Idle]
    /\ IF w \in Refreshers
       THEN \E d \in MinWait .. FirstWait : wait' = [wait EXCEPT ![w] = d]
       ELSE wait' = wait
    /\ UNCHANGED <<tokens, row, sealed, tool, store, logins>>

-----------------------------------------------------------------------------
(* Logins *)

\* Mutant: the store is full at a number that is never cleaned at.
CleanBug == (pending + expired) % CleanEvery = 1

Clean == (pending + expired) % CleanEvery = 0

\* Mutant: one state more than the limit.
RoomBug(rest) == pending + rest <= MaxStates

Room(rest) == pending + rest < MaxStates

\* HandleTwitchOAuthStart, HandleYouTubeOAuthStart
StartLogin ==
    LET rest == IF Clean THEN 0 ELSE expired IN
    /\ expired' = rest
    /\ IF Room(rest)
       THEN refused' = FALSE /\ pending' = pending + 1
       ELSE refused' = (pending < MaxStates) /\ pending' = pending
    /\ UNCHANGED <<tokens, row, sealed, hand, wait, tool, logins, faults>>

\* Ten minutes have passed.
StateExpires ==
    /\ pending > 0 /\ pending' = pending - 1 /\ expired' = expired + 1
    /\ UNCHANGED <<tokens, row, sealed, hand, wait, tool, refused, logins, faults>>

\* The callback: the state is taken, the code exchanged, unless that fails.
Exchange(l) ==
    /\ hand[l].pc = "idle" /\ pending > 0 /\ pending' = pending - 1
    /\ \/ /\ logins < MaxLogins /\ logins' = logins + 1
          /\ \E n \in New :
                 /\ left' = [left EXCEPT ![n] = Lifetime]
                 /\ login' = [login EXCEPT ![n] = logins + 1]
                 /\ live' = live \cup {n}
                 /\ Goes(l, "store", [access |-> n, refresh |-> n, expiry |-> n])
       \/ UNCHANGED <<left, login, live, hand, logins>>
    /\ UNCHANGED <<provider, row, sealed, wait, tool, expired, refused, faults>>

-----------------------------------------------------------------------------
(* migrate-tokens, which has the key *)

Holds(pc, tok) == tool' = [pc |-> pc, tok |-> tok]

ReadPlain ==
    /\ tool.pc = "idle" /\ ~sealed /\ row # NoToken
    /\ Holds("encrypt", row)
    /\ UNCHANGED <<tokens, row, sealed, hand, wait, store, logins, faults>>

\* Mutant: without the version in the WHERE clause.
EncryptableBug == row # NoToken
Encryptable == ~sealed

\* Of the columns read, expires_at is not among those written.
Encrypt ==
    /\ tool.pc = "encrypt" /\ Holds("idle", NoToken)
    /\ \/ /\ Encryptable
          /\ row' = [tool.tok EXCEPT !.expiry = row.expiry]
          /\ sealed' = TRUE /\ faults' = faults
       \/ ~Encryptable /\ UNCHANGED <<row, sealed, faults>>
       \/ Fault /\ UNCHANGED <<row, sealed>>
    /\ UNCHANGED <<tokens, hand, wait, store, logins>>

-----------------------------------------------------------------------------
\* What a writer does between its steps takes seconds, a tick minutes: time does
\* not pass between them, nor beyond the end of a refresher's sleep.
Tick ==
    /\ \A w \in Writers : hand[w].pc = "idle"
    /\ \A p \in Refreshers : wait[p] > 0
    /\ wait' = [p \in Refreshers |-> wait[p] - 1]
    /\ LET used == Used IN
       /\ left' = [n \in Answers |-> IF n \in used /\ left[n] > 0 THEN left[n] - 1 ELSE 0]
       /\ live' = live \cap used
       /\ login' = [n \in Answers |-> IF n \in used THEN login[n] ELSE 0]
    /\ UNCHANGED <<provider, row, sealed, hand, tool, store, logins, faults>>

Refresh(p) == Look(p) \/ Ask(p) \/ Store(p)
Upload(c) == LookClient(c) \/ Ask(c) \/ Store(c)
Callback(l) == Exchange(l) \/ Store(l)

Next ==
    \/ \E p \in Refreshers : Refresh(p)
    \/ \E c \in Clients0 : Upload(c)
    \/ \E l \in Callbacks : Callback(l)
    \/ \E w \in Writers : Die(w)
    \/ StartLogin \/ StateExpires
    \/ ReadPlain \/ Encrypt
    \/ Tick

Spec == Init /\ [][Next]_vars

\* Requests and statements end, and time passes.  Nobody has to log in or upload.
FairSpec ==
    /\ Spec
    /\ \A p \in Refreshers : WF_vars(Refresh(p))
    /\ \A c \in Clients : WF_vars(Ask(c) \/ Store(c))
    /\ \A l \in Callbacks : WF_vars(Store(l))
    /\ WF_vars(Tick)

-----------------------------------------------------------------------------
Token == [access : Answers \cup {0}, refresh : Answers \cup {0}, expiry : Answers \cup {0}]

TypeOK ==
    /\ provider \in {"twitch", "youtube"}
    /\ row \in Token /\ sealed \in BOOLEAN
    /\ left \in [Answers -> 0 .. Lifetime] /\ live \subseteq Answers
    /\ login \in [Answers -> 0 .. MaxLogins]
    /\ hand \in [Writers -> [pc : {"idle", "ask", "store"}, tok : Token]]
    /\ tool \in [pc : {"idle", "encrypt"}, tok : Token]
    /\ wait \in [Refreshers -> 0 .. FirstWait]
    /\ pending \in Nat /\ expired \in Nat /\ pending + expired <= MaxStates
    /\ refused \in BOOLEAN /\ logins \in 0 .. MaxLogins /\ faults \in 0 .. MaxFaults

(***************************************************************************)
(* Whatever the writers do between each other's steps, and the encryption of  *)
(* the row beside them, the columns of the row fit together: the expiry is    *)
(* that of the access token, and both tokens go back to the same login.       *)
(***************************************************************************)
OneToken ==
    row # NoToken =>
        row.access = row.expiry /\ row.access # 0 /\ row.refresh # 0
            /\ login[row.access] = login[row.refresh]

(***************************************************************************)
(* Without failures no refresh token is lost, though each refresh makes the   *)
(* one before it invalid and two pods, logins and the encryption write the    *)
(* row at the same time: the one in the row is taken by the provider, or one  *)
(* that is stands to be written over it.                                    *)
(***************************************************************************)
StaysRefreshable ==
    faults = 0 /\ row.refresh # 0 =>
        \/ row.refresh \in live
        \/ \E w \in Writers : hand[w].pc = "store" /\ hand[w].tok.refresh \in live

(***************************************************************************)
(* Without failures the stored access token does not expire: with its jitter  *)
(* the refresher looks often enough within its window.  (Only the server's    *)
(* absence may leave it expired at the start.)                               *)
(***************************************************************************)
NeverExpires ==
    [][faults' = 0 /\ ~Expired(row.expiry) => ~Expired(row.expiry)']_vars

(***************************************************************************)
(* An expired token is replaced, also when a refresh fails and is repeated:   *)
(* unless a failure lost the refresh token, in the row or on its way to it,   *)
(* so that only a login helps.                                              *)
(***************************************************************************)
Lost ==
    /\ faults > 0 /\ row.refresh \notin live
    /\ \A w \in Writers : hand[w].pc = "store" => hand[w].tok.refresh \notin live

Recovers == Expired(row.expiry) ~> ~Expired(row.expiry) \/ Lost

(***************************************************************************)
(* handlers.go cleans the store of login states at every hundredth state and  *)
(* refuses further ones at 10000: states that have expired never keep a user *)
(* from logging in, though most are not removed when they expire.            *)
(***************************************************************************)
RefusedOnlyWhenFull == ~refused
=============================================================================
