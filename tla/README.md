# vod-tender: models, checks and proofs

vod-tender records the VODs of Twitch channels: it finds them through Helix, downloads them with
yt-dlp, uploads them to YouTube, records chat, and serves an HTTP API. All of it is one Go process
(`backend/`) over one PostgreSQL database and one data directory. This directory models the parts
of it where order, failure and concurrency decide whether it is right.

Run a check with `tlc -config <run>.cfg <module>.tla`, a proof with `tlapm <module>.tla`. Line
references below are to `src/backend/` (`map` in `PROJECT.json` gives them for every definition).

## 1. Inventory

| Component | Source | State | Operations | Talks to |
|---|---|---|---|---|
| Pipeline | `vod/processing.go`, `vod/concurrency.go` | rows of `vods`, files in DATA_DIR, the download semaphore, locals of `processOnce` | a cycle: breaker gate, sweep, discovery, throttles, selection, slot, download, upload, cleanup | all goroutines of `main.go` share the database, the directory, the semaphore, the YouTube account |
| Downloader | `vod/vod.go:87-320` | `activeCancels`, the columns `download_state`, `downloaded_path`, `download_retries`, the yt-dlp process | attempts with backoff, stderr reader, cancel, context | called by the pipeline; `CancelDownload` by HTTP |
| Circuit breaker | `vod/processing.go:97-119`, `vod/vod.go:326-423` | three `kv` rows per channel | gate, failure, reset | the pipeline |
| Discovery, catalog | `vod/vod.go:50-86`, `vod/catalog.go` | rows of `vods`, `kv.catalog_after` | insert new rows, page through the archive | Helix |
| Retention | `vod/retention.go` | files, `downloaded_path` | choose, check for activity, remove, clear | the pipeline's files and rows |
| Rate limiters | `server/middleware.go` | a map under a mutex; table `rate_limit_requests` | allow, cleanup | HTTP requests to sensitive endpoints |
| Admin requests | `server/handlers_admin.go`, `handlers_vod.go` | rows of `vods` | priority, skip-upload, description, cancel, reprocess | the pipeline's rows |
| Chat recorder | `chat/auto.go`, `chat/chat.go` | `running`, `reconciled`, `placeholder`, `recCancel`, the placeholder row, messages | poll, start and stop a recorder, reconcile | Helix, rows of `vods` and `chat_messages` |
| OAuth tokens | `oauth/refresh.go`, `server/handlers_oauth.go`, `youtubeapi/`, `db/db.go`, `cmd/migrate-tokens` | a row of `oauth_tokens` per provider, login states in memory | refresh, login, callback, encrypt | Twitch and Google, uploads, chat |
| Helix client | `twitchapi/` | cached app token, attempt counter | requests with retries, replacement of the token | discovery, catalog, chat |
| Chat replay, health, config, frontend | `server/handlers_chat.go`, `handlers_health.go`, `handlers_config.go`, `src/frontend` | none of their own | reads, presentation | the database |
| Migrations | `db/` | the schema | golang-migrate, fallback statements | start-up |

What is hard: every channel runs the same 480-line function in a goroutine of its own, against
shared state, with almost every database error ignored; the process may die between any two
statements, and shuts down without waiting for anybody; yt-dlp, its reader, cancel requests and the
context race one another; HTTP requests and background jobs move the columns the pipeline decides
by; the limits are tested hours before what they limit; rate-limited requests of several instances
meet in one table; goroutines that outlive the stream they were started for write the variables of the
next one; several processes refresh and replace the same token. What makes each part correct:

- pipeline: no VOD is uploaded twice unless a fault is to blame; slots are neither leaked nor
  overcommitted; daily limits hold; no file of a pending download is swept; every VOD settles;
- downloader: the registry never kills the wrong process, no process outlives its attempt, a
  shutdown ends the call, retries and outcomes are counted right;
- breaker: it opens on time, honours its cooldown, is always left again, and its three rows behave
  as one value, also again after something of it was lost;
- limiters: no sliding window sees more than the limit (the one with a table lets requests in on top of
  it when a step of the database fails, `middleware.go:297-346`), and nothing is refused needlessly;
- retention: what no policy keeps is removed in the end, and nothing that is still needed;
- chat: each stream is recorded, by one recorder, and each message is moved once, with its time;
- tokens: the columns of a row fit together, no refresh token is lost, no access token expires;
- catalog and Helix client: no VOD is passed over, and no run ends early for a passing failure.

`PROJECT.json` lists the hazards one by one, with their lines and the properties that cover them.

## 2. Modules

| Module | What it is | Code |
|---|---|---|
| `Circuit` | the breaker as functions on its value (no variables) | one whole call of gate, `updateCircuitOnFailure`, `resetCircuit` |
| `BreakerSpec` | what a breaker promises: it changes by whole verdicts, never while open and cooling | `docs/OPERATIONS.md`, "Circuit Breaker" |
| `CircuitBreaker` | the three `kv` rows, statement by statement, with lost statements and crashes; refines `BreakerSpec` | `processing.go:97-119`, `vod.go:326-423` |
| `DownloadSpec` | what one call of the downloader does for `processOnce` | `vod.go:87-320`, seen from outside |
| `DownloadVOD` | attempts, process, stderr reader, registry, context; refines `DownloadSpec` | `vod.go:33-48`, `87-320` |
| `VodProcessing` | the pipeline of all channels, with requests, time, crashes and lost statements | `processing.go:64-540`, `concurrency.go` |
| `MCVodProcessing` | its instances for TLC | |
| `Retention` | the retention job of each channel beside the pipeline, on its rows and files | `retention.go:64-303` |
| `MCRetention` | its instances for TLC | |
| `ChatRecorder` | live detection, recorders, reconciliation goroutines and their transaction | `auto.go:46-192`, `chat.go:18-78` |
| `MCChatRecorder` | its instance for TLC | |
| `OAuthTokens` | the writers of one row of `oauth_tokens`, and the store of login states | `refresh.go`, `handlers_oauth.go`, `handlers.go:33-62`, `youtube.go:61-108`, `db.go:235-352`, `migrate-tokens/main.go:106-268` |
| `HelixClient` | one call of Helix at a time for each caller, with retries and the app token (the steps; no specification of its own) | `helix.go:37-137`, `token.go` |
| `Catalog` | the catalog job and requests, over `HelixClient` | `catalog.go:28-137`, `handlers_admin.go:34-63` |
| `MCCatalog` | its instance for TLC | |
| `RateWindow` | the clock, and what both limiters promise | `middleware.go` |
| `MemoryLimiter`, `PostgresLimiter` | the two limiters | `middleware.go:143-236`, `238-349` |
| `RateLimiter` | the server with either of them | `server.go:32-53`, `middleware.go:352-377` |
| `MCRateLimiter` | its symmetry for TLC | |
| `*Proofs` | theorems about the module of that name; `RateLimiterProofs` about both limiters and `RateWindow` too, `CatalogProofs` about `HelixClient` too | |

How they fit: `VodProcessing` EXTENDS `Circuit` and takes the breaker of a channel as one value,
which `CircuitBreaker` shows to be right unless a fault came since the last finished download; it takes a download as failed
attempts and an outcome, which is `DownloadSpec`, and `DownloadVOD` refines that. So the pipeline
is checked with the two inner protocols abstracted, and each of them in full beside it. `Retention`
EXTENDS `VodProcessing`: its steps change `vods` and `disk`, the steps of the pipeline leave its
variables alone. `Catalog` EXTENDS `HelixClient`: a run waits for a call, whose steps are the client's.
`ChatRecorder` and `OAuthTokens` share only the database with the rest: to the pipeline a placeholder
is one more VOD, whose download fails, and a token that is not there is a failed upload.

### Correspondence

`CircuitBreaker`: `pc` is the place of the channel's goroutine; every `dbc.ExecContext` is one
action, and `Written` lets it be lost, since the code ignores its error. `due` is the local `until`
as time left. `Gate` reads `circuit_state` and `circuit_open_until`; `GateBlind` is a failed read
(the empty string is not "open"). A failed read of the state elsewhere is taken for "closed", one of
the counter for 0, so that it starts again at 1. `streak` is a history variable, and so is `dirty`: a fault
has come since the last finished download.

`DownloadVOD`: `entry` is `activeCancels[id]`, as the number of the attempt its function kills;
`chunks` is what reader goroutines still hold, of this or an earlier attempt, because nothing waits
for them. `Reap` is `cmd.Wait`, `Unregister` the `delete`. Every UPDATE may be lost, as its error is ignored;
`missed` counts, as history, those of `download_retries` that were.

`VodProcessing`: a row has the columns the code decides by; `error` stands for `processing_error`,
`path` for a non-empty `downloaded_path`, `age` for how long ago `updated_at` was (rows that were
never updated fall back to `created_at`). `skip` and `cur` are the locals that outlive the wait for
a slot and the download. `Update` is an UPDATE with an ignored error. `Leave` is a `return` before
the slot, `Finish` one after it (with the deferred `releaseDownloadSlot`). One action per stretch of
`processOnce` between two points where another goroutine or a crash can be noticed.

`Retention`: `job` is the place of the retention goroutine, `retained` the map `retainedIDs`, `doomed`
the rows of the last query that are not retained and still to be handled. One action per query, then
`Stat`, `Unlink` (os.Remove) and `Clear`, or `Stat` and `Forget` where the file is gone; between any
two the pipeline may go on or the process die. `download_state` is never one of the two values the
query for active VODs looks for (`vod.go` writes progress lines and "complete"), so `Active` has the
other two conditions only.

`ChatRecorder`: `running`, `reconciled`, `placeholder` are the variables of `StartAutoChatRecorder`
(`startedAt` goes with `placeholder`), `current` is the recorder that `recCancel` stops, `stray` those
whose cancel function has been overwritten. A poll reads the variables at once, except that the row and
the recorder of a new stream are a later step (`StartRecorder`), between which goroutines go on. `task`
has the goroutines: place, attempt, the VOD found, and what the UPDATEs of its transaction have changed
(`shifted`, `moved`), which `Commit` makes true all at once and `Rollback` drops. A transaction waits for
another one that has written the row of the same VOD, or the messages of the same placeholder (`Locked`);
those of different streams run at once. A message
has the instant its `rel_timestamp` counts from, not the number. A recorder that is cancelled is off at
once; the goroutine waits a minute before it looks for the VOD.

`OAuthTokens`: an answer of the provider is a number, and a column of the row the number of the answer it
came with; `left` is the time an access token has, `live` the refresh tokens the provider still takes,
`login` the login an answer goes back to. A writer reads (`Look`, `LookClient`), asks (`Ask`) and stores
(`Store`) in three steps, with the token in its `hand`. Twitch gives a new refresh token with each refresh
and takes the old one no more, Google gives none. `migrate-tokens` reads and writes in two steps, the
second under `encryption_version = 0`. Time does not pass while a writer is between its steps: those take
seconds (a refresh at most 20), a tick minutes.

`HelixClient`: `call` is a call's attempt, its flag `refreshedAfter401`, and whether a replaced token has
been sent yet (a history flag). `Catalog`: VODs are numbered, newest first; `after` is the cursor of a run,
`saved` the one in `kv`. Each run makes a Helix client of its own, and so a token of its own.

`MemoryLimiter`: `allow` and `cleanup` hold the mutex throughout, so each is a step; the two
branches of `allow` are `AllowNew` and `AllowKnown`. `PostgresLimiter`: BEGIN and advisory lock,
COUNT, INSERT and COMMIT are steps, `FailOpen` is every error path of them; `stamp` is the `now`
taken before the wait for the lock, on a clock that is `ahead` of the slowest by up to `Skew`. `recorded`
and `failed` are history: the requests let in with a row, and without one.

## 3. Runs

| Run | Question | Answer |
|---|---|---|
| `Breaker_steps` | Do three rows written one by one behave as one breaker? | Yes, but from a fault to the next finished download, which restores it; whatever the faults, an open circuit is left again |
| `Download_calls` | Do cancel, reader, process and shutdown keep out of each other's way? | Yes: registry current, no stray process, `DownloadSpec` implemented, shutdown ends the call |
| `Process_work` | Slots and duplicate uploads with two channels, sweeper, breaker, request, fault | Hold |
| `Process_days` | Daily limits and swept files with requests that move `updated_at`, priority, and reopened rows | Hold without faults |
| `Process_settles` | Does every VOD settle, through throttle, slot, breaker and failures? | Yes |
| `Retention_reclaims` | Does what no policy keeps lose its file and its path, also across a crash between the two? | Yes |
| `Retention_active` | Is a VOD that is about to be uploaded safe from the retention job? | **No**: if its download is recorded between the query of the active VODs and that of the rows, its file goes |
| `Chat_records` | Do goroutines that outlive a stream keep recorders and messages right, through crashes and failures? | Yes, and an ended stream is reconciled when its VOD is published |
| `Chat_live` | Is a live channel recorded, as a comment says? | **No**: not while the stream before it waits for a VOD that is not found |
| `Oauth_tokens` | Do refreshers, uploads, logins and the encryption keep one row usable? | Yes: it fits together, is never lost without a failure, and recovers after one, unless that lost the refresh token |
| `Catalog_pages` | Does a cursor that runs ahead of the rows skip VODs, and do retries absorb what they should? | Nothing is skipped unless a run ends early; passing failures end none |
| `Limiter_window` | Do both limiters keep the limit in every window? | In memory, yes; with the table, but for the requests let in because a step of the database failed |

The two runs with a **No** each check one sentence of a comment, which `findings` quotes.
The breaker's promises except the time from a fault to the next finished download for a reason: after a
crash between `circuit_state` and `circuit_open_until` the circuit is open without a deadline, and the gate
lets the next cycle pass at once, cooldown or not; a failed read of `circuit_failures` starts the count
again. What is checked is that this does not last: `resetCircuit` makes the atomic breaker of any rows.

Other behaviour that a reader of the comments may not expect is in the models as the code has it, and the
properties above hold beside it: a cancelled download counts as a failed attempt, because only a cancelled
context is noticed (`vod.go:299`, `processing.go:346`); a line of progress may be written after "complete"
(`vod.go:269`); twenty throttled VODs hide every newer one (`processing.go:258`); the sweeper of a channel
spares the files of its own rows only (`processing.go:158`). In `ChatRecorder` a stream that is taken up
while goroutines of the one before are left may be recorded twice (`overlap`, which `OneRecorder` excepts).
In `OAuthTokens` with `Keyed = FALSE`, a server without the key, `OneToken` fails: a login between the two
statements of `migrate-tokens` is overwritten, except for its `expires_at`, because the server's row has
`encryption_version = 0` as before. `cmd/migrate-tokens/README.md:160` and `:281` call concurrent changes
safe; they are, as `Oauth_tokens` shows, if the server runs with the key. An upload whose answer or whose row
is lost is made again (`processing.go:439`, `477`): `NoDuplicateUpload` says that each such fault costs one
video at most, and that nothing else costs one. In `Catalog` with a `JobMax` of at
most a page, the job never gets past its first page.

### Bounds

Every bound is a CONSTANT and a guard: `MaxFaults`, `MaxEdits`, `MaxAttempts`, `MaxUploads`,
`MaxCalls`, `MaxTime`, `MaxRequests`. One fault puts a crash or a lost statement at every point of a
run; two and three (breaker) let the second fall into the recovery from the first. Three attempts
have a first, a middle and a last one. Two channels and one slot give contention; one channel with
three VODs, two of them back catalog, gives a choice, and a throttled choice. Ages stop
at the largest age any test of the code compares with, so nothing is lost by it. LIMIT 20
(`BatchLimit`) exceeds the number of VODs in every run. The retention runs
keep one VOD of two, so that one is always to go, and have one fault and no requests; in
`Retention_reclaims` nothing is uploaded, so that only the retention job removes files. `CHECK_DEADLOCK FALSE` stands only
where a bound or the shutdown ends everything (`Download_calls`, `Limiter_window`, `Chat_*`).

`Chat_*` have two streams whose VODs are each a candidate for both, one with another date than the stream
and one with the same; two goroutines at once (`Tasks`; a third would repeat the second) of two attempts
(30, less what the window of 15 minutes cuts off); two messages, one before and one after any step; and two
faults, so that a second one falls into the recovery from the first. `Oauth_tokens`: the interval with its
jitter is 1 or 2 ticks, the window 3, as 8 to 12 of 20 minutes (YouTube) and 4 to 6 of 15 (Twitch); what
counts is that the longest wait is shorter than the window. The first wait is up to 3. Cleaning at every 100
login states of at most 10000 becomes 2 of 2. `Answers` is as large as needed: TLC never runs out of them.
The server starts with no token, a fresh one, or one that expired while it was off. `Limiter_window`: two windows and a tick, enough
for `cleanup`, which waits for two; a timeout and a skew of one tick each, at most the window of 2 together,
as the theorem wants it; three workers, so that one waits, one counts and one cleans; TLC takes workers and
addresses to be symmetric. `Catalog_pages`:
four VODs on pages of 2 (100), a job that stops after 3, requests for everything, for less than a page, and for
the recent ones; two attempts (4), one passing failure and one revocation, so that each falls on the first and
on the last attempt (what three attempts meet together is left to `FailuresAreAbsorbed`: the instance
is too large). The code's numbers enter by these comparisons only.

### Fairness

`Breaker_steps`: the goroutine's ticker keeps starting cycles, each goes through its statements, and
time passes (`WF` of `Cycle` and of `Tick`). `Download_calls`: after a shutdown the context kills
the process (`exec.CommandContext`), and the goroutine goes on; yt-dlp itself promises nothing, it
is told to retry without end. `Process_settles`: a goroutine that can go on does (`WF`), a Go
channel serves its waiters in turn (`SF` of `AcquireSlot`), Helix answers again and again (`SF` of
`Discover`), and yt-dlp starts and exits again and again (`SF` of `AttemptFails` or `DownloadOk`); no
outcome is ever assumed: every download and every upload may fail. `Retention_reclaims`: the job's
ticker starts run after run, a run goes on, and time passes; of the pipeline nothing is assumed.
`Chat_*`: the poller's ticker, and a goroutine's waits, requests and statements end; of Twitch nothing is
assumed, neither that a stream ends nor that a VOD is published (`EndedIsReconciled` has both as its
premise). `Oauth_tokens`: the refreshers' sleeps, requests and statements end, and time passes; nobody has to
log in or upload. `Catalog_pages`: the job's ticker starts run after run, calls and statements end; no request
need be made.

## 4. Proofs

TLAPS checks these for every value of the constants that meets the named assumptions
(`CircuitAssumption`, `FaultsAssumption`, `AttemptsAssumption`, `CallsAssumption`, `VodsAssumption`,
`LimitsAssumption`, `WindowAssumption`, `OAuthAssumption`, ...) and the hypotheses below. Every
invariant and every action property of a passing run is the statement of a theorem.

A proof is laid out in the same way throughout. Lemmas named `...Steps` say that one part of the
invariant holds at first and is kept by every step, given the parts it needs; `...Holds` makes a
theorem about the specification of it. The first are about steps alone, so that `RetentionProofs`
uses those of the pipeline again for a specification with more actions.

- **Breaker** (`CircuitBreakerProofs`): types; `CooldownHonoured`; `ClosedMeansFewFailures`;
  `Refinement`, that the stepwise breaker implements `BreakerSpec` but from a fault to the next finished
  download (`FinishCleans`: at that point nothing of the rows counts any more). The
  inductive invariant `CleanInv` says, outside that time, where the rows and the time computed last agree
  (`RowsAgree`: between two writes they do not) and what the counter counts (`CountAgrees`).
- **Downloader** (`DownloadVODProofs`): `TypeCorrect`, `RegistryStaysCurrent` and
  `NoProcessIsStray`; `Refinement` that `DownloadVOD` implements `DownloadSpec`. The invariant ties
  entry and process to the attempt at each place of the loop.
- **Pipeline** (`VodProcessingProofs`): `TypeCorrect`, from one inductive part per group of
  variables (`WorkerInv`, `RowsInv`, `SkipInv`, `FilesInv`, `UploadsInv`, `AttemptsInv`,
  `HistoryInv`).
  - `SlotsBalance`: the semaphore counts the channels between acquire and release,
    because a goroutine enters and leaves `Holding` only with its slot (`HoldingCounts` is the
    arithmetic of finite sets).
  - `OneVideoPerVod`: of a VOD there are at most `1 + faults` videos. That is not inductive: a video
    is made before the row says so. `OnceInv` gives each VOD's first video a voucher: the row's URL,
    or the goroutine that is about to record it; a voucher is lost only in a step that is a fault,
    and a fresh upload starts only without one. `KnownInv` says that a row with a URL, or one
    selected, is not inserted again, and needs that at most one goroutine, that of the home channel,
    works on a VOD.
  - `LimitsAreKept`: the limits are tested hours before the upload, and counted by `updated_at`,
    which other requests move. `CountedInv`: as no update makes a row older, an upload of the last
    day is in the COUNT, or its goroutine is about to record it. `RoomInv`: from the selection to
    the upload a channel has room for the VOD it works on, since nobody else uploads for it and days
    only pass (`RecentSteps`, `UploadCounts`).
  - `FilesStay`: a recorded download that is still to be dealt with has its file. `HandlingInv` says
    it of the goroutine at work, `PathInv` of the rows. The hypothesis `SweepsItsOwn` is that the
    sweeper is off or there is one channel: it spares the files of its own channel's rows only
    (`processing.go:158`), so with two it removes what the other has recorded.
- **Retention** (`RetentionProofs`): `RetentionTypesHold`: the types, and that what a run is about to
  remove is none of what it retained (`JobsInv`). `PipelineUndisturbed`: beside the retention jobs the
  slots, the single upload and the daily limits are as before. A step of a job is none of the
  pipeline's, but it leaves alone all that these depend on (`Beside`): it changes files and the paths of
  rows. `RecordedFileIsThere` is not among them: it is false there, which is what the job is for.
- **Limiters** (`RateLimiterProofs`): `TypeCorrect` and `LimitsHold` for the server, from theorems about each
  limiter on its own. `AddKeepsLimit` is the geometry both share: one more request
  keeps the limit in all windows if fewer than the limit lie within a window behind it, later ones
  included. `MemoryLimitHolds`: `Remembered` says that what `cleanup` forgets is outside the window.
  `RefusalsAreDue` (`RefusedOnlyWhenFull`): what the limiter remembers has been granted, so a full memory is
  a full window, and a window that was full stays so (`WindowGrows`). For PostgreSQL, `Exclusive` is mutual
  exclusion of the critical sections. `TableLimitHolds` speaks of every request let in: `RecordedKept`, the
  inductive part, is the limit for those with a row, and what failed comes on top (`FailedOnTop`). It needs
  `DBTimeout + Skew <= Window` (2 s, and clocks that differ by little, against 60 s by default; the code
  accepts 1 s): then a request that lags the clock still counts rows `cleanup` cannot have deleted
  (`Forgotten`, `RoomInv`).
- **Chat recorder** (`ChatRecorderProofs`): `TypeCorrect`, `TimesAreRight` (`Aligned`) and
  `RecorderIsKnown` (`OneRecorder`). `LockInv` is that of the messages of one placeholder at most one
  transaction is under way, so what a transaction has shifted and moved has been changed by nobody else; `ShiftInv` says
  which messages those are at the later statements, but for those of a recorder that should have been
  stopped, and `OverInv` that a goroutine works on a stream that is over, to which the poller adds nothing. `RecorderInv` says which recorder `recCancel` stops, as
  far as no stream was taken up over goroutines of the one before (`overlap`).
- **OAuth tokens** (`OAuthTokensProofs`), with any number of refreshers, uploads and callbacks:
  `TypeCorrect`; `NoneIsRefused`, which needs that `MaxStates` is a multiple of `CleanEvery` (10000 and
  100 in the code; with 10050 the store would be full between two cleanings). With a key: `RowIsOneToken`,
  as every hand that holds a token holds a whole one (`WholeInv`), and the encryption writes what it has
  read (`SealInv`); `RefreshTokenIsKept`, from what Google and Twitch still take at each step of each
  writer (`LiveInv`). Without the key (`Keyed = FALSE`) `OneToken` is false, see section 3.
  `TokenStaysValid` (`NeverExpires`) is a race against time: a refresher sleeps shorter than its window
  (`MaxWait < Window`: 5 to 10 minutes with jitter of 15 to 20), and looks first before the token is over
  (`FirstWait + 2 <= Lifetime`, an hour or more); `InTime` bounds what is left of the token by what is left
  of the sleep, `FreshInv` says that what is stored is not old.
- **Helix client and catalog** (`CatalogProofs`): `TypeCorrect`; `ReplacementIsTried` from `UnusedInv`;
  `FailuresAreAbsorbed` from `AttemptsInv` and `BudgetInv`: each attempt but the first is owed to a
  passing failure or to the one revocation, so fewer of those than attempts end no call;
  `CursorSkipsNothing`, which is not inductive: the cursor is saved ahead of the rows, by whichever run
  comes last. `PassedInv` says the same of each run's own cursor, counting what other runs hold.

Model-checked only: the liveness properties (`OpenIsLeft`, `ShutdownEndsCall`, `EveryVodSettles`,
`Reclaimed`, `EndedIsReconciled`, `Recovers`, `AllIsKnown`), since fairness and ENABLED are out of the
prover's reach. The two findings are counterexamples, of TLC. Induction over data and RECURSIVE
operators are out of reach as well; no module here uses any.

## 5. What the models leave out

- Shutdown in the pipeline: `main` returns without waiting for the goroutines, so to the rows it is a
  `Crash`; in `DownloadVOD` the cancelled context is modelled in full.
- yt-dlp, YouTube, Helix, PostgreSQL and the file system are external, and act as the code uses
  them: yt-dlp leaves a complete file alone, an upload may succeed without an answer, an advisory
  lock excludes, READ COMMITTED shows what was committed.
- Moving averages, metrics, the job timestamp, `.part` and `.tmp` cleanup, failures of mkdir and of
  removing a file that exists, wording of errors. `processing_error` is one of three kinds.
- `Old`, whether a VOD is back catalog, does not change in a behaviour (the cutoff moves with time).
- HTTP `reprocess` assigns an integer to a boolean column and the config PUT names a constraint that
  does not exist: PostgreSQL refuses both, so they are no actions.
- In the retention job: errors of stat and of removing a file that exists (the row is passed over),
  and `CleanupTempFiles`, which only its test calls. A file it leaves behind without a path (after a
  fault, and a second download of the VOD) is the sweeper's.
- In `ChatRecorder`: other channels (every recorder joins the chat of `TWITCH_CHANNEL`, `chat.go:20`, so
  that with several channels messages are filed under the wrong one), an empty answer of Helix for a live
  stream, and the refresh of a VOD's title and date.
- The limiters are enabled; a disabled one returns true before it does anything (`middleware.go:199`, `286`).
- In `OAuthTokens`: the callback checks a login state and deletes it under two locks
  (`handlers_oauth.go:67-76`), which `Exchange` does in one step: two callbacks with one state at the same
  time would both go on to exchange their codes. No time passes between the steps of a writer, though calls
  of the callback and of an upload have no timeout. Scopes, and rows of other channels, which no writer of the server uses; a key that
  changes; and AES-GCM.
- In `HelixClient` and `Catalog`: the length of delays (a Retry-After is waited for however long it is,
  `helix.go:149`), expiry of the app token other than by revocation, VODs that appear or vanish between two
  pages, and `BackfillMetadata`, which nothing calls.
- Not modelled at all: the replay of chat over SSE (it reads rows for one client), the configuration requests
  (parsing; the PUT changes nothing, see above), the migrations (golang-migrate and DDL that may be
  repeated), the classification of errors (called by tests only), health, metrics and tracing (no state the rest
  depends on), frontend and deployment.

## 6. Plan

Done, in this order, the most important behaviour first: `Circuit` and `CircuitBreaker`,
`DownloadVOD`, `VodProcessing`, `Retention`, the limiters, `ChatRecorder`, `OAuthTokens`, `HelixClient`
and `Catalog`. Every component that keeps state another one depends on has its module, and every
safety property its theorem. What is left:

1. Downloader and pipeline: that a goroutine of `VodProcessing`, from its slot to the end of its
   download, does what `DownloadSpec` says, which ties the two halves by a theorem (so far section 2
   argues it).
2. `Retention`: that the VOD a goroutine works on keeps its file as long as no download is recorded
   between the two queries of a run, a condition under which the comment quoted in the finding is true.
3. `FilesStay` for several channels: which VODs the sweeper of another channel may take.
