# ProxyLogs: specifications, model checking and proofs

TLA+ models of the npm-logviewer server ("ProxyLogs"): a process that tails the logs of
nginx-proxy-manager (NPM), stores them in SQLite, detects threats, alerts by email and
bans attackers by writing an nginx deny file. Paths below are under `src/server/src/`
unless they start with `src/`.

Contents: [the system](#the-system), [what is modelled](#what-is-modelled),
[runs](#runs), [fairness](#fairness), [proofs](#proofs),
[disagreements](#disagreements-between-the-code-and-its-documents), [what is left
out](#what-is-left-out), [plan](#plan).

To check: `tlc -config <Cfg>.cfg <MC module>` for a run of the table below, and `tlapm
<Module>Proofs.tla` for the proofs.

## The system

The server is one Node process. Handlers run to their next `await` that really waits
without interruption, so a step of a model is such a stretch, except where the outside
world (nginx, logrotate, Docker, the end of the process) can act inside it. Everything
it persists is in one SQLite database (WAL), except the three files it writes for nginx.

| component | state | operations | talks to |
|---|---|---|---|
| log ingestion (`ingest/watcher.ts`, `store/store.ts`) | tables `access_log`, `error_log`, `ingest_offset`; the pass in progress; chokidar's events | start (prune, backfill, watch), one pass per file event | log files; listeners of `access-entry` (live stream, blocked paths) |
| ban list (`bans/store.ts`, `bans/service.ts`) | table `banned_ip` | ban, unban, list, sync | enforcer; configuration (trusted list) |
| ban enforcement (`bans/enforcer.ts`) | deny file, blocked-paths file, two include lines in `server_proxy.conf` | sync, syncBlockedPaths, reload nginx | file system, Docker socket |
| blocked paths (`threats/blockedPaths.ts`) | copy of the configuration, queue of clients, flush timer | apply, handle an entry, flush | ban list, enforcer |
| threat engine (`threats/engine.ts`) | configuration, offered patterns and cooldowns in `app_settings`; table `threat_finding` | evaluate (every minute, on demand, on save), get/set configuration, acknowledge, purge | detectors, mailer, ban list |
| mailer (`threats/mailer.ts`, `threats/enrich.ts`) | none | send | Resend's HTTP API |
| detectors (`threats/detectors.ts`) | none | aggregate queries over a window | SQLite |
| sessions (`auth/*`, `security/rateLimit.ts`) | table `session_revocation`; cache of active users; login limiter | login, check, logout everywhere | NPM's database (read-only) |
| HTTP and SSE (`api/*`, `security/*`) | the open streams | reads; the state-changing handlers above | everything above |
| NPM database, host map (`npm/*`) | a map replaced every minute | refresh, label, user lookup | NPM's database |
| store schema (`store/schema.ts`, `store/store.ts`) | the schema version, implicitly | migrate at start, prune daily | SQLite |
| pure code (`ingest/networks.ts`, `ingest/parser.ts`, `ingest/geo.ts`, `threats/validate.ts`, `api/filter.ts`) | none | address arithmetic, line parsing, checks of input | - |
| life cycle (`index.ts`, `config.ts`) | the timers | boot, reconcile, shutdown | all |
| analytics (`store/analytics.ts`, `api/filter.ts`) | none | filtered counts, charts, top lists and pages of rows | SQLite |
| Threats page (`src/web/src/pages/Threats.tsx`) | per tab: a copy of the configuration, findings, bans | load, edit, save, trust, ban, acknowledge | HTTP API |
| log pages (`src/web/src/pages/Logs.tsx`, `lib/useFetch.ts`) | per tab: filter, offset, the last answer | filter, page, follow a link | HTTP API |
| other pages of the frontend | per tab: the last answer, or the last entries of the stream | show it | HTTP API, stream |

How they interact: the watcher stores a batch and then emits each entry;
`BlockedPaths.handle` queues the client of a listed path and a timer bans the queue two
seconds later. The engine evaluates what is stored, bans and mails. The operator bans,
unbans and saves configurations over HTTP. Every change of the list goes through
`BanService.sync`, which rewrites the deny file and starts a reload of nginx through
Docker without waiting for others in flight.

What is hard here, and what makes each component correct:

- **Log ingestion.** Files are renamed, recreated, truncated, deleted and their inodes
  recycled while a pass reads them in chunks; batches and offsets are committed
  separately; the process may end anywhere. Correct: each complete line is stored once
  and none is passed over; an offset belongs to the contents it is applied to; whatever
  is written is stored in the end.
- **Ban enforcement.** Three files and a running nginx have to follow a table although
  writes and reloads fail, overlap and are killed. Correct: the files follow the list;
  no include without its file; nginx is behind only while a reload is coming, or for
  a named reason; queued clients are handled; nobody trusted is banned.
- **Threat alerts.** Evaluations overlap because they wait for Docker and for the mail
  service. Correct: two mails about a rule are a cooldown apart, less what the first had
  waited, and no failure silences a rule.
- **Configuration offers.** Patterns of a later release are added once, and one the
  operator removed stays removed, across upgrades and restarts.
- **Sessions.** A login waits for bcrypt while a logout, a disabled user or the limiter
  change under it. Correct: a token issued before a logout is refused for ever; a
  disabled user is out within a minute; the limiter counts.
- **Migrations.** A kill between two statements of a migration must not lose or
  duplicate an offset.
- **Threat findings.** Clients rotate their addresses, the trusted list changes while
  findings exist, a detector may throw or return only its first fifty. Correct: an actor
  over a threshold has an open finding whatever addresses it used; trusted addresses
  have none; an automatic ban is earned, or of somebody who just asked for a blocked
  path, and covers the whole actor. All of it rests on address arithmetic with its ends
  of range.
- **Frontend.** Every tab holds copies that grow old while requests overtake each other,
  fail, or lose their answers. Correct: a page at rest shows what was asked for, and a
  save undoes nothing the operator did not touch.

## What is modelled

| module | models |
|---|---|
| `LogFiles` | the log directory as nginx and logrotate change it: names, inodes, contents, the writer's descriptor. External: taken from what the watcher reads. |
| `LogIngest` | `Watcher` and the tables of `Store` it writes. Extends `LogFiles`. |
| `LogIngestInv` | its inductive invariant. |
| `LogStore` | abstract: whole lines are stored, each once, until a mishap of a named kind. `LogIngest` implements it (`Promise`). |
| `LogIngestProofs` | the proofs, the refinement among them. |
| `NpmNginx` | the custom directory of NPM and the nginx that reads it. External: taken from what the enforcer writes and expects. |
| `BanEnforcement` | `BanService`, `BanStore`, `BanEnforcer`, `BlockedPaths`, the auto-ban of an evaluation, boot and shutdown. Extends `NpmNginx`. |
| `BanEnforcementProofs` | the proofs. |
| `ThreatAlerts` | `ThreatEngine.evaluate` and `#maybeAlert` as concurrent evaluations, with `Mailer.send`. |
| `ThreatAlertsProofs` | the proofs. |
| `Sessions` | the login handler and its limiter, tokens, `validSession`, logging out, the session of the live stream. |
| `SessionsProofs` | the proofs. |
| `Networks` | `ingest/networks.ts`, the ban targets of `bans/service.ts` and the page's `subnet64`, as operators over addresses of any width, with their meaning as sets. |
| `ThreatFindings` | the detectors, the findings table, the part of `evaluate()` that runs without a wait, automatic bans, and the handlers that change findings, configuration and bans. Extends `Networks`. |
| `ThreatFindingsProofs` | the proofs, those about addresses among them. |
| `Upgrades` | `Store.#migrate`, `#migrateIngestState` and `#offerNewDefaultPatterns`, one committed statement a step, over releases. |
| `UpgradesProofs` | the proofs. |
| `ThreatsPage` | the Threats page in several tabs, with the handlers and the check of the configuration it calls. |
| `ThreatsPageProofs` | the proofs. |
| `LogQueries` | the filter of a request and the queries of `store/analytics.ts`, as functions of the rows. |
| `LogViews` | the page of the access log, `useFetch`, the layout's filter, and the rows that come and go under it. Extends `LogQueries`. |
| `OneRequest` | abstract: a page that has one request at a time and shows an answer to what it asks now. `LogViews` implements it (`One`). |
| `LogViewsProofs` | the proofs, the refinement among them. |
| `MCLogIngest`, `MCBanEnforcement`, `MCThreatAlerts`, `MCSessions`, `MCUpgrades`, `MCThreatFindings`, `MCThreatsPage`, `MCLogViews` | the instances for TLC. |

How the modules meet. What two parts of the code write is in one module: the ban list
with all that changes it in `BanEnforcement`, findings with configuration and bans in
`ThreatFindings`. Between modules one abstracts the other:

- `BanEnforcement` takes what a target covers as a constant relation and the result of
  an evaluation as any set of subjects; `Networks` says what the relation is (that it is
  as assumed is the theorem `TargetsHaveMembers`, that overlapping targets share a client
  `OverlapIsSharing`), `ThreatFindings` which subjects they are.
- `ThreatAlerts` takes an evaluation as its waits; `ThreatFindings` takes it as one
  step, because nothing it reads or writes of findings and bans comes after the first
  wait.
- The queue of blocked paths is in two of them: `BanEnforcement` has its timer, its stop
  and what a flush writes to nginx, `ThreatFindings` which requests fill it and whom a
  flush bans beside the evaluation.
- `ThreatsPage` takes the server's handlers as steps on three sets, `LogViews` the
  queries as `LogQueries`. Each is a client of the server, one a writer, one a reader.
- `Upgrades` ends where a start of the others begins: its `offsets` are the `ingest` of
  `LogIngest`, its `saved` patterns a rule of a configuration.

### LogIngest

`rows` counts how often each line is in `access_log`, `ingest` is `ingest_offset`,
`pass` is the `#readIncremental` in progress, `dirty` the file events chokidar has to
deliver, `todo` what `start()` has still to backfill. A line is two bytes, its text and
its newline, so that a chunk or a size can cut it.

| action | code |
|---|---|
| `Start`, `Watch` | the two halves of `start()`: list the files and `pruneIngestState`; watch with `ignoreInitial` |
| `BeginPass` | `#ingestFile`, and the `stat` and offset lookup of `#readIncremental` |
| `PassChunk` | one round of its loop: open the path again, read, parse up to the last newline, commit |
| `PassEnd` | `setIngestState` under the inode of the `stat` |
| `PassVanished`, `PassFails` | an exception: the path is gone; a read, an insert or a listener throws |
| `Crash` | the end of the process at any of these points |
| `NginxWrites`, `LogRenamed`, `LogReopened`, `LogTruncated`, `LogDeleted` | the outside world, with the file event it causes |

A pass has no `await`, so no handler runs inside it; nginx, logrotate and the end of the
process do. A read past the end of a file leaves the rest of the unzeroed buffer
(`Buffer.allocUnsafe`) as it was: `ReadOutcomes` lets it hold any line written before. A
line that is not valid UTF-8 counts more bytes re-encoded than read (`Widened`,
`Extra`). `mishaps`, `stale` and `lost` are history; no action reads them.

### BanEnforcement

`banned` is the table, `deny`, `snippet` and `includes` the three files, `loadedDeny`
and `loadedBlock` what the running nginx works from, `reloads` the calls of `#reload()`
in flight, `hung` those Docker does not answer, `pending` and `timer` the queue of
blocked paths, `cached` its copy of the configuration. Targets are model values with the set of clients they cover, so a /64, a
range and an overlap are sets. `Sync` is `BanEnforcer.sync`, `SyncBlockedPaths` is
`syncBlockedPaths`, each with the set of writes that fail; `Ban`, `Unban`, `PutConfig`,
`Evaluate`, `Flush`, `Stop`, `Reconcile` and `Boot` are the handlers that call them,
`Hit` is `BlockedPaths.handle`, `ReloadRuns` and `ReloadFails` the end of `#reload()`,
`Crash` a kill. `#docker` sets no timeout on its requests: a call may hang
(`ReloadHangs`), for ever or until Docker answers after all (`LateReload`). `missed` records a change of the directory that no reload will follow,
`unwritten` the files whose last write failed.

### ThreatAlerts

A finding is a rule and a subject: the cooldown is the rule's, `alertMinFindings` counts
findings. `run` holds the evaluations in progress, each with the clock reading of its
start (`to = Date.now()`), `last` the cooldown rows; `mails` is history, per rule the
mails delivered, each with the start of its evaluation (`at`) and the time it went out
(`sent`). The code knows the first only, and counts the cooldown from it.
`Evaluate` is `evaluate()` up to its first wait, `Banned` its continuation after
`bans.sync()`, `Answered` and `SendFails` what follows `await mailer.send`. `Kill` ends
the process before, in the middle of, or after saving the cooldowns of a bundle. A
failed answer may hide a delivered mail.

### Sessions

`tokens` is every token ever issued: they live with the clients, who can present any of
them at any time. `revoked` is `session_revocation`, `cache` the answers of
`makeActiveUserCheck`, `hits` the limiter, `logins` the logins that wait for bcrypt,
`streams` the open live streams with the time of their last check, `active` what NPM's
database says of a user. `ended` (which tokens a logout found) and `turned` (when a user
last changed) are history.

| action | code |
|---|---|
| `Request` | `validSession`, as every handler's gate; it may fill the cache |
| `Logout` | `POST /api/logout`, which ends every session of the user |
| `StartLogin`, `FinishLogin` | `POST /api/login` before and after the wait for bcrypt |
| `OpenStream`, `Ping`, `CloseStream` | `GET /api/stream`, its 25 s interval, the client going away |
| `UserChanges` | an NPM administrator enables, disables or deletes a user |
| `Restart` | the cache, the limiter and the connections are gone; the table is not |
| `Tick` | the clock, which waits for a ping that is due |

A ping is on time and the clock does not go back: both are assumptions about the
machine, not guarantees of the code. The issue time of a token is in milliseconds, its
end in whole seconds (`Second` converts); tokens minted before revocation existed have
no issue time, which counts as 0.

### Networks and ThreatFindings

An address is a family and a number, an entry of a list has a prefix length too. The
masks are computed as the code does it: `Mask4` by a 32-bit shift that takes its count
modulo the width, `Mask6` and `RangeMask` by unbounded shifts that are cut. Widths are
constants, so that every address and every prefix length, the ones at and beyond the
ends too, can be enumerated; text is a sequence of groups with a cut for `::`, and
`ValueOf` is the loop that folds them. Two assumptions about the constants come from the
proofs. `ActorBits` ends at a group, as the page's `subnet64` cuts the text there. And
`PrivateAssumption` says what the private ranges have to be for `BansEarned`: an IPv4
address written in IPv6 lies in none of them, but the /64 of its actor does have a
private address in it (`::1`), so that `ban()` refuses it whatever client it stands for.
With other ranges a private client in that form could be banned.

In `ThreatFindings` the log is a set of rows with their age in ticks, one window being
some of them. `EvaluateNow` is `evaluate()` up to its first wait: `Purged` is
`#purgeExcepted`, `Detected` a detector (`Matches` is its `WHERE`, `GroupByActor` and
`Reached` its `GROUP BY client_net HAVING`, `Limited` its `LIMIT`, `Representative` its
`MAX(client)`), `Upserted` the upsert, `AutoBans` is `#maybeAutoBan`. A detector may
throw, and the others go on. `SaveConfig`, `ApplyDone` and `ApplyFails` are the handler
that saves a configuration before and after it waits for nginx's files; the evaluation
it promises does not come when that wait fails. `pending` is the queue of
`BlockedPaths`: a request is judged as its line arrives (`Hit`, a part of `Ingest`),
`Flush` bans the queue without charges, score or record, `Kill` drops it. Which paths a
configuration bans at once is in its `blocked`. The properties do not use groups or
masks: they count the requests of a set of addresses.

### Upgrades

`release` and `phase` are the program that runs and how far its start has come. `Start`
runs the schema, `AddColumn` and `Backfill` are `#migrate`, `CopyOffsets` and
`DropLegacy` are `#migrateIngestState`, `OfferPatterns` and `RecordOffer` the two rows
of `#offerNewDefaultPatterns`; `Kill` ends the process after any of them. Release 1
stands for the program before all three; what it stored is taken from what the
migrations expect. Older releases may be started after newer ones: `downgrades`
remembers which, and each property says what that costs.

### ThreatsPage

`saved`, `open` and `bans` are the server's, `page` holds the copy each tab works with.
`Refresh`, `AnswerFindings`, `AnswerConfig`, `Deliver` and `LoadFails` are `reload()`,
whose two requests are answered separately; `Trust`, `Save`, `BanIp`, `UnbanIp`, `Ack`
and `AckAll` are the buttons, the `Type...` actions the settings panel (`TypeException` adds
an entry to the copy, `DeleteException` takes one out); `ServePut`,
`ServeBan` and `ServeAck` are the handlers, `Clean` is what `sanitizeThreatConfig` does
to the three fields kept; `Succeeds` and `Fails` are the promise in the browser, where a
lost answer is a failure although the server has acted; `TimerFires` is the `setTimeout`
after a save. Fields of a page from `base` on, `rev` and `since` are history.

### LogQueries and LogViews

`LogQueries` has one operator per query. A list that the code cuts (`LIMIT 20` of the top
lists, `LIMIT 250` of the countries) is a set of possible lists, as SQLite may leave any
of those that tie at the cut (`Cut`); rows without a value are in none, and `Overview` is
the set of bundles that can come of them. `LogViews` is the reader. `layout` is the
filter all pages share, `link` what the address of the page adds to it (client, host and
both ends of the range, as the links of alert mails and findings have them), `filters`
what comes of both (`Effective`: the link goes first). `PickRange` and `PickHost` change
the layout, `FollowLink` the link, `NextPage` and `PrevPage` the offset, `Revisit` leaves
the page and comes back; `SetFilters` is the render that follows with its two effects, of
which the first request (new filter, old offset) is superseded at once. `Answer` is the handler, `Deliver` and `Lose` the end of a fetch; `Ingest` and
`PruneBefore` change the rows at any time. `ORDER BY ts DESC` leaves rows of one second
in any order: `PagesOf` is the set of pages SQLite may give. `walk` is history: a reader
who goes from the first page on by Next.

`OneRequest` is what `useFetch` is for: a question, a screen and at most one reply, with
no way for an answer to an older question to be shown. Its `question` is the filter,
offset and page size the view asks for, its `screen` what is shown, its `reply` the call
that is active; superseded calls have no counterpart.

## Runs

| run | states | what it asks |
|---|---|---|
| `log_core` | 1.4 million | rotation, truncation, deletion, recycled inodes, one crash and one exception anywhere: `NoDuplicates`, `NothingSkipped`, and the refinement `StoresWholeLinesOnce` |
| `log_live` | 130 000 | `EventuallyStored`: what nginx finishes writing is stored in the end, or erased first |
| `ban_core` | 48 800 | `DenyFollowsList`, `BlockedPathsFresh`, `BlockedIncludeHasFile`, `NginxNotBehind`, `NeverBansTrusted`, and the liveness of `EventuallyWritten`, `HitHandled`, `BansEnforced`, with one fault of any kind |
| `alert_cooldown` | 3.5 million | `SilenceNeedsMail`, `CooldownKept` |
| `sessions_core` | 1.9 million | `LogoutSticks`, `DisabledIsOut`, `StreamEnds`, `GuessesBounded` |
| `upgrades_core` | 1.6 million | `EveryRowHasItsActor`, `ProgressKept`, `RemovedStaysRemoved`, `DefaultsReachInstall`, over every order of releases and every interrupted start |
| `findings_core` | 309 000 | `AddressesAgree`, `NobodyMissed`, `TrustedStayOut`, `EarnedBansHappen`, `BansEarned` |
| `page_core` | 2.6 million | `SettledPage`, `TrustKept`, two tabs whose calls overlap, fail and lose their answers |
| `views_core` | 1.1 million | `WalkSeesAll`, `OverviewAddsUp`, and the refinement `OneRequestAtATime` |
| `log_restart_duplicates`, `ban_reload_lost`, `ban_include_first` | until violated | a sentence of the repository the code does not keep, [below](#disagreements-between-the-code-and-its-documents) |

Every passing run but `log_live`, which has the module of `log_core`, checks the type
invariant of its module as well.

What they show. An interruption of ingestion (a crash, an exception) can store a line
twice and never lose one; rotation does neither unless it hits between the `stat` and
the `open` of one pass, or leaves a stale offset under a reused inode. The deny file
equals the list after every operation unless a write of it failed, and the reconcile
repairs that; nginx lags only while a reload is in flight, or after one failed, hung or
was not called for. A queued
client is banned or found trusted in the end, and an orderly stop leaves none behind. An
evaluation never silences a rule without a delivered mail. The cooldown counts from the
start of an evaluation, so that the next mail may follow a late one sooner by as long as
that one had waited; otherwise the only ways to mail within a cooldown are overlapping
evaluations, a lost answer and a kill. A logout is
final, whatever login overtakes it and however often the process starts again; the user
cache lets a disabled user in for less than its time; a stream ends one ping after its
session does; the limiter lets through as many attempts too many as logins were waiting
together.

An upgrade that is killed anywhere and started again keeps offsets, actors and what the
operator decided about patterns; only an older release in between can lose an offset or
bring a pattern back. Rotating addresses, acknowledging or clearing does not hide an
actor that is over a threshold from the next evaluation; only a full query, a query that
throws, or a trusted or Cloudflare address of the same actor does. The evaluation bans
whoever earned it and nobody with a good record; a client of a blocked path is banned at
once, whatever its record, where the operator has chosen so. A Threats page at
rest shows what its own last call left, unless an older load finished after a newer one;
the trusted list loses an entry that nobody removed to a stale copy of it, and
`TrustKept` says that it is to nothing else but its limit. A log page shows the
answer to what is asked for; somebody who pages to the end misses no row that was there,
but for rows that share their second with another. The numbers of an overview agree with
each other and with the pages behind them, the top lists as far as their limits go.

Bounds, and why they are enough:

- `log_core`: three inodes (live, rotated, recycled), two lines, two rotations. Skipping
  or doubling a line takes one line that is read and one that is not; a stale offset
  takes a file, its successor and the reuse of the inode. `BufLimit = 3` bytes cuts the
  second line in every first chunk. One crash and one exception combine with the
  rotations in all orders.
- `ban_core`: clients of each kind the code tells apart (IPv4, two of one /64, private,
  Cloudflare), a range around a private address and one too broad; two configurations
  that differ in the blocking of paths, the auto-ban and who is trusted, and both ban a
  hit at once. `MaxReloads = 3` allows two reloads
  to be overtaken by a third; `Room` keeps one slot for the flush and the reconcile, so
  that the bound never blocks what fairness requires. One fault is what the liveness
  needs a repair for; the invariants are proved for any number.
- `alert_cooldown`: two evaluations at once is what it takes to overtake; two rules let
  a bundle be partly on cooldown, two subjects let one rule have the two findings a mail
  needs; `Cooldown = 2` and `MaxTime = 4` (the clock starts at 2) allow one full cooldown
  after the first mail, and a first mail that leaves at the end of it.
- `sessions_core`: two logins from one address, so that one can end inside the other;
  pings closer together than the cache holds an answer, as in the code (25 and 60
  seconds), so that a ping is misled once; `MaxTime = 6` outlasts a token, a window, and
  the cache with a ping; two tokens, of which one may be of before revocation, give a
  logout one before and one after it.
- `upgrades_core`: three releases, so that one can be between two others; three
  patterns, the last of which the operator may have added before it was a default; two
  files that were renamed into each other's names; four starts: an old one, a new one
  that is cut off, its repetition, and one out of order.
- `findings_core`: IPv4 of two bits and IPv6 of five, actors of a /2, private,
  Cloudflare and mapped ranges among them: every prefix length from -1 to one too long,
  all pairs of entries. Two addresses of one actor and one other client are what
  rotation and a cap of one need; two rules that overlap in what they count; three rows
  are over a threshold of two; a row lives for a window and one tick of history. One of
  the two configurations bans at once for one of the paths, which may be the first request
  of its actor or come after good ones.
- `page_core`: two tabs and two subjects; a trusted list with one entry and room for one
  more, so that a third is cut; a banned range over one of the subjects; three clicks,
  one of them on a finding; two loads at once, so that one overtakes the other. Losing
  an entry takes one trust, one load before it and one save after it.
- `views_core`: three rows of three clients and two countries, with limits of one, so
  that both kinds of list are cut, at a tie and at a difference; one row has neither
  country nor host; one link with everything a link can have. Pages of one row, so that a
  walk has three pages and a tie between them; two clicks turn them, and one click less overtakes an answer;
  `MaxCalls` keeps one superseded request under way beside the current one, and which of
  several is late makes no difference, as all but the last are dropped. Time stands
  still: `Now` is the end of every range, and rows arrive behind it.

`CHECK_DEADLOCK FALSE` is where the system may really stop: the lines, rotations and
crashes of the log runs, the starts of `upgrades_core`, the rows of `findings_core`, the
clicks of `page_core` and `views_core` are used up, and nothing is left to do. Symmetry
is used for safety only.

## Fairness

- `LogIngest`: `WF_vars(Watcher)`. The event loop goes on, a file that is left alone
  settles (`awaitWriteFinish`), and the container is started again when it ends
  (`restart: unless-stopped` in `src/docker-compose.example.yml`). Nothing is assumed of
  nginx, logrotate or crashes.
- `BanEnforcement`: weak fairness of `Boot` (the same restart policy), `Flush` and
  `Reconcile` (timers of the event loop), `Exit` (a container that is told to stop is
  killed when it does not), and the restart of an nginx that is down (the container
  engine). Of a reload in flight it is assumed only that it runs, fails or hangs, which is
  no more than that Docker is asked: `#docker` sets no timeout, and a call that hangs is
  owed nothing (`LateReload` has no fairness). `MaxFaults` bounds the failures of a
  behaviour, so that after the last one calls run and writes succeed. Nothing is assumed of
  operators, hits or evaluations.

## Proofs

Every safety invariant, every action property and both refinements that a passing run
checks are proved for every value of the constants. The invariance proofs have one form:
`Init => IInv`, one lemma per action for `IInv /\ [Next]_vars => IInv'`, and the
properties as consequences. Assumptions are those the modules name (`FilesAssumption`,
`IngestAssumption`, `NginxAssumption`, `BansAssumption`, `AlertsAssumption`,
`SessionsAssumption`, `UpgradesAssumption`, `NetworksAssumption`, `PrivateAssumption`,
`FindingsAssumption`, `PageAssumption`, `QueryAssumption`, `ViewAssumption`): types and
bounds of the constants, a line fits into the buffer, `/64` grouping covers what it
groups and ends at a group, finitely many logins wait at a time, a release appends to the
defaults of the one before it, columns that are `NOT NULL`, and what is said of the
private ranges [above](#networks-and-threatfindings). TLC evaluates each on the runs of
its module.

- **LogIngestProofs** (`TypeCorrect`, `NeverTwice`, `NeverPassedOver`,
  `SavedOffsetsGrow`, `NoEventInVain`, `StoreIsImplemented`). `NoDuplicates` and
  `NothingSkipped` speak of `rows`; what a later pass will do depends on the offset.
  `IInv` therefore says that every saved offset is the end of a line of its file (`OffsetsInv`), that what lies
  behind it, or behind the running pass, is not stored (`UnreadNotStored`), and that
  what lies before it is (`ReadStored`). It needs that a line is in one place only and
  that nginx writes to one file (`FilesInv`). Each part is conditional on the mishaps
  that really break it. `StoreIsImplemented` is the refinement: the initial state maps
  to that of `LogStore`; a chunk is a `StoreBatch` because `UnreadNotStored` says that
  its lines are not stored, or a `StoreGarbled` after a swap; every other action leaves
  `rows` alone and is a `Change` or a stutter. `NoEventInVain` is the safety half of
  `EventuallyStored`: while the watcher watches, each complete line not stored has an
  event or a pass that will reach it (`NothingForgotten`). A pass that begins reads it
  because it lies behind the offset (`ReadStored`); one that finds no line has half a
  line left at most (`DryChunk`), which is where the chunk size of at least a line comes
  in.
- **BanEnforcementProofs** (`TypeCorrect`, `FileIsList`, `CopiesAreFresh`,
  `IncludeIsSafe`, `NginxFollows`, `BansAreSafe`, `NoLockOut`, `RestIsEnforced`,
  `NoHitSlips`). The invariant is the conjunction of the checked ones; `NginxNotBehind` is inductive because every change of the directory
  either adds a reload or sets `missed`, and the last reload in flight reads the
  directory as it is then. `BansAreSafe` is an action property: it needs that `Allowed`
  looks at the widened target and at the stored configuration. Three results go from one
  end to the other: neither list, file nor nginx ever denies a private address, because
  each is made of the one before it and nothing else (`NoLockOut`); with nothing in flight
  and nothing missed nginx denies exactly the list (`RestIsEnforced`); and whoever leaves
  the queue of hits is on the list or refused, unless the process was killed
  (`NoHitSlips`, the safety half of `HitHandled`: an orderly stop finds the queue empty).
- **ThreatAlertsProofs** (`TypeCorrect`, `SilenceIsEarned`, `MailsAreSpaced`).
  `CooldownKept` speaks of deliveries and alone is not inductive: it needs that the saved
  cooldown is the start of the evaluation of the last mail (`LastIsLatest`) and that
  whoever is sending was due and is alone for its rules (`SendersAreDue`), both only until
  the first mishap. A mail never goes out before its evaluation starts, so the spacing of
  the starts gives that of the deliveries, less the wait of the first.
- **SessionsProofs** (`TypeCorrect`, `LogoutIsFinal`, `CacheIsHonest`, `CacheLetsIn`,
  `StreamsEnd`, `GuessesAreBounded`). That a request is refused depends on the cut-off
  and on the cache, so the invariant speaks of those: a cut-off lies at or behind the
  issue time of every token it ended (`CutOffs`), a cached answer was true when it was
  given (`CacheIsRecent`), and a stream's last check found a valid session
  (`StreamsChecked`). `GuessesBounded` is inductive once the logins in flight are
  counted with the failures.
- **UpgradesProofs** (`TypeCorrect`, `ActorsAreKnown`, `ProgressIsKept`,
  `RemovalsStick`, `DefaultsReach`). The properties speak of a running release; the
  invariant says what holds at each phase of a start, so that a kill and another start
  can rely on it: past the backfill no row is without its actor (`RowsInv`); the old
  table, while it exists, or the new one once the copy is made holds what was recorded
  (`OffsetsInv`); what counts as offered is what was saved or refused (`OffersInv`).
  That the copy leaves one row of an inode, the furthest, is `GreatestExists` on a
  bounded set of numbers.
- **ThreatFindingsProofs**. About addresses, for every width (`MatchingIsMembership`,
  `OverlapIsSharing`, `ActorsSplitAddresses`, `TargetsHaveMembers`, `RefusedWhenPrivate`,
  `TextsAreRead`, and together `AddressesHold`): masks and shifts mean the bits above a
  prefix, so that matching is membership, two entries overlap exactly when they share an address, and an
  address written is read back. The arithmetic of powers of two comes from counting
  subsets, since `2^n` is the number of those of `1 .. n`; induction over bits from a
  least counterexample; and what the loop of `ValueOf` computes from its equation, which
  has one solution. About findings (`TypeCorrect`, `NobodyIsMissed`, `TrustedAreLeftOut`,
  `EarnedAreBanned`, `OnlyEarnedAreBanned`): the properties count requests of a set of
  addresses, the code groups rows; `GroupMeans`, `ReachedMeans` and `DetectedMeans`
  connect the two, `LeftOut` says when the limit of a query leaves an actor out, and each
  exception of `NobodyMissed` is where one of these lemmas fails. The claims speak of the
  last evaluation, so that after any other step `IInv` is settled by what that step
  changed. `OnlyEarnedAreBanned` needs of the queue that whoever is in it has a request of
  this tick for a path some configuration bans at once (`Tick` waits for the flush).
- **ThreatsPageProofs** (`TypeCorrect`, `PageSettles`, `TrustSurvives`), for any number of
  tabs, loads and calls. A page at rest is current because answers, copies and calls are
  honest about the revision they are of (`AnswersHonest`, `PagesHonest`, `CallsHonest`)
  and because something newer than a tab's own call is always on its way to it
  (`UpToDate`). `TrustKept` is an action property of a save; what it needs is that a copy
  has every target trusted no later than its base (`Covers`). It allows for a
  target that an operator takes out and adds again: it comes back behind the others, and
  may fall to the limit.
- **LogViewsProofs** (`TypeCorrect`, `TheLastQuestionWins`, `NothingIsSkipped`,
  `NumbersAddUp`, `OneRequestIsImplemented`). That only the last question is answered is
  nearly inductive: every click supersedes all calls and adds one. `NothingIsSkipped`
  needs two more parts, that a row not yet seen lies below the page shown (`WalkKept`) or
  below the answer on its way (`AnswerKept`); rows that arrive push it down, and the
  prune takes older ones first. `NumbersAddUp` solves sums by their defining equation on
  every part of the values, takes the intervals of the chart apart, and goes through the
  pages by a least counterexample. Of a cut list it uses only that what is left counts no
  row twice (`ListCounts`) and that a list below its limit was not cut (`CutKeys`); that
  a count is the total of the narrower filter is `Narrowed`. `OneRequestIsImplemented` is the refinement: a click
  is an `Ask` (`ClickAsks`), what becomes of a superseded call a stutter, what becomes of
  the active one the step of `OneRequest` (`NetworkIsOne`).

Proved and not part of a run: a queue has its timer (in the invariant of `BanEnforcement`),
`CacheLetsIn`, `SavedOffsetsGrow`, `NoEventInVain`, `NoLockOut`,
`RestIsEnforced`, `NoHitSlips`, `TheLastQuestionWins`, which the refinement implies, and
the parts of `AddressesAgree` one by one.

Only model-checked: the liveness properties (`EventuallyStored`, `EventuallyWritten`,
`HitHandled`, `BansEnforced`), which rest on fairness and are out of the prover's reach,
and the violations.

## Disagreements between the code and its documents

With a run that reproduces them:

- `log_restart_duplicates`: a crash between the commit of a batch and the save of the
  offset stores the batch again (`ingest/watcher.ts:29`: "no duplicates, no gaps").
- `ban_reload_lost`: a reload that fails once is not tried again (`src/README.md:296`:
  "it reloads nginx itself on every change"). One that hangs leaves a ban unenforced just
  so, and nothing logs it: `bans/enforcer.ts:190-225` sets no timeout.
- `ban_include_first`: `sync()` includes its file before it is written
  (`bans/enforcer.ts:95` says of the other snippet why that must not be).

Seen while modelling, without a run of their own. In log ingestion:

- a rotation between the `stat` and the `open` of a pass advances an offset over bytes
  that were never read (`src/README.md:31`; in the model `"swapped"`), the pruning that
  protects against recycled inodes happens only at the start (`ingest/watcher.ts:58`;
  `"masked"`), the offset is advanced by re-encoded bytes, so invalid UTF-8 drifts it
  (`ingest/watcher.ts:128`; `"drifted"`), and what arrives between the backfill of a
  file and the start of the watch waits for the next event (`"unseen"`).

In bans, alerts and sessions:

- an include that could only be added late, or was lost and put back with an unchanged
  file, is not followed by a reload (`"missed"`); an address that is banned first and
  trusted afterwards stays banned;
- two evaluations that overlap both mail about a rule (`src/README.md:266`); the cooldown
  counts from the start of an evaluation (`threats/engine.ts:346`), so that a mail may
  follow one that waited for Docker sooner than it says, at once even;
- an actor with a good record is "never auto-banned" (`src/README.md:283`), but is, without
  score or charges, for one request of a path that is banned at once
  (`threats/blockedPaths.ts:134-153`, as `src/README.md:255` says of the switch);
- the live stream of a disabled user goes on for up to 85 seconds (`src/README.md:316`:
  "within a minute"); logins that overlap exceed `loginMaxAttempts` (`GuessesBounded`
  says by how much); a login that ends in the millisecond of a logout is refused.

In findings and address arithmetic:

- a finding is of one address of its actor, the greatest as text. When that one is
  trusted the finding is skipped for the whole /64, and the requests of a trusted
  address count for the actor as long as another represents it (`src/README.md:236`,
  `src/README.md:240`; `Spared` in `NobodyMissed`);
- the fifty subjects of a query are taken before trusted and Cloudflare ones are skipped
  (`CrowdedOut`); an acknowledged finding is open again a minute later while its
  requests are in the window; findings of a disabled rule stay;
- private ranges written as IPv4 in IPv6 are not refused as ban targets
  (`PrivateIsRefused` leaves them out); a range written `1.2.3.4/` has length 0, as
  `Number("")` is 0.

In the frontend:

- a trust sends the whole configuration as the tab last loaded it and takes back what
  another tab saved meanwhile (`TrustKept` names this case); a trust beyond the
  thousandth is cut without a word;
- after one failed load only the error box is left of the page; a trust that fails is
  shown as trusted until the next load; the reload a save schedules uses the filter of
  severities there was at the save;
- the unban button takes only the address and its /64 off the list: under a wider range
  the client stays banned;
- rows of one second have no fixed order, so that two pages may show a row twice or not
  at all; Next, clicked while a page or a new filter still loads, goes on from rows
  nobody saw; an offset beyond a list that has been pruned shows an empty page;
- the class filter 5xx ends below 600, the count of server errors does not; a status of
  1xx is in no class.

## What is left out

- In `BanEnforcement` and `ThreatAlerts`: detectors, good-history check and thresholds,
  which are in `ThreatFindings`; an evaluation may find any set of subjects. Parser,
  geolocation, wording of files, mails and logs: data.
- The age of a blocked-path hit and the window of an evaluation: a hit stands for a
  fresh line.
- A directory that cannot be made counts as both writes failing; a crash between the two
  writes of `sync()` is a failed write followed by `Crash`, which leaves the same files.
  `Exit` waits for the reloads in flight, but not for one that hangs, where the container
  engine ends the process; losing the others is `Crash`. A handler that waits for a hung
  call waits on: an evaluation of `ThreatAlerts` may stay at `"banning"`, and nothing is
  promised of it. Which of two overlapping evaluations saves its cooldown last is
  modelled, but no property judges it.
- A change of `cooldownMinutes` or of the recipient while an evaluation waits; a mail
  service that is not configured.
- In `LogIngest`: lines that do not parse or are older than the backfill window, lines
  longer than the buffer of 4 MB, a log that never settles, the retention prune (in
  `LogViews`), and the loss of the last WAL commits at a power failure.
- Signatures of tokens, bodies that are not strings, the comparison of passwords, the
  cleanup of the limiter above 10 000 addresses, the check of the origin (CSRF).
- In `ThreatFindings`: rows alike in client, request and age count once; the window is
  open at its newer end; the count, detail and sample of a finding; a ban or a mail that
  waits (`BanEnforcement`, `ThreatAlerts`); requests that come in inside an evaluation,
  which has no wait.
- In `Upgrades`: rules but one, which are alike and independent; the creation of tables
  and indexes; what an older release does beyond rows, offsets and patterns.
- In `ThreatsPage`: the filter of severities, findings raised meanwhile, the first load
  of a tab, the test mail, toasts, and the fields of the configuration alike to those
  kept. In `ServePut` the save, the wait for nginx's files and the evaluation are one step
  (`ThreatFindings` takes them apart): no property here speaks of the time between them.
- In `LogViews`: the passing of time, the filters on method, country, status and text,
  the error log (paged alike, without links), sums of bytes, averages, the top lists of the
  other text columns (as that of the referers) and the times of the first and last row.

Not modelled at all: the parser of log lines and the geolocation (functions of one line
or one address), request checks and headers (functions of one request), the host map
(replaced as a whole every minute), the live tail and the pulse (they keep the last
entries of the stream and have nothing to go back to when it breaks or is paused), the
other pages (one answer of `useFetch` each), build files and deployment.

## Plan

Done: the core, in the order of what would hurt most (logs lost or doubled, a ban that
is not enforced or hits the wrong client, alerts that do not come, sessions that outlive
their end), then upgrades, findings with the address arithmetic below them, the two
kinds of pages of the frontend, the abstract store that ingestion implements and the
abstract page that `useFetch` implements, and proofs of all safety properties.

Left, in this order:

1. The writer and the reader of `access_log` in one module: ingestion and the prune of
   its rows while a reader pages.
2. The life cycle (`index.ts`) as a composition: a watcher that feeds the blocked paths,
   an engine that shares the list with operators, shutdown order.
3. The live tail, as a stream with gaps beside the table it is a copy of.

A set of bans with an enforced copy, as an abstract specification of `BanEnforcement`,
was dropped: a copy that may lag at any time is implemented by nearly any program;
`NoLockOut` and `RestIsEnforced` say what it would have said and more.
