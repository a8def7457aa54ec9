# Formal models of telegram-mcp-server

TLA+ modules, TLC configurations and TLAPS proofs for the core of
`telegram-mcp-server`: a Go process that reads Telegram channels and groups with a
user account, keeps what is new in a local SQLite file, and serves it over MCP
(HTTP, behind OAuth), an admin page and a CLI.

The modules are translated from the source, not from its documents; where the two
disagree a run shows it (see *Where the code and its documents part*).

    tlc -workers 2 -config sync_two.cfg MCSourceSync     # model-check one run
    tlapm SourceSyncProofs.tla                           # check the proofs of one module

The modules with proofs are `SourceSyncProofs`, `SyncFeedProofs`,
`WatcherProofs`, `OAuthProofs`, `ExclusionsProofs`, `MigrationsProofs` and
`AnnouncementsProofs`.

## 1. Inventory

### Components, state, operations

| component | source | state | operations that change it |
|---|---|---|---|
| source synchronisation | `telegram/sync.go` | where each sync stands (local variables) | `SyncSources`, `syncOneSource`, `syncLinkedComments` |
| state repository | `state/repository.go` | table `source_states`: the two cursors of a source | `Save` |
| message repository | `messages/repository.go` | table `messages`, column `hidden_by_exclusion` | `Save`, `HideBySender` |
| source repository | `sources/repository.go` | table `sources`: `enabled`, `error_count`, `paused_until` | `Upsert`, `Remove`, `Purge`, `MarkHealthy`, `MarkUnhealthy` |
| exclusions | `exclusions/repository.go`, `service.go` | table `excluded_senders` | `Add`, `AddSender`, `AddFromMessage`, `RemoveSender` |
| background watcher | `app/watcher.go` | the ticker, the pass under way | `runTelegramWatcherSync`, `updateSourceHealth` |
| notifications | `app/notifier.go` | none | `SendWatcherSummary` (an HTTP call) |
| OAuth server | `mcp/oauth.go` | three maps under a mutex, a JSON file | register, authorize, token, validate, load, save |
| MCP tools, resources | `mcp/server.go`, `resources.go`, `tools.go` | none of their own | call the repositories, the service and `SyncSources` |
| admin UI | `admin/handler.go` | none (a cookie derived from the owner token) | the same calls |
| application, CLI | `app/app.go`, `cmd/` | none | `Serve`, `SourceAdd`, `SourceRemove`, `TelegramSync` |
| storage | `storage/sqlite.go`, `migrations.go`, `migrations/` | the schema, `schema_migrations` | `Open`, `Migrate` |
| Telegram client, auth, dry run | `telegram/client.go`, `dryrun.go` | the session file of a library | read-only requests, login |
| configuration | `config/config.go` | environment, read once | none |

### How they interact

`Serve` opens one database handle with a single connection and hands it to the
watcher goroutine and to the HTTP handlers (MCP and admin). The CLI commands are
processes of their own on the same file. So a source can be synced by the
watcher, by the MCP tool `telegram.sync`, by the admin UI and by `telegram-sync` at
the same time, while any of them adds, removes or purges sources and edits the
exclusions. There is no lock per source and no transaction around a sync: the single
connection and SQLite's locks make one statement (or one `Purge`) atomic, nothing
larger.

The OAuth maps are protected by a mutex, but a save copies the maps under it and
writes the file after releasing it.

### What is hard here, and what makes each part correct

* **Sync.** A cursor stands for "everything up to here is dealt with". It is read,
  then history is requested, messages are checked and saved one by one, then the
  cursor is written, together with the *other* cursor as it was read at the
  beginning. Correct: a cursor never passes a message that was neither stored nor
  deliberately skipped; no write outlives a purge; a message is settled in the end.
* **Exclusions.** The check and the save are separate statements, and a save clears
  `hidden_by_exclusion`. A sender is known by an id, a username or both; usernames
  change hands; a row is found by one statement and deleted or completed by its
  number in a later one. Correct: what an exclusion hides stays hidden, but for the
  message a running sync had already checked; nobody is taken off the list in place
  of somebody else.
* **Watcher.** Health is judged on counts read when the pass began; sources come and
  go under the pass; a flood wait ends it. Correct: flood waits are respected, a
  source is disabled only for failures it had, and no source waits for ever behind the
  floods of others.
* **OAuth.** Redemptions race, saves overlap, the process restarts, the file can be
  torn. Correct: one token per code, no token that nobody was granted, and what was
  answered survives.
* **Notifications.** A pass counts what it saved and sends one summary; another sync
  can move the cursor meanwhile, a source can fail half way. Correct: what the
  watcher stored reaches a summary, or is read and counted again. The code loses it in
  two cases, and should in no other.
* **Migrations.** Several processes may start on one file; whether a migration was
  applied is read before its transaction; the migrations after the first cannot be
  repeated. Correct: each is applied once, in order, and whoever loses the race gets
  through when it is started again.

`PROJECT.json` lists the hazards line by line, with the properties that watch them.

## 2. Modules

### SourceSync: one source, its chats, its rows, and everybody who touches them

One configured source is modelled, since nothing in a sync relates two sources
except the loop in `SyncSources`, which is the watcher's business.

| model | code |
|---|---|
| `remote`, `issued`, `Arrive`, `Delete` | Telegram (external): a chat shows messages with growing ids, some are deleted |
| `configured`, `hasState`, `cursors`, `stored`, `hidden`, `excluded` | the rows of the four tables |
| `sync[s]` | the local variables of one `syncOneSource`; `pc` names the next statement |
| `Begin` | reading the source list and taking the source from it (a sync may hold a source that is removed meanwhile) |
| `ReadState`, `SaveCursor` | `States.Get`, `States.Save` |
| `CollectLatest` | `collectHistory(…, 1, 0)` of a baseline; an empty posts chat ends the sync, comments included |
| `Collect` | `collectHistory`: the newest *n* after the cursor, with `reachedState` and `truncated` exactly as the loop sets them |
| `CheckGlobal`, `CheckSource` | the two queries of `IsExcluded` |
| `SaveMessage` | the upsert, which writes `hidden_by_exclusion = 0` |
| `EndBatch`, `Advances`, `NewCursors` | whether and how the cursor moves, for backfill, baseline and incremental batches of posts and of comments |
| `NextPhase` | from posts to the comments of the linked discussion |
| `SyncStops`, `Refused` | an error, a cancelled request, a crash; a statement refused by a foreign key |
| `AddSource`, `RemoveSource`, `PurgeSource` | `Upsert`, `Remove` (refused while states or messages refer to the source), `Purge` (one transaction) |
| `ExcludeSender`, `HideBySender`, `RemoveSender` | the two halves of `AddSender`, which may stop in between; `RemoveMatching` |

`floor` and `skipped` are history variables: the ids a first sync or a purge gave up
on purpose, and the messages skipped as excluded.

Abstractions. A message is its key (label, id) and its author; text, links, dates
are left out. A sender is one identity. `collectHistory` is one step: it pages
backwards by message id, so messages arriving during the paging are not seen and
one deleted meanwhile might as well have been deleted before or after the whole
request. Service messages (joins, pins), which the code ignores, are not in
`remote`.

### SyncLiveness: what repetition buys

Extends SourceSync with a variable `calm` after which no sync is cut short, and with
fairness: `BeginRun` because the ticker starts a pass again and again, `SyncStep`
because a goroutine that started a sync goes on with its next statement. Nothing is
assumed of Telegram, of the commands or, before `calm`, of the network. `calm` is a
variable because a stop and an ordinary return can be the same step, so stops cannot
be excluded by a formula over steps.

### Watcher: passes and source health

Time is counted in watcher intervals. `BeginPass` reads the list and the error
counts once; `SyncSource` yields any outcome (healthy, flood with a wait, permanent or
transient error), a flood ends the loop; `EndSync`, `MarkHealthy`, `MarkUnhealthy`,
`MarkFails` and `EndPass` go through the results; `RunFails` drops them all. `Tick`
models the ticker's channel, which holds at most one tick. `Upsert` and `Remove` come
from the admin UI, MCP and the CLI at any moment: updates of a row that is gone match
nothing.

`streak` (failed results in a row), `owed` (what Telegram still wants to be left
alone) and `fresh` (sources added under the pass) are history.

`Health` is the abstract specification of the health columns. It knows no pass and
no list: a source that is not paused gives an answer, a report of it is judged at once
on the row it meets (`Recovers`, `Suffers`) or is lost, and rows are configured and removed
at any time. `Watcher` instantiates it as `Row`: the rows go by their own names, `answers`
is `pass.results`. What the watcher decides by counts and pauses it read when the pass
began must then come to the same as deciding by the row; the one exception, a row
younger than the pass, is spelled out in `Suffers`.

### OAuth: codes, tokens and the state file

Each HTTP handler goes through the critical sections and the save of its request:
`Register`, `TakeCode` then `Issue` or `Refuse`, `Reject` (validation of a token that
is unknown or has expired also saves); then `Copy` (under the mutex), `Truncate`, `Write`,
`Answer`. `Write` writes from its own offset over what another save wrote after its
own truncation: of longer contents a tail remains and the file no longer parses.
`SaveFails` is an ignored error; `Restart` may hit any of it and loads the file.
Ids are drawn once: 192 random bits and more do not collide. PKCE and secrets are the
choice between `Issue` and `Refuse`.

`Grants` is the abstract specification: who is registered, which codes are open, which
tokens are valid, and what clients were told. It has no handlers, copies or file.
`OAuth` instantiates it as `Service`: `registered` is `clients`; `open` is `codes` with the
codes that a handler took out of the map and has not decided on (`InRequest`), so that
`Redeem` and `Refuse` are the moments when the token appears or the request is turned
down; `valid` is `Live(tokens)`; `told` is what was answered and has not expired. Steps of
a save are stutters, except that an overlap or an error shows as `Harm`. `Restart` of
`Grants` may bring up nothing new, and loses what a client was told only after harm.

### Feed and SyncFeed: what a sync promises

`Feed` is the abstract specification: chats that show messages, a mark per chat that
moves only over messages that were settled or given up (`Move` demands
`NothingSkipped'`), and a purge that gives up everything (`Forget`). It knows nothing
of syncers, batches, limits or stale reads. `SyncFeed` instantiates it over
`SourceSync`: `shown` is `remote`, `mark` the two cursors, `settled` is
`stored \cup skipped`; `issued` and `floor` go by their own names. `KeepsPromise` is the
abstract specification under that mapping. It holds without backfills only; a
backfill moves the mark over unread messages (`backfill_gap`).

### Announcements: the watcher's counts beside the sync

Extends `SourceSync`; one syncer is the watcher's. `BeginPass` starts a pass;
`CountSaved` is `SaveMessage` with the counter behind it; `EndPhase` moves the counts of
a phase into the result: the posts before the cursor is written, the comments after,
as the code does; `SourceFails` keeps the result so far, `RunFails` drops it,
`Summarize` is `SendWatcherSummary`, tried once. The counts are kept as the sets of
messages counted. The other syncers are the MCP tool, the admin page and the CLI, which
announce nothing. A source purged takes its news with it, so purges are left to
`SourceSync`; a message that the chat no longer shows is no news either (`Withdrawn`).

Four sets are history, and no step of the code depends on them. `owed`: what the watcher
stored *first* and no summary, sent or failed, has counted. It shrinks by `Summarize` and
`Withdrawn` alone: no failure and no other syncer takes anything from it. `overtaken`: messages
that another syncer's cursor passed before the watcher had them in its result. `dropped`:
messages whose count an error took before it was in the result. `slipped`: messages that
were in the result of a run that failed.

### Exclusions: the list, its editors and the syncs that ask it

| model | code |
|---|---|
| `table`, `lastRow` | `excluded_senders` and its AUTOINCREMENT counter |
| `ById`, `ByName`, `Matches` | `FindMatching`: by id if there is one, then by normalized username; at most one row each, by the unique indexes of `001_init.sql` |
| `BeginEdit`, `BeginAddFrom` | `AddSender`, `RemoveSender`; `AddFromMessage`, which takes id and username as the message was stored |
| `LookById`, `LookByName` | the queries of `FindMatching` |
| `Insert` | the insert, refused by a unique index when another editor was faster |
| `Fill` | `fillExisting`: the evidence column by column, the identity left alone |
| `Get`, `HideBySender` | reading the row back; `HideBySender` by id, or by username if there is no id |
| `DeleteRow` | the delete by row number |
| `IsExcluded`, `SaveMessage` | up to four queries per message, with the username of the moment the batch was read, and the upsert |
| `Rename` | Telegram (external): usernames are given up and taken over |
| `AddSource`, `RemoveSource`, `PurgeSource` | only a purge deletes the exclusions of a source |

`answered` and `late` are history: the rows whose own sender was excluded with success,
and the messages a sync had in hand at that moment. In `SourceSync` a sender is one
identity and exclusions are a set; here a sync is the check and the save of each
message, without cursors.

`Blocklist` is the abstract specification: the list as one object, on which an addition, a
removal and a check take one step each. An entry comes in when no other of its place has
its id or username (`Enter`), more is noted of it for a wish that names its sender (`Note`),
it is put in force together with the messages it hides (`Enforce`) and taken off for such a
wish (`Strike`); a message is shown only if no entry in force forbids it at that moment,
unless it was in hand when one came into force (`Show`). `Exclusions` instantiates it
as `List`: the entries are `table`, those in force `answered`, the excused messages `late`,
a wish is an editor's record, and a message is being checked from the first query to the
save. Lookups, `Get` and later queries do not show.

### Migrations: several processes on one file

`Init` is a file with the first `n` migrations, from a new one to one that is up to
date. `CreateTable`, `Check`, `Apply`, `Record`, `Commit` are the statements of `Migrate`;
`Apply` waits for SQLite's write lock (external) and fails on a column that is
there already; `Stop` is a crash or a lock not granted in time, and rolls back.
Fairness: a process in `Migrate` goes on, and the service is started again (the
systemd unit says `Restart=on-failure`). `calm` has the role it has in `SyncLiveness`.

`Upgrade` is the abstract specification: a schema of the first *n* migrations advances by
the next one together with its list, and processes enter once it is complete.
`Migrations` instantiates it as `File` with `schema` as `made`, `listed` as `recorded` and
`users` as the processes that are done. Only `Commit` is an `Advance`.

## 3. Runs

| run | module | what it asks | distinct states |
|---|---|---|---|
| `sync_two` | `MCSourceSync` | `ForeignKeys`, `NoSilentSkip`, `Coverage`, `KeepsPromise`, `StuckStays`: 2 syncers, 3 posts, limits 1 and 2 | 285 k |
| `sync_exclusions` | `MCSourceSync` | `TypeOK`, `LeakBound`, `IncrementsSkipNothing`: 1 syncer, exclusions of the source, backfill, 3 posts, limits 1 and 2 | 2.5 M |
| `sync_live` | `MCSyncLiveness` | `EventuallySettled`, `CursorsAdvance`: 1 syncer, 1 post, 2 comments | 11 k |
| `announce` | `MCAnnouncements` | `NewsIsAnnounced`, `NoSilentSkip`: the watcher and a manual sync, 2 posts, 2 comments | 3.5 M |
| `exclusions` | `MCExclusions` | `TypeOK`, `ExclusionKept`, `HitsItsSender`: 2 editors, 1 sync | 2.3 M |
| `watcher` | `MCWatcher` | `TypeOK`, `PauseIsKept`, `DisabledIsEarned`, `KeepsHealth`, `EverySourceIsAsked`: 2 sources | 139 k |
| `oauth` | `MCOAuth` | `TypeOK`, `OwnersRegistered`, `CodeRedeemedOnce`, `TokensGranted`, `AnsweredIsDurable`, `KeepsGrants`: 2 handlers | 509 k |
| `migrations` | `MCMigrations` | `TypeOK`, `AppliedInOrder`, `AppliedOnce`, `DoneIsMigrated`, `ServiceComesUp`, `KeepsUpgrade`: 3 processes, 2 migrations | 3.7 k |
| `backfill_gap`, `comment_reset`, `limit_stuck`, `evidence_mixed` | | violated, see below | |

**Bounds.** `LastId` bounds the ids of a chat. Three posts are the least with which a
cursor, a batch cut by the limit and a gap between them exist; with two posts and two
comments (`announce`) the cursors of one row interact. Two syncers are every pair that
can race on the row; the proof covers any number. `LeakBound` allows one message per
syncer, so two messages and one syncer are the least that can break it. In
`sync_exclusions` limit 1 cuts a batch of two, limit 2 does not, and a backfill of 1 leaves a
gap; exclusions are those of the source, asked last, since both scopes with three posts
are beyond a short run (`sync_live` has the global ones, the proofs have both). In `watcher`,
`Threshold` has its real value 3, `ErrorCap` 4 lets the count pass it, `MinPause` 2 lies
between the flood waits 1 and 3 and is the shortest with which the second source is
within the bound of `EverySourceIsAsked`. `SlowTicks` bounds how many ticks go by during one
pass: one is enough to fill the ticker's channel. In `oauth`, two handlers are a race,
two clients a mismatch, two tokens two redemptions. In `exclusions`, one account that
takes and drops one username is known in all three ways (by id, by name, by both); two
editors and two rows are enough for a row to be found, deleted, inserted anew and hit
by the late statement; `LastRow` 2 bounds the inserts. Several accounts, names and
sources are covered by the proofs. In `migrations`, three processes let one hold the
lock, one wait with a check that is out of date, and one start late; migration 1 can be
repeated (`IF NOT EXISTS`), migration 2 cannot, as in the repository. Symmetry is used
for syncers, editors, handlers and random ids, never in a run with a liveness property.

**Fairness.** `LiveSpec` as above. `FairSpec` of `Watcher`: the ticker ticks, and a pass
goes on; both run in one goroutine that waits for nothing else. `EverySourceIsAsked`
assumes further that from some point on no run fails as a whole, and that no source listed
before the one in question loses its flood wait, by a failed update or with its row, since
a pass can otherwise be broken off at the first source for ever.
`FairSpec` of `Migrations`: no process stays in the middle of `Migrate`, and the
supervisor starts the service again.

**What the passing runs show.**
* `NoSilentSkip`: with backfills left aside, neither cursor ever passes a message that
  was neither stored nor skipped, with stale writes, purges, and stops between any
  two statements. `Coverage` is why. `KeepsPromise`: every step is one that `Feed` allows.
* `IncrementsSkipNothing`: with backfills, too, a run that carries on from a cursor moves
  it past no message it did not see. So the gap of `backfill_gap` is the backfill's own;
  no stale cursor, purge or cut batch adds to it.
* `StuckStays`: with as many new posts as the largest limit, no repetition moves the posts
  cursor; posts must be deleted or the source purged. `limit_stuck` is where that ends.
* `ForeignKeys`: a purge is final for messages and cursors.
* `LeakBound`: per running sync at most one message of an excluded sender comes back.
* `CursorsAdvance`: with one syncer cursors never go back, whatever is deleted.
* `EventuallySettled`: nothing is lost for good by a sync cut short, if the limit
  exceeds the number of new messages.
* `NewsIsAnnounced`: what the watcher stored first is announced, or read and counted
  again, but for two ways of losing it. Either the whole run fails after the message was
  counted (`slipped`), or an error takes the count before it is in the result *and* another
  syncer's cursor passes the message (`dropped` and `overtaken`). An error of the source, of
  its comments or of a cursor write does not lose news by itself, nor does a manual sync
  that overlaps. Both exceptions are needed: without either TLC finds the loss.
* `ExclusionKept`: once `AddSender` was answered for the sender a row names, his messages
  stay out while the row is listed, through renames, removals and purges, except for
  the messages a sync had in hand. `HitsItsSender`: a row number held by one request is
  never somebody else's row when it is used, because numbers are not given out again.
* `PauseIsKept`: the pause covers what Telegram asked for, unless the answer itself
  was lost. `DisabledIsEarned`: three failures in a row of that source. `KeepsHealth`: the
  reverse as well; no report is judged too late, and none is written to a row that did
  not earn it.
* `EverySourceIsAsked`: the sources listed before one cannot starve it by flooding, as long
  as the minimum pause is longer than they can block, one pass each (`Outlasts`).
* `CodeRedeemedOnce`, `TokensGranted`, `OwnersRegistered`: for any race and restart.
* `AnsweredIsDurable` marks the exact boundary of durability: what was answered is in
  the file unless two saves overlapped, one failed, or a crash hit the rewrite.
  `KeepsGrants` says what this is worth to clients, and that short of it a restart
  forgets but never invents.
* `AppliedInOrder`, `AppliedOnce`, `DoneIsMigrated`: the late check does no harm, since
  the statements or the primary key refuse the second application and roll it back.
  `KeepsUpgrade`: no step takes anything back.
  `ServiceComesUp`: the process that lost ends with an error, and gets through the next
  time.

**Where the code and its documents part.**
* `backfill_gap`: a backfill moves the cursor to the newest message it read, over new
  messages between the old cursor and the *N* newest (README.md:19, 135).
* `comment_reset`: a state row created by a comment backfill has no posts cursor; the
  next sync takes the posts for a first run and writes 0 over the comment cursor
  (README.md:19). Two first syncs at once can do the same to each other.
* `limit_stuck`: with as many new messages as the largest limit (capped at 1000, which
  the watcher already uses), or more, the cursor never moves again, and whatever is
  older than the newest 1000 is never read (README.md:135). Exactly `--limit` new
  messages are taken for more than the limit (sync.go:459), where README.md:134 says *more*.
* `evidence_mixed`: `fillExisting` completes an entry column by column, so the evidence
  may be the id of one message with the text of another (repository.go:203; README.md:25,
  service.go:65).

Further divergences, which the models contain and no run is spent on:
* The one message of `LeakBound`: checked before the exclusion, saved and made visible
  after it (README.md:24, ARCHITECTURE.md:89).
* A flood wait ends the pass, so sources at the front of the list that take turns in
  flooding keep the ones behind from being asked (.env.example:23, *sync all enabled
  sources every 300 seconds*). At the default settings, a pause of 1800 s and an interval
  of 300 s, six or seven of them are enough. `EverySourceIsAsked` speaks only of the sources
  within the bound `Outlasts`, and the bound is tight: with three sources and `MinPause = 2`
  the third is beyond it, and with `<=` in place of `<` TLC shows the first two starving it
  (`Removable = {}`, `Threshold = ErrorCap = 1`, `FloodWaits = {1}`, `SlowTicks = 1`); with
  `MinPause = 3` all three are asked.
* News is lost in the two ways `NewsIsAnnounced` names (.env.example:29, *sends one summary
  message after watcher sync when new messages were saved*): an error of the whole run drops
  the results of the sources synced by then (watcher.go:113-116), and an error of a source
  drops the count of its phase (sync.go:271-275), for good if a manual sync, which announces
  nothing, has moved the cursor meanwhile.
* An exclusion by username that `AddFromMessage` meets again keeps its row without the
  id (`fillExisting` leaves the identity alone): when the sender takes another name he
  is no longer excluded. `ExclusionKept` therefore counts a row as answered only for the
  sender it names (`SameKey`).
* `RemoveSender` deletes one row: a sender listed by id and, in another row, by username
  stays excluded by the other.
* A batch that stays truncated is saved again, and announced again, by every pass.
* Two first syncs that overlap can each take a baseline, and the later one gives up
  (`floor`) a message that arrived in between.

## 4. Proofs

Each module proves what its component's runs check, for every value of the constants.

### `SourceSyncProofs`

For every set of syncers and senders, every limit and every bound on ids:

* `TypeCorrect`: `Spec => []TypeOK`, inductive by itself.
* `ForeignKeysHold`: `Spec => []ForeignKeys`, inductive by itself; the steps that matter
  are the late writes, guarded by `ReferenceOK` (`SyncsReferTo` for the fetches,
  `CommandsReferTo` for the user's commands).
* `CoverageHolds`: `Backfills = {} => (Spec => []Coverage)`.
* `NoSilentSkipHolds`: the same for `NoSilentSkip`, a conjunct of `Coverage`.
* `IncrementsSkipNothingHolds`: `Spec => []IncrementsSkipNothing`, for any backfills.
* `StuckStaysHolds`: `Backfills = {} => (Spec => StuckStays)`.
* `LeakIsBounded`: `IsFiniteSet(Syncers) => (Spec => []LeakBound)`.
* `CursorsAdvanceHolds`: with one syncer, no backfill and no purge, no cursor goes back.

`NoSilentSkip` alone is not inductive: it says nothing of what a syncer is about to
write. `Coverage` adds, for each syncer, that the cursors it *read* are covered (so a
stale write does no harm), that a batch marked complete covers everything up to its
top but for what it has still to do, and that no cursor lies beyond the ids given out
(so messages to come are never owed). The argument has three parts: a step that only
adds messages beyond `issued` and rows to the store (`Grows`) keeps all of it, for
commands, Telegram and the other syncers; the collecting step yields a covered
batch because it was not cut (`UncutBatch`); a purge raises `floor` to `issued`, so
nothing is owed. `Backfills = {}` is needed: `backfill_gap` is the counterexample
without it.

`IncrementsSkipNothing` is what survives of it with backfills. They can move a cursor
over unread messages, so nothing can be said of what lies below the cursor a run has read
(the first conjunct of `RunCovered`). `Increments` speaks of what lies between that
cursor and the top instead: a run without backfill whose batch was not cut accounts for
all of it (`SpanCovered`), with what is still to do, and has nothing to do left when it
writes the cursor. It is inductive for the same reasons (`Grows`, `UncutBatch`, purges
that raise `floor`), and a backfill, whatever it writes, only adds to the store.

`StuckStays` is the action property behind `limit_stuck`, without an instance. `Stuck`
says that the posts after the cursor are as many as any limit, and that no syncer holds
an older cursor or a batch called complete. New posts only add to them (`MoreAfter`), so
every batch a run collects is cut (`StuckIsTruncated`), `Advances` is false for it, and
the run ends without writing the posts cursor; what comments write keeps the value read.

`LeakBound` counts messages, so its strengthening (`LeakInv`) counts what has leaked
together with the syncers that may still leak one: a save trades a syncer for a
message and the sum stays. `CursorsAdvance` needs that the cursors a lone syncer read are
still those of the row, and that a batch's top is not below them (`AloneInv`).

Assumptions: the named ones of `SourceSync` on its constants (limits positive,
bounds natural numbers, scopes of the two kinds).

### `SyncFeedProofs`

* `SyncKeepsPromise`: `Backfills = {} => (Spec => KeepsPromise)`: the initial states map to
  initial states and every step of `SourceSync` to a step of `Feed` or a stutter. It
  rests on `Coverage` (a cursor moves only over settled messages) and on one more
  invariant, that what a syncer has still to save was issued (`TodoIssued`).

### `AnnouncementsProofs`

* `NewsIsAnnouncedHolds`: `Backfills = {} => (AnnSpec => []NewsIsAnnounced)`, for any number of
  other syncers. `AnnSpec` implements `SourceSync` without purges, step by step
  (`AnnImplements`), so `Coverage` holds of it: a message that is stored for the first
  time below a cursor is one that was excused. The strengthening
  `NewsInv` says that what is owed is never kept by the batch under way alone: it is in the
  result, or above the cursor, or another syncer or a failed run answers for it
  (`CursorNews`); the same of the cursors the watcher *read* and may write back
  (`ReadNews`); that a batch which reached the cursor uncut accounts for all that is owed up
  to its top (`BatchNews`); and that a count is under way, in the result, or was taken by an
  error (`CountKnown`), with no batch left over between two phases (`BatchPut`).
  `CursorNews` puts every loss down to another syncer or a failed run, `CountKnown` to an
  error; together they leave the two exceptions of the property.
* `PassesSkipNothing`, `PassesKeepPromise`: `NoSilentSkip` and `KeepsPromise` for the
  composition, by `AnnImplements` from the theorems about `SourceSync`. A phase, source
  or run that fails is a run that stops.

### `ExclusionsProofs`

For any accounts, names, sources, messages, editors and syncs:

* `ExclusionsTypeCorrect`: `Spec => []TypeOK`.
* `HitsItsSenderHolds`: `Spec => HitsItsSender`. The strengthening `ListInv`: rows are
  numbered up to `lastRow` and no two share a number (`RowsNumbered`), and the number an
  editor holds is that of a row of his sender, or of none any more (`OnTrack`). A plain
  `INTEGER PRIMARY KEY` would break the first part.
* `ExclusionIsKept`: `Spec => []ExclusionKept`. The strengthening `KeptInv` says for each
  place in the chain of queries what the earlier ones have already ruled out (`Passed`):
  a message about to be saved matches no answered row, or is `late`.
* `ExclusionsKeepList`: `Spec => KeepsList`, the refinement of `Blocklist`, from all of
  these. The unique indexes, not the lookup, make an insert an `Enter` (`InsertEnters`);
  `OnTrack` makes the update and the delete by number a `Note` and a `Strike` of an entry
  of the sender who was named; `ExclusionKept` after the save makes a message that passed
  four queries one that the list allows at that moment (`SaveShows`). `OpInv` (the
  statement under way tells what was asked for) and `RestInv` (an idle sync has nothing
  left to do) are inductive by themselves. No run lists `KeepsList`: on the instance of
  `exclusions` TLC finds it kept, too, but needs more than twice the time.

### `WatcherProofs`

* `WatcherTypeCorrect`: `Spec => []TypeOK`.
* `PauseIsKeptHolds`: `Spec => []PauseIsKept`, by `WaitKept`: a flood wait that is owed is
  either recorded in the row or in the result the pass is carrying to it.
* `DisabledIsEarnedHolds`: `Spec => DisabledIsEarned`, by `CountKept`: no error count, in a
  row or as read by the pass, differs from the failures in a row.
* `WatcherKeepsHealth`: `Spec => KeepsHealth`, the refinement of `Health`, from all of these.
  `CountKept` makes the judgement by the count that was read the judgement by the row
  (`ReportRefines`); `WaitKept` makes an answer a first one; and what a pass has still to
  ask is not paused, although it looked only when it began (`ListUnpaused`).

### `OAuthProofs`

For any sets of clients, codes, tokens and handlers:

* `OAuthTypeCorrect`: `Spec => []TypeOK`, inductive by itself.
* `CodeIsSingleUse`: `Spec => []CodeRedeemedOnce`. The property speaks of granted codes
  only and is not inductive. `CodesApart` adds that a drawn code is in one place at a
  time: live, held by one handler, or spent; and that a code in any of them was drawn,
  so that the next one drawn is in none. Taking and spending move a code from one place
  to the next; every other step of a handler is one lemma (`OtherMovesKeepApart`).
* `OwnersAreRegistered`, `TokensAreGranted`: memory, file and every copy a save holds carry
  the property, so that neither a late write nor a restart can break it (`CopiesNext`
  says where the contents of each come from).
* `AnswersAreDurable`: `DurableInv`. As long as nothing has done harm, at most one save is
  under way, and file, copy and memory hold what was answered, each up to its step.

* `ServerKeepsGrants`: `Spec => KeepsGrants`, the refinement of `Grants`. A code that is taken
  out of the map stays open in the hands of its one handler (`EndClosesOne`, by
  `CodesApart`), so a token or a refusal closes exactly that one. What a client is told
  must be what the server accepts, and a restart must bring up nothing: both follow
  from `MemoryLeads`, that the file, if intact, and every copy hold only what memory
  holds, but for what has expired, and that what a handler is about to answer is in
  memory. That an unharmed restart loses nothing a client was told is `DurableInv`.

Assumption: `IdsAssumption` of `OAuth`, that a token is not the id of a client.

### `MigrationsProofs`

* `MigrationsTypeCorrect`, `MigrationsInOrder`, `MigrationsOnce`, `MigrationsComplete`, from one
  invariant (`MInv`): the file holds the first migrations and records exactly those, each
  committed once; all that come before the one a process is at are recorded, and one
  about to be committed is not (`InTurn`).
* `MigrateKeepsUpgrade`: `Spec => KeepsUpgrade`, the refinement of `Upgrade`, from the same
  invariant: a commit adds the very next migration (`CommitAdvances`), a process gets
  through only when all are recorded (`CheckEnters`), and no other step shows (`Unseen`).

### Model-checked only

`EventuallySettled`, `EverySourceIsAsked` and `ServiceComesUp` are liveness, which is out of
the prover's reach. What the violated runs
say is shown by their counterexamples.

## 5. Plan

1. *Waiting is bounded.* A safety form of `EverySourceIsAsked`, how many passes a source
   within `Outlasts` can miss, which could be proved for any number of sources.
2. *Foreign keys per connection.* `PRAGMA foreign_keys` holds for one connection; a pool
   that opens a new one loses it (sqlite.go:29). A model of the pool, and what is left of
   `ForeignKeys` then.
3. *Several sources.* Watcher passes driving `SourceSync` for several sources; so far
   `Watcher` takes a sync for one step and `Announcements` follows one source.

## Not modelled

* *Configuration*: the environment, read once at start; no behaviour over time.
* *Telegram client, login, dry run*: interactive requests to an external service; no
  state of this program. What the service shows is `remote`, `Arrive` and `Delete`.
* *Read-only queries, MCP resources and the pages*: they format what the tables hold.
  Paging and text search are not modelled.
* *OAuth metadata documents, PKCE and secrets*: constant answers, and comparisons whose
  result is the choice between `Issue` and `Refuse`.
* *Flags, output and wiring* of the application, and the HTTP request of the notifier.
