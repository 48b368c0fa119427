# TLA+ models of emby-media-portal

emby-media-portal is a reverse proxy in front of an Emby media server. It works
out whose traffic a request is, limits its bandwidth by rules for users,
clients, servers and as a whole, and accounts for the bytes in SQLite; an admin
API and a single-page panel show the traffic and change the rules. These
modules model its concurrent and stateful core. Paths below are relative to
`src/`. `PROJECT.json` lists components, runs, mutants, findings, hazards and
theorems, and maps every definition to the lines it models.

Check a run with `tlc -workers 2 -config <run>.cfg <MC module>`, a proof with
`tlapm <module>.tla`.

## 1. Inventory

| Component | State | Operations | What is hard |
|---|---|---|---|
| **Proxy** `internal/proxy/proxy.go` | `recentUsers`, `playbackUsers` under `playbackMu`; the locals of each `ServeHTTP` | one goroutine per request: identify, take limiters, forward, stream in chunks, book in a deferred call | a dozen exits; waits at several limiters in turn; clients that go away; guesses about who a request is |
| **Identification** `internal/auth/identifier.go` | `cache` of users by token, 5 minutes | `IdentifyUser`: cache, then Emby's sessions, then `Users/Me`, 10 s each | lookups of one token race; cached identities outlive sign-outs |
| **Stats tracker** `internal/stats/tracker.go` | `pendingRecords`, `activeTransfers` under `mu`; table `traffic_stats` | `Record`, `StartTransfer`, `AddTransferProgress`, `FinishTransfer`, a flusher every 10 s, `Stop`, summaries, pages, deletions | a batch leaves the memory before it is committed; statements fail; process ends; readers add table and memory in two steps |
| **Limiters** `internal/ratelimit/limiter.go` | the maps of `Manager`, the defaults, the global limiter; each `Limiter` points to token buckets of `golang.org/x/time/rate` | get or create, update, remove; wait for n bytes in chunks of the burst | requests keep a limiter while it is updated, removed or made again; 0 has two meanings |
| **Rules** `internal/ratelimit/rules.go` | tables `users`, `client_rules`, `servers` | set, delete, match, load at start | row first, limiter second, with nothing around the two |
| **Admin API** `api/handler/*.go` | none of its own | rules, settings, traffic entries, sync of users, restart | handlers run concurrently |
| **Configuration** `internal/config/*.go` | the global `*Config`, the file, a key file | `Load`, `Get`, `Update`, `Save` | copies are read, changed and put back; the file is truncated, then written; the password is kept in two forms |
| **Admin sessions** `internal/session/session.go`, `api/middleware/auth.go` | tokens with expiry, in memory | create, validate, revoke | validation looks at an entry after its unlock |
| **Database schema** `internal/database/database.go` | tables, columns, indexes, rows of former versions | `createTables`, statement by statement at each start: create, add columns, rebuild without `client_ip`, rewrite malformed names, index | a crash between two statements; rows with fewer columns, NULL or stray quotes |
| **Process** `cmd/server/main.go` | goroutines of the above | start, load, serve, `server.Close`, deferred `Stop` and `db.Close` | nothing waits for handlers or for the last flush |
| **Panel** `web/static/index.html` | one page's variables; the cookie of the browser | open, login, logout, a refresh timer, loads, deletions by id | answers arrive out of order or not at all; pages share one cookie; lists are kept open |

Calls and shared state: `ServeHTTP` calls the identifier, the rules (database),
the limiter manager, the backend, and the tracker; the admin handlers call the
rules, the manager, the tracker and the configuration; the flusher and every
rules call share the one database connection (`SetMaxOpenConns(1)`), so an open
transaction of the flusher makes all of them wait. `main` starts all of it and
ends it without waiting.

What makes each correct, in a sentence: every request that got an answer is booked
once, with every chunk its client was sent in full (what a failing `Write` sent of
its chunk is not counted), and is stored, deleted or dropped for a known reason
(tracker); a summary
is exact when nothing moves, and a page's ids keep naming the same rows
(readers); all requests of a key share one limiter that has the limit of its
row (limiters, rules); a limiter lets through its rate and no more, and no wait
is refused or starved (waits); an identity is as fresh as its cache promises and
a guess has a witness (identification); memory, file and running limits agree
once a save is over (configuration); every database a start may find is brought
to the current schema with all its rows (schema), and every record is counted
once, in one bucket, whether in memory, stored or migrated (buckets); a request is
let in only with a live session, and a page notices when its session is over
(sessions, panel).

## 2. Plan

In order of importance; all are written.

1. `TrafficLedger` (abstract), `StatsTracker`: the life of a record, its proofs
   and the refinement.
2. `TrafficReaders` (extends `StatsTracker`): summaries, pages, deletions.
3. `RateLimitRules`: rows and limiters, handlers and requests; its proofs.
4. `LimiterWait`: waiting at the limiters of a chain.
5. `Attribution`: whose request it is.
6. `SettingsStore` (abstract), `Settings`: configuration, file and running limits,
   and the refinement.
7. `SchemaMigration`: the statements of a start over former databases, with an
   end of the process at any of them.
8. `TrafficBuckets` (extends `SchemaMigration`): the grouping of records into
   users, public and unknown, and into clients: Go for the records in memory, SQL
   for the rows, on the rows the migrations leave.
9. `Sessions`: login, validation, logout, expiry and restart.
10. `Panel` (extends `Sessions`): a page, its timer, its user and the cookie; its
    proofs.

Abstract specifications: `TrafficLedger`, which `StatsTracker` implements, and
`SettingsStore`, which `Settings` implements. A register per key is not what
`RateLimitRules` promises: two saves of a rule may leave the limiter with the limit
of one and the row with that of the other (section 6); what it does promise is in
`SharedLimiters`, `AgreesUnlessRaced` and `StaleOnlyAfterRemoval`. Theorems: every safety
property, every action property and both refinements that a passing run checks
are proved (section 5).

## 3. Modules and code

**`TrafficLedger`** is what accounting promises: a request is open, then booked
once, then stored or lost; only a stored one is erased; nothing goes back.

**`StatsTracker`** composes the tracker with the parts of `ServeHTTP`, `main` and
SQLite it depends on. An action is what one goroutine does between two points where
another can be seen: a critical section of `Tracker.mu`, a statement, a step of
`main`. `ServeHTTP` is `Refuse` (all returns before `RoundTrip` succeeds: nothing is
booked), `StartTransfer`, `WriteChunk`, `AddTransferProgress` (the write and its
report are two steps), `WriteFails` (a part of the chunk is sent and the handler
returns without counting it), `EndResponse` (every other way out of streaming),
`RecordStats` and `FinishTransfer` (the deferred function; two critical sections).
The flusher is `FlushTake` (the swap under the lock, from the ticker or from
`stopCh`), `FlushBegin`, `InsertRow`, `FlushCommit` and their failures,
`FlushReturns`. Main is `StopTracker`, `CloseDatabase`, `Exit`, and from outside
`Crash` and `Start`. Deletions are `DeleteTrafficEntries`. `lost`, `erased` and
`sent` are history: they remember requests whose record is gone and what the clients
were sent, they guide nothing.

**`TrafficReaders`** adds the readers as the panel uses them: `SumTable`
(a statement that waits for the only connection) and `AddLive` (a critical
section) are the two halves of a summary; `ListTrafficEntries` reads a page that
stays in the browser and `DeleteListed` deletes by its ids later, perhaps in
another process.

**`RateLimitRules`** has the rows (`table`), the maps of the manager
(`registry`), the limiter objects ever made (`limitOf`; objects have identities,
because a request that holds one is not affected by another), the defaults and
the global limiter. Handlers of users, clients and servers are sequences of
`WriteRow`, `UpdateAfterWrite`, `DeleteClientRow`, `RemoveLimiter`,
`ReadDefaults`, `WriteDefaults` ... with others in between. A request reads a row
(`Look`, which may fail) and takes its limiters one after the other; its user
and client are inputs. A `Start` loads any part of the rules: a query that fails ends
the load, and one that breaks off amid its rows is taken for complete, since the code
does not look at `rows.Err`.

**`LimiterWait`** is a stream that reads up to `MaxRead` bytes and passes its
limiters in the order of `ServeHTTP`, in chunks of at most the burst it read
first, while `UpdateLimits` sets limit and burst in two steps and clients leave.
The token bucket is the library's, modelled as it is used here: `WaitN` takes
its tokens at once, in advance if need be, sleeps until they are due, refuses
more than the burst, and gives tokens back on cancellation unless others
reserved behind it. `meter` and `metered` are history: the meter of a bucket adds
what the bucket lets through, as its tokens fall due, and loses `limit` in a tick;
it starts again, without the waits in progress, when the limits are set and when
a wait gives back tokens that others were queued behind.

**`Attribution`** follows a request from `IdentifyUser` to the two `remember...`
calls. A token is looked up in the cache or at the backend, whose answers travel on
their own and name whom they like, or nobody (`Blank`: an answer of `Users/Me` with
an empty id, which is cached as well, so that the token is nobody's for the life of
the entry); what remains is guessed from the users remembered under the keys of a
request (device, token, client, address). Time is in ticks; `said`, `seen` and
`played` are histories that age.

**`SettingsStore`** is what the settings promise: one value in memory and at most one
on the disk. It changes while the portal serves, not while it is written; a write
leaves it on the disk or, cut short, nothing; a start reads it from there.

**`Settings`** is `UpdateDefaultLimits` as five steps on three copies of the
settings: the running limits, the configuration, the file. `Save` holds the lock
of the configuration from `Save` to `Returns`, so no one copies or updates in
between; the file is `Empty` between `Truncate` and `WriteFile`, and the process
may end there. `SaveFails` leaves the old file, `WriteFails` an empty one, `ChmodFails`
the new one; each returns an error to the handler.

**`SchemaMigration`** is a start as a list of statements still to run (`rest`):
`CreateTables` is the whole list, `TableHasColumn` puts the rebuild in front if it is
needed, and `ReadRows` the rewriting of the rows it found malformed, in each order
the query may return them. Each statement
commits by itself or is part of the open transaction (`view` against `disk`), and
each has what it needs as a guard: a start that meets a database without it stops
there, as `Init` does with an error. `ProcessEnds` leaves what is on disk to the
next `Start`. `entered` remembers every row as it was first stored.

**`TrafficBuckets`** counts what the panel lists over those rows and over the
records in memory: `GetAllUserStats` and `GetAllClientStats` with `AddLiveTraffic`,
and the queries for one user and for the unknown client. A value of a row is NULL or
a name with layers of quotes, a path one of three kinds, because these are what
the SQL and the Go conditions tell apart. A flush is one step here; its steps are
those of `StatsTracker`.

**`Sessions`** has the map of sessions, the requests under way and their stages:
`Look` (the map, under its lock) and `CheckExpiry` (the clock, after it) are the two
halves of `Validate`; `Create`, `Logout`, `Expire`, `Restart` (memory is gone) and
`Lose` happen in between.

**`Panel`** has two threads of one page, the timer and the user, each waiting for
one answer at a time. `flow` is the function that runs, `latest` stands for the
comparison of a load's token with `overviewLoadToken`, `armed` for the timer, which
`BecomesVisible` also sets, while a load is under way or not.
`AutoRefreshFails` is the `catch` and `finally` of `runAutoRefresh`; `UserLoadFails` has
one disjunct for each caller of a load. Other pages of the browser are there by what
they do to the shared state: they log in (`OtherLogin`), revoke sessions
(`OtherLogout`) and delete the cookie (`DropCookie`), at any moment.

**`MC...`** modules only give constants their values and name symmetries.

Abstractions, besides those named at the head of each module: upload and
download are one number (the code treats them alike); time windows, filters,
names, ports, paths and JSON are left out; the limits of `Settings` are one value
in the configuration; `TrafficReaders` has every row in the window; `LimiterWait`
rounds a sleep up to a tick; the `user:` entries of the identifier's cache, which
only give a named user's display name, are left out; a file cut by a full disk
is empty rather than any prefix.

## 4. Runs

Every property has a mutant: a plausible bug in a mapped definition that makes
TLC find the property violated.

| Run | Distinct states | What it checks |
|---|---|---|
| `StatsTrackerSafety` | 213 thousand | 2 requests, at most 1 chunk, one mishap (failed statement or crash), 2 processes. `AccountedOnce`, `NothingVanishes`, `LossHasACause`, `RecordsAreExact`, `ActiveIsInFlight`, refinement of the ledger, `BookedSettles` |
| `TrafficReaders` | 2.4 million | the same with 2 reads. A summary counts a record at most twice, is exact when nothing moves, and an id of an open page never names another record |
| `RateLimitUsers` | 2.6 million | a user and a server, 2 handlers, 2 requests, 2 operations, 2 processes, a load that leaves out any rules. `SharedLimiters`, `AgreesUnlessRaced` |
| `RateLimitClients` | 1.9 million | a client rule, 3 operations with deletions, one failure, 2 processes. `StaleOnlyAfterRemoval`, `AgreesUnlessRaced` |
| `LimiterWait` | 564 thousand | a user's and an anonymous stream under a global limit, reads above the burst, an update, two cancellations. `RateBound`, `PaidInFull`, `RefusedOnlyByAChange`, `WaitsEnd` |
| `Attribution` | 4.0 million | 2 concurrent requests of a household. `TokensAreFresh`, `GuessesAreWitnessed`, `ItemKeepsItsPlayer` |
| `TrafficBuckets` | 203 thousand | 2 records, former databases with none, some or all of the added columns, with or without `client_ip`, and malformed rows; 2 ends of the process. `RowsSurvive`, `ServesCurrentSchema`, `EveryStartServes`, `EachRecordOnce`, `DetailFollowsList`, `BucketsStay` |
| `Panel` | 966 thousand | a page, 2 sessions, a lost answer or a restart, a change of the data. `AnswersOfTheCall`, `RefreshSparesItsSession`, `NeverOlder`, `DeadSessionIsNoticed` |
| `Settings` | 1.4 million | 2 handlers, 3 saves, a failed call, 2 processes. `FileFollowsMemory`, `LimitsFollowConfig`, `ImplementsStore`, `KeyKeptUnlessRaced`, `SavesEnd` |

Three runs expect a violation; each is a finding:

| Run | What it shows |
|---|---|
| `GracefulShutdown` | the regular way down loses records with no fault at all: `Stop` only closes a channel, and `main` goes on |
| `PasswordTakesEffect` | a new password that was saved with success is refused, and the old one accepted, until the restart the answer says is not needed: only the file gets the new hash |
| `PageLists` | a record of an unknown user is stored with `''`, which the next start turns to NULL, which `ListTrafficEntries` cannot scan: every page with such a row is an error until the row is deleted. A browser that last showed this page cannot log in either: `login` takes the failed load for a failed login |

### Bounds, and why they are enough

`MaxChunks` = 1: progress is one counter per request, a second chunk repeats the
same two steps. `MaxMishaps` = 1: each failure path is taken alone, and mishaps
interact only through the restart that follows. `MaxLives` = 2: what a process
leaves behind is found by the next one; a third finds nothing of another kind.
Two requests let one be in the batch while the other books, and give the batch
two rows, so that an insert can fail with another behind it. `MaxReads` = 2: a
page that is kept open over a summary, or over another page. `MaxOps` = 2 with
two handlers gives the overlap of two writes; 3 adds a write that settles
it. `Limits` = {0, 1} tells the unlimited from the limited; the order of limits
matters only to `LimiterWait`, which has {0, 1, 2}, and `MaxRead` = 2 is above the
smaller burst. `Scale` = 2 divides a second so that a tick brings whole tokens. `MaxCancels` = 2: a
wait that is given up gives tokens back, and so may one that was queued behind it.
`CacheTTL`, `RecentTTL` and `Timeout` are 1 tick: an entry can be fresh, at its
end, or over, and a query can be answered in its first or its last tick. A cached
identity and a query's answer may be compared only with their sum, which the
histories count beyond by one. `MaxSaves` = 3 allows two handlers that overlap
and a third save after or between them. `FormerColumns` are the empty set, one with
gaps, and all; `FormerRows` have quotes in layers, a NULL, an empty and a missing
name, rows known by a client id only, and paths of each kind. `MaxEnds` = 2 cuts a
start that follows a cut one; `MaxRecords` = 2 puts one record in memory beside one
stored, or two into one bucket. `MaxSessions` = 2: a late answer about one session
meets the next one. `MaxFailures` = 1 and `MaxChanges` = 1: one lost answer or
restart, and one change that tells an older answer from a newer one.

The runs with `CHECK_DEADLOCK FALSE` stop by design: the last process may be
down, or the operations and saves used up. `LimiterWait` and `Attribution` check
deadlock.

### Fairness

`StatsTracker`: weak fairness of `FlushTake` (a ticker that fires every 10 s, or
`stopCh` closed), of `FlushStep` (a goroutine between two statements; a failure
counts as a step), of `CloseDatabase` and `Exit` (deferred calls of a main that
has stopped serving). Nothing is assumed of handlers, clients, administrators or
`Start`. `LimiterWait`: time passes, and a stream that can take a step does; no
fairness of updates or of clients. `Settings`: a handler that can go on does.
The last one assumes no order at the lock: with a bounded number of saves weak
fairness is enough, and Go's mutexes serve waiters in turn. `SchemaMigration`: a
start goes on, and a process that ended is started again (`restart: unless-stopped`
in `docker-compose.yml`); how often it ends is bounded. `Panel`: requests are served
and answers, or their failures, arrive; the refresh timer is strongly fair, since it
may be put off by a refresh of the user's, but not each time for ever. Nothing is
assumed of the user, of other pages, or of when sessions end.

## 5. Proofs

TLAPS proves, for every value of the constants that satisfies the named
assumptions:

- `StatsTrackerProofs`, from `BoundsAssumption`. The inductive invariant is
  `TypeOK /\ FlusherShape /\ AccountedOnce /\ NothingVanishes`, which gives
  `TypeCorrect`, `NoDoubleAccounting` and `Conservation`. `AccountedOnce` alone is
  not inductive: that `RecordStats` does not book a second time needs
  `NothingVanishes` (everything unsettled, stored, erased or lost was booked by a
  handler that is past its deferred call), and that the commit does not store
  twice needs `FlusherShape`: outside a transaction nothing is staged and the
  batch is untouched, outside a flush it is empty, and nothing is left in memory
  when the process is down.
  - `NoLossWithoutCause` (`LossHasACause`), `ExactRecords` (`RecordsAreExact`) and
    `LiveTableIsExact` (`ActiveIsInFlight`) follow with it. A record's figures are
    right because a record that is booked is final (`RecordsAreFinal`), the flusher
    only moves records (`RecordsOnlyMove`), and what was sent is what was counted and,
    once a handler is past streaming, at most half a chunk more (`SentIsCounted`).
  - `TrackerImplementsLedger` (`ImplementsLedger`): the refinement mapping `Account`
    is a CASE whose branches exclude each other only because of `AccountedOnce`;
    under the invariant each action is a ledger step or a stutter. `BookedSettles`,
    the ledger's liveness, is not part of it.
  - `PagesKeepTheirRows` (`PageNamesItsRows`), `NoTripleCounting`
    (`CountedAtMostTwice`) and `CalmSummariesAreExact` (`CalmSummaryIsExact`) are
    about `SpecReaders`: each step of the readers is one of the tracker or leaves it
    alone, so its invariant carries over. `TableStep` says what a step may do to the
    table; what was stored is stored or erased for ever, an id is never given
    twice, and a summary in calm meets empty hands of the flusher.
- `RateLimitRulesProofs`, from `KeysAssumption` (the keys of the three tables are
  disjoint and finitely many), `LimitsAssumption` and `RulesBoundsAssumption`.
  - `RulesTypeCorrect` and `OneLimiterPerKey` (`SharedLimiters`): the inductive
    invariant is `TypeOK /\ KeysFit /\ SharedLimiters`; `KeysFit` says that a
    handler works on a key of the table its step belongs to, without which a
    removal of a client's limiter might take a user's away.
  - `OnlyRemovalOutdates` (`StaleOnlyAfterRemoval`) adds the same of the requests
    that hold a client's limiter (`TakenFits`).
  - `RowsAndLimitersAgree` (`AgreesUnlessRaced`) adds `AgreementInv`: no two keys
    share a limiter (`Distinct`); a write that nobody raced is followed by an update
    to what the row says (`Announced`); and where a failed load left a rule without a
    limiter, the requests about to make one have read the row as it is (`Made`).
- `LimiterWaitProofs`, from `RequestsAssumption`, `ChainAssumption`,
  `LimitsAssumption` and `WaitBoundsAssumption`.
  - `ReadsArePaidInFull` (`PaidInFull`) and `OnlyAChangeRefuses`
    (`RefusedOnlyByAChange`): the invariant keeps the account of each wait (paid and
    remaining are what was read) and says that its chunks fit the bucket they are
    taken from, unless the limits changed or it is the last chunk; buckets are only
    ever added, and their bursts lowered by updates only.
  - `BurstIsTheBound` (`RateBound`): the meter alone is not inductive, since a tick
    adds to it whatever falls due in it. `QueuesInv` counts ahead: in ticks and in
    what a tick brings, the meter and all that falls due until then (`Through`) never
    exceed the burst and the time, whether taken up to now, up to a wait that is due,
    or up to the tick the bucket is out of debt (`Fits`). The sleeps are a queue: what
    lies between a wait and a later time (`Between`) is no more than the time between
    them, so that a wait can be given up and the bucket refilled by what nobody
    waits behind. `QueuesInv` itself was checked on the run before it was proved.
- `Sums` has the arithmetic of these proofs: what a sum over a finite set is when an
  element is added, changed or taken away, over a union and a part, and how
  quotients grow. The library's rules of induction take an operator and are beyond
  the provers, but its `WFMin`, that a well-founded order has least elements, is
  not: a least number that fails stands for induction (`Naturals0`), also over the
  number of elements of a set. So are what is counted kind by kind (`SumOfKinds`),
  and that a sum does not depend on how its terms are named (`SumRenamed`).
- `AttributionProofs`, from `ShapesAssumption`, `NobodyAssumption` and
  `TimesAssumption`: `TokenIdentitiesAreFresh` (`TokensAreFresh`),
  `EveryGuessIsWitnessed` (`GuessesAreWitnessed`) and `StreamsStayWithTheirPlayer`
  (`ItemKeepsItsPlayer`). The invariant ties each entry to the histories: the ticks
  it has left and the ticks since its user was named add up to no more than its
  life (`Fresh`), for a cached identity with the time of its query added; an answer
  is no older than its query (`AnswerFresh`); and whoever played an item of late has
  left an entry there (`Kept`). `FirstKnownFits` is the lemma about the lookup.
- `SettingsProofs`, from the five assumptions of `Settings`: `TypeCorrect`,
  `RestartChangesNothing` (`FileFollowsMemory`), `LimitsAgree` (`LimitsFollowConfig`),
  `SettingsAreAStore` (`ImplementsStore`) and `KeyIsNotLost`
  (`KeyKeptUnlessRaced`). The invariant says what each handler has established at the
  stage it is at: the holder of the lock has a copy that is the configuration
  (`LockInv`), the file is behind only while somebody is between `Update` and the end
  of `Save` (`FileInv`), a lone handler knows the running limits (`LimitsInv`), a copy
  that is not behind has the key that was asked for (`KeyInv`), and there always is a
  password (`PasswordInv`), without which what is written would be read back
  as the built-in one.
  - The refinement maps a configuration to what it means (`Meant`: a password and its
    hash are the same) and the file to what `Load` makes of it. A write ends with what
    is in memory on the disk because of `LockInv`, and is read back as that because
    of `PasswordInv` (`WrittenIsRead`).
- `TrafficBucketsProofs`, from `FormerAssumption`: first `NoRowIsLost` (`RowsSurvive`)
  and `SchemaIsCurrent` (`ServesCurrentSchema`) about the migrations alone. The
  invariant has four parts: which statement may follow which (`RestInv`) and which of
  them are in a transaction (`TxInv`); that disk and view, or the copy while the table
  is dropped, carry all that was ever stored (`RowsInv`); and that whatever the
  schema still lacks is done by a statement that is to come (`TodoInv`).
  - About `SpecBuckets`, where records are stored between the starts,
    `RecordsStayInTheirBuckets` (`BucketsStay`), `StoredRecordsSurvive` (`RowsSurvive`)
    and `SchemaStaysCurrent` (`ServesCurrentSchema`): to that invariant come that the
    rows are lists, and that what a record was counted as is what its row said as it
    was first stored; that no start makes the row say another name is `RowsSurvive`.
  - `ListsCountEachRecord` (`EachRecordOnce`) and `DetailsAgreeWithLists`
    (`DetailFollowsList`), from `NamesAssumption` as well: a list is the rows counted by
    key, each entry with the records in memory it looks up by key, and the keys no
    entry looked up (`OfTable`, `OfMemory`). It counts every record once because no
    two entries look up the same key that memory has (`ListTotal`): a client's entry
    looks up its own key, the unknown client's one that nobody has. What the queries
    of one user select are the rows with that user's key (`RowUsers`), because no row
    is named like a key, which the invariant keeps through flushes and cleanups.
- `PanelProofs`: `TypeCorrect`, `AnswersAreOfTheCall` (`AnswersOfTheCall`),
  `RefreshSpares` (`RefreshSparesItsSession`) and `ShownGetsNoOlder` (`NeverOlder`), from
  `SessionBoundsAssumption`, `CallersOfThePage` and `ChangesAssumption`. The inductive
  invariant is `TypeOK /\ Known /\ DeadRefused /\ SeenFits /\ NotNewer`: no token
  is used before it is issued, so that a session that is over stays over
  (`OverStaysOver`); what was refused is over; a request whose session was found
  saw it live, or it has run out; and the answer of the latest load is no older
  than what is shown. `RequestsMove` lists once what a step may do to a request
  (`Moves`), and the parts of the invariant are kept by each kind of move.

Only model-checked:

- All liveness: `BookedSettles`, `WaitsEnd`, `SavesEnd`, `EveryStartServes` and
  `DeadSessionIsNoticed` need ENABLED and fairness.
- The three properties that are violated (section 4).

## 6. What some properties do not say

- `AgreesUnlessRaced` is about clients and servers. A user's limiter may be made
  by a request whose read of the row failed (`rule, _ :=` in `ServeHTTP`), with the
  defaults, although nobody raced; the row wins at the next save.
- `RateBound` is per bucket. A limiter that is made anew, or a limit set from 0,
  begins with a full bucket, and a change of the limits starts the meter again. So
  does a wait that is given up with others queued behind it, because the library
  then lets through more than the burst, by what it gives back: what is reserved
  next may fall due before those that wait, and give back again what they follow.
  Two clients that go away one after the other are enough.
- `RecordsAreExact` counts full chunks: the bytes a `Write` sent before it failed are
  in no figure (`proxy.go:310`, and the same for a rewritten body at `proxy.go:264`).
- `CalmSummaryIsExact` says nothing of a summary during a flush: the batch is then
  neither in the table nor in the memory, and the summary misses it. A record that
  is committed between the two halves is counted twice.
- `GuessesAreWitnessed` allows a chain: a guessed request is remembered like any
  other, so a guess renews itself for as long as requests keep coming.
- `ImplementsStore` says when a file may be empty. A process that starts from it runs
  with the built-in password and no limits. It does not say that what is in memory
  gets to the file: a `Save` may fail and the handler's change stays in memory.
- `AgreesUnlessRaced` does not say that the limiter of a rule follows its row: two
  handlers that save one rule may write their rows in one order and their limiters in
  the other ("Update in-memory limiter", `rules.go:121`), and the limiter differs until
  the next save or restart. Nor does it say what 0 means: a rule of 0 saved while it
  is deleted is left to a request to make its limiter, and `GetUserLimiter` takes 0 for
  the default, where the README has it unlimited.
- `RefusedOnlyByAChange` allows what the comment of `WaitDownloadWithContext` does not: a
  limit lowered under a wait makes it fail with its client still there, because the
  burst is read once, before the loop.
- `EachRecordOnce` and `DetailFollowsList` name three differences: the unknown client has
  two entries while some of its records are in memory; the figures of the unknown
  user count rows that the list has under public requests (by their path only); a path
  ending in a nested `/sessions` is unknown in memory and public as a row.
- `NamesAssumption` takes the keys of the lists for nobody's name. A client that
  called itself what the unknown client is shown as (`normalizeClientStat`,
  `tracker.go:499`) would be added to that one's entry too.
- `RefreshSparesItsSession` allows a late refusal to end a new session: the page logs
  out with the cookie of the moment (`index.html:1916`, `logout`).
- `NeverOlder` is about the overview. The users, the clients and the page of records
  show the answer that arrives last, and the timer replaces what is being typed
  into the settings (`index.html:2765`).
- `DeadSessionIsNoticed` supposes that the page is looked at again: a hidden page puts its
  refresh off.
- `KeyKeptUnlessRaced` names the loss that does happen: a save that leaves a field
  empty "to keep the current value" keeps the value of the moment it copied.

## 7. Not modelled

Rewriting of headers, redirects and bodies, websockets, the playback statistics
Emby is asked for, and reading identities out of headers: sequential, without
state that is shared. The transfer rates, the filters and `CleanOldStats` of the
tracker, and its windows of time, which compare the texts of `CURRENT_TIMESTAMP` (UTC)
with a time of the local zone (`docker-compose.yml` sets one): how the driver writes
a time is not in the repository. The sections of the panel other than the
overview, its forms, charts and layout. Routes and static files. Cryptography and the
creation of the key file. `DeleteUserRule`, `AllowUpload` and `AllowDownload` have no
callers.
