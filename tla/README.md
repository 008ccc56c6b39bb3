# Verification of rustspell-server

TLA+ models of the parts of rustspell-server that keep state, TLC runs that
check them on small instances, and TLAPS proofs of what every one of these parts
promises for instances of any size. The reference is the Rust code under `src/src`;
line numbers in this file and in `PROJECT.json` are lines of it.

- [The system](#the-system)
- [What is hard about it](#what-is-hard-about-it)
- [The modules](#the-modules)
- [The runs](#the-runs)
- [Fairness](#fairness)
- [The proofs](#the-proofs)
- [Where the code and its documents disagree](#where-the-code-and-its-documents-disagree)
- [What is not modelled](#what-is-not-modelled)
- [Plan](#plan)

## The system

A server for spell-checking over HTTP, for several tenants. One process serves
requests on a multi-threaded tokio runtime; a second, short-lived one
(`reset-platform-key`) may work on the same database. The database (SQLite with
one connection, or PostgreSQL with ten) is reached through a pool, always
across an `.await`. What requests read is kept in memory, under
`std::sync::RwLock`s that are never held across an `.await`.

| Component | Source | State | Operations |
|---|---|---|---|
| Tenants and quota | `store.rs` | table `tenants`; cache `tenants` | create, update, suspend and reactivate, `try_consume_quota` |
| API keys | `store.rs`, `main.rs`, `cli.rs` | table `api_keys`; cache `keys` by hash | create, revoke, rotate, `authenticate`, bootstrap at start, offline reset |
| Allowed origins | `store.rs`, `middleware.rs` | table `tenant_origins`; caches `origins_any`, `origins_by_tenant` | register, revoke, the CORS predicate, the binding check |
| Usage rollup | `usage.rs`, `store.rs`, `handlers.rs`, `main.rs` | two maps in memory; tables `usage_daily`, `usage_latency` | record, drain, flush, purge, last flush at shutdown |
| Dictionaries | `engine.rs`, `dictionary.rs`, `store.rs`, `handlers.rs`, `main.rs` | table `dictionaries` and its cache; two files per language; the cache of engines; one load lock | look up or load, register a source, warm at start, list languages |
| Rate limiter | `auth.rs` | failures and cooldown of each address | `check`, `record_failure` |
| Request gates | `auth.rs`, `handlers.rs` | none of their own | the middleware around each group of routes |
| Usage queries | `usage.rs`, `store.rs`, `handlers.rs` | none of their own | window, calendar, aggregation, percentiles |
| Spell-checking | `engine.rs`, `models.rs`, `handlers.rs` | none | validate a body, tokenize, check, suggest, place |
| Networks | `config.rs` | none after start | parse a CIDR list, test an address |
| Other configuration, errors, metrics, OpenAPI, portal | `config.rs`, `error.rs`, `metrics.rs`, `openapi.rs`, `swagger.rs` | constants, counters nobody reads | parsing and rendering |

How they interact. A request to `/spellcheck` passes the rate limiter, then
`authenticate` (keys), the tenant's status (tenants), the origin binding
(origins), the quota (tenants) and the recorder (usage) before its handler asks
the engine registry for a language. Administrative routes change tenants, keys,
origins and dictionaries behind the requests that are passing. `main` opens the
store, warms the dictionaries the table names, prints the bootstrap key, starts
the flush and purge loops and serves; on a signal it stops accepting, waits for
the requests in flight, flushes once more and returns, which drops every other
task. The store is the only thing a restart keeps, with the dictionary files.

What makes each correct, in a sentence:

- tenants: no tenant is refused requests it has left; cache and table agree;
- keys: a revoked or replaced value fails, a value handed out works;
- origins: the two caches say what the table says;
- usage: nothing is counted twice, nothing is lost without a named cause, and
  the window of retention is exact;
- usage queries: an answer counts the requests of its scope and its window, each
  once, and no others;
- dictionaries: an engine is built from two files of one source, loads are
  serialized, every load ends, and the list of languages tells what is usable;
- spell-checking: a text gives one result per occurrence of a word, at its
  place, and both endpoints say the same of it;
- networks: an address is in a network when it agrees with it on its prefix;
- limiter: a lockout needs a burst, bounds the attempts, is renewed by late
  failures a bounded number of times, and ends;
- gates: a handler runs for those the requirements allow, others are refused,
  and billing and recording match what was served.

## What is hard about it

`PROJECT.json` lists the hazards line by line. They come from four patterns:

1. *Two places, two steps.* Every mutation changes a table and a cache with an
   `.await` in between, in an order that differs from call to call
   (`update_tenant` cache first, `set_suspended` table first). Overlapping
   calls, a failed statement, and a client that goes away (axum drops the
   future at its await) leave the two different.
2. *Spawned writes.* `try_consume_quota` spawns an `UPDATE` with an absolute
   value; nothing orders it with later statements or makes it run at all.
3. *Values remembered across an await.* `revoke_key` and `rotate_key` remember
   a hash, `authenticate` a row, `revoke_origin` an answer, `ensure_dictionary`
   two downloads.
4. *Ends.* The flush loop must go on after a failure, the load lock must be
   free after every path, a cooldown must end, and `main` must not return
   before the data is stored.

## The modules

Conventions. A step of a module is what the code does between two points where
another task can run: a critical section, a statement, a file write. A
`hist`, `book`, `told`, `torn`, `overlapped`, `log` or `refused` variable records
what an observer knows; no guard of the code reads it. Definitions preceded by a comment
`Mutant:` are variants of the definition below them with a plausible bug. No
action uses them: they show, put in its place, that the property named for them
in `PROJECT.json` depends on that line. `Faults` says what may go wrong in a run:
`fail` (a statement, download or write fails), `cancel` or `cut` (a client goes
away), `crash` or `kill`, `stop` (a signal).

**TenantStore** (`store.rs:510-680`). `cache` and `db` map a tenant to its row;
`call` is where each administrative request stands, `task` the spawned writes.
`CreateInsert`/`CreateCache`, `UpdateCache`/`UpdateWrite`/`UpdateFails`,
`SuspendBegin`/`SuspendWrite`/`SuspendCache`/`SuspendFails` are the halves of
`create_tenant`, `update_tenant` and `set_suspended`; `Consume` is
`try_consume_quota`, `PersistCount` and `PersistFails` the task it spawns;
`Restart` is a stop and `reload_caches`. Name, language and billing period are
written exactly like `quota_limit` and are represented by it.

**QuotaLedger** is what the store promises about quotas, with no table, task or
await: a request is admitted in one indivisible test and increment, an operator
may assign the terms, a restart forgets admissions only in the tenant's favour
unless the tenant is marked tainted. TenantStore implements it (`LedgerSpec`,
checked by TLC and proved); `tainted` maps to "an assignment of `request_count`
was lost, or raced a write of the period before".

**KeyStore** (`store.rs:106-480`, `main.rs:47-73`, `cli.rs:16-36`). `rows` is
the table, `cache` the hash map, `phase` and `boot` the server's start, `cli`
the reset command, which is a process with a cache of its own. A raw key and
its hash are one value. `AuthHit`, `AuthMiss`, `AuthLoad` and `AuthInsert` are
`authenticate` and its fallback to the table; `RotatePanics` is the
`expect("checked above")` of `rotate_key_by_hash`, which poisons the lock.
Three parts of the history carry the exceptions, each no wider than its name.
`book.torn` holds the keys on which two calls overlapped, or one was cut between
its statement and its cache step, since the server loaded. `overlapped` holds the
rotations in flight that were in flight together with another rotation of the
same key, and nothing else. `book.rivals` holds the pairs of bootstrap keys of
which one was inserted while the maker of the other stood between its look at
the table and its `INSERT` (`cli[p].seen` is what a command saw, `book.unseen`
what commands made since the starting server loaded).

**KeyDirectory** is what the key store promises about values, with no cache,
process or await: a value is made for one key, works, and stops; once stopped it
never works again; the value in force of a key that is not revoked always works.
KeyStore implements it (`DirectorySpec`): `works` maps to what `authenticate`
would accept now from cache or table, `shaken` to `torn`: the keys of which a
value may come back.

**OriginStore** (`store.rs:682-776`). `rows`, `origins_any` and
`origins_by_tenant`; `Register...` and `Revoke...` are the steps of the two
calls; `is_registered_origin` is the predicate of `middleware::cors_layer`.

**UsageRollup** (`usage.rs:36-145`, `store.rs:836-990`, `main.rs:117-169`,
`handlers.rs:711-748`). `buffer` is the recorder, `flusher` the batch the loop
and the last flush of `main` hold, `table` the two tables by day. `record` and
`drain` take two locks one after the other, and the steps are the locks. Rollup
keys other than the day never interact and are left out.

**UsageQuery** (`usage.rs:148-478`, `store.rs:885-973`, `handlers.rs:616-703`).
`Serve` stores one request in both tables, in the bucket and under the date the
code computes; `UsageDaily`, `UsageLatency`, `UsageErrors` and `UsageLanguages`
are the four handlers, each with its window, its query and its aggregation;
`answer` is what they return. `served` counts the requests by epoch day and is
what the properties compare an answer with. Fractions are exact: `q` is in
hundredths and shares are in tenths of a percent.

**EngineRegistry** (`engine.rs:100-210`, `dictionary.rs`, `store.rs:783-823`,
`handlers.rs:153-209`, `main.rs:53-60`). `disk` holds for each of the two files
of a language the source it came from and whether the refresh interval has
passed; `load_lock` is the queue of the tokio mutex. `Acquire` covers
`get_or_load` after the lock and `load`; `Downloaded`, `Retry`, `WriteAff` and
`WriteDic` are `ensure_dictionary`; `Insert` is the parse and the insertion;
`list_languages` is the answer of `GET /languages`.
The default language is loaded before the store is open and never leaves the
cache; the module covers the others.

**RateLimiter** (`auth.rs:21-75`). An instant is represented by its age in
ticks. A failure is a record of its age and its number among those of its tick,
so that a set of failures counts like the `Vec` of the code. A request is
between `check` and `record_failure` while `authenticate` awaits. `log`
remembers every failure, also those the code drops or clears, until it is older
than a window and a cooldown together, when no property asks for it. `refused`
counts the ticks for which an address has been locked out without a break, up to
`Longest`, which no lockout reaches.

**RequestGates** (`auth.rs:77-438`, `handlers.rs:178-302` and `705-902`).
`Layers` is the router: for each group of routes its layers, outermost first. A
request passes them one by one while keys, tenants and origins change. Behind
the spell-checking routes it goes on: `Reject` is a body that does not parse or
validate, `ResolveEngine` the wait for an engine, `Check` the answer or the
panic, and `GoAway` a client that leaves while its request awaits. `billed` and
`watched` say that the quota was consumed and that `record_usage` was entered.
The state behind the gates is reduced to its answers, which the other modules
explain; the limiter may refuse at any time. `Permitted` states what
REQUIREMENTS.md allows, by route and independently of the gates.

**Networks** (`config.rs:17-119`). An address is a family and a word, bit by
bit, with the widths as parameters; `canonical_ip`, `mask_ip`, `parse` and
`contains` follow the code, with its shifts that do not overflow. `InNetwork`,
the reference, masks nothing: it compares the first bits of the address and of
the network as written.

**SpellCheck** (`engine.rs:75-95` and `223-244`, `models.rs:8-55`,
`handlers.rs:211-316`). A text is a sequence of characters with a width in
bytes. `strip` slices by byte offsets like the code, and `StripPanics` says when
the slice ends outside the string or inside a character. `InOrder` puts the
matches of the expression from left to right, by counting. `spellcheck` and
`spellcheck_positions` are the two answers. The reference, `Occurrence`, knows
neither bytes nor runs.

**RequestInputs** is RequestGates with one more variable, an input for the pure
algorithms: each text with each list of words, and each network, is an initial
state of its own, so that a disagreement with the reference shows the input.

The `...Proofs` modules hold the theorems, one module for each component that
has a state. Those about networks and the tokenizer are in RequestGatesProofs,
beside the gates they decide. The `MC...` modules and the `.cfg` files
instantiate the modules for TLC.

The modules are not composed into one: they share no state (a table and its
caches belong to one module each), and the product would only interleave.
Where one reads another's answer, in RequestGates, the answer may change at
any step.

## The runs

| Run | Instance | What it shows |
|---|---|---|
| `tenants` | 1 tenant, limits 0 and 2, 2 calls, 2 spawned writes, 3 admissions a period, all faults | `NeverOvercountsUnraced`, `MirrorUnlessTorn`, refinement of the ledger |
| `tenants_overcount` | the same, crashes only | `NeverOvercounts` fails (see below) |
| `keys` | 1 tenant key, 2 bootstrap keys, 4 values, 2 calls, 1 reset, all faults | `DeadKeysFail`, `IssuedKeysWork`, `OneHashPerKey`, `PanicNeedsOverlap`, `OneBootstrapKey`, refinement of the directory |
| `keys_revoke` | 1 tenant key, no faults | `RevokedKeysFail` fails |
| `origins` | 2 tenants, 2 origins, 4 row ids, 3 calls, all faults | `OwnedOriginsPassCorsUntorn`, `CachesFollowTable` |
| `usage` | 2 requests at a time, 2 in all, 3 days, retention 1 day, all faults | `NothingCountedTwice`, `NothingLostUnnoticed`, `RetentionKeeps`, `OldRowsGo`, `BufferIsFlushed` |
| `usage_shutdown` | signals only | `CleanDeployLosesNothing` fails |
| `usage_query` | 4 kinds of request of 2 tenants, 3 in all, on 3 days around a leap day; every query over 4 dates, 2 periods and 3 scopes; the calendar from 1970 to 2100 | `AnswersMatchServed`, `PercentilesInBucket`, `CalendarSteps` |
| `engine` | 1 language, 2 sources, 2 requests and main, 2 attempts, all faults | `OneLoadPerMiss`, `PairsMatchUntorn`, `DownloadsAreLoaded`, `SourcesFollowTable`, `RegisteredIsLoaded`, `ListingFollowsEngines`, `EveryLoadEnds` |
| `limiter` | 1 address, 5 requests, limit of 2 failures, window 2, cooldown 3 | `LockoutNeedsBurst`, `AttemptsBounded`, `LockoutBounded`, `LockoutEnds` |
| `gates` | 2 tenants, 4 keys, every route, 1 request at a time, quota 1, bodies of each outcome; addresses of 3 and 5 bits, forwarded chains of up to 2 hops; every text of up to 5 characters of 4 kinds | `HandledWasEntitled`, `RefusedForCause`, `BilledIffReached`, `UnrecordedForCause`, `TokensFollowReference`, `EndpointsAgree`, `CidrMatchesPrefix` |
| `gates_texts` | the same | `TextsAreAnswered` fails |

Why the bounds are enough. The hazards are races of two calls on one tenant,
key, origin or language, so that two calls (three for origins, where a third
tells a revoked origin from a re-registered one) and one object reach them; a
second object of a kind appears where objects interact (the two tenants of an
origin, the bootstrap keys of a reset). `MaxCount` is one more than the largest
quota, so that a period goes from empty to refused and over a reset. Three days
with a retention of one have a day in the window, on its edge and outside.
Two attempts stand for `RETRY_ATTEMPTS`, five: one that is repeated and one that
is the last. The requests of `usage_query` fall into the first
bucket, two of the upper ones with a gap between them, and above the ladder; three of
them fill one bucket on two days, or two buckets and the overflow. The
retention and the default window are shortened to two days, so that windows end
inside the days used. When a lockout begins, the failures have been cleared and the
request that caused it has been answered: with five requests four may still be
past `check`, which renew a cooldown of two failures twice, the second time
during the first renewal. The cooldown is at least as long as the window, as in
the default configuration (F31). `gates` follows one request through a world that changes
at every step; the worlds a second request could make, among them a consumed
quota, are reached by the first request's predecessors. Its addresses have room
for a mapped, a compatible and a plain IPv6 address and for every prefix, zero
and full width included. Five characters are a run with punctuation on both
sides of a word and another beside it, one character of two bytes at any place;
limits of 4 characters and 2 words are crossed by some of the bodies.
Deadlock is not checked
where the bounds themselves stop the exploration (a used-up set of values, ids
or days) or where the system may really stand still.

Properties that end in `Unraced`, `Untorn`, `UnlessTorn` carry an exception
for a history the code does not handle. In every case the exception is needed:
without it TLC finds a counterexample. Those that contradict a sentence of the
documents are runs of their own; the others are listed
[below](#where-the-code-and-its-documents-disagree).

An exception also covers the history that makes it necessary. For the following
hazards the code does go wrong as `PROJECT.json` describes; the property named
there says that nothing *but* that history does it, and what else must hold in spite of
it, but does not forbid it: overlapping and failing tenant updates
(`store.rs:584`, `store.rs:610`: `torn`), a rotation that is cut
(`store.rs:415`: `torn`, `lapsed`), the stale answer of `revoke_origin` and the
other overlaps and cuts of origins (`store.rs:709`, `746`, `756`: `torn`), a
source that changed under fresh files and a pair cut between its two writes
(`dictionary.rs:64`, `86`: `fetched`, `torn`), overlapping registrations of one
language (`store.rs:807`: `skewed`), a registration whose download fails
(`handlers.rs:167`), a batch `main` abandons (`main.rs:130`: `dropped`, and a
run of its own, `usage_shutdown`), and a billed request whose client leaves
(`handlers.rs:723`: `gone`). Two rotations of one key (`store.rs:422`) and two
simultaneous decisions about the bootstrap key (`store.rs:397`) are not forbidden
either, as the code allows them; `PanicNeedsOverlap` and `OneBootstrapKey`
exempt exactly those two calls and those two keys. A bootstrap key that a crash
left unprinted (`main.rs:59`) is not exempt: a second one made beside it would
violate `OneBootstrapKey`. That the first is never printed is the code's design:
`reset-platform-key` is the way out.

## Fairness

Safety properties assume none. `UsageRollup` assumes weak fairness of the
steps of the flush loop and of the purge: their tickers fire as long as the
process lives, and a transaction ends, one way or the other. A flush may fail; the
statement of a purge may not: `main.rs:165` logs a failure and waits for the
next tick, and the fairness of the purge says that one of these ticks succeeds,
so that `OldRowsGo` is about a database that is not refusing for ever. `EngineRegistry`
assumes that a task that can run is polled, that a download comes back (the
client has a timeout of 120 s, `dictionary.rs:148`), and that tokio's mutex
serves in order, which is its documented behaviour and is in the model as the
queue. `RateLimiter` assumes that the clock ticks. No fairness is assumed of
clients, signals, restarts or faults, so a liveness property holds although
every flush or download may fail and every client may retry for ever.

## The proofs

Every theorem holds for any sets of tenants, keys, origins, requests, texts and
the rest, any limits and any choice of faults. A module proves from the `ASSUME`
of the module it is about (its constants have the kinds the code gives them,
and a sentinel is none of the values it stands beside) and from nothing else,
except that RequestGatesProofs also uses those of Networks and SpellCheck, which
RequestGates extends. The `Spec` of a module has no fairness, so a theorem about
it holds of the fair specification a run checks as well.

The properties are not inductive as they stand. Each module begins with the
invariant that is, in named parts; one lemma per action (`...Keeps`, `...Step`)
shows that it is preserved, and the theorems follow from it. How each argument
goes:

**TenantStoreProofs.** `TypeCorrect`, `QuotaNeverOvercounts`,
`CacheMirrorsTable`, `StoreImplementsLedger`. A count that is not in the cache
yet can reach it later: from a spawned write, from the snapshot an
`update_tenant` holds across its await, from the table at the next start.
`CountInv` bounds all of them by the admissions, for an untainted tenant, and
allows the table to exceed them only while a reset is on its way. For the
mirror, `TermsInv` and `StatusInv` say what the one call in flight will write
(`update_tenant` holds what the cache has, `set_suspended` has changed nothing
or the table alone), and `BirthInv` keeps every call and write off a tenant
that is in the table and not in the cache yet. The refinement, `LedgerStep`, maps
each action to a step of the ledger or a stutter and uses `CountInv` for
`Restart` alone: a reload forgets admissions in the tenant's favour exactly
because the table is covered.

**KeyStoreProofs.** `KeyTypeCorrect`, `KeysCachedOnce`, `PanicsNeedOverlap`,
`ResetFindsOneKey`, `DeadKeysStayDead`, `HandedOutKeysWork`,
`StoreImplementsDirectory`. `KeyHolds(k)` is what holds of one key through every
call: a value belongs to one key (`Named`, `Told`), a key being made is known to
its maker alone (`Making`), it is cached once (`Alone`); while no two calls
overlap on it, cache and table differ only by what the one call in flight will
still change (`Untorn`), a replaced value is neither in the table nor the cache
(`Replaced`), and the value its holder has is the one in force (`Held`).
`PhaseInv` ties the cache to the life of the server, `LookupInv` tells what a
lookup can find, `ResetInv` that the keys a reset has seen have rows. `RaceInv`
is kept by an argument of its own: two rotations of one key that are in flight
together are both in `overlapped`, and one that is not still has its entry
(`OverlapInv`); while a server starts with no bootstrap key in its cache, every
one in the table was made since it loaded, and of any two one is the rival of
the other (`RivalInv`). A `...Does` lemma states once what each action
changes, so that the `...Keeps` lemmas reason about facts and not about nested
`EXCEPT`s. In the refinement a step of a call makes a value, ends one, or is a
stutter (`IssueStep`, `FadeStep`, `QuietStep`).

**OriginStoreProofs.** `OriginTypeCorrect`, `OwnersPassCors`,
`SettledCachesFollowTable`. `IdInv`: an id in use was spent by the call that
knows it. `Kept(o)`, for an origin on which no two calls overlapped: it is
being registered or revoked, not both (`Apart`), and each call in flight names
the difference it leaves between the row and the two caches.

**UsageRollupProofs.** `RollupTypeCorrect`, `CountedOnce`, `LossHasACause`,
`WindowIsKept`. A request is in the buffer, in a batch, in a table or lost, in
each of the two maps on its own; `Kept` says so day by day, and `Hands` that a
flusher at rest has empty hands, without which a kill would lose what it does
not hold.

**UsageQueryProofs.** `DatesAreReadBack`, `DaysAreWrittenBack`,
`DatesCompareLikeDays`, `WindowsAreDays`: `format_day` and `parse_day` are
inverse to each other and monotone on every day and every date, not only on
those of the run. A `Position` is a day's place in the Gregorian cycle: era, year
of the era, month counted from March, day. Every day has one, both conversions
are computed from it (`FormatOfPosition`, `ParseOfPosition`), and its
lexical order is that of the days. `CalendarIsRight` is `CalendarSteps`, and
`WindowsCoverQueries` says that the window of each query that is not refused
holds exactly the days the query is about.

`AnswersAreRight`, `PercentilesAreInBucket` and `TypeCorrect` are about the
sums. The library adds with a fold that takes the elements in an order it
chooses; `FoldIsUnique` and `FoldIsDefined` show that the choice exists and is
one, and `SumAdds`, `SumOfClasses` and `SumGrows` what follows: an element that
joins a set adds its value, and a sum may be taken class by class. `TablesInv`
says that the cell of a key holds the number, and the microseconds, of the
requests in `served` that have that key: the class of the key, which one request
joins (`DailyGrows`, `LatencyGrows`). `AnswerInv` says that an answer is what
the aggregation makes of rows that the tables still have, for a query whose
window holds the days it is about. The rows of a query are sums of cells
(`DailyRows`, `LatencyRows`), its lines sums of rows, so that both are sums over
the requests of a class (`DailyIsRight`, `ErrorsAreRight`, `LanguagesAreRight`);
what remains is the rounding (`Average`, `Nearest`). For percentiles,
`LadderOfRows` tells what every order of the rows by bucket has in common: the
running total rises, and at the last row of a bucket it is the number of
requests up to its bound (`LatencyOfDate`). So the bucket crossed first is the one the
requested rank falls into, and `Interpolation` keeps the value between its bound
and the one before.

**EngineRegistryProofs.** `EngineTypeCorrect`, `MissesLoadOnce`,
`EnginePairsMatch`, `DownloadsReachEngines`, `CachedSourcesFollowTable`,
`RegisteredLanguagesLoaded`, `ListingIsUsable`. `LineInv`: a task is in the
queue of the load lock once, exactly while it waits or loads, and one that works
with files is its head. From that, files change under nobody's hands: `FileInv`
says what a load knows of the files at each of its steps, `PairInv` that fresh
files are of one source or between the two writes. `SourceInv` is the mirror of
table and cache, `WarmInv` that a language with a source and no engine is one
main or a request is about to load.

**RateLimiterProofs.** `LimiterTypeCorrect`, `LockoutsNeedBursts`,
`AttemptsAreBounded`, `LockoutsAreBounded` (the third for a cooldown at least as long as the window,
which is part of the property: with a shorter one TLC shows more attempts).
`Burst` ages with the cooldown: the failures that caused it are `MaxFailures`
within one window at its start. `Unforgotten` says that inside a window the
code holds every failure it needs, and `LateBounded` that the late failures of
requests already past `check` are bounded by the requests in flight. For the
length of a lockout, `LateInv` counts its renewals: each takes `MaxFailures` from
what an address has `Left`, the failures held and the requests past `check`,
which nothing adds to while `check` refuses.

**RequestGatesProofs.** `GatesTypeCorrect`, `QuotaPaysForHandlers`,
`UnrecordedOnlyForCause` from `StandInv`, which tells what a request has cost
from where it stands in its group; `HandlersServeTheEntitled` and
`GatesRefuseForCause` from `CauseInv`: each layer passed has left its fact
(`Passed`), what is true now has been true since the request arrived
(`Witnessed`), and each refusal names a fact that had lapsed (`Caused`). They
need two facts about the algorithms a request runs, which are theorems of
their own. `NetworksArePrefixes`: `contains` is agreement on the first bits, for
every width, prefix and way of writing an address; `ContainsIsMembership` is the
same as a property of the specification the run checks. `BareRunsPanic`: the
tokenizer slices out of bounds exactly when a run is punctuation alone, for
texts of any length and characters of any width in bytes; `TokensAreOccurrences`:
what it leaves of a run is an occurrence of the reference, and no occurrence
is missed. `strip` slices by byte offsets, sums defined by recursion on the
position; `OffsetSteps` proves that the recursive definition means what it says
(by approximations of bounded length), and the rest is induction on positions in
the form of a least counterexample (`StepByStep`).

`TokenizerFollowsReference` and `EndpointsTellTheSame` are about the order of an
answer. The place of a run in `InOrder` is its rank, the number of runs that do
not start after it; as no two start at one place (`RunsApart`), ranks are all
different and leave no gap (`RankGrows`, `RankFound`, `InOrderIs`). Taking the
punctuation off moves every run to one occurrence of the reference, and keeps them
in order (`MatchesMove`, `MovedInOrder`), so that the k-th token is the k-th
occurrence (`TextMatches`). The two endpoints are compared word by word: the runs
with one word are a part of all of them, and the k-th of a part is the one with
k of the part up to it (`PartInOrder`), so that the positions in the entry of a
word are those of its results, in their order (`SpotsAreResults`, `BodyMatches`).

Every invariant and every action property that a passing run checks is stated
by a theorem. Only model-checked is liveness: `OldRowsGo`, `BufferIsFlushed`,
`EveryLoadEnds`, `LockoutEnds`. Proofs under fairness need `ENABLED`, which the
prover does not have.

## Where the code and its documents disagree

With a run that shows it:

- `tenants_overcount`. The comment at `store.rs:645` says that a late or lost
  write of `request_count` undercounts and never overcounts. A spawned write of
  the old period that reaches the table after the `UPDATE` of a reset is
  reloaded at the next start: the new period begins with the old count.
- `keys_revoke`. F26, "Revoked keys fail authentication immediately":
  `revoke_key` revokes the cache entry under the hash it read before its
  `UPDATE`; a rotation that moves the entry in between leaves an active one.
- `usage_shutdown`. `main.rs:128`, "a clean deploy loses no usage data": the
  last flush finds an empty buffer while the loop holds a drained batch, and
  `main` returns. `flush_usage` returns at once for an empty batch, before it
  asks for a connection, so that SQLite's single connection does not hold
  `main` back either.
- `gates_texts`. F06a, "one result per token occurrence". For a run of
  punctuation alone (`...`, `:)`) `strip_surrounding_punctuation` slices past
  the end of the run (`engine.rs:243`) and the request panics, after its quota
  was consumed. The connection is dropped and no row is recorded: nothing maps
  a panic to a response, although the comment in `record_usage`
  (`handlers.rs:727`) and DESIGN.md 26.3 count on that. The test for an empty
  token (`engine.rs:84`) is never true.

Without a run of their own, and visible as the exceptions of the properties:

- the comment on `require_admin` (`auth.rs:166`) and DESIGN.md (9): a platform
  key on a tenant route is refused with 403. It never gets there, as
  `require_active_tenant` panics on a key without a tenant (`RefusedForCause`);
- two rotations of one key: the second finds its cache entry gone, panics with
  the write guard held, and every later use of `keys` panics. The message of
  the `expect`, "checked above", is about a check made before an await
  (`PanicNeedsOverlap`: it takes another rotation of that same key);
- `authenticate` may install a row it read before a reset, evicting the new
  value until that is used (`torn` in `DeadKeysFail`);
- overlapping updates, or an `UPDATE` that fails after the cache was changed,
  leave cache and table of a tenant different until the next start
  (`MirrorUnlessTorn`), where DESIGN.md calls the caches always-fresh mirrors;
- the comment on `load` (`engine.rs:191`), "Always download and load", so that
  a new source is "reflected immediately": files younger than the refresh
  interval are parsed as they are, whatever their source (`DownloadsAreLoaded`
  speaks of the loads that downloaded); and `get_or_load`, which loads a
  registered language whose registration failed, asks the default source, never
  the registered one;
- DESIGN.md 27.1: `cached` in `GET /languages` says that a language is ready to
  use. It says that two files are on disk, which may be of two sources or
  refused by the parser (`ListingFollowsEngines` speaks of loaded engines);
- `start_char` of a token is documented as where it starts and is where its run
  starts, before the punctuation that was taken off (`TokensFollowReference`);
  DESIGN.md speaks of "char indexes into the combined input", and the words of
  a body have no place at all (`EndpointsAgree`);
- DESIGN.md (7.5) asks of an origin to be `scheme://host[:port]` with no path:
  `https://app.example.com/` is accepted and stored with its slash, which no
  browser sends, so that it matches nothing;
- the comment on `expires_at` in `CreateApiKeyRequest` says that it must be in
  the future; nothing tests it;
- `percentile` promises a value "inside the bucket that crosses the target
  rank" (`usage.rs:160`, DESIGN.md 26.2). It interpolates from the bound of the
  row before, and an unused bucket has no row: if all requests took between 500
  and 1000 ms, p50 is reported as 500 and p95 as 950, from a bucket taken to
  begin at 0. `PercentilesInBucket` therefore takes the last used bound below;
- an undated `/usage/latency` is not the percentile of the merged histogram
  DESIGN.md 26.7 speaks of: several days have a row for one bucket, the first of
  them spans the whole bucket and the others nothing, and which comes first is
  the database's choice (`Orders`);
- `bucket_for` cuts a latency to whole milliseconds, so that 1.9 ms count as "at
  most 1 ms", where the bounds are called inclusive upper bounds;
- `revoke_origin` drops an origin from the CORS set on an answer that is stale
  when another tenant registers it in between (`OwnedOriginsPassCorsUntorn`);
- a download that ends between its two writes leaves a pair of two sources that
  counts as fresh (`PairsMatchUntorn`);
- a request that is billed and whose client goes away before the response is
  never recorded (`UnrecordedForCause`): the rollup stays below `request_count`,
  where F47 asks for equality;
- the doc comment on `resolved_client_ip` says that a chain of trusted proxies
  resolves to its rightmost address; the code returns the peer.

## What is not modelled

- The dictionary itself (Hunspell rules), the portal, the OpenAPI document,
  metrics: external code, or no state that anything depends on.
- Environment variables, the bodies of the administrative routes, error
  rendering, command-line parsing: pure conversions, of which a request or a
  start either passes or is refused.
- Expiry of keys: a comparison with the clock that no call changes.
- `last_used_at`: written by spawned tasks, read by nobody but listings; the
  writes may arrive out of order, which nothing promises they do not.
- `create_tenant` as one operation on tenants and keys: each module has its
  half. When the insertion of the first admin key fails, the tenant stays,
  without a key, and the caller is told that the call failed; a model of it
  would say the same two statements again.
- The order of rows in an answer of `/usage/*`, and years of more or fewer than
  four digits, whose dates the code would not compare like days.
- Isolation levels of the database: a statement is atomic, and a flush is one
  transaction of additive upserts.

## Plan

Done: the modules above, in the order tenants, keys, origins, usage,
dictionaries, limiter, gates, usage queries, networks and spell-checking, two
abstract specifications (QuotaLedger, KeyDirectory), each with its refinement
proved, and a proof of every invariant and action property of the runs.

What is left:

1. `create_tenant` as one operation on tenants and keys, whose halves are in two
   modules: what a failure of its second insertion leaves behind.
2. The size of the limiter's map (`auth.rs:64`): an address that failed once
   keeps its entry. A bound on it would be a property only if the code had one.
3. The four liveness properties, once the prover has `ENABLED`.
