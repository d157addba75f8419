# A verification project for the link service

The link service of LinkPulse shortens URLs, redirects visitors and publishes a
click event for each redirect. This directory holds TLA+ models of it, the TLC
runs that check them on small instances, and TLAPS proofs for every value of the
constants. Paths below are relative to `src/`.

    tlc -workers 2 -config LinkService_cache.cfg MC_LinkService
    tlapm LinkService_proofs.tla

`PROJECT.json` maps every definition to the lines it models, and every property
to a mutant: a definition changed the way a plausible bug would change the code,
under which the property must fail.

## 1. Inventory

| Component | Code | State | Operations |
|---|---|---|---|
| Snowflake ID generator | `internal/snowflake/snowflake.go` | `lastMs`, `sequence`, guarded by a mutex, in memory only | `New`, `Next` (with `waitNextMillis`), `Decompose` |
| Link service | `internal/link/service.go`, `link.go` | none of its own: table `links` and the cache | `Create`, `Resolve`, `ListByUser`, `cacheTTLFor` |
| Postgres repository | `internal/repository/postgres.go`, `migrations/` | table `links`: primary key `id`, unique `short_code`; rows are only inserted | `Create`, `GetByShortCode`, `ListByUser`, `Ping` |
| Redis cache | `internal/cache/redis.go` | keys `link:<code>` with a TTL | `Get`, `Set`, `Ping` |
| Click builder | `internal/clicks/builder.go`, `geoip.go` | none (draws event IDs from the generator) | `Build` |
| Click producer | `internal/clicks/producer.go` | franz-go's buffer of records | `Publish`, `Close` |
| Process | `cmd/link/main.go` | where `run` is: starting, serving, in Shutdown, in the flush, closing, returned; what is open and what is deferred | the steps of the start, signal, server error, `srv.Shutdown`, `flushProducer`, the deferred calls |
| HTTP handlers | `internal/httpapi/handlers.go`, `router.go` | none | `CreateLink`, `ListLinks`, `Redirect`, `Healthz` |
| HTTP middleware | `internal/httpapi/middleware.go` | the request's context, the status recorder | `Recover`, `RequestID`, `Logging`, `BearerAuth`, `StubAuth` |
| Auth client | `internal/authclient/client.go` | a gRPC connection | `Validate` with a timeout |
| Short codes | `internal/shortcode/base62.go` | none | `Encode`, `Decode` |
| URL validation | `internal/link/validate.go` | none | `NormalizeAndValidateURL` |
| Configuration | `internal/config/config.go` | none | `Load` |

**How they interact.** A handler runs in a goroutine of its own inside Recover →
RequestID → Logging, and behind BearerAuth when it is protected. `CreateLink`
draws an ID (mutex), INSERTs a row and SETs the cache. `Redirect` GETs the cache,
on a miss SELECTs the row, checks `expires_at` against the local clock, SETs the
cache, answers 302, then builds a click (drawing an event ID from the *same*
generator) and calls `Publish`. Several processes share one Postgres and one
Redis and nothing else; their IDs stay apart by `WORKER_ID`. `main` stops the
server before it flushes the producer.

**What is hard about it, and what makes each part correct.**

- *Generator.* Goroutines contend, the sequence wraps within a millisecond, the
  caller then spins with the mutex held, the clock may step back at any time,
  and a restart forgets everything. IDs must grow within a process, never repeat
  in the fleet, stay positive, and every call must return.
- *Create and resolve.* Between the INSERT and the SET another request may read,
  the process may die, a SET may be lost, late or repeated, and hosts disagree on
  the time. What the cache holds must agree with the table, expire in time, and
  nobody who was told 201 may see a 404.
- *Listing.* Pages are separate statements by offset; rows arrive between them
  and not in the order they are listed in. A client must not miss a link.
- *Clicks.* The buffer fills, the connections of the pool run out, brokers come
  and go, the process stops in five ways. A click must be delivered or its loss be
  logged; clicks of one link stay in order; redirects must be answered.
- *Process.* Each step of the start may fail, or hang until its timeout or a
  signal; which steps there are depends on the settings. A signal may arrive at
  any time, also in the middle of the start or of another stop. A failed start
  must close what it has opened, a process in service must work with what it was
  asked for, a graceful stop must close nothing under a running handler, and a
  signal must end the process.
- *Short codes and URLs* are pure, but much rests on them: two IDs with one code
  would make one link unreachable, and a URL that gets past the rules is stored,
  cached and served by every process from then on.
- *HTTP.* Panics, an Auth service that does not answer, one context for all pings,
  which slow answers use up and a client that goes away cancels. Every request gets
  one answer, the log tells the truth, a protected handler acts for the owner of the
  token only, and a health report blames no dependency without a cause.

`PROJECT.json` lists the hazards one by one, at the line where each bites.

## 2. Modules

| Module | Models | State ↔ code |
|---|---|---|
| `SnowflakeId` | the bit layout: `MakeId` (63 bits and a sign, wrapping), `Decompose` | pure |
| `Snowflake` | the generators of a fleet | `lastMs`, `sequence`, `mu` are the fields of `Generator`; `pc[i][c]` is where goroutine `c` of process `i` is in `Next`; `clock` is `g.now()`; `issued` is history |
| `IdSource` | the promise: IDs grow per process and are never repeated | `issued` only |
| `LinkService` | `CreateLink`/`Create` and `Redirect`/`Resolve` over Postgres and Redis | `db` is the table by short code, `cache` the unexpired keys, `wire` the SETs sent and not yet executed for good, `pc`, `code`, `link`, `answer` the locals of each handler; `acked` is history |
| `LinkStore` | the promise, without a cache: a table that grows, an answer that agrees with it at one moment of the request, with expiry blurred by `Early` and `Late` | `links`, `time`, `asked`, `answer` |
| `FreshLinks` | `LinkService` with the promise of `IdSource` | in addition `drawn` and `repeated`, history |
| `Listing` | `ListLinks`/`ListByUser` as a client reads all pages while links arrive | `rows` is the table; `offset`, `limit` the query; `seen`, `twice`, `known`, `done` the client's |
| `ClickDelivery` | `Redirect` with its query and the pool, `Builder.Build`, `Producer`, and the end of `run` | `main` is where `run` is and `why` the reason, `handler[r]` where each handler is, `buffer` and `log` the records of a partition in the producer and in Kafka, `reported` the losses in the service's log |
| `ClickStream` | the promise of the producer: at most once, in the order of each link, no loss without a line in the log but by force | `taken`, `pending`, `read`, `lost`, `end` |
| `Config` | `config.Load`: defaults, values that cannot be parsed, all complaints at once | pure |
| `Startup` | `run` up to its `select`: settings, Postgres, Redis, generator, Kafka, GeoIP, Auth, server | `step` is the call `run` is in, `open` the clients and files, `deferred` the `Close` calls, `ctxDone` the context of the signals |
| `Process` | `Startup`, then `ClickDelivery`, with signals at any time and processes that publish no clicks | both |
| `HttpApi` | Recover, Logging, BearerAuth with the Auth service, the routes, Healthz | `recorded` is `statusRecorder.status`, `sent` what net/http sends, `user` the context value, `left`, `report`, `ctx` the locals of Healthz; `upAlways` and `upOnce` are history |
| `ShortCode` | `Encode`, `Decode` digit by digit, in any base, with the wrap of int64 | pure |
| `CodedIds` | `ShortCode` on the IDs `Snowflake` issues | |
| `UrlRules` | `NormalizeAndValidateURL` and `isBlockedHost`, on URLs with the features the rules look at | pure |
| `ValidLinks` | `LinkService` with `UrlRules` as its `Normalize` | |
| `MC_*` | instances for TLC | |
| `*_proofs` | theorems and lemmas of the module they are named after | |

How a step is cut: between two points where another goroutine, process or
machine can interfere, the code is one action. `Next` under its mutex is one step
unless it spins; an INSERT, a SELECT and a GET are one step each; computing a TTL
and sending the SET is one step and its execution by Redis another; `Publish` is
one step that is disabled while the buffer is full; making a client and pinging
it is one step of the start. Every failure of a call
(`InsertFails`, a SELECT that ends in 500, `CacheMiss` when Redis does not
answer, `AuthFails`) is a disjunct, and so is "it was done, but the reply was
lost" (`InsertLink`). `Abort` and `Crash` are the death of a process between any
two steps.

How modules compose: `Snowflake` refines `IdSource`, whose promise `Listing` uses
(an inserted row has a new ID). `LinkService` does *not* rely on it: its IDs may
repeat, which is what happens when two processes are given one `WORKER_ID`, and
its properties hold all the same because of the unique constraints of the table.
`FreshLinks` adds the promise, in which those constraints are never needed.
`LinkService` refines `LinkStore`. `ValidLinks` puts the rules of URLs into it,
`CodedIds` the short codes onto the generators. `Process` runs `ClickDelivery`
after `Startup`: a step of the service needs a started process, a signal is seen
by the pings or by the `select`, and a process without brokers has no builder.
`Process` refines `ClickStream`.
`HttpApi` takes what the handlers of links do for granted and models what is
around them.

**External code**, modelled from the way the service uses it:

- *Postgres* checks both unique constraints and runs one statement on one
  snapshot. *Redis* counts a TTL from the execution of the SET and may evict any
  key; go-redis retries, so a command may be executed twice and after its caller
  has given up. A SET is executed within `MaxDelay` of the computation of its TTL
  or never.
- *franz-go* is idempotent, retries without limit (the options set neither a
  limit of retries nor a timeout of delivery), keeps the order of a partition,
  picks the partition by the record's key, blocks `Produce` at
  `MaxBufferedRecords`, and `Close` fails what is left, whose callbacks then run.
  Of what is left when the client is closed or the process dies, the first records
  of a partition may have been written without an acknowledgement.
- *net/http* sends a response this small when its handler returns, keeps the
  first status written, and `Shutdown` waits for connections that are new or busy.
- *The Auth service* accepts a token in the name of its owner or refuses it, as it
  likes, and may never answer.
- *net/url* writes a parsed URL with its scheme in lower case and with what needs it
  escaped, leaves an empty fragment out and keeps the query as it is.

## 3. Runs

| Run | Checks | Result |
|---|---|---|
| `Snowflake_mutex` | `TypeOK`, `IdsGrow`, `IdsPositive`, `EveryCallReturns`, no deadlock: three goroutines of one process, a clock that also steps back | holds |
| `Snowflake_fleet` | `IdsUnique`, `IdsNameTheirOrigin`, `CodesNameIds`, `ImplementsIdSource`: two processes that are replaced at any time | holds |
| `Snowflake_stepback` | `IdsUnique` when a process is replaced while its clock steps back | violated |
| `LinkService_cache` | `TypeOK`, `CacheAgreesWithDB`, `CacheExpiresInTime`, `CreatedIsStored`, `TargetsAreValid`, `InsertsGoThrough`, `AckedLinksAreFound`, `ImplementsLinkStore` | holds |
| `LinkService_expiry` | `CacheNeverOutlivesLink` with exact clocks and a late SET | violated |
| `Listing_walk` | `TypeOK`, `WalkFindsAll`, `RepeatsOnlyAfterInsert` | holds |
| `Process_life` | `TypeOK`, `ClicksAccounted`, `LinkClicksInOrder`, `StopIsGraceful`, `ServesAsConfigured`, `FailedStartLeavesNothing`, `RedirectsAnswered`, `StartEnds`, `SignalEndsProcess`, `ImplementsClickStream` | holds |
| `ClickDelivery_blocked` | `RedirectsDoNotWaitForKafka` with Kafka down and the buffer full | violated |
| `ClickDelivery_cutshort` | `LossesAreLogged` when Shutdown runs into its deadline | violated |
| `ClickDelivery_hang` | `StopsByForce` with a query that does not end | violated |
| `HttpApi_requests` | `TypeOK`, `LoggedAsSent`, `ActsForOwner`, `HealthIsHonest`, `EveryRequestAnswered` | holds |
| `HttpApi_pings` | `EachPingHasItsTimeout` | violated |

### What the violated ones show

Each quotes a comment of the repository and shows a behaviour of the code that
contradicts it.

1. `Snowflake_stepback`: unique IDs are promised without coordination, but
   `lastMs` starts at 0 in a new process (`snowflake.go:78`), so the check against
   a clock that went back protects only against steps during one process's life.
2. `LinkService_expiry`: `cacheTTLFor` promises that no entry outlives its link.
   The TTL is relative, computed before the SET is sent (`service.go:147`); the
   entry outlives the link by the delay of the SET. `CacheExpiresInTime` is the
   bound that does hold: delay plus the lag of the clock.
3. `ClickDelivery_blocked`: "the redirect does not wait for Kafka". `Produce`
   blocks on a full buffer (`producer.go:65`), and the response leaves when the
   handler returns. `RedirectsAnswered` is what holds: redirects are answered as
   long as Kafka answers again and again.
4. `ClickDelivery_cutshort`: "the event is lost (we write it to the log)". When
   `srv.Shutdown` fails, `run` returns without a flush (`main.go:189`) and the
   buffer disappears silently. `ClicksAccounted` is what holds of other stops.
5. `ClickDelivery_hang`: after `ShutdownTimeout` the process is to stop by force.
   The deadline ends `Shutdown`; then the deferred `repo.Close()` (`main.go:66`)
   waits for every query that runs, and queries have no deadline of their own. A
   query that hangs keeps the process, and later signals are swallowed.
   `SignalEndsProcess` is what holds as long as Postgres answers.
6. `HttpApi_pings`: "a short timeout for each ping". There is one for all of them
   (`handlers.go:152`), so a dependency that hangs makes others look failed.
   Two that answer slowly do the same to a third. `HealthIsHonest` is what holds:
   200 is never wrong, and a dependency that the body blames was down at some time
   unless the time was over or the client gone.

One more observation, of no comment but of the word "normalized": what
`NormalizeAndValidateURL` returns is not always what it makes of its own result.
`http://example.com/?q=x #` is stored with the space at its end (`validate.go:50`:
the empty fragment goes, the query stays), and without it when it is submitted
again. `TargetsAreValid` says that such spaces are all that a second pass takes away.

### Bounds, and why they are enough

- `Snowflake`: `TimeCap`, `WorkerCap`, `SequenceCap` stand for 2^41, 2^10, 2^12.
  Two sequence numbers per millisecond and four clock readings are enough to use
  a millisecond up, spin, reset and step back repeatedly within `MaxIssued` calls
  (6 for one process, 3 for each of two).
- `LinkService`: two requests at a time, each slot serving one after another
  without end; two IDs, which concurrent creates may draw twice, and their codes;
  links that expire at time 1 or never, `CacheTTL` 2, so that the TTL is
  cut in some cases and not in others; `MaxTime` 4 lets a late entry of the link
  expire too; `MaxWire` 2 allows two SETs of one key to be executed in either order; the clock
  of one host lags by 1. Redis starts with values of an older format or empty.
  Of the URLs, two are accepted (one is rewritten and stored with a space at its end,
  one grows by escaping), and there is one form for each way to be refused;
  `maxURLLength` 4 stands for 2048.
  The runs use `FreshSpec`, which is `Spec` and the history of IDs. The full behaviour
  with both IDs is out of TLC's reach (the properties of the cache are about one code
  at a time, and `LinkService_proofs` has them for any number), so the constraint
  `OnlyCreatesUse2` keeps what follows the second ID to what `InsertsGoThrough` is
  about: creates at the start of time, with their INSERTs that fail, are aborted or
  lose their reply while the other create or an earlier row has the other ID, in any
  order; the first ID alone has redirects, time and the cache as well. The expiry run
  needs one ID only.
- `Listing`: four links with two creation times (so ties are broken by ID), limits
  from -1 to one above the maximum, pages of 1, 2 and 3.
- `CodedIds`: base 3 for 62, so that codes have one to four digits.
- `Process` and `ClickDelivery`: three clicks on two links in two partitions with
  a buffer of two (one in the blocked run) and one connection, so that order, a
  full buffer, an exhausted pool and other links' clicks interfere. The ten
  environments are: everything on, no clicks, the defaults, and one for each value
  of a variable that `Load` refuses.
- `HttpApi`: two requests at once on any route, two users with a token each, two
  dependencies.

Deadlock is checked where the model cannot come to an end (`Snowflake_mutex`: the
clock never stops). The others may stop: the bounds are reached (IDs, time, links,
requests) or the process has returned.

### Fairness

- `Snowflake!FairSpec`: strong fairness of entering `Next` (Go's `sync.Mutex`
  hands the lock to a waiter that starves) and of the spin (it reads the clock
  without pause). `EveryCallReturns` in addition assumes of the clock that it is
  ahead of `lastMs` again and again.
- `ClickDelivery!FairSpec`: weak fairness of each handler but in its query, and of
  the steps of `run` (a deadline passes whatever others do), strong fairness of
  `Deliver` (the producer retries without limit). Nothing is assumed of Kafka, of
  Postgres, of signals or of the server; `RedirectsAnswered` and
  `SignalEndsProcess` name what they assume of Kafka and Postgres.
- `Process!FairProcessSpec`: the same for a process in service, and weak fairness
  of `Proceeds`, the steps of the start that wait for nobody and the failure of a
  ping, which has a timeout of ten seconds. That a ping succeeds is not promised.
- `HttpApi!FairSpec`: weak fairness of authorisation (the call has a timeout), of
  the pings (their context ends) and of the log line. `Judge`, the Auth service's step, is
  not fair, nor are the handlers of links, which wait for Postgres and for the
  producer without a deadline: `EveryRequestAnswered` has as its hypothesis that
  they return.

`LinkService` and `Listing` state no liveness: their handlers are straight lines
of calls with contexts, and what could wait in them is in the other modules.

## 4. Proofs

All of these hold for every value of the constants that satisfies the named
assumptions.

- **`Snowflake_proofs`**, the layout: `LayoutInjective`, `DecomposeInverts`. IDs of
  times in the field determine time, worker and sequence, and shifts and masks give
  them back; an ID is smaller than the first of the next millisecond. The argument
  is Euclidean division, split into small steps because the capacities are symbolic.
- **`Snowflake_proofs`**, the fleet: `TypeCorrect`, `IssuedIdsGrow`, `IssuedIdsUnique`,
  `IssuedIdsPositive`, `IssuedIdsNameTheirOrigin`, `FleetImplementsIdSource`. `IdsGrow` alone is not inductive: it says nothing of
  the state the next ID is made from. `IInv` adds `StateAhead` (`lastMs` and
  `sequence` are ahead of every ID of the process *and of those it replaced*),
  `SpinnerHoldsMutex` (the state is stepped by one caller at a time and reset
  before the spin) and `LastMsShown`. Assumptions: `LayoutAssumption` and
  `SnowflakeAssumption`; `ClocksInField` (clocks between the epoch and 2093, where
  41 bits end); `RestartsSafe` (no restart hides behind a clock that steps back);
  for uniqueness across processes `WorkersDiffer`; for positive IDs, clocks past
  the epoch itself. Each is needed: the second is
  the first finding, the third is only checked for its range by `config.go`.
- **`CodedIds_proofs`**: `DecodeInvertsEncode`, `CodesAreShort`, `IssuedCodesNameIds`.
  `LowFirst` is a recursive function on the integers, so that it is what its
  definition says has to be proved first: `<` is well-founded on the naturals, and
  the graph of the function is defined below every bound. The library states that
  induction with operators as parameters; `LeastNat` and `Induction` restate what is
  needed for sets, from `WFMin`. By induction over the ID, its digits weigh what the
  ID is worth (`Decode` never wraps on the way, since the partial sums are quotients
  of the ID), and codes of at most eleven characters hold 63 bits in base 62. With
  `IssuedIdsUnique` it follows that codes name their IDs in the whole fleet.
  Assumptions: those of uniqueness, and `ShortCodeAssumption`.
- **`LinkService_proofs`**: `TypeCorrect`, `CacheAgrees`, `CacheExpires`,
  `CreatedStays`, `AckedAreFound`, `ServiceImplementsLinkStore`. The inductive
  invariant says that a link in hand after INSERT or SELECT *is* the table's row
  (`HandsHoldRows`: rows never change), that a SET on its way is young and was cut
  at its link's expiry (`WireInTime`), that rows are stored under the code of
  their ID (`RowsKeyed`), and that acknowledged codes stay (`AckedStored`). Each
  action then maps to one action of `LinkStore` or to a stutter. Assumption:
  `LinkServiceAssumption`; neither `Code` injective nor IDs unique is assumed.
- **`FreshLinks_proofs`**: `FreshIdsAreInserted`. The invariant says that rows and
  links in hand have IDs that were drawn (`IdsDrawn`), and that no two of them share
  one until an ID is repeated (`IdsApart`); a code that is taken then belongs to a row
  with the same ID (`RowsKeyed`, from `LinkService`). Assumption: different IDs have
  different codes (`FreshLinksAssumption`), which `DecodeInvertsEncode` shows of
  short codes; that IDs are drawn once is the hypothesis of the property, and
  `FleetImplementsIdSource` shows it of the generators.
- **`Listing_proofs`**: `TypeCorrect`, `WalksFindAll`, `PagesDisjoint`. The rows of
  a user have ranks 0, 1, ..., n-1 without gaps (proved with cardinalities of
  intervals), so a page is as long as the interval of ranks it covers and an
  empty page means that the offset is past the end. `UnreadAhead` (an unread link
  of the start is at the offset or after it: inserts only push it back) and
  `ReadBehind` do the rest. Assumption: `ListingAssumption`.

- **`ValidLinks_proofs`**: `TargetsStayValid`. On top of `LinkService`'s invariant:
  rows, answers and the links that are about to be inserted hold URLs that have
  passed the rules (`UrlsChecked`), and what is cached is a row. The heart is
  `WrittenIsValid`: the rules, applied to the written form of a URL they let pass,
  let it pass and change nothing but spaces at its end, unless it has grown too long.
  Assumptions: `UrlRulesAssumption` (escaping makes at most three bytes of one; the
  rows of the start were checked as well).
- **`HttpApi_proofs`**: `TypeCorrect`, `LogIsTrue`, `HandlersActForOwners`,
  `HealthzIsHonest`. The invariant speaks of one request at a time, so `RequestStep`
  reduces each action to its request. `RecorderAgrees` says that recorder and client
  agree until the log line is written, `RoutesKept` that a label belongs to its
  routes and a verdict to its token, `PingsAreHonest` that what the pings have found
  was so, and that a ping that failed had a cause: its dependency was down at some
  time, or the context is done.
- **`Process_proofs`**: `TypeCorrect`, `ClicksStayAccounted`, `ClicksKeepTheirOrder`,
  `StopsAreGraceful`, `ServiceIsAsConfigured`, `FailedStartsLeaveNothing`,
  `ProcessImplementsClickStream`, `ClicksSettle`. The invariant has a part for each side. For the clicks, `QueuesInOrder`: partition by
  partition, log and buffer together are in the order of `published`, where a click
  occurs once (`PublishedOnce`); a click that was given up has had its turn
  (`LostOnce`). For the end, `PhasesAgree`: which reason goes with
  which phase, and when the buffer is empty. For the start, `StartsInOrder`: `open`
  is what the settings want of the steps behind, and all of it but the producer is
  deferred. Steps are grouped by what they touch (a handler only, the queues, the
  phase, the start), with one lemma for each group. For the refinement, the head of a
  buffer is the oldest pending click of its link (`HeadIsNext`) and occurs nowhere
  else (`HeadGoes`), and what is written of a buffer that is given up comes first in
  each link (`GiveUpIsInOrder`). `ClicksSettle` is then argued from the steps of
  `ClickStream` alone: its `Settles` says what a reader of the topic may rely on.
  Assumptions: `ClickDeliveryAssumption`, `ProcessAssumption`.

Only model-checked: all liveness (`EveryCallReturns`, `RedirectsAnswered`,
`StartEnds`, `SignalEndsProcess`, `EveryRequestAnswered`), since TLAPS supports
neither fairness nor ENABLED. Every other property of a passing run is a theorem.

## 5. Not modelled, or only partly

- *Click builder and GeoIP*: the draw of the event ID and its error, and the opening
  and closing of the database, are modelled. The other fields of an event (time,
  referrer, hashed address, user agent, country) are filled by straight-line code
  from one request, and no other code of the service reads them.
- Fields of links other than ID, URL, expiry, owner and creation time are data no
  property tells apart. Settings that are passed on unread (addresses, topic, salt,
  password) are left out of `Config`.
- `RequestID` copies a header and `StubAuth` sets a constant: no property is about
  them.
- A `SHUTDOWN_TIMEOUT` that is not positive passes `Load`; its deadlines have passed
  when they are made, which is one of the behaviours of `ShutdownTimesOut` and
  `FlushTimesOut`.
- A clock before 2024 makes IDs negative, for which `Encode` has no digits;
  `CodesNameIds` and the proofs are about clocks in the time field.

## 6. Plan

Done, in this order: the generator and its promise; create and resolve with their
promise; clicks and shutdown; listing; HTTP around the handlers; proofs of the
first two and of listing; configuration, start and the whole life of a process;
short codes on issued IDs; URL rules on stored links; proofs of the process, of
HTTP, of the URLs and of the remaining properties of IDs; `LinkService` on the promise
of the generators; the proof of the short codes; the promise of the producer.

Left: a composition of `HttpApi` with `LinkService`, in which the owner a link is
stored under is the user its request was admitted for.
