# Verification of the AQMS duty review backend

The backend lets seismic duty analysts look at the events of an AQMS database
and accept or cancel them. Crow runs the request handlers on several threads;
several instances of the program may stand behind a load balancer; AQMS itself
is written to by other programs (real-time processing, Jiggle) all the time.
This directory holds TLA+ models of the parts in which those actors meet, the
TLC configurations that check them, and proofs checked by TLAPS.

Source paths below are relative to the repository.

## Inventory

| component | state it keeps | operations | interacts with |
|---|---|---|---|
| **Database client** (`src/database/client.cpp`) | one connection, a mutex, a policy (Persistent or OnDemand) | `execute`: lock, dial if closed, set the search path, run one transaction, retry once | every query of the program goes through one |
| **Catalog cache** (`src/database/aqms/catalogCache.cpp`, `getCachedCatalog` in `src/routes/eventRoutes.hpp`) | one catalog with its hash, freshness token and age, per instance | `lookup`, `store`, `clear` | the freshness and catalog queries; the action routes clear it |
| **Event actions** (`src/database/aqms/queries/actions.cpp`, `accept`/`cancel` in `src/database/aqms/database.cpp`, `src/routes/actionRoutes.hpp`) | none of its own; AQMS's rows `event`, `origin`, `pcs_state` | accept: lock, compare, accept, post; cancel: compare, auxiliaries, main | AQMS's stored functions, the auxiliary databases, Jiggle |
| **User table** (`scripts/database/createTables.sql`, `src/database/drp/userStore.cpp`) | the users with level, hash and provisional deadline | the `admin_` functions, change of password, sweep of expired accounts | the admin and user routes of every instance |
| **Login, tokens, authorization** (`src/auth`, `src/authorizeRoute.hpp`, `src/routes/userRoutes.hpp`) | signing keys | verify a password (and rehash it), issue and verify tokens, check a permission, change a password | the user table |
| **Event detail** (`queryEvent` in `queries/eventQueries.cpp`, `magnitudeQueries.cpp`, `event.cpp`, `origin.cpp`, `serialize.cpp`) | none | three kinds of statement, the choice of the magnitudes, the assembly and its JSON | AQMS through the main client |
| **Waveforms** (`queries/waveformQueries.cpp`, `waveform.cpp`, `waveformRoutes.hpp`) | the file roots, read at start-up and re-read on a miss, under a mutex | for each stream find the file, read and unpack it; encode the samples | AQMS and its archive |
| **Alarms** (`queries/alarmQueries.cpp`) | none | gather from all databases, skip those that fail | main and auxiliary clients |
| **Event locks, stations, quarries** | none | one query each | AQMS |
| **Metrics** (`metrics.hpp`, `metricsSingleton.cpp`, `routeMetrics.hpp`) | counters per route and outcome | count, export | every route; the exporter's thread |
| **Routes, configuration** (`main.cpp`, `routes/`, `programOptions.hpp`) | the options | check the file, start, dispatch, authorize | everything above |
| Signal processing, logging, grants | none | pure functions, output, scripts run once | - |

What is hard about them, and what makes each correct:

* **Client**: a connection may die between any two steps, unnoticed or during
  a COMMIT. A transaction must take effect at most once, the caller must not be
  told something false, the call must end, a retry must have a proper session,
  an OnDemand connection must not outlive its call.
* **Catalog cache**: token and catalog are two reads of a database that changes
  in between, and the store comes later still. An answer must not lag behind
  AQMS further than intended, and an analyst's own action must show.
* **Event actions**: the event changes under the analyst; rows are locked by
  programs that take their time; a cancel goes to several machines of which any
  may fail, or seem to. Accept only what was reviewed, bump the version once,
  say what really happened, end.
* **User table**: READ COMMITTED transactions of several administrators. One
  activated administrator must remain; the sweep must not delete an account
  that has been given a new deadline or activated.
* **Login**: a request is several transactions, and the account may be reset,
  removed or expire between any two of them; a rehash writes back a password
  read earlier; permissions are frozen into tokens. Only the holder of a good
  password may get in, a change must be told truly, an issued password must not
  become a lasting one, a demotion must come into force.
* **Event detail**: the statements of one read have a snapshot each, other
  programs commit between them, and a lost connection starts them again. The
  best magnitude of each type must be kept whatever the order of the rows, one
  bad pick should cost only itself, and what is shown must be what an accept is
  compared with.
* **Waveforms**: a cache of the roots that is refreshed on a miss only, shared
  by the threads; packets joined within a tolerance; samples sent as rounded
  differences. No stream may be given up that has a root, no older table may
  replace a newer one, every sample must come out where and as it was recorded.
* **Alarms**: answers from a part of the databases, operations that run twice.
* **Locks**: two clocks and two windows.
* **Metrics**: counters that are incremented and read one by one.

`PROJECT.json` lists the hazards line by line with the properties that cover
them.

## Modules

| module | what it is |
|---|---|
| `BoundedStaleness` | abstract: what a client of the catalog may rely on |
| `CatalogCache` | instances, their caches, request threads, AQMS and its writers |
| `AtMostOnceExecution` | abstract: what `Client::execute` promises its caller |
| `Client` | one client, its connection, the calls of `execute`, the network |
| `EventActions` | accepts and cancels against the other writers of AQMS |
| `UserAdmin` | the user table, row locks, the transactions of several sessions |
| `Login` | one account, the requests that present its password, their tokens |
| `EventDetail` | one event read by `queryEvent` while other programs commit |
| `MiniSeed` | pure: the packets of an archive file, their merging, the encodings of samples |
| `Waveforms` (extends `MiniSeed`) | the handler threads of `/events/<id>/waveforms`, the roots they share, AQMS's table of roots |
| `Configuration` | pure: what `ProgramOptions` accepts |
| `Routes` (extends `Waveforms`, `Configuration`) | one backend from start to crash: dispatch, authorization's outcome, waveforms, alarms, locks, lists, counters, exporter |
| `CatalogCacheProofs`, `ClientProofs`, `EventActionsProofs`, `UserAdminProofs`, `LoginProofs`, `EventDetailProofs`, `WaveformsProofs`, `RoutesProofs` | the theorems of each |
| `MCCatalogCache`, `MCClient`, `MCEventActions`, `MCUserAdmin`, `MCLogin`, `MCEventDetail`, `MCWaveforms`, `MCRoutes` | constants and symmetry for TLC |

`EventActions` does not instantiate `Client`: it takes `execute` by what
`AtMostOnceExecution` says of it (committed, rolled back or in doubt; run again
at most once and never after a COMMIT), together with the mutex, which the
waiting depends on. That `Client` implements that promise is checked and proved.

### CatalogCache

A catalog is a pair: the number of changes AQMS had committed when it was read
(`version`), and the bucket its window ends in (`window`); JSON and hash are
functions of the two. AQMS is reduced to what the token sees of it: `lddate`
(max over what is committed), `selected` (the count), and the clock's bucket.
`stamp` is the largest lddate ever given.

| action | code |
|---|---|
| `ReadFreshness`, `FreshnessFails` | `getCatalogFreshness()` in `getCachedCatalog`, with its result or an error |
| `LookupHit`, `LookupMiss` | `CatalogCache::lookup` |
| `BuildCatalog` | `getCatalog`, one statement and so one snapshot |
| `Store`, `AnswerUnstored` | `store`, or nothing for an empty token |
| `Finish` | the response, or a 500 because the catalog query failed |
| `CommitAction`, `AnswerAction`, `LoseActionAnswer` | an accept or cancel commits; `actionResponse` clears the cache and says 200, or says an error |
| `Revise`, `ReviseLate`, `Select`, `Deselect`, `ReviewElsewhere` | external: AQMS's other writers, by what they do to `lddate` and the count |
| `Tick` | the clocks; every `BucketTicks` ticks a bucket begins |

AQMS's clock and the instances' steady clocks advance together. The statements
of one request are not atomic together; each is. The cache's own mutex makes
`lookup`, `store` and `clear` atomic.

### Client

`stage[c]` follows call `c` through `execute`. The connection's `link` is
`none`, `good`, `stale` (`is_open()` still says yes) or `closed`; `path` says
whether the session has the search path. `DropSilently` may strike between any
two steps. A COMMIT is two steps, so that it can be lost before the server has
it (then it is in `doubt`, and `ResolveDoubt` decides later) or after. `Leave` is the
destruction of `Closer` and the lock, in that order. `effect[c]` counts commits.

### EventActions

One event on the main database with its solution (preferred origin and the
rest), the flag of each origin, the version, and who has which row locked.
A request walks through the statements of `acceptEvent` or `cancelEvent`;
`mutex[i]` is the main client's mutex of instance `i`, which an accept keeps for
the whole of its first transaction and which the fallback of a cancel takes.
What a transaction has updated becomes visible when it commits (`Accepted`,
`Cancelled`). `epref.accept_event` and `epref.cancel_event` are modelled from
their text at the head of `actions.cpp`; the auxiliary databases answer as a
whole: success, no success (with or without a stray post), an exception, or -
with `Lossy` - an exception although they committed. The two loops of
`cancelEvent` are numbered visits (`NextTry`), so that two spellings of one
subsource reach one client twice, as in the code. `AcceptRefused` has the accept
of an event without a preferred origin: no row is updated, the status is 0.

### UserAdmin

A transaction is a sequence of statements, each of which sees what is committed
when it starts; a locking scan finds rows (`FindAdministrators`, `CallSweep`),
then locks them one by one and looks at each again (`LockRow`), which is what
PostgreSQL does at READ COMMITTED. Each function writes last and at most one row
(the sweep: those it locked), so the write and the COMMIT are one step. Names
are numbers so that ORDER BY has an order. The levels below administrator are
one. `CallUpdatePassword` is both the change of a password and the rehash at
login: the table cannot tell them apart. `Abort` is a lost connection or the
server's deadlock detection.

### Login

One name in the table, `account`, which may have no row. `stage[r]` follows a
request with Basic credentials through the calls of `UserStore`, each of them
one transaction and one step; what it asks for besides being let in (a token, a
route, a change of the password) matters after the permission is read, and is
chosen there.

| action | code |
|---|---|
| `Begin` | a header that parsed, in `userLoginRoute` or `authorizeRoute` |
| `ReadHash`, `Reject` | `getPasswordHash` and `crypto_pwhash_str_verify` |
| `RecordLogin` | `recordLogin`; its effect on `last_login` is left out |
| `Rehash`, `RehashFails` | the `updatePassword` of `authenticateByPassword` |
| `ReadPermission`, `Sign` | `AuthNZ::login` after the password: `getPermissions`, `createToken` |
| `Authorize`, `AuthorizeChange` | `AuthNZ::authorize` after the password, for a route of some level, for `/account/password` |
| `RefuseNewPassword`, `Change`, `ChangeExpired`, `ChangeFails` | the handler of `/account/password` |
| `Fails` | a call of `UserStore`, or the signing, throws |
| `AddAccount`, `ResetPassword`, `SetPermission`, `RemoveAccount`, `Sweep` | the routes under `/users` and the sweep, by what they do to this row |

A hash is its password and its cost. `Opens(r, l)` says that a route of level
`l` lets the bearer of r's token in; `verify` and `isAuthorized` read no state,
so it is an operator and not an action. The database and the instances share
`clock`. `matched`, `overtaken`, `changed`, `hashedAt` (the cost each password was hashed
at when it was handed out) and `held` are history, which no guard reads. A password is handed out at most once: `/users/add` lets the
administrator name one, and one who names the same twice is outside the model.
Whether the administrator may do what he does is `UserAdmin`'s.

### EventDetail

`revision` is what AQMS holds of the one event asked for; other programs replace
it (`Commit`) between any two statements. `read` and `listed` are what the
first statement and that for the magnitudes saw.

| action | code |
|---|---|
| `Ask`, `Begin` | `Database::getEvent` hands `queryEvent` to the client |
| `ReadOrigins` | the statement for the event, its origins and arrivals; no row is a 404 |
| `ReadMagnitudes`, `ChooseMagnitude`, `MagnitudesChosen` | `NETMAG_QUERY` and the loop of `readMagnitudes`, row by row in the order of `magid` |
| `ReadStations`, `StationsRead` | the statement for the stations of each local and duration magnitude |
| `BuildEvent` | `readEvent` with `flushOrigin`, the setters of `Event` and `Origin` that may throw, `toJSON` |
| `LoseConnection` | the client's second attempt, which begins from the first statement, or the error |

Codes of AQMS are kept as they are, with the tables that translate them.
`EventSummary` is the other reader of the same rows, the catalog's; where
`event.prefmag` names no magnitude of the preferred origin, or another one than
`origin.prefmag`, the two may differ in the magnitude and the property says
where they may not. An event whose origin has no defining phases is listed in
the catalog, but its detail answers 500 (`OriginReads`).

### MiniSeed and Waveforms

`MiniSeed` has `unpack` (parse until the first record that is not one, throw on
mixed streams or unknown formats, drop empty packets, sort), `setSegments`
(merge what is contiguous within half a period and a thousandth of the rate)
and `writeSamples` (quantization, then differences). Samples are counted in
halves, so that fractions exist. `readArchiveFile` passes `verbose` where
`unpack` takes `purgeTrailingZeros` and the other way round
(`waveformQueries.cpp:480-482`), so zeros are never purged; the model does the same.

In `Waveforms` time is counted in years. A root is known by the year it was
added; `Turnover` closes the open window and adds a root, `Lapse` adds none.
`Lock` and `Unlock` are the scoped lock of `fetchWaveforms`, `FindFile` is the
search of the held roots, `ReadRoots` and `StoreRoots` the re-reading, `ReadFile`
the blob and its unpacking; each may `Skip` the stream. `misled` is history.

### Configuration and Routes

`Accepted(options)` is the conjunction of the checks of
`parseInitializationFile`, section by section; `Start` needs it. A start may
also fail after that, because a database is away. `Dispatch` makes a
`RouteTimer` with status 500; `Reject` and `Admit` are `authorizeRoute`
(what it goes by is in `Login`); `Throw` is an exception that leaves a handler.
`Fetch` takes the steps of `Waveforms`, so that `Routes` composes with it.

| action | code |
|---|---|
| `ReadAlarms`, `Break`, `SkipDatabase`, `CommitAlarms`, `AnswerAlarms` | `queryAlarmActions` database by database, with the client's second attempt |
| `ListLocks` | `getLockedEvents`: the cutoff is taken from this process's clock, which differs from AQMS's by up to `MaxSkew` |
| `List` | stations, quarries, the freshness of the waveforms |
| `CountDenial`, `CountClientError`, `Count` | `recordRouteOutcome`: the counters one by one |
| `Export` | the observers' callbacks, one step each; that the SDK calls them in the order of their registration is an assumption about it |
| `Start`, `Crash` | `main()` up to `app.run()`; the process is killed and what it held is gone |

## Runs

All bounds are constants of the configurations; nothing else is cut off.

| run | question | bounds | result |
|---|---|---|---|
| `catalog_cache` | `AnswerWithinBucket`, `StoredNotOlderThanToken`, `OnlyInFlightBuildersLag`, `RevisionsAnswered`, refinement of `BoundedStaleness` | 1 instance, 2 threads, 2 changes, 2 ticks, buckets of 2, age 1 | holds |
| `client` | at most once, fresh session, letting go, `EveryCallEnds` | 3 calls, either policy | holds |
| `actions_both` | `AcceptsWhatWasReviewed`, `BumpsOnce`, `TellsWhatHappened`, `AnnouncesOnlyAccepted`, `CancelsOnOneMachine` | accepts and cancels: 2 requests on 2 instances, 1 origin, 2 auxiliaries, 3 spellings | holds without in-doubt auxiliaries |
| `actions_end` | `EveryActionEnds` | 2 requests on 1 instance, 1 auxiliary whose commits may be in doubt | holds |
| `actions_refused` | `TellsWhatHappened` with in-doubt auxiliaries | 2 cancels | violated |
| `users` | `CountersGetThrough`, `CountedRemovalsLeaveOne`, `SweepsOnlyExpired` | every function, 3 users, 2 sessions | holds |
| `users_last_admin` | `AdministratorRemains` with activations | 2 users, 2 sessions | violated |
| `logins` | `OnlyTheHolderGetsIn`, `ChangeTellsTruth`, `PermissionsAreWaitedOut`, `CurrentPasswordsAreReplaced`, `OnlyOvertakenLoginsUndo` | 2 requests, 2 chosen and 2 issued passwords, 2 levels, 2 administrations, 2 ticks; the accounts from before have the cost in use or an older one, activated or not | holds |
| `logins_rehash` | `IssuedPasswordsAreReplaced` | as `logins` | violated |
| `event_detail` | `BestOfEachType`, `QuietReadsAreWhole`, `ShownSolutionMatches`, `CatalogAndDetailAgree` | 31 revisions of up to 2 origins, 4 magnitudes, 4 picks; 2 commits by others | holds |
| `routes` | `StaleOnlyIfOpenEnded`, `NoRootMeansNone`, `HeldNeverRegress`, `EveryPacketInPlace`, `EverySampleRebuilt`, `DenialsExported`, `EachAlarmOnce`, `LockedEventsShown` | 2 threads, 2 requests, 2 starts, 2 years, 2 streams with 6 files between them, 2 databases, 2 lock tables, 10 initialization files of which one is accepted | holds |
| `stale_roots` | `StaleRootForOneRequest` | 1 thread, 2 years, one stream to a request | violated |

The runs of the first five components also check their `TypeOK`. Those of
`EventDetail` and `Routes`, and `RequestsCountedOnce`, are proved and have no run.

Why these are enough. In the catalog, a bad answer needs one builder, one change
and one clear or tick around it; two threads let one overtake the other and two
ticks cross a bucket's end. A call of the client interferes with others only through
the connection it leaves behind; three calls are two changes of hands. Two
accepts suffice for a second bump, with another program between
them; the solution may have the origin or none. Two administrators and a third
user suffice for write skew and for a removed row that is not among the counted
ones. Of two logins one can be overtaken by the other, by a reset or by a
removal; two administrations remove an account and make it anew; two ticks pass
a deadline and a token's lifetime, which are one tick each, and the levels are
one that a demotion leaves and one it takes away. The statements of one event's
reading are three kinds, so two commits put a different revision under each;
the revisions cross every event row with every set of origins and of
magnitudes, among them an unknown type, a missing preferred origin, two local
magnitudes of which the later is preferred, a value that is missing, picks that
are skipped and picks that are refused. Two years make one turnover, two threads
one overtaking, two starts a start after a crash that finds no roots. The files
have what packets can do: follow each other without a gap, come out of order,
twice or at another rate, leave a gap of one sample, hold fractions, zeros or
nothing, be torn. One lock is at the very edge of the window, for the clocks
and the screen that are furthest apart. The theorems lift every bound but those
of the two liveness properties (below) and of the violated runs, which need none.

`CHECK_DEADLOCK FALSE` stands where the model really stops: every call or action
has been made once, or the bounds of clock and changes are reached.
The `users` runs leave `CHECK_DEADLOCK` on; there `Abort` stands for the
server's deadlock detection. `CountersGetThrough` and `NoDeadlock` say what
must not be left to it; the first speaks of circles of any length, of callers
that count.

Each property of a passing run has a mutant in `PROJECT.json`: a plausible bug,
written as an operator next to the definition it replaces (`Mutant:` comments),
with which TLC finds the property violated.

### What the violated runs show

1. `actions_refused` - an in-doubt commit of an auxiliary is treated as a
   failure. The analyst may be told that nothing was done, or the event is
   cancelled again elsewhere (`CancelsOnOneMachine` fails in the same way).
2. `users_last_admin` - the check that the target is no administrator takes no
   lock; the target may activate itself before it is removed.
   `CountedRemovalsLeaveOne`, proved, says that this is the only way.
3. `logins_rehash` - an account with the password it was issued, whose hash is
   of another cost than the instance's (another instance's, or that of the
   option before a restart). Its first login verifies the password, finds the
   hash outdated and stores a new one with `updatePassword`, which to the table
   is a change of the password: the deadline is gone and the issued password
   stays, though nobody has chosen one. `CurrentPasswordsAreReplaced`, proved
   for hashes of any costs, says that only a password hashed at another cost is
   lost in this way.
4. `stale_roots` - a root that covers is a hit, and a hit is never read again.
   A window that was open-ended when it was read covers every later event, so
   after a turnover each request of the new year looks under the old root, not
   one a year. `StaleOnlyIfOpenEnded`, proved, says that a window whose end was
   known when it was read never misleads.

### What does not hold and has no run

These formulas are in the modules, stated as the code's comments have them. TLC
finds a counterexample with the constants given here.

* `CatalogCache!ActionVisible` (one instance, two threads, no other writers): a
  request that read AQMS before an accept stores its catalog after the accept's
  `clear()`, and later requests get the old review status until the bucket ends
  (`src/routes/actionRoutes.hpp:126`). `OnlyInFlightBuildersLag`, proved, says
  that this is the only way.
* `Client!OperationsOnSearchPath` (two calls): `mConnection` is assigned before the
  search path is set; a SET that fails on a connection that stays open leaves it
  behind for the next call (`client.cpp:59-71`).
* `UserAdmin!NoDeadlock` (three users, two sessions, with promotions): the removals
  lock in order but then write a row that may not be among those they locked
  (`createTables.sql:302`). PostgreSQL breaks such a deadlock with an error.
* That a login changes nobody's password, `Login!OnlyOvertakenLoginsUndo` without
  `r \notin overtaken` (`logins`' constants): a rehash does not compare what it
  writes over, and may put an older password back over a change or a reset that
  came since it verified it. The property as it is, proved, says that nothing
  else is overwritten.
* `EventDetail!APickCostsOnlyItself` (`event_detail`'s constants): a pick that
  cannot be read is skipped, but one that can be read and not be set (no phase,
  no review status, the second of its phase on a channel, an S before its P)
  makes `setArrivals` throw in `flushOrigin` (`eventQueries.cpp:1137`), and the
  whole event answers 500. The comment at `eventQueries.cpp:1186` wants one pick
  to cost neither the origin nor the event.
* `EventDetail!ReadsOneSnapshot` (`event_detail`'s constants): the comment at
  `eventQueries.cpp:1314-1319` has one transaction read one snapshot, which
  READ COMMITTED does not give. `QuietReadsAreWhole` is what remains.

Some comments promise more than the code does and have no formula. `queries/eventQueries.cpp:437-439` says
that two instances in one bucket agree "by construction": they agree on what the
token sees, and a review flag changed between their builds is not seen.
`createTables.sql:463-467` says that the backend should let an account that must
change its password do nothing else: no route calls `mustChangePassword`, and a
provisional account is let in by its level. And the comment at
`createTables.sql:175-177`, that the permission is consulted on every
authorization check, is true of Basic credentials only; what holds of tokens is
`PermissionsAreWaitedOut`.

The comments of the locks' window (`eventLockQueries.cpp:23-25`, `103-105`) have
it agree with the catalog's "by construction", on one clock; the catalog's query
uses AQMS's `now()`, and it is the tolerance of half an hour that makes
`LockedEventsShown` hold. `database.cpp:377-381` says that a refused waveform query is "NOT
skipped": `queryWaveforms` catches every exception before it gets there, so it
is. `metrics.hpp:391` makes an exception for a null meter and does not throw it.
`credentials.cpp:247-248` has the connect time-out multiplied by 1000 where
milliseconds become seconds. A build without gRPC does not start unless both HTTP
sections of the telemetry are there (`otelOptions.hpp:151-154`, `219-222`). The check for
duplicate connections compares the auxiliaries with each other, not with the
main database, so `EachAlarmOnce` is of each configured database.

One limit of the token is by design and not a violated run: lddate is the
writer's time stamp, not the order of commits, so a revision that commits behind
a newer one leaves the token as it is (`ReviseLate`). Of such a revision only
`AnswerWithinBucket` is promised; `RevisionsAnswered` is about the revisions
that move the token.

## Fairness

* `Client!FairSpec`: weak fairness of each call's steps. Threads run, and the
  mutex comes to each of finitely many waiters, none of which comes back. The
  network is not fair, and the server owes nothing but an answer or an error.
* `EventActions!FairSpec`: weak fairness of each request's own steps
  (`Progress`), of which `GiveUpWaiting` is one: `boundWaits` has the server end
  a wait. Failures need not happen, and the other programs may keep their rows
  forever.

The safety runs assume no fairness.

## Proofs

All theorems are of `Spec`, for every value of the constants that satisfies
`ConstantsAssumption`. Each follows the same argument: an inductive invariant
(`IInv`), one lemma per action or group of actions, and a temporal step.

* **CatalogCacheProofs.** `AnswerWithinBucket` is not inductive: one has to know
  of every catalog on its way (in the cache, or in a request between building
  and answering) which changes it has, and that the bucket's start is a
  committed change no newer than what is read later. `IInv` says that of the
  entry, of each stage of a request, and of `bucketStart`. `RevisionsReachClients`
  adds `RevisionInv`: every catalog kept anywhere (in a cache, or in a request that
  has built it) has the revision AQMS shows, or the token it is filed under has
  a smaller lddate than the revision; so no reader of a token that shows the
  revision hits one that lacks it. The refinement
  theorem `CacheKeepsPromise` maps each step to a step of `BoundedStaleness` or
  a stutter: a hit, a store and an unstored answer are its `Answer`.
* **ClientProofs.** `IInv` ties each stage to what the call has done: a call
  that has not yet committed has effect 0, one waiting for the COMMIT's answer
  1; only calls inside hold the mutex; a dialled connection without path exists
  only between the dial and the SET, or after a SET that failed, which is never
  a second attempt that goes on; a call that operates or commits has an open
  connection, and one that has not begun has no attempt behind it.
  `ExecutesAtMostOnce` follows, and the steps left to a call.
* **EventActionsProofs.** `IInv` says that a request past `LockSolution` has the
  event's row and the solution it reviewed, that it has not committed yet, and
  which origin's row it has locked; `PromotedStay`: an origin an accept has
  raised keeps 'H' while nobody else has committed over it. `Turns`, inductive
  on top of it, says that the mutex of a main client is that of the request
  inside it, and that no request visits the auxiliaries more often than
  `Visits`; `NobodyIsStuck` and `ActionsRunOut` rest on it. `AnswersAreTrue` and
  `CancelledOnOneMachine` assume `~Lossy`; `actions_refused` shows that the
  first needs it.
* **UserAdminProofs.** `IInv` says of each session which rows it has locked: the
  counted ones, all below those still to lock. So a
  counter that waits for another waits for a row above all those it holds itself.
  Of any callers that count, the one whose awaited row is the greatest
  (`Greatest`: a finite set of names has one) waits for none of the others: the
  holder of that row would be waiting for a greater one (`WaitsUpwards`).
  `CountedRemovalsAreSafe` needs `CInv`: who has counted holds the rows of at
  least two administrators when it writes one row, and nobody else can undo one
  of them before. `AdministratorsRemain` adds that a target that was no
  administrator has not become one (`RInv`); it assumes
  `NobodyBecomesAdministrator`, and `users_last_admin` shows that it must.
* **EventDetailProofs.** `BestOfEachType` is strengthened to `BestSoFar`: along
  the loop the kept rows are the best of those looked at, the rows left have
  higher identifiers, and no kind looked at is without a kept row. It needs
  that `orid` and `magid` are keys (`ConstantsAssumption`). `ShownMatches` rests
  on `Shown` (an answer shows the row of the first statement) and on the types'
  round trip through their spellings. `QuietReadsWhole` needs `QuietSoFar`: as
  long as nobody commits, every statement saw the revision of the first one, and
  the stations read are those of the magnitudes no longer pending.
  `CatalogAgreesWithDetail` needs `BuiltOfRows` (an answer is built of rows still
  held) and `BestSoFar`: the catalog's SQL and the detail's loop choose the same
  magnitudes (`ListedIsSummed`).
* **WaveformsProofs, RoutesProofs.** `IInv` of the waveforms says that the mutex
  is held exactly while fetching (`FetchInv`), that every root ever read is
  still AQMS's unless it was open-ended (`HeldInv`), that roots about to be
  stored are no older than those held (`StoreInv`), and where a thread looks
  (`LookInv`). `RoutesProofs` carries it through `Start` and `Crash` with
  `RInv`. `AnswersInv` says of every thread that what it has fetched came of files
  of the archive by `ReadArchiveFile`, and that its answer was made of that; hence
  what is proved of the pure operators holds of every answer.

  `MiniSeed` computes with recursive functions over sequences. A property of
  each index is proved by taking the set of good indices and, if it were not all
  of them, the least bad one (`EveryIndex`, over `Least`, from the library's
  well-founded order of the naturals); that a recursive function keeps its
  equation is `Recursion`, built one index at a time by the same argument.
  `PacketsInPlace` rests on where the joins have put every packet so far: a packet
  is joined to the segment that ends where it begins, within half a sample, and
  later joins only append. `SamplesRebuilt` adds the differences up again the same
  way. Both hold of files of any length, their packets in any order.

  On top of that: `DenialInv` (the denials counted, and
  those on their way, are those of the two global counters, and the exporter's
  part-way state is ordered accordingly), `AlarmInv` (what is gathered comes
  from databases before the current one), `ShownInv` with the arithmetic of the
  window, and a count of the busy threads. The assumptions are
  `WaveformsAssumption`, `ArchiveAssumption` (a file is a sequence of libmseed's
  records), `RoutesAssumption` (finitely many threads; a
  database's rows are distinct), `WindowAssumption` (skew, bucket and age of the
  screen together within the tolerance) and `LocksAssumption` (a lock is taken
  after its event happened); without the last two `LockedEventsShown` is false.
* **LoginProofs.** `IInv` ties each stage to the history: who is past the check
  is in `matched`, the password of a login that is about to rehash is still the
  account's unless it was overtaken, and a permission read at time t was held at t
  or later (`HeldOK`: the account has its level now). For
  `CurrentPasswordsReplaced` a second invariant, `IssuedOK`: the hash of a password
  that was handed out at the cost in use keeps that cost, so that no login that
  will rehash has presented such a password. Nothing is assumed of the other
  hashes or of the instances' costs, only `MustDiffer`, the option's default; the
  mutant of the property shows what happens without it.

**What is proved of progress.** `EveryCallEnds` and `EveryActionEnds` say that
under fairness a call and an action end. Two things that they rest on need no
fairness, and are theorems.

* *Bounded work.* `Left` bounds the steps a call, a request or a transaction has
  still to take: the `Rank` of its stage, and what the retries, streams, visits
  or rows ahead may cost. Each step of its own lowers it, and no step of another
  raises it: `CallsRunOut` (fifteen steps), `ActionsRunOut` (fifteen, and one for
  each visit of an auxiliary), `FetchesRunOut` (four for each stream and two
  more), `TransactionsRunOut` (five, and one for each user). So no retry, no
  re-read and no fallback is a loop.
* *No abandoned mutex.* Whoever waits for a mutex can have it, or waits for one
  whose next step has its guard (`WaitersAreServed`): `ClientProofs!MutexComesFree`,
  `NobodyIsStuck`, `RoutesProofs!MutexComesFree`. No way out of `execute()`, of an
  action or of a fetch leaves a mutex behind. That the guard of a step suffices
  for the step is read off the action; ENABLED is not used.

What remains for TLC is that fairness turns the two into an end.

Every invariant and every action property of the runs that hold is proved. Only
model-checked: the two liveness properties, `EveryCallEnds` and
`EveryActionEnds` (they rest on fairness, and so on ENABLED, of which the prover
knows nothing), and the violated runs, which are counterexamples.

## Not modelled

* Signal processing (`bandpass.cpp`) and the filter of the waveforms' route:
  floating-point numerics, tested against reference data.
* `aqms.cpp`, which is compiled and not called by the routes; `geodesic.cpp`; the contacts.
* `/app-settings` and the contacts' route, which answer from memory.
* Logger, command line, exporters, signal handling at shutdown.
* The grants and set-up scripts, which are run once, by hand.
* The parsing of HTTP headers, hashes and signatures, and the text of messages.

Abstracted where modelled: coordinates, errors and residuals of origins, the
contents of catalog rows, the lengths of histograms, passwords as values. What
the alarm processes make of a post to PCS, and what `setRFlag` does inside, is
outside the repository. A magnitude over 11 makes its setter throw outside a
`try`; values that large are not among the revisions.

## Plan

Done: `CatalogCache`, `Client`, `EventActions`, `UserAdmin`, `Login`,
`EventDetail`, `MiniSeed`, `Waveforms`, `Configuration`, `Routes`, with their
abstract specifications and proofs; `Routes` composes with `Waveforms` and
`Configuration`.

Open: two instances with caches, actions and the main client in one module, so
that an action's commit and its `clear()` are those of `EventActions`; the
auxiliaries' own row locks.
