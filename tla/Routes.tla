------------------------------- MODULE Routes -------------------------------
(***************************************************************************)
(* One backend from its start to its end, as the reader of its routes and   *)
(* the reader of its metrics see it: main() up to app.run(), a request from *)
(* its dispatch to the counter its outcome is filed under, the handlers of  *)
(* the waveforms (Waveforms), the alarms, the event locks and the lists that *)
(* are one query, and the exporter that reads the counters.                 *)
(*                                                                         *)
(* A call of Client::execute is one step, except where its second attempt   *)
(* matters: in the gathering of the alarms.                                 *)
(***************************************************************************)
EXTENDS Waveforms, Configuration

CONSTANTS
    Lists,              \* the routes that are one query: the stations, the
                        \* quarries, the freshness of the waveforms
    Options,            \* what the initialization file may say
    MaxStarts,          \* bound on the starts of the process
    MaxRequests,        \* bound on the requests of all its lives
    AlarmRows,          \* the rows a database may hold for the event
    LockTables,         \* what jasieventlock may hold
    Moments,            \* AQMS's clock when the locks are asked for
    MaxSkew,            \* how far the two clocks are apart at most
    Refresh             \* how long a catalog stays on a screen at most

VARIABLES
    process,            \* "down" or "up"
    options,            \* ProgramOptions
    starts,             \* the starts so far
    requests,           \* history: requests[r], those to route r in this life
    served,             \* history: the requests of all lives
    route,              \* route[t]: the request thread t serves
    stage,              \* stage[t]: where it is
    status,             \* status[t]: mStatusCode
    gather,             \* gather[t]: the AlarmActionGather
    locks,              \* locks[t]: what the locks were found from, and found
    counters,           \* MetricsSingleton
    exporter,           \* how many of the counters the exporter has read
    exported            \* what it has read of the denials

metrics == <<counters, exporter, exported>>
serving == <<route, stage, status, gather, locks>>
vars == <<waveformVars, process, options, starts, requests, served, route,
          stage, status, gather, locks, counters, exporter, exported>>

Waveforms == "event-waveforms"
Alarms == "event-alarms"
Locks == "events-locks"
RouteNames == {Waveforms, Alarms, Locks} \cup Lists

None == "none"

ASSUME RoutesAssumption ==
    /\ IsFiniteSet(Threads)
    /\ MaxStarts \in Nat /\ MaxRequests \in Nat
    /\ Lists \cap {Waveforms, Alarms, Locks} = {}
    /\ None \notin RouteNames
    /\ \A rows \in AlarmRows :
          /\ rows \in Seq(STRING)
          /\ \A i, j \in DOMAIN rows : rows[i] = rows[j] => i = j

-----------------------------------------------------------------------------
\* getAlarms: the main database, then the auxiliaries in their order.
Clients == 0 .. Cardinality(Auxiliaries(options))

-----------------------------------------------------------------------------
(* The window of the locks and that of the catalog, in minutes.            *)

LockWindowTolerance == 30

BucketLength == 5

Bucket(moment) == moment - (moment % BucketLength)

\* EVENT_QUERY_IN_TIME_RANGE, on AQMS's clock.
InCatalog(time, moment, duration) ==
    time >= Bucket(moment) - duration /\ time <= Bucket(moment)

\* The two clocks, the bucket and the age of the screen together are within
\* the tolerance.
ASSUME WindowAssumption ==
    /\ MaxSkew \in Nat /\ Refresh \in Nat
    /\ MaxSkew + BucketLength + Refresh <= LockWindowTolerance

NoDate == -1

\* A lock is taken after its event happened.
ASSUME LocksAssumption ==
    /\ Moments \subseteq Int
    /\ \A o \in Options : o.catalogDuration \in Int
    /\ \A table \in LockTables : \A row \in table :
          /\ row.time \in Int /\ row.lddate \in Int
          /\ row.lddate = NoDate \/ row.lddate >= row.time

\* Mutant: NULL > cutoff is not true.
EventLocksDated(table, now, duration) ==
    LET cutoff == now - duration - LockWindowTolerance
    IN  {[event        |-> row.event,
          user         |-> IF row.user = None THEN "unknown" ELSE row.user,
          acquiredAt   |-> row.lddate] :
            row \in {r \in table : r.lddate # NoDate /\ r.lddate > cutoff}}

\* EVENT_LOCK_QUERY: the rows whose lddate is after the cutoff, which is
\* taken from this process's clock, and those without one.
EventLocks(table, now, duration) ==
    LET cutoff == now - duration - LockWindowTolerance
    IN  {[event        |-> row.event,
          user         |-> IF row.user = None THEN "unknown" ELSE row.user,
          acquiredAt   |-> row.lddate] :
            row \in {r \in table : r.lddate = NoDate \/ r.lddate > cutoff}}

-----------------------------------------------------------------------------
(* The process.                                                            *)

NothingGathered == [client |-> 0, attempt |-> 1, open |-> FALSE, rows |-> <<>>,
                    answered |-> 0, actions |-> <<>>]

NothingExported == [denied |-> 0, unauthenticated |-> 0, unauthorized |-> 0]

NoLocks == [table |-> {}, moment |-> 0, found |-> {}]

Zero == [r \in RouteNames |-> 0]

\* denied is history: the 401s and 403s among the client errors.
NothingCounted ==
    [success |-> Zero, clientError |-> Zero, serverError |-> Zero,
     unauthenticated |-> 0, unauthorized |-> 0, denied |-> 0]

\* No request, and no counts: what a process begins with and ends in.
Fresh ==
    /\ requests = Zero
    /\ route = [t \in Threads |-> None]
    /\ stage = [t \in Threads |-> "idle"]
    /\ status = [t \in Threads |-> 500]
    /\ gather = [t \in Threads |-> NothingGathered]
    /\ locks = [t \in Threads |-> NoLocks]
    /\ counters = NothingCounted
    /\ exporter = 0
    /\ exported = NothingExported

Init ==
    /\ WaveformsInit
    /\ process = "down"
    /\ options \in Options
    /\ starts = 0
    /\ served = 0
    /\ Fresh

\* main() until app.run().  The options are read, then the main database and
\* that of the users are dialled; the auxiliaries are not.  AQMS::Database
\* reads the file roots, and goes on without them if that fails.
Start ==
    /\ process = "down" /\ starts < MaxStarts
    /\ starts' = starts + 1
    /\ \/ UNCHANGED <<process, fileRoots>>
       \/ /\ Accepted(options)
          /\ process' = "up"
          /\ fileRoots' \in {{}, waveroots}
    /\ UNCHANGED <<year, waveroots, misled, fetching, options, requests,
                   served, serving, metrics>>

\* The process is killed; what it held in memory is gone.
Crash ==
    /\ process = "up" /\ starts < MaxStarts
    /\ process' = "down"
    /\ fileRoots' = {}
    /\ FallQuiet
    /\ requests' = Zero
    /\ route' = [t \in Threads |-> None]
    /\ stage' = [t \in Threads |-> "idle"]
    /\ status' = [t \in Threads |-> 500]
    /\ gather' = [t \in Threads |-> NothingGathered]
    /\ locks' = [t \in Threads |-> NoLocks]
    /\ counters' = NothingCounted
    /\ exporter' = 0
    /\ exported' = NothingExported
    /\ UNCHANGED <<year, waveroots, misled, options, starts, served>>

-----------------------------------------------------------------------------
(* A request, and RouteTimer around it.                                    *)

\* mStatusCode is 500 until a response says otherwise.
Dispatch(t) ==
    /\ process = "up" /\ route[t] = None
    /\ served < MaxRequests
    /\ served' = served + 1
    /\ \E r \in RouteNames :
          /\ route' = [route EXCEPT ![t] = r]
          /\ requests' = [requests EXCEPT ![r] = @ + 1]
    /\ stage' = [stage EXCEPT ![t] = "authorize"]
    /\ status' = [status EXCEPT ![t] = 500]
    /\ UNCHANGED <<waveformVars, process, options, starts, gather, locks,
                   metrics>>

\* finish(): the handler has returned a response.
Responded(t, code) ==
    /\ stage' = [stage EXCEPT ![t] = "responded"]
    /\ status' = [status EXCEPT ![t] = code]

\* authorizeRoute rejects: a malformed header, no or wrong credentials, too
\* little permission, or a fault of the authenticator.
Rejections == {400, 401, 403, 500}

Reject(t) ==
    /\ stage[t] = "authorize"
    /\ \E code \in Rejections : Responded(t, code)
    /\ UNCHANGED <<waveformVars, process, options, starts, requests, served,
                   route, gather, locks, metrics>>

Admit(t) ==
    /\ stage[t] = "authorize"
    /\ stage' = [stage EXCEPT ![t] = "handler"]
    /\ IF route[t] = Waveforms THEN Ask(t) ELSE UNCHANGED waveformVars
    /\ UNCHANGED <<process, options, starts, requests, served, route, status,
                   gather, locks, metrics>>

Handles(t, r) == stage[t] = "handler" /\ route[t] = r

\* An exception leaves the handler, and with it the timer's scope.
Throw(t) ==
    /\ stage[t] = "handler" /\ route[t] # Waveforms
    /\ stage' = [stage EXCEPT ![t] = "responded"]
    /\ UNCHANGED <<waveformVars, process, options, starts, requests, served,
                   route, status, gather, locks, metrics>>

\* The steps of the waveforms' handler, and its response.
Fetch(t) ==
    /\ Handles(t, Waveforms)
    /\ pc[t] \notin {"idle", "answered"}
    /\ \/ GetEvent(t) \/ Lock(t) \/ FindFile(t) \/ ReadRoots(t)
       \/ StoreRoots(t) \/ ReadFile(t) \/ Unlock(t)
    /\ UNCHANGED <<process, options, starts, requests, served, serving,
                   metrics>>

Fetched(t) ==
    /\ Handles(t, Waveforms)
    /\ Responded(t, answer[t].status)
    /\ Return(t)
    /\ UNCHANGED <<process, options, starts, requests, served, route, gather,
                   locks, metrics>>

\* Stations, quarries and the freshness of the waveforms: one query, and
\* whatever it throws is ConnectionFailed.
Queried == {200, 500}

List(t) ==
    /\ \E r \in Lists : Handles(t, r)
    /\ \E code \in Queried : Responded(t, code)
    /\ UNCHANGED <<waveformVars, process, options, starts, requests, served,
                   route, gather, locks, metrics>>

\* getLockedEvents.  The cutoff is taken before the query is sent.
ListLocks(t) ==
    /\ Handles(t, Locks)
    /\ \/ Responded(t, 500) /\ UNCHANGED locks
       \/ /\ Responded(t, 200)
          /\ \E table \in LockTables, moment \in Moments, skew \in -MaxSkew .. MaxSkew :
                locks' = [locks EXCEPT ![t] =
                            [table  |-> table,
                             moment |-> moment,
                             found  |-> EventLocks(table, moment + skew,
                                                   options.catalogDuration)]]
    /\ UNCHANGED <<waveformVars, process, options, starts, requests, served,
                   route, gather, metrics>>

-----------------------------------------------------------------------------
(* The alarms, of the main database and of the auxiliaries one by one.     *)

Gathering(t) == Handles(t, Alarms) /\ gather[t].client \in Clients

\* The next client, with what is known by now.
NextClient(g, answered, actions) ==
    [client |-> g.client + 1, attempt |-> 1, open |-> FALSE, rows |-> <<>>,
     answered |-> answered, actions |-> actions]

Skipping(g) == NextClient(g, g.answered, g.actions)

GatherOnly(t, g) ==
    /\ gather' = [gather EXCEPT ![t] = g]
    /\ UNCHANGED <<waveformVars, process, options, starts, requests, served,
                   route, stage, status, locks, metrics>>

\* ALARM_ACTION_QUERY, and its rows in the order of the query.
ReadAlarms(t) ==
    /\ Gathering(t) /\ ~gather[t].open
    /\ \E rows \in AlarmRows :
          GatherOnly(t, [gather[t] EXCEPT !.open = TRUE, !.rows = rows])

\* Mutant: the rows go straight into the result.
BreakKeepingRows(t) ==
    /\ Gathering(t)
    /\ GatherOnly(t,
          IF gather[t].attempt = 1
          THEN [gather[t] EXCEPT !.attempt = 2, !.open = FALSE, !.rows = <<>>,
                  !.actions = @ \o [i \in DOMAIN gather[t].rows |->
                     [database |-> gather[t].client, row |-> gather[t].rows[i]]]]
          ELSE Skipping(gather[t]))

\* broken_connection, before the COMMIT is sent: execute runs the lambda
\* once more, which gathers into a new local.
Break(t) ==
    /\ Gathering(t)
    /\ GatherOnly(t,
          IF gather[t].attempt = 1
          THEN [gather[t] EXCEPT !.attempt = 2, !.open = FALSE, !.rows = <<>>]
          ELSE Skipping(gather[t]))

\* Anything else, the COMMIT in doubt included, skips the database.
SkipDatabase(t) ==
    /\ Gathering(t)
    /\ GatherOnly(t, Skipping(gather[t]))

CommitAlarms(t) ==
    /\ Gathering(t) /\ gather[t].open
    /\ LET g == gather[t]
           actions == [i \in DOMAIN g.rows |->
                         [database |-> g.client, row |-> g.rows[i]]]
       IN  GatherOnly(t, NextClient(g, g.answered + 1, g.actions \o actions))

\* getAlarms: if nobody answered, nothing is known; some are enough.
AlarmsKnown(g) == g.answered > 0

AnswerAlarms(t) ==
    /\ Handles(t, Alarms) /\ gather[t].client \notin Clients
    /\ Responded(t, IF AlarmsKnown(gather[t]) THEN 200 ELSE 500)
    /\ UNCHANGED <<waveformVars, process, options, starts, requests, served,
                   route, gather, locks, metrics>>

-----------------------------------------------------------------------------
(* The counters.                                                           *)

\* The end of RouteTimer's scope, and of the request.
Leave(t) ==
    /\ route' = [route EXCEPT ![t] = None]
    /\ stage' = [stage EXCEPT ![t] = "idle"]
    /\ status' = [status EXCEPT ![t] = 500]
    /\ gather' = [gather EXCEPT ![t] = NothingGathered]
    /\ locks' = [locks EXCEPT ![t] = NoLocks]

\* The global counter of a 401 or 403 comes first.
CountDenial(t) ==
    /\ stage[t] = "responded" /\ status[t] \in {401, 403}
    /\ counters' = IF status[t] = 401
                   THEN [counters EXCEPT !.unauthenticated = @ + 1]
                   ELSE [counters EXCEPT !.unauthorized = @ + 1]
    /\ stage' = [stage EXCEPT ![t] = "denied"]
    /\ UNCHANGED <<waveformVars, process, options, starts, requests, served,
                   route, status, gather, locks, exporter, exported>>

CountClientError(t) ==
    /\ \/ stage[t] = "denied"
       \/ stage[t] = "responded" /\ status[t] \in 400 .. 499 \ {401, 403}
    /\ counters' = [counters EXCEPT
          !.clientError[route[t]] = @ + 1,
          !.denied = IF stage[t] = "denied" THEN @ + 1 ELSE @]
    /\ Leave(t)
    /\ UNCHANGED <<waveformVars, process, options, starts, requests, served,
                   exporter, exported>>

Count(t) ==
    /\ stage[t] = "responded" /\ status[t] \notin 400 .. 499
    /\ counters' = IF status[t] >= 500
                   THEN [counters EXCEPT !.serverError[route[t]] = @ + 1]
                   ELSE [counters EXCEPT !.success[route[t]] = @ + 1]
    /\ Leave(t)
    /\ UNCHANGED <<waveformVars, process, options, starts, requests, served,
                   exporter, exported>>

\* Mutant: the callback of the client errors is registered last.
ExportClientErrorsLast ==
    /\ process = "up" /\ ExportsMetrics(options)
    /\ exporter' = (exporter + 1) % 3
    /\ exported' = CASE exporter = 0 -> [NothingExported EXCEPT
                                           !.unauthenticated = counters.unauthenticated]
                     [] exporter = 1 -> [exported EXCEPT
                                           !.unauthorized = counters.unauthorized]
                     [] exporter = 2 -> [exported EXCEPT
                                           !.denied = counters.denied]
    /\ UNCHANGED <<waveformVars, process, options, starts, requests, served,
                   serving, counters>>

\* The callbacks, in the order createMeters registers them: the client
\* errors, of which the denials are a part, then the 401s, then the 403s.
\* What those of the successes and the server errors read is not kept.
Export ==
    /\ process = "up" /\ ExportsMetrics(options)
    /\ exporter' = (exporter + 1) % 3
    /\ exported' = CASE exporter = 0 -> [NothingExported EXCEPT
                                           !.denied = counters.denied]
                     [] exporter = 1 -> [exported EXCEPT
                                           !.unauthenticated = counters.unauthenticated]
                     [] exporter = 2 -> [exported EXCEPT
                                           !.unauthorized = counters.unauthorized]
    /\ UNCHANGED <<waveformVars, process, options, starts, requests, served,
                   serving, counters>>

-----------------------------------------------------------------------------
Handle(t) ==
    \/ Dispatch(t) \/ Reject(t) \/ Admit(t) \/ Throw(t)
    \/ Fetch(t) \/ Fetched(t) \/ List(t) \/ ListLocks(t)
    \/ ReadAlarms(t) \/ Break(t) \/ SkipDatabase(t) \/ CommitAlarms(t)
    \/ AnswerAlarms(t)
    \/ CountDenial(t) \/ CountClientError(t) \/ Count(t)

\* AQMS's table of roots goes its way whether the process is up or down.
Elsewhere ==
    /\ Turnover \/ Lapse
    /\ UNCHANGED <<process, options, starts, requests, served, serving, metrics>>

Next == Start \/ Crash \/ Elsewhere \/ Export \/ \E t \in Threads : Handle(t)

Spec == Init /\ [][Next]_vars

-----------------------------------------------------------------------------
(* The properties.                                                         *)

Stages == {"idle", "authorize", "handler", "responded", "denied"}

Counts == [RouteNames -> Nat]

\* The values of the variables of this module.
TypeOK ==
    /\ WaveformsTypeOK
    /\ process \in {"down", "up"}
    /\ options \in Options
    /\ starts \in 0 .. MaxStarts
    /\ requests \in Counts
    /\ served \in 0 .. MaxRequests
    /\ route \in [Threads -> RouteNames \cup {None}]
    /\ stage \in [Threads -> Stages]
    /\ status \in [Threads -> {200, 400, 401, 403, 404, 500}]
    /\ gather \in [Threads ->
                    [client : Nat, attempt : {1, 2}, open : BOOLEAN,
                     rows : Seq(STRING), answered : Nat,
                     actions : Seq([database : Nat, row : STRING])]]
    /\ counters \in [success : Counts, clientError : Counts, serverError : Counts,
                     unauthenticated : Nat, unauthorized : Nat, denied : Nat]
    /\ exporter \in 0 .. 2
    /\ exported \in [denied : Nat, unauthenticated : Nat, unauthorized : Nat]

\* Every request is counted once against its route, whichever of the ways
\* out of the handler it took, or is still under way (RouteTimer).
RequestsCountedOnce ==
    \A r \in RouteNames :
       requests[r] = counters.success[r] + counters.clientError[r]
                     + counters.serverError[r]
                     + Cardinality({t \in Threads : route[t] = r})

\* No export says that a door was tried more often than all doors together:
\* the denials among the exported client errors are in the exported global
\* counters too, though counters are incremented and read one by one.
DenialsExported ==
    exporter = 0 => exported.denied <= exported.unauthenticated + exported.unauthorized

\* The alarms of an event are each database's once, in the order of the
\* databases, although a lambda may have run twice (queryAlarmActions).
EachAlarmOnce ==
    \A t \in Threads :
       LET actions == gather[t].actions
       IN  \A i, j \in DOMAIN actions : i < j =>
              /\ actions[i].database <= actions[j].database
              /\ actions[i] # actions[j]

\* A lock is listed if its event may be on a screen: it was in the catalog
\* at some moment up to Refresh ago.  A lock does not predate its event.
LockedEventsShown ==
    \A t \in Threads : \A row \in locks[t].table :
       (\E moment \in locks[t].moment - Refresh .. locks[t].moment :
           InCatalog(row.time, moment, options.catalogDuration))
       => \E lock \in locks[t].found : lock.event = row.event
=============================================================================
