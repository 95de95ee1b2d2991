---------------------------- MODULE CatalogCache ----------------------------
(***************************************************************************)
(* The event catalog: several backend instances, each with a cache of one  *)
(* catalog (Database::AQMS::CatalogCache), request threads running         *)
(* getCachedCatalog and the accept/cancel routes, and the AQMS database    *)
(* with its other writers.                                                 *)
(*                                                                         *)
(* A catalog is abstracted to the number of changes AQMS had committed     *)
(* when it was read and the window it covers: the JSON and the hash are    *)
(* functions of these two.                                                 *)
(***************************************************************************)
EXTENDS Integers

CONSTANTS
    Instances,      \* the backend processes behind the load balancer
    Requests,       \* the request threads, each serving one request at a time
    Home,           \* Home[r]: the instance thread r belongs to
    Changes,        \* the kinds of change AQMS's other writers make
    BucketTicks,    \* CATALOG_WINDOW_BUCKET_SECONDS, in ticks of the clock
    MaximumAge,     \* mMaximumAge, in ticks
    MaxClock,       \* bound on the clock
    MaxVersion      \* bound on the changes committed to AQMS

(***************************************************************************)
(* "revise"    a new or updated origin or magnitude, or a new event, whose *)
(*             lddate is the newest                                        *)
(* "late"      the same from a transaction that took its lddate before a   *)
(*             newer one committed                                         *)
(* "select"    an event becomes selected with no lddate written            *)
(* "deselect"  an event stops being selected                               *)
(* "review"    a review flag changes, which writes no lddate               *)
(***************************************************************************)
ChangeKinds == {"revise", "late", "select", "deselect", "review"}

ASSUME ConstantsAssumption ==
    /\ Home \in [Requests -> Instances]
    /\ Changes \subseteq ChangeKinds
    /\ BucketTicks \in Nat \ {0}
    /\ MaximumAge \in Nat
    /\ MaxClock \in Nat
    /\ MaxVersion \in Nat

VARIABLES
    aqms,           \* the database, as far as the catalog depends on it
    clock,          \* ticks; AQMS's clock and every steady_clock advance alike
    bucket,         \* the window's end: the clock rounded down to a bucket
    cache,          \* cache[i]: the entry instance i holds, or NoEntry
    request,        \* request[r]: where thread r is and what it has read
    bucketStart,    \* history: changes committed when each bucket began
    acted           \* acted[i]: history: the newest change instance i has
                    \* answered an action for with 200

vars == <<aqms, clock, bucket, cache, request, bucketStart, acted>>

-----------------------------------------------------------------------------
(* The data.                                                               *)

\* What CATALOG_FRESHNESS_QUERY returns: max(lddate), the count of selected
\* events and the bucket.
Token == [lddate : Nat, selected : Nat, bucket : Nat]

\* The empty std::string of a failed freshness read.
NoToken == [lddate |-> -1, selected |-> -1, bucket |-> -1]

Catalog == [version : Nat, window : Nat]

NoCatalog == [version |-> -1, window |-> -1]

\* "overtaken" is history: the instance answered an action with 200 while
\* the thread that stored the entry was between its token and the store.
Entry == [token : Token, catalog : Catalog, storedAt : Nat,
          overtaken : BOOLEAN]

NoEntry == [token |-> NoToken, catalog |-> NoCatalog, storedAt |-> -1,
            overtaken |-> FALSE]

Stage == {"idle", "lookup", "build", "store", "answered", "clear"}

\* "change" is the change an action committed.  "asked", "due" and
\* "overtaken" are history: the bucket in which the thread asked for its
\* token, the newest revision shown then, and whether its instance has
\* answered an action with 200 since.
IdleRequest ==
    [stage |-> "idle", token |-> NoToken, catalog |-> NoCatalog,
     change |-> 0, asked |-> 0, due |-> 0, overtaken |-> FALSE]

\* Mutant: a token that watches event alone, not origin and netmag.
FreshnessOfEventsAlone ==
    [lddate |-> 1, selected |-> aqms.selected, bucket |-> bucket]

\* The freshness token AQMS would return now.
Freshness ==
    [lddate |-> aqms.lddate, selected |-> aqms.selected, bucket |-> bucket]

\* The catalog AQMS would return now.
CurrentCatalog == [version |-> aqms.version, window |-> bucket]

-----------------------------------------------------------------------------
Init ==
    /\ aqms = [version |-> 0, stamp |-> 1, lddate |-> 1, selected |-> 1,
               revised |-> 0]
    /\ clock = 0
    /\ bucket = 0
    /\ cache = [i \in Instances |-> NoEntry]
    /\ request = [r \in Requests |-> IdleRequest]
    /\ bucketStart = [b \in 0 .. MaxClock |-> 0]
    /\ acted = [i \in Instances |-> 0]

-----------------------------------------------------------------------------
(* AQMS and its other writers: seismic processing, Jiggle, other programs. *)

\* One committed transaction that changes the catalog and leaves max(lddate)
\* and the count of selected events at these values.  "revised" is history:
\* the newest revision that max(lddate) has shown, or 0 if a deselection has
\* lowered it since.
CommitChange(lddate, selected, revises) ==
    /\ aqms.version < MaxVersion
    /\ selected >= 0
    /\ aqms' = [version  |-> aqms.version + 1,
                stamp    |-> IF lddate > aqms.stamp THEN lddate ELSE aqms.stamp,
                lddate   |-> lddate,
                selected |-> selected,
                revised  |-> IF lddate < aqms.lddate THEN 0
                             ELSE IF revises /\ lddate > aqms.stamp
                                  THEN aqms.version + 1
                             ELSE aqms.revised]
    /\ UNCHANGED <<clock, bucket, cache, bucketStart, acted>>

Revise ==
    /\ "revise" \in Changes
    /\ \E new \in {0, 1} :
          CommitChange(aqms.stamp + 1, aqms.selected + new, TRUE)
    /\ UNCHANGED request

ReviseLate ==
    /\ "late" \in Changes
    /\ CommitChange(aqms.lddate, aqms.selected, TRUE)
    /\ UNCHANGED request

Select ==
    /\ "select" \in Changes
    /\ \E lddate \in aqms.lddate .. aqms.stamp :
          CommitChange(lddate, aqms.selected + 1, FALSE)
    /\ UNCHANGED request

\* max(lddate) runs over the selected events: it may fall back.
Deselect ==
    /\ "deselect" \in Changes
    /\ \E lddate \in 1 .. aqms.lddate :
          CommitChange(lddate, aqms.selected - 1, FALSE)
    /\ UNCHANGED request

ReviewElsewhere ==
    /\ "review" \in Changes
    /\ CommitChange(aqms.lddate, aqms.selected, FALSE)
    /\ UNCHANGED request

Tick ==
    /\ clock < MaxClock
    /\ clock' = clock + 1
    /\ IF (clock + 1) % BucketTicks = 0
       THEN /\ bucket' = bucket + 1
            /\ bucketStart' = [bucketStart EXCEPT ![bucket + 1] = aqms.version]
       ELSE UNCHANGED <<bucket, bucketStart>>
    /\ UNCHANGED <<aqms, cache, request, acted>>

-----------------------------------------------------------------------------
(* getCachedCatalog, as the routes /events and /events/hash call it.       *)

\* A request arrives and asks AQMS for the freshness token.
\* "next" is where it goes and "token" what it carries.
BeginRequest(r, token, next) ==
    /\ request[r].stage = "idle"
    /\ request' = [request EXCEPT ![r] =
                     [IdleRequest EXCEPT !.stage = next, !.token = token,
                                         !.asked = bucket,
                                         !.due = aqms.revised]]
    /\ UNCHANGED <<aqms, clock, bucket, cache, bucketStart, acted>>

ReadFreshness(r) == BeginRequest(r, Freshness, "lookup")

\* "A freshness read that fails is not fatal - it just means rebuilding".
FreshnessFails(r) == BeginRequest(r, NoToken, "build")

\* Mutant: a lookup that does not compare the tokens.
AnswersAnyToken(entry, token) ==
    /\ entry # NoEntry
    /\ clock - entry.storedAt <= MaximumAge

\* The entry answers a lookup: it is there, for this token, and not too old.
Answers(entry, token) ==
    /\ entry # NoEntry
    /\ entry.token = token
    /\ clock - entry.storedAt <= MaximumAge

LookupHit(r) ==
    LET entry == cache[Home[r]] IN
    /\ request[r].stage = "lookup"
    /\ Answers(entry, request[r].token)
    /\ request' = [request EXCEPT ![r].stage = "answered",
                                  ![r].catalog = entry.catalog]
    /\ UNCHANGED <<aqms, clock, bucket, cache, bucketStart, acted>>

LookupMiss(r) ==
    /\ request[r].stage = "lookup"
    /\ ~Answers(cache[Home[r]], request[r].token)
    /\ request' = [request EXCEPT ![r].stage = "build"]
    /\ UNCHANGED <<aqms, clock, bucket, cache, bucketStart, acted>>

BuildCatalog(r) ==
    /\ request[r].stage = "build"
    /\ request' = [request EXCEPT ![r].stage = "store",
                                  ![r].catalog = CurrentCatalog]
    /\ UNCHANGED <<aqms, clock, bucket, cache, bucketStart, acted>>

\* Mutant: the token is read again after the catalog was built.
StoredTokenReadLate(r) == Freshness

\* The token a catalog is stored against: the one read before it was built.
StoredToken(r) == request[r].token

Store(r) ==
    /\ request[r].stage = "store"
    /\ request[r].token # NoToken
    /\ cache' = [cache EXCEPT ![Home[r]] =
                   [token |-> StoredToken(r), catalog |-> request[r].catalog,
                    storedAt |-> clock, overtaken |-> request[r].overtaken]]
    /\ request' = [request EXCEPT ![r].stage = "answered"]
    /\ UNCHANGED <<aqms, clock, bucket, bucketStart, acted>>

\* Mutant: the catalog is stored against the empty token.
StoreUnvouched(r) ==
    /\ request[r].stage = "store"
    /\ request[r].token = NoToken
    /\ cache' = [cache EXCEPT ![Home[r]] =
                   [token |-> NoToken, catalog |-> request[r].catalog,
                    storedAt |-> clock, overtaken |-> request[r].overtaken]]
    /\ request' = [request EXCEPT ![r].stage = "answered"]
    /\ UNCHANGED <<aqms, clock, bucket, bucketStart, acted>>

\* Nothing is stored for a catalog whose token could not be read.
AnswerUnstored(r) ==
    /\ request[r].stage = "store"
    /\ request[r].token = NoToken
    /\ request' = [request EXCEPT ![r].stage = "answered"]
    /\ UNCHANGED <<aqms, clock, bucket, cache, bucketStart, acted>>

\* The response is sent; or the catalog query failed and a 500 is.
Finish(r) ==
    /\ request[r].stage \in {"build", "answered"}
    /\ request' = [request EXCEPT ![r] = IdleRequest]
    /\ UNCHANGED <<aqms, clock, bucket, cache, bucketStart, acted>>

-----------------------------------------------------------------------------
(* POST /events/<int>/accept and /cancel.                                  *)

\* The action commits in AQMS: a review flag changes and no lddate does.
CommitAction(r) ==
    /\ request[r].stage = "idle"
    /\ CommitChange(aqms.lddate, aqms.selected, FALSE)
    /\ request' = [request EXCEPT ![r].stage = "clear",
                                  ![r].change = aqms.version + 1]

\* Mutant: an action leaves the cached catalog in place.
ClearedNothing(entry) == entry

\* actionResponse: what clear() leaves behind on success.
Cleared(entry) == NoEntry

\* The requests another thread of the instance has under way.
InFlight(q, i) ==
    Home[q] = i /\ request[q].stage \in {"lookup", "build", "store", "answered"}

AnswerAction(r) ==
    LET i == Home[r] IN
    /\ request[r].stage = "clear"
    /\ cache' = [cache EXCEPT ![i] = Cleared(cache[i])]
    /\ acted' = [acted EXCEPT ![i] =
                    IF request[r].change > @ THEN request[r].change ELSE @]
    /\ request' = [q \in Requests |->
          IF q = r THEN IdleRequest
          ELSE IF InFlight(q, i) THEN [request[q] EXCEPT !.overtaken = TRUE]
          ELSE request[q]]
    /\ UNCHANGED <<aqms, clock, bucket, bucketStart>>

\* The commit reached AQMS but its answer did not reach the backend: the
\* response is an error and the cache is left alone.
LoseActionAnswer(r) ==
    /\ request[r].stage = "clear"
    /\ request' = [request EXCEPT ![r] = IdleRequest]
    /\ UNCHANGED <<aqms, clock, bucket, cache, bucketStart, acted>>

-----------------------------------------------------------------------------
Next ==
    \/ Revise \/ ReviseLate \/ Select \/ Deselect \/ ReviewElsewhere
    \/ Tick
    \/ \E r \in Requests :
          \/ ReadFreshness(r) \/ FreshnessFails(r)
          \/ LookupHit(r) \/ LookupMiss(r) \/ BuildCatalog(r)
          \/ Store(r) \/ AnswerUnstored(r) \/ Finish(r)
          \/ CommitAction(r) \/ AnswerAction(r) \/ LoseActionAnswer(r)

Spec == Init /\ [][Next]_vars

-----------------------------------------------------------------------------
(* What holds.                                                             *)

Request == [stage : Stage, token : Token \cup {NoToken},
            catalog : Catalog \cup {NoCatalog}, change : Nat,
            asked : 0 .. MaxClock, due : Nat, overtaken : BOOLEAN]

\* The variables have their types: a lookup never carries the empty token.
TypeOK ==
    /\ aqms \in [version : Nat, stamp : Nat, lddate : Nat, selected : Nat,
                 revised : Nat]
    /\ clock \in 0 .. MaxClock
    /\ bucket \in 0 .. clock
    /\ cache \in [Instances -> Entry \cup {NoEntry}]
    /\ request \in [Requests -> Request]
    /\ bucketStart \in [0 .. MaxClock -> Nat]
    /\ acted \in [Instances -> Nat]

\* Every catalog a request is answered with, from whatever
\* instance's cache, contains every change AQMS committed before the bucket
\* in which the request read its token - also the changes the token cannot
\* see (a review flag, an lddate that commits late, an event deselected while
\* another is selected), whatever threads stored or cleared in between.
\* (getCachedCatalog; CATALOG_FRESHNESS_QUERY)
AnswerWithinBucket ==
    \A r \in Requests :
        request[r].stage = "answered" =>
            request[r].catalog.version >= bucketStart[request[r].asked]

\* The token stored with a catalog never describes a state newer than the
\* catalog (eventRoutes.hpp, getCachedCatalog): the catalog has every change
\* committed before the token's bucket, and its window is no older.
StoredNotOlderThanToken ==
    \A i \in Instances :
        cache[i] # NoEntry =>
            /\ cache[i].catalog.version >= bucketStart[cache[i].token.bucket]
            /\ cache[i].catalog.window >= cache[i].token.bucket

\* A revision whose lddate was the newest when it committed, before a request
\* read its token, is in the catalog the request is answered with, whatever
\* late, selecting or reviewing changes surround it - unless an event was
\* deselected since and max(lddate) fell back ("All three tables, not just
\* event", CATALOG_FRESHNESS_QUERY).
RevisionsAnswered ==
    \A r \in Requests :
        request[r].stage = "answered" =>
            request[r].catalog.version >= request[r].due

\* After an instance answered an action with 200, its cache can hold a
\* catalog from before the action only if the thread that stored it had read
\* its token before that answer: clear() leaves nothing behind.
OnlyInFlightBuildersLag ==
    \A i \in Instances :
        (cache[i] # NoEntry /\ ~cache[i].overtaken) =>
            cache[i].catalog.version >= acted[i]

\* After an instance answered an action with 200, the requests that reach it
\* afterwards see the new review status: "without this the catalog shows the old review
\* status until the cache ages out" (actionResponse).
ActionVisible ==
    \A r \in Requests :
        (request[r].stage = "answered" /\ ~request[r].overtaken) =>
            request[r].catalog.version >= acted[Home[r]]

\* The cache implements what BoundedStaleness promises its clients.
Promise == INSTANCE BoundedStaleness WITH
    version <- aqms.version,
    floor   <- bucketStart[bucket],
    owed    <- [r \in Requests |->
                  IF request[r].stage \in {"idle", "clear"} THEN -1
                  ELSE bucketStart[request[r].asked]],
    answer  <- [r \in Requests |->
                  IF request[r].stage = "answered"
                  THEN request[r].catalog.version ELSE -1]

ImplementsBoundedStaleness == Promise!Spec
=============================================================================
