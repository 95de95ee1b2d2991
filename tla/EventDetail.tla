---------------------------- MODULE EventDetail -----------------------------
(***************************************************************************)
(* One event as an analyst opens it: the three kinds of statement queryEvent *)
(* sends in one transaction, the assembly of the Event from their rows, the *)
(* JSON of it, and the other writers of AQMS committing between any two of  *)
(* the statements.  The transaction is a pqxx::work, which is READ          *)
(* COMMITTED: every statement has a snapshot of its own.                    *)
(*                                                                         *)
(* A missing column is 0 among identifiers, "" among codes and -1 among     *)
(* numbers.                                                                 *)
(***************************************************************************)
EXTENDS Integers, FiniteSets

CONSTANTS
    Revisions,      \* what AQMS may hold about the one event asked for
    MaxCommits      \* bound on the commits of AQMS's other writers

-----------------------------------------------------------------------------
(* The codes of AQMS and what they stand for here.                         *)

\* toEventType and eventTypeFromCode: the other codes of AQMS throw.
EventType ==
    [eq |-> "Earthquake", qb |-> "QuarryBlast", sn |-> "Sonic",
     st |-> "SubnetTrigger", av |-> "Avalanche", co |-> "Collapse",
     ex |-> "Explosion", mi |-> "Meteor", nt |-> "NuclearTest",
     uk |-> "Unknown"]

\* The types as JSON spells them, and as the accept route reads them back.
EventTypeName ==
    [Avalanche |-> "avalanche", Collapse |-> "collapse",
     Earthquake |-> "earthquake", Explosion |-> "explosion",
     Landslide |-> "landslide", Meteor |-> "meteor",
     NuclearTest |-> "nuclear_test", QuarryBlast |-> "quarry_blast",
     Sonic |-> "sonic", SubnetTrigger |-> "subnet_trigger",
     Unknown |-> "unknown"]

eventTypeFromString(name) ==
    CHOOSE type \in DOMAIN EventTypeName : EventTypeName[type] = name

\* A code no entry of a table names is this application's Unknown.
KnownEventType(code) ==
    IF code \in DOMAIN EventType THEN EventType[code] ELSE "Unknown"

GeographicType == [l |-> "local", r |-> "regional", t |-> "teleseismic"]

\* Either case, for origins; upper case alone, for arrivals.
ReviewStatus ==
    [a |-> "automatic", A |-> "automatic", h |-> "human", H |-> "human",
     f |-> "finalized", F |-> "finalized", i |-> "incomplete",
     I |-> "incomplete", c |-> "cancelled", C |-> "cancelled"]

ArrivalReviewStatus ==
    [A |-> "automatic", H |-> "human", F |-> "finalized"]

\* A finalized magnitude is one a person stood behind.
MagnitudeReviewStatus ==
    [a |-> "automatic", A |-> "automatic", h |-> "human", H |-> "human",
     f |-> "human", F |-> "human"]

Phases == {"P", "S"}

MagnitudeType ==
    [l |-> "local", L |-> "local", l1 |-> "local", l2 |-> "local",
     l3 |-> "local", lg |-> "local", lr |-> "local", d |-> "duration",
     D |-> "duration", dl |-> "duration", w |-> "moment", h |-> "human"]

\* A table's entry, or the absence of one.
Entry(table, code) == IF code \in DOMAIN table THEN table[code] ELSE ""

-----------------------------------------------------------------------------
(* The rows of AQMS.                                                       *)

Identifier == Nat \ {0}

EventRow == [type : STRING, prefor : Nat, prefmag : Nat]

NoEvent == [type |-> "", prefor |-> 0, prefmag |-> 0]

OriginRow == [id : Identifier, prefmag : Nat, gtype : STRING,
              rflag : STRING, ndef : Nat \cup {-1}]

\* An arrival and its association with one origin.
PickRow == [id : Identifier, origin : Identifier, stream : STRING,
            phase : STRING, rflag : STRING, time : Nat,
            weight : Nat \cup {-1}]

NetmagRow == [id : Identifier, origin : Identifier, type : STRING,
              rflag : STRING, magnitude : Int, valued : BOOLEAN]

\* A coda or an amplitude, its association with one magnitude, and the
\* origins its distance and azimuth are known from.
ObservationRow == [magnitude : Identifier, stream : STRING, mag : Int,
                   weight : Nat \cup {-1}, origins : SUBSET Identifier]

Revision == [event : EventRow, origins : SUBSET OriginRow,
             picks : SUBSET PickRow, netmags : SUBSET NetmagRow,
             observations : SUBSET ObservationRow]

NothingRead == [event |-> NoEvent, origins |-> {}, picks |-> {},
                netmags |-> {}, observations |-> {}]

\* orid and magid are the primary keys of their tables.
ASSUME ConstantsAssumption ==
    /\ Revisions \subseteq Revision
    /\ MaxCommits \in Nat
    /\ \A r \in Revisions :
          /\ \A o, p \in r.origins : o.id = p.id => o = p
          /\ \A m, n \in r.netmags : m.id = n.id => m = n
          /\ IsFiniteSet(r.origins)

VARIABLES
    revision,       \* what AQMS holds now
    commits,        \* the commits so far
    pc,             \* the statement queryEvent sends next
    read,           \* what the first statement saw
    listed,         \* history: what the statement for the magnitudes saw
    rows,           \* the netmag rows readMagnitudes has still to look at
    chosen,         \* the row that has won each type of each origin
    pending,        \* the magnitudes whose stations have still to be read
    stations,       \* the station magnitudes read
    retried,        \* the client has re-dialled and begun again
    quiet,          \* history: no commit since the first statement
    answer          \* what the route answers

vars == <<revision, commits, pc, read, listed, rows, chosen, pending,
          stations, retried, quiet, answer>>

work == <<read, listed, rows, chosen, pending, stations>>

-----------------------------------------------------------------------------
(* What the rows are read as.                                              *)

\* readOrigin throws on a code it does not know and, unlike the catalog, on
\* a solution with no defining phases.
OriginReads(o) ==
    /\ o.gtype = "" \/ o.gtype \in DOMAIN GeographicType
    /\ o.rflag = "" \/ o.rflag \in DOMAIN ReviewStatus
    /\ o.ndef # 0

\* readArrival: what throws is skipped, what is missing is left unset.
ArrivalReads(p) ==
    /\ p.stream # ""
    /\ p.rflag = "" \/ p.rflag \in DOMAIN ArrivalReviewStatus
    /\ p.phase = "" \/ p.phase \in Phases

\* A weight nobody recorded is not a weight of zero.
Used(row) == row.weight = -1 \/ row.weight > 0

\* The arrivals readEvent collects for an origin.
ArrivalsOf(r, o) ==
    {p \in r.picks : p.origin = o.id /\ Used(p) /\ ArrivalReads(p)}

\* Origin::setArrivals refuses the whole set for one of these.
ArrivalsSet(arrivals) ==
    /\ \A p \in arrivals : p.phase # "" /\ p.rflag # ""
    /\ \A p, q \in arrivals :
          p # q /\ p.stream = q.stream =>
              /\ p.phase # q.phase
              /\ p.phase = "P" => p.time <= q.time

Type(row) == Entry(MagnitudeType, row.type)

\* The rows readMagnitudes goes by: a type it models and a value.
Modelled(row) == row.type \in DOMAIN MagnitudeType /\ row.valued

\* NETMAG_QUERY for the origins the first statement returned: netmag joined
\* to the origin, which has to be there still, for its preferred magnitude.
NetmagQuery(r, ids) ==
    {[id |-> m.id, origin |-> m.origin, type |-> m.type, rflag |-> m.rflag,
      magnitude |-> m.magnitude, valued |-> m.valued,
      preferred |-> \E o \in r.origins : o.id = m.origin /\ o.prefmag = m.id] :
        m \in {n \in r.netmags : n.origin \in ids /\
                                 \E o \in r.origins : o.id = n.origin}}

Identifiers(r) == {o.id : o \in r.origins}

\* The row a later one of its type gives way to.
Incumbents(row) ==
    {c \in chosen : c.origin = row.origin /\ Type(c) = Type(row)}

\* DURATION_MAGNITUDE_QUERY and LOCAL_MAGNITUDE_QUERY: the spellings 'd' and
\* 'l' alone have stations.  The codas are joined to the geometry from this
\* origin by an inner join, the amplitudes by an outer one.
Spelling == [local |-> "l", duration |-> "d"]

StationRows(r, m) ==
    LET network == {n \in r.netmags : n.id = m.id /\ n.type = Spelling[Type(m)]}
        measured == {s \in r.observations :
                        /\ s.magnitude = m.id
                        /\ s.stream # ""
                        /\ Used(s)
                        /\ Type(m) = "local" \/ m.origin \in s.origins}
        station(s, n) ==
            [magnitude |-> m.id, stream |-> s.stream, mag |-> s.mag,
             residual |-> s.mag - n.magnitude,
             located |-> m.origin \in s.origins]
    IN UNION {{station(s, n) : s \in measured} : n \in network}

-----------------------------------------------------------------------------
(* The Event and its JSON.                                                 *)

\* Origin::setMagnitudes refuses a set without exactly one preferred, and
\* the origin goes on without its magnitudes.
MagnitudesSet(magnitudes) ==
    IF Cardinality({m \in magnitudes : m.preferred}) = 1 THEN magnitudes
    ELSE {}

\* magnitudeToJSON.
MagnitudeToJSON(m, observations) ==
    [id |-> m.id, type |-> Type(m), magnitude |-> m.magnitude,
     status |-> Entry(MagnitudeReviewStatus, m.rflag),
     preferred |-> m.preferred,
     stations |-> {s \in observations : s.magnitude = m.id}]

\* arrivalToJSON.
ArrivalToJSON(p) ==
    [id |-> p.id, stream |-> p.stream, phase |-> p.phase, time |-> p.time,
     status |-> Entry(ArrivalReviewStatus, p.rflag)]

\* Mutant: the flag of an origin is read as that of an arrival is.
OriginToJSONUnfolded(r, o, magnitudes, observations) ==
    [id |-> o.id, preferred |-> o.id = r.event.prefor, ndef |-> o.ndef,
     gtype |-> Entry(GeographicType, o.gtype),
     status |-> Entry(ArrivalReviewStatus, o.rflag),
     magnitudes |-> {MagnitudeToJSON(m, observations) : m \in
                        MagnitudesSet({c \in magnitudes : c.origin = o.id})},
     arrivals |-> {ArrivalToJSON(p) : p \in ArrivalsOf(r, o)}]

\* readOrigin and originToJSON; the origin is preferred when event.prefor
\* names it.
OriginToJSON(r, o, magnitudes, observations) ==
    [id |-> o.id, preferred |-> o.id = r.event.prefor, ndef |-> o.ndef,
     gtype |-> Entry(GeographicType, o.gtype),
     status |-> Entry(ReviewStatus, o.rflag),
     magnitudes |-> {MagnitudeToJSON(m, observations) : m \in
                        MagnitudesSet({c \in magnitudes : c.origin = o.id})},
     arrivals |-> {ArrivalToJSON(p) : p \in ArrivalsOf(r, o)}]

NoAnswer == [kind |-> "none", type |-> "", prefor |-> 0, prefmag |-> 0,
             origins |-> {}]

Refused == [NoAnswer EXCEPT !.kind = "refused"]

NotFound == [NoAnswer EXCEPT !.kind = "not found"]

\* Event::setOrigins: the preferred origin is among them, and only once.
OriginsSet(r) == Cardinality({o \in r.origins : o.id = r.event.prefor}) = 1

\* What makes readEvent throw.
Unreadable(r) ==
    \/ \E o \in r.origins : ~OriginReads(o) \/ ~ArrivalsSet(ArrivalsOf(r, o))
    \/ ~OriginsSet(r)

\* Mutant: the preferred magnitude of the preferred origin, not of the event.
EventToJSONOfOrigin(r, magnitudes, observations) ==
    [kind    |-> "event",
     type    |-> EventTypeName[KnownEventType(r.event.type)],
     prefor  |-> r.event.prefor,
     prefmag |-> (CHOOSE o \in r.origins : o.id = r.event.prefor).prefmag,
     origins |-> {OriginToJSON(r, o, magnitudes, observations) :
                     o \in r.origins}]

\* toJSON, with the arrivals of all the origins.
EventToJSON(r, magnitudes, observations) ==
    [kind    |-> "event",
     type    |-> EventTypeName[KnownEventType(r.event.type)],
     prefor  |-> r.event.prefor,
     prefmag |-> r.event.prefmag,
     origins |-> {OriginToJSON(r, o, magnitudes, observations) :
                     o \in r.origins}]

ReadEvent(r, magnitudes, observations) ==
    IF Unreadable(r) THEN Refused
    ELSE EventToJSON(r, magnitudes, observations)

-----------------------------------------------------------------------------
Init ==
    /\ revision \in Revisions
    /\ commits = 0
    /\ pc = "idle"
    /\ read = NothingRead /\ listed = NothingRead
    /\ rows = {} /\ chosen = {} /\ pending = {} /\ stations = {}
    /\ retried = FALSE
    /\ quiet = TRUE
    /\ answer = NoAnswer

\* Another program commits.
Commit ==
    /\ commits < MaxCommits
    /\ commits' = commits + 1
    /\ revision' \in Revisions \ {revision}
    /\ quiet' = FALSE
    /\ UNCHANGED <<pc, work, retried, answer>>

\* Mutant: the operation does not start afresh.
BeginWithStations(again) ==
    /\ pc' = "origins"
    /\ read' = NothingRead /\ listed' = NothingRead
    /\ rows' = {} /\ chosen' = {} /\ pending' = {}
    /\ retried' = again
    /\ quiet' = TRUE
    /\ answer' = NoAnswer
    /\ UNCHANGED <<revision, commits, stations>>

\* The client runs the operation, or runs it again.
Begin(again) ==
    /\ pc' = "origins"
    /\ read' = NothingRead /\ listed' = NothingRead
    /\ rows' = {} /\ chosen' = {} /\ pending' = {} /\ stations' = {}
    /\ retried' = again
    /\ quiet' = TRUE
    /\ answer' = NoAnswer
    /\ UNCHANGED <<revision, commits>>

\* A request for the event gets the session.
Ask == pc = "idle" /\ Begin(FALSE)

Respond(response) ==
    /\ pc' = "idle"
    /\ answer' = response

\* EVENT_AND_ORIGIN_INFORMATION_QUERY.
ReadOrigins ==
    /\ pc = "origins"
    /\ read' = revision
    /\ quiet' = TRUE
    /\ IF revision.event = NoEvent THEN Respond(NotFound)
       ELSE /\ pc' = IF revision.origins = {} THEN "build" ELSE "magnitudes"
            /\ UNCHANGED answer
    /\ UNCHANGED <<revision, commits, listed, rows, chosen, pending, stations,
                   retried>>

\* NETMAG_QUERY.
ReadMagnitudes ==
    /\ pc = "magnitudes"
    /\ listed' = revision
    /\ rows' = NetmagQuery(revision, Identifiers(read))
    /\ pc' = "choose"
    /\ UNCHANGED <<revision, commits, read, chosen, pending, stations,
                   retried, quiet, answer>>

\* Mutant: the last of a type wins.
ChooseTheLast ==
    /\ pc = "choose"
    /\ \E row \in rows :
          /\ \A n \in rows : row.id <= n.id
          /\ rows' = rows \ {row}
          /\ chosen' = IF Modelled(row)
                       THEN (chosen \ Incumbents(row)) \cup {row} ELSE chosen
    /\ UNCHANGED <<revision, commits, pc, read, listed, pending, stations,
                   retried, quiet, answer>>

\* readMagnitudes, one row in the order of magid: the first of its type,
\* unless a later one is the preferred one.
ChooseMagnitude ==
    /\ pc = "choose"
    /\ \E row \in rows :
          /\ \A n \in rows : row.id <= n.id
          /\ rows' = rows \ {row}
          /\ chosen' =
                IF \/ ~Modelled(row)
                   \/ \E c \in Incumbents(row) : c.preferred \/ ~row.preferred
                THEN chosen ELSE (chosen \ Incumbents(row)) \cup {row}
    /\ UNCHANGED <<revision, commits, pc, read, listed, pending, stations,
                   retried, quiet, answer>>

MagnitudesChosen ==
    /\ pc = "choose"
    /\ rows = {}
    /\ pending' = {c \in chosen : Type(c) \in {"local", "duration"}}
    /\ pc' = "stations"
    /\ UNCHANGED <<revision, commits, read, listed, rows, chosen, stations,
                   retried, quiet, answer>>

\* readStationLocalMagnitudes or readStationDurationMagnitudes, a statement
\* for each magnitude: origin by origin, the codas before the amplitudes.
ReadStations ==
    /\ pc = "stations"
    /\ \E m \in pending :
          /\ \A n \in pending :
                \/ m.origin < n.origin
                \/ m.origin = n.origin /\ (m = n \/ Type(m) = "duration")
          /\ pending' = pending \ {m}
          /\ stations' = stations \cup StationRows(revision, m)
    /\ UNCHANGED <<revision, commits, pc, read, listed, rows, chosen, retried,
                   quiet, answer>>

StationsRead ==
    /\ pc = "stations"
    /\ pending = {}
    /\ pc' = "build"
    /\ UNCHANGED <<revision, commits, work, retried, quiet, answer>>

\* readEvent, the commit of the transaction and the route's answer.
BuildEvent ==
    /\ pc = "build"
    /\ Respond(ReadEvent(read, chosen, stations))
    /\ UNCHANGED <<revision, commits, work, retried, quiet>>

\* A statement finds the connection lost.  The client re-dials and runs the
\* operation again from its beginning, once; getEvent answers for what
\* remains with an error.
LoseConnection ==
    /\ pc \in {"origins", "magnitudes", "stations", "build"}
    /\ \/ ~retried /\ Begin(TRUE)
       \/ /\ Respond(Refused)
          /\ UNCHANGED <<revision, commits, work, retried, quiet>>

Next ==
    \/ Commit \/ Ask \/ ReadOrigins \/ ReadMagnitudes \/ ChooseMagnitude
    \/ MagnitudesChosen \/ ReadStations \/ StationsRead \/ BuildEvent
    \/ LoseConnection

Spec == Init /\ [][Next]_vars

-----------------------------------------------------------------------------
(* Properties.                                                             *)

Pc == {"idle", "origins", "magnitudes", "choose", "stations", "build"}

\* One row of NETMAG_QUERY.
MagnitudeRow ==
    [id : Identifier, origin : Identifier, type : STRING, rflag : STRING,
     magnitude : Int, valued : BOOLEAN, preferred : BOOLEAN]

\* One row of the statements for the stations.
StationMagnitude ==
    [magnitude : Identifier, stream : STRING, mag : Int, residual : Int,
     located : BOOLEAN]

TypeOK ==
    /\ revision \in Revisions
    /\ commits \in 0 .. MaxCommits
    /\ pc \in Pc
    /\ read \in Revisions \cup {NothingRead}
    /\ listed \in Revisions \cup {NothingRead}
    /\ rows \in SUBSET MagnitudeRow
    /\ chosen \in SUBSET MagnitudeRow
    /\ pending \in SUBSET chosen
    /\ pc \in {"origins", "magnitudes", "choose"} => pending = {}
    /\ stations \in SUBSET StationMagnitude
    /\ retried \in BOOLEAN
    /\ quiet \in BOOLEAN
    /\ answer.kind \in {"none", "event", "not found", "refused"}

\* What one snapshot says of the magnitudes of these origins: for each type
\* the one the origin prefers, or else the one with the lowest identifier.
Outranks(m, n) == m.preferred \/ (~n.preferred /\ m.id < n.id)

Candidates(r, ids) == {m \in NetmagQuery(r, ids) : Modelled(m)}

Best(candidates) ==
    {m \in candidates : \A n \in candidates :
        (n.origin = m.origin /\ Type(n) = Type(m) /\ n # m) => Outranks(m, n)}

\* When the stations are read, the magnitudes readMagnitudes has kept are
\* for every origin and type the best of those AQMS listed: a row replaced
\* on the way never costs the origin the magnitude it prefers, whatever the
\* order of the identifiers.
BestOfEachType ==
    pc \in {"stations", "build"} =>
        chosen = Best(Candidates(listed, Identifiers(read)))

\* The event one snapshot alone tells of.
Whole(r) ==
    LET best == Best(Candidates(r, Identifiers(r)))
        read_ == {c \in best : Type(c) \in {"local", "duration"}}
    IN IF r.event = NoEvent THEN NotFound
       ELSE ReadEvent(r, best, UNION {StationRows(r, m) : m \in read_})

\* An answer during whose statements nobody committed is what AQMS held,
\* whole: neither the order of the statements nor an attempt that a lost
\* connection cut short leaves a magnitude or a station out, twice or under
\* the wrong origin.
QuietReadsAreWhole ==
    pc = "idle" /\ quiet /\ answer.kind \in {"event", "not found"} =>
        answer = Whole(read)

\* queryEvent's own comment: in one transaction the statements read the same
\* snapshot and cannot disagree.
ReadsOneSnapshot ==
    pc = "idle" /\ answer.kind = "event" => answer = Whole(read)

\* What an accept sends back and what runAction reads to compare it with.
Expected ==
    [prefor |-> answer.prefor, prefmag |-> answer.prefmag,
     type |-> eventTypeFromString(answer.type)]

Solution(r) ==
    [prefor |-> r.event.prefor, prefmag |-> r.event.prefmag,
     type |-> KnownEventType(r.event.type)]

\* An analyst who sends back what the screen shows is never told that the
\* event has moved on while its row has not, whatever its type and whatever
\* happened to its origins and magnitudes; and one whose answer still
\* matches was shown the preferred solution the event still has.
ShownSolutionMatches ==
    answer.kind = "event" =>
        /\ revision.event = read.event => Expected = Solution(revision)
        /\ Expected = Solution(revision) =>
              \E o \in answer.origins : o.preferred /\ o.id = revision.event.prefor

\* readEventSummary of the catalog's row: the joins hang off the preferred
\* keys of the event.
EventSummary(r, o) ==
    LET preferred == {m \in r.netmags : m.id = r.event.prefmag}
    IN [type   |-> KnownEventType(r.event.type),
        gtype  |-> Entry(GeographicType, o.gtype),
        status |-> Entry(ReviewStatus, o.rflag),
        ndef   |-> IF o.ndef > 0 THEN o.ndef ELSE -1,
        magnitudes |-> {[magnitude |-> m.magnitude, type |-> Type(m)] :
                            m \in {n \in preferred : n.valued}}]

\* The catalog's toJSON.
SummaryToJSON(summary) == [summary EXCEPT !.type = EventTypeName[@]]

\* The catalog and the detail of an event, read of the same revision by two
\* readers that share no code but the tables, say the same of its preferred
\* origin, and of its preferred magnitude where an origin still carries it.
CatalogAndDetailAgree ==
    answer.kind = "event" =>
        \E o \in read.origins : \E shown \in answer.origins :
            /\ shown.preferred /\ shown.id = o.id
            /\ LET summary == SummaryToJSON(EventSummary(read, o))
               IN /\ summary.type = answer.type
                  /\ summary.gtype = shown.gtype
                  /\ summary.status = shown.status
                  /\ summary.ndef = shown.ndef
                  /\ listed = read =>
                        \A origin \in answer.origins :
                            \A m \in origin.magnitudes :
                                m.id = answer.prefmag =>
                                    [magnitude |-> m.magnitude,
                                     type |-> m.type] \in summary.magnitudes

\* readEvent's own comment, which does not hold: one unreadable pick costs
\* neither the origin it hangs off nor the others.  What cannot be read with
\* its picks cannot be read without them either.
APickCostsOnlyItself ==
    pc = "build" /\ Unreadable(read) => Unreadable([read EXCEPT !.picks = {}])
=============================================================================
