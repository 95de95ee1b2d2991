------------------------- MODULE EventDetailProofs --------------------------
(* Proofs about EventDetail, for every set of revisions.                    *)
EXTENDS EventDetail, TLAPS, FiniteSetTheorems

-----------------------------------------------------------------------------
(* Types.                                                                  *)

\* A row of NETMAG_QUERY is one.
LEMMA NetmagQueryType ==
    ASSUME NEW r \in Revision, NEW ids
    PROVE  NetmagQuery(r, ids) \in SUBSET MagnitudeRow
<1>1. r.netmags \subseteq NetmagRow
  BY DEF Revision
<1>2. ASSUME NEW m \in NetmagRow, NEW preferred \in BOOLEAN
      PROVE  [id |-> m.id, origin |-> m.origin, type |-> m.type,
              rflag |-> m.rflag, magnitude |-> m.magnitude,
              valued |-> m.valued, preferred |-> preferred] \in MagnitudeRow
  BY DEF NetmagRow, MagnitudeRow
<1>3. ASSUME NEW m \in NetmagRow
      PROVE  (\E o \in r.origins : o.id = m.origin /\ o.prefmag = m.id) \in BOOLEAN
  OBVIOUS
<1>4. SUFFICES ASSUME NEW row \in NetmagQuery(r, ids) PROVE row \in MagnitudeRow
  OBVIOUS
<1>5. PICK m \in r.netmags :
         row = [id |-> m.id, origin |-> m.origin, type |-> m.type,
                rflag |-> m.rflag, magnitude |-> m.magnitude,
                valued |-> m.valued,
                preferred |-> \E o \in r.origins :
                                 o.id = m.origin /\ o.prefmag = m.id]
  BY <1>4 DEF NetmagQuery
<1>6. QED BY <1>1, <1>2, <1>3, <1>5

\* The rows of the stations are rows, under every magnitude (readStationMagnitudes).
LEMMA StationRowsType ==
    ASSUME NEW r \in Revision, NEW m \in MagnitudeRow
    PROVE  StationRows(r, m) \in SUBSET StationMagnitude
<1>1. /\ r.observations \subseteq ObservationRow
      /\ r.netmags \subseteq NetmagRow
  BY DEF Revision
<1>2. ASSUME NEW s \in ObservationRow, NEW n \in NetmagRow
      PROVE  [magnitude |-> m.id, stream |-> s.stream, mag |-> s.mag,
              residual |-> s.mag - n.magnitude,
              located |-> m.origin \in s.origins] \in StationMagnitude
  <2>1. /\ m.id \in Identifier /\ s.stream \in STRING /\ s.mag \in Int
        /\ s.mag - n.magnitude \in Int /\ (m.origin \in s.origins) \in BOOLEAN
    BY DEF ObservationRow, NetmagRow, MagnitudeRow
  <2>2. QED BY <2>1 DEF StationMagnitude
<1>3. SUFFICES ASSUME NEW row \in StationRows(r, m)
               PROVE  row \in StationMagnitude
  OBVIOUS
<1>4. PICK s \in r.observations, n \in r.netmags :
         row = [magnitude |-> m.id, stream |-> s.stream, mag |-> s.mag,
                residual |-> s.mag - n.magnitude,
                located |-> m.origin \in s.origins]
  BY <1>3 DEF StationRows
<1>5. QED BY <1>1, <1>2, <1>4

\* Every state is of its type.
THEOREM TypeCorrect == Spec => []TypeOK
<1>1. Init => TypeOK
  <2>1. 0 \in 0 .. MaxCommits
    BY ConstantsAssumption
  <2>2. ASSUME Init PROVE answer.kind = "none"
    BY <2>2 DEF Init, NoAnswer
  <2>3. QED BY <2>1, <2>2 DEF Init, TypeOK, Pc
<1>2. TypeOK /\ [Next]_vars => TypeOK'
  <2> SUFFICES ASSUME TypeOK, [Next]_vars PROVE TypeOK'
    OBVIOUS
  <2> USE DEF TypeOK, Pc
  <2>0. revision \in Revision /\ MaxCommits \in Nat
    BY ConstantsAssumption
  <2>begin. ASSUME NEW again \in BOOLEAN, Begin(again) PROVE TypeOK'
    BY <2>begin DEF Begin, NoAnswer
  <2>1. CASE Commit
    <3>1. commits \in 0 .. MaxCommits
      OBVIOUS
    <3>2. commits < MaxCommits
      BY <2>1 DEF Commit
    <3>3. commits' = commits + 1
      BY <2>1 DEF Commit
    <3>4. commits' \in 0 .. MaxCommits
      BY ONLY <2>0, <3>1, <3>2, <3>3
    <3>5. QED BY <2>1, <3>4 DEF Commit, work
  <2>2. CASE Ask
    BY <2>2, <2>begin DEF Ask
  <2>3. CASE ReadOrigins
    BY <2>3 DEF ReadOrigins, Respond, NotFound, NoAnswer
  <2>4. CASE ReadMagnitudes
    <3>1. NetmagQuery(revision, Identifiers(read)) \in SUBSET MagnitudeRow
      BY <2>0, NetmagQueryType
    <3>2. QED BY <2>4, <3>1 DEF ReadMagnitudes
  <2>5. CASE ChooseMagnitude
    BY <2>5 DEF ChooseMagnitude, Incumbents
  <2>6. CASE MagnitudesChosen
    BY <2>6 DEF MagnitudesChosen
  <2>7. CASE ReadStations
    <3>1. \A m \in chosen : StationRows(revision, m) \in SUBSET StationMagnitude
      BY <2>0, StationRowsType
    <3>2. QED BY <2>7, <3>1 DEF ReadStations
  <2>8. CASE StationsRead
    BY <2>8 DEF StationsRead, work
  <2>9. CASE BuildEvent
    BY <2>9 DEF BuildEvent, Respond, work, ReadEvent, EventToJSON, Refused, NoAnswer
  <2>10. CASE LoseConnection
    BY <2>10, <2>begin DEF LoseConnection, Respond, work, Refused, NoAnswer
  <2>11. CASE UNCHANGED vars
    BY <2>11 DEF vars
  <2>12. QED BY <2>1, <2>2, <2>3, <2>4, <2>5, <2>6, <2>7, <2>8, <2>9, <2>10,
                <2>11 DEF Next
<1>3. QED BY <1>1, <1>2, PTL DEF Spec

-----------------------------------------------------------------------------
(* The magnitude of each type.                                             *)

\* The rows readMagnitudes goes by among those it has looked at.
Done == {m \in NetmagQuery(listed, Identifiers(read)) \ rows : Modelled(m)}

SameKind(m, n) == n.origin = m.origin /\ Type(n) = Type(m)

\* The rows of one statement have an identifier each, and of one origin at
\* most one is preferred.
Distinct(list) ==
    /\ list \in SUBSET MagnitudeRow
    /\ \A m, n \in list : m.id = n.id => m = n
    /\ \A m, n \in list :
          m.origin = n.origin /\ m.preferred /\ n.preferred => m = n

\* Along the way the kept rows are the best of those looked at, the rows left
\* have the higher identifiers, and no kind looked at is without a kept row.
\* This last is what keeps a second row of a kind from being taken for the
\* first.
BestSoFar ==
    /\ pc \in {"origins", "magnitudes"} => chosen = {} /\ listed = NothingRead
    /\ pc = "choose" =>
          /\ listed \in Revisions
          /\ rows \subseteq NetmagQuery(listed, Identifiers(read))
          /\ \A m \in Done : \A n \in rows : m.id < n.id
          /\ chosen = Best(Done)
          /\ \A m \in Done : \E c \in chosen : SameKind(m, c)
    /\ BestOfEachType

\* What NETMAG_QUERY returns is Distinct: orid and magid are keys.
LEMMA NetmagQueryDistinct ==
    ASSUME NEW r \in Revisions, NEW ids
    PROVE  Distinct(NetmagQuery(r, ids))
<1> DEFINE row(m) ==
        [id |-> m.id, origin |-> m.origin, type |-> m.type, rflag |-> m.rflag,
         magnitude |-> m.magnitude, valued |-> m.valued,
         preferred |-> \E o \in r.origins : o.id = m.origin /\ o.prefmag = m.id]
<1>1. r \in Revision /\ NetmagQuery(r, ids) \in SUBSET MagnitudeRow
  BY ConstantsAssumption, NetmagQueryType
<1>2. ASSUME NEW x \in NetmagQuery(r, ids)
      PROVE  \E m \in r.netmags : x = row(m)
  BY DEF NetmagQuery
<1>3. ASSUME NEW x \in NetmagQuery(r, ids), NEW y \in NetmagQuery(r, ids),
             x.id = y.id
      PROVE  x = y
  <2>1. PICK m \in r.netmags : x = row(m)
    BY <1>2
  <2>2. PICK n \in r.netmags : y = row(n)
    BY <1>2
  <2>3. m = n
    BY <1>3, <2>1, <2>2, ConstantsAssumption
  <2>4. QED BY <2>1, <2>2, <2>3
<1>4. ASSUME NEW x \in NetmagQuery(r, ids), NEW y \in NetmagQuery(r, ids),
             x.origin = y.origin, x.preferred, y.preferred
      PROVE  x = y
  <2>1. PICK m \in r.netmags : x = row(m)
    BY <1>2
  <2>2. PICK n \in r.netmags : y = row(n)
    BY <1>2
  <2>3. PICK o \in r.origins : o.id = m.origin /\ o.prefmag = m.id
    BY <1>4, <2>1
  <2>4. PICK p \in r.origins : p.id = n.origin /\ p.prefmag = n.id
    BY <1>4, <2>2
  <2>5. o = p
    BY <1>4, <2>1, <2>2, <2>3, <2>4, ConstantsAssumption
  <2>6. x.id = y.id
    BY <2>1, <2>2, <2>3, <2>4, <2>5
  <2>7. QED BY <1>3, <2>6
<1>5. QED BY <1>1, <1>3, <1>4 DEF Distinct

\* The row of its kind that is the best before this one.
Mates(done, row) ==
    {c \in Best(done) : c.origin = row.origin /\ Type(c) = Type(row)}

\* One more row, whose identifier is above those looked at: the incumbent
\* stays exactly when the best of all the rows is the incumbent still.
LEMMA OneMoreRow ==
    ASSUME NEW list, Distinct(list), NEW done \in SUBSET list,
           NEW row \in list, \A m \in done : m.id < row.id,
           \A m \in done : \E c \in Best(done) : SameKind(m, c)
    PROVE  Best(done \cup {row}) =
              IF \E c \in Mates(done, row) : c.preferred \/ ~row.preferred
              THEN Best(done) ELSE (Best(done) \ Mates(done, row)) \cup {row}
<1> DEFINE mates == Mates(done, row)
<1> USE DEF Mates
<1>1. /\ \A m \in list : m.id \in Int
      /\ \A m, n \in list : m.id = n.id => m = n
      /\ \A m, n \in list : m.origin = n.origin /\ m.preferred /\ n.preferred => m = n
      /\ \A m \in done : m.id < row.id /\ m # row
  BY DEF Distinct, MagnitudeRow, Identifier
<1>2. ASSUME NEW m \in done, ~SameKind(row, m)
      PROVE  m \in Best(done \cup {row}) <=> m \in Best(done)
  BY <1>2 DEF Best, SameKind
<1>3. ASSUME NEW m \in done, m \in Best(done \cup {row})
      PROVE  m \in Best(done)
  BY <1>3 DEF Best
<1>4. ASSUME NEW c \in mates, NEW d \in mates PROVE c = d
  BY <1>1, <1>4 DEF Best, Outranks
<1>5. CASE \E c \in mates : c.preferred \/ ~row.preferred
  <2>1. PICK c \in mates : c.preferred \/ ~row.preferred
    BY <1>5
  <2>2. c \in done /\ c.id < row.id /\ c.origin = row.origin
        /\ Type(c) = Type(row) /\ c # row
    BY <1>1, <2>1 DEF Best
  <2>3. row \notin Best(done \cup {row})
    <3>1. ~Outranks(row, c)
      BY <1>1, <2>1, <2>2 DEF Outranks
    <3>2. QED BY <2>2, <3>1 DEF Best
  <2>4. Outranks(c, row)
    BY <2>1, <2>2 DEF Outranks
  <2>5. c \in Best(done \cup {row})
    BY <2>1, <2>2, <2>4 DEF Best
  <2>6. ASSUME NEW m \in Best(done) PROVE m \in Best(done \cup {row})
    <3>1. m \in done
      BY DEF Best
    <3>2. CASE SameKind(row, m)
      BY <1>4, <2>1, <2>5, <3>1, <3>2 DEF SameKind
    <3>3. QED BY <1>2, <3>1, <3>2
  <2>7. ASSUME NEW m \in Best(done \cup {row}) PROVE m \in Best(done)
    BY <1>3, <2>3 DEF Best
  <2>8. Best(done \cup {row}) = Best(done)
    BY <2>6, <2>7
  <2>9. QED BY <1>5, <2>8
<1>6. CASE ~\E c \in mates : c.preferred \/ ~row.preferred
  <2>1. ASSUME NEW n \in done, SameKind(row, n)
        PROVE  Outranks(row, n) /\ ~Outranks(n, row)
    <3>1. PICK c \in Best(done) : SameKind(n, c)
      OBVIOUS
    <3>2. c \in mates /\ c \in done
      BY <2>1, <3>1 DEF SameKind, Best
    <3>3. row.preferred /\ ~c.preferred
      BY <1>6, <3>2
    <3>4. ~n.preferred
      BY <1>1, <2>1, <3>3 DEF SameKind
    <3>5. QED BY <3>3, <3>4 DEF Outranks
  <2>2. row \in Best(done \cup {row})
    BY <2>1 DEF Best, SameKind
  <2>3. ASSUME NEW m \in done PROVE
          m \in Best(done \cup {row}) <=> m \in Best(done) \ mates
    <3>1. CASE SameKind(row, m)
      <4>1. m \notin Best(done \cup {row})
        BY <1>1, <2>1, <3>1 DEF Best, SameKind
      <4>2. m \notin Best(done) \ mates
        BY <3>1 DEF SameKind
      <4>3. QED BY <4>1, <4>2
    <3>2. CASE ~SameKind(row, m)
      BY <1>2, <3>2 DEF SameKind
    <3>3. QED BY <3>1, <3>2
  <2>4. Best(done \cup {row}) = (Best(done) \ mates) \cup {row}
    <3>1. Best(done \cup {row}) \subseteq done \cup {row} /\ Best(done) \subseteq done
      BY DEF Best
    <3>2. QED BY <2>2, <2>3, <3>1
  <2>5. QED BY <1>6, <2>4
<1>7. QED BY <1>5, <1>6

\* At every step the magnitudes chosen are the best of the rows read so far.
LEMMA BestSoFarInvariant == Spec => []BestSoFar
<1>1. Init => BestSoFar
  BY DEF Init, BestSoFar, BestOfEachType
<1>2. TypeOK /\ BestSoFar /\ [Next]_vars => BestSoFar'
  <2> SUFFICES ASSUME TypeOK, BestSoFar, [Next]_vars PROVE BestSoFar'
    OBVIOUS
  <2>begin. ASSUME NEW again \in BOOLEAN, Begin(again) PROVE BestSoFar'
    BY <2>begin DEF Begin, BestSoFar, BestOfEachType
  <2>same. ASSUME UNCHANGED <<pc, read, listed, rows, chosen>> PROVE BestSoFar'
    BY <2>same DEF BestSoFar, BestOfEachType, Done
  <2>1. CASE Commit
    BY <2>1, <2>same DEF Commit, work
  <2>2. CASE Ask
    BY <2>2, <2>begin DEF Ask
  <2>3. CASE ReadOrigins
    <3>1. Best(Candidates(NothingRead, Identifiers(read'))) = {}
      BY DEF Best, Candidates, NetmagQuery, NothingRead
    <3>2. QED BY <2>3, <3>1 DEF ReadOrigins, Respond, BestSoFar, BestOfEachType
  <2>4. CASE ReadMagnitudes
    <3> DEFINE query == NetmagQuery(revision, Identifiers(read))
    <3>1. /\ pc' = "choose" /\ listed' = revision /\ read' = read
          /\ chosen' = {} /\ rows' = query /\ revision \in Revisions
      BY <2>4 DEF ReadMagnitudes, BestSoFar, TypeOK
    <3>2. Done' = {}
      BY <3>1 DEF Done
    <3>3. Best({}) = {}
      BY DEF Best
    <3>4. QED BY <3>1, <3>2, <3>3 DEF BestSoFar, BestOfEachType
  <2>5. CASE ChooseMagnitude
    <3> DEFINE query == NetmagQuery(listed, Identifiers(read))
    <3>1. PICK row \in rows :
            /\ \A n \in rows : row.id <= n.id
            /\ rows' = rows \ {row}
            /\ chosen' =
                  IF \/ ~Modelled(row)
                     \/ \E c \in Incumbents(row) : c.preferred \/ ~row.preferred
                  THEN chosen ELSE (chosen \ Incumbents(row)) \cup {row}
      BY <2>5 DEF ChooseMagnitude
    <3>2. /\ pc = "choose" /\ pc' = "choose"
          /\ listed' = listed /\ read' = read
      BY <2>5 DEF ChooseMagnitude
    <3>3. /\ listed \in Revisions
          /\ rows \subseteq query
          /\ \A m \in Done : \A n \in rows : m.id < n.id
          /\ chosen = Best(Done)
          /\ \A m \in Done : \E c \in chosen : SameKind(m, c)
      BY <3>2 DEF BestSoFar
    <3>4. Distinct(query)
      BY <3>3, NetmagQueryDistinct
    <3>5. Done' = IF Modelled(row) THEN Done \cup {row} ELSE Done
      BY <3>1, <3>2, <3>3 DEF Done
    <3>6. \A n \in rows' : row.id < n.id
      BY <3>1, <3>3, <3>4 DEF Distinct, MagnitudeRow, Identifier
    <3>7. \A m \in Done' : \A n \in rows' : m.id < n.id
      BY <3>1, <3>3, <3>5, <3>6
    <3>8. CASE ~Modelled(row)
      BY <3>1, <3>2, <3>3, <3>5, <3>7, <3>8 DEF BestSoFar, BestOfEachType
    <3>9. CASE Modelled(row)
      <4>1. Done \in SUBSET query /\ row \in query
        BY <3>3 DEF Done
      <4>2. Incumbents(row) = Mates(Done, row)
        BY <3>3 DEF Incumbents, Mates
      <4>3. Best(Done \cup {row}) =
              IF \E c \in Incumbents(row) : c.preferred \/ ~row.preferred
              THEN Best(Done) ELSE (Best(Done) \ Incumbents(row)) \cup {row}
        <5>1. \A m \in Done : m.id < row.id
          BY <3>3
        <5>2. \A m \in Done : \E c \in Best(Done) : SameKind(m, c)
          BY <3>3
        <5>3. Best(Done \cup {row}) =
                IF \E c \in Mates(Done, row) : c.preferred \/ ~row.preferred
                THEN Best(Done) ELSE (Best(Done) \ Mates(Done, row)) \cup {row}
          <6> HIDE DEF query
          <6>1. QED BY ONLY <3>4, <4>1, <5>1, <5>2, OneMoreRow
        <5>4. QED BY <4>2, <5>3
      <4>4. chosen' = Best(Done')
        BY <3>1, <3>3, <3>5, <3>9, <4>3
      <4>5. \A m \in Done' : \E c \in chosen' : SameKind(m, c)
        <5>1. \E c \in chosen' : SameKind(row, c)
          BY <3>1, <3>3, <3>9 DEF SameKind, Incumbents
        <5>2. ASSUME NEW m \in Done PROVE \E c \in chosen' : SameKind(m, c)
          <6>1. PICK c \in chosen : SameKind(m, c)
            BY <3>3
          <6>2. CASE c \in chosen'
            BY <6>1, <6>2
          <6>3. CASE c \notin chosen'
            BY <3>1, <5>1, <6>1, <6>3 DEF Incumbents, SameKind
          <6>4. QED BY <6>2, <6>3
        <5>3. QED BY <3>5, <3>9, <5>1, <5>2
      <4>6. QED BY <3>1, <3>2, <3>3, <3>7, <4>4, <4>5
            DEF BestSoFar, BestOfEachType
    <3>10. QED BY <3>8, <3>9
  <2>6. CASE MagnitudesChosen
    <3>1. Done = Candidates(listed, Identifiers(read)) \/ rows # {}
      BY DEF Done, Candidates
    <3>2. QED BY <2>6, <3>1 DEF MagnitudesChosen, BestSoFar, BestOfEachType
  <2>7. CASE ReadStations
    BY <2>7, <2>same DEF ReadStations
  <2>8. CASE StationsRead
    BY <2>8 DEF StationsRead, work, BestSoFar, BestOfEachType
  <2>9. CASE BuildEvent
    BY <2>9 DEF BuildEvent, Respond, BestSoFar, BestOfEachType
  <2>10. CASE LoseConnection
    BY <2>10, <2>begin DEF LoseConnection, Respond, BestSoFar, BestOfEachType
  <2>11. CASE UNCHANGED vars
    BY <2>11, <2>same DEF vars
  <2>12. QED BY <2>1, <2>2, <2>3, <2>4, <2>5, <2>6, <2>7, <2>8, <2>9, <2>10,
                <2>11 DEF Next
<1>3. QED BY <1>1, <1>2, TypeCorrect, PTL DEF Spec

\* When the stations are read, the kept magnitudes are the best of the rows
\* one statement listed, for any revisions and any commits.
THEOREM KeepsTheBest == Spec => []BestOfEachType
<1>1. BestSoFar => BestOfEachType
  BY DEF BestSoFar
<1>2. QED BY <1>1, BestSoFarInvariant, PTL

-----------------------------------------------------------------------------
(* What is shown and what is compared with it.                             *)

\* The types survive the way to the screen and back.
LEMMA TypesRoundTrip ==
    ASSUME NEW type \in DOMAIN EventTypeName
    PROVE  eventTypeFromString(EventTypeName[type]) = type
<1>1. ASSUME NEW t \in DOMAIN EventTypeName, EventTypeName[t] = EventTypeName[type]
      PROVE  t = type
  BY <1>1 DEF EventTypeName
<1>2. QED BY <1>1 DEF eventTypeFromString

\* A type that is read has a spelling that is read back.
LEMMA KnownTypesAreNamed ==
    ASSUME NEW code PROVE KnownEventType(code) \in DOMAIN EventTypeName
BY DEF KnownEventType, EventType, EventTypeName

\* What an answer shows is the event row of the first statement, and an
\* answer is there only while nothing is being read.
Shown ==
    answer.kind = "event" =>
        /\ pc = "idle"
        /\ Expected = Solution(read)
        /\ \E o \in answer.origins : o.preferred /\ o.id = read.event.prefor

\* The event that is built shows the solution it was built of.
LEMMA BuiltIsShown ==
    ASSUME NEW r, IsFiniteSet(r.origins), NEW magnitudes, NEW observations,
           ReadEvent(r, magnitudes, observations).kind = "event"
    PROVE  LET e == ReadEvent(r, magnitudes, observations)
           IN /\ e.prefor = r.event.prefor /\ e.prefmag = r.event.prefmag
              /\ eventTypeFromString(e.type) = KnownEventType(r.event.type)
              /\ \E o \in e.origins : o.preferred /\ o.id = r.event.prefor
<1> DEFINE e == ReadEvent(r, magnitudes, observations)
<1>1. ~Unreadable(r)
  BY DEF ReadEvent, Refused, NoAnswer
<1>2. \E o \in r.origins : o.id = r.event.prefor
  <2> DEFINE S == {o \in r.origins : o.id = r.event.prefor}
  <2>1. Cardinality(S) = 1
    BY <1>1 DEF Unreadable, OriginsSet
  <2>2. S # {}
    BY <2>1, FS_EmptySet
  <2>3. QED BY <2>2
<1>3. /\ e.prefor = r.event.prefor /\ e.prefmag = r.event.prefmag
      /\ e.type = EventTypeName[KnownEventType(r.event.type)]
      /\ e.origins = {OriginToJSON(r, o, magnitudes, observations) : o \in r.origins}
  BY <1>1 DEF ReadEvent, EventToJSON
<1>4. \E o \in e.origins : o.preferred /\ o.id = r.event.prefor
  <2>1. PICK o \in r.origins : o.id = r.event.prefor
    BY <1>2
  <2>2. OriginToJSON(r, o, magnitudes, observations) \in e.origins
    BY <1>3
  <2>3. QED BY <2>1, <2>2 DEF OriginToJSON
<1>5. QED BY <1>3, <1>4, TypesRoundTrip, KnownTypesAreNamed

\* Every answer shows the solution it was built of.
LEMMA ShownInvariant == Spec => []Shown
<1>1. Init => Shown
  <2>1. ASSUME Init PROVE answer.kind = "none"
    BY <2>1 DEF Init, NoAnswer
  <2>2. QED BY <2>1 DEF Shown
<1>2. TypeOK /\ Shown /\ [Next]_vars => Shown'
  <2> SUFFICES ASSUME TypeOK, Shown, [Next]_vars, answer'.kind = "event"
               PROVE  /\ pc' = "idle"
                      /\ Expected' = Solution(read)'
                      /\ \E o \in answer'.origins :
                            o.preferred /\ o.id = read'.event.prefor
    BY DEF Shown
  <2>begin. ASSUME NEW again \in BOOLEAN, Begin(again) PROVE FALSE
    BY <2>begin DEF Begin, NoAnswer
  <2>same. ASSUME UNCHANGED <<pc, read, answer>>
           PROVE  /\ pc' = "idle"
                  /\ Expected' = Solution(read)'
                  /\ \E o \in answer'.origins :
                        o.preferred /\ o.id = read'.event.prefor
    BY <2>same DEF Shown, Expected, Solution
  <2>1. CASE Commit
    BY <2>1, <2>same DEF Commit, work
  <2>2. CASE Ask
    BY <2>2, <2>begin DEF Ask
  <2>3. CASE ReadOrigins
    BY <2>3 DEF ReadOrigins, Respond, Shown, NotFound, NoAnswer
  <2>4. CASE ReadMagnitudes \/ ChooseMagnitude \/ MagnitudesChosen
    BY <2>4 DEF ReadMagnitudes, ChooseMagnitude, MagnitudesChosen, Shown
  <2>5. CASE ReadStations \/ StationsRead
    BY <2>5 DEF ReadStations, StationsRead, Shown
  <2>6. CASE BuildEvent
    <3>1. /\ pc' = "idle" /\ read' = read
          /\ answer' = ReadEvent(read, chosen, stations)
      BY <2>6 DEF BuildEvent, Respond, work
    <3>2. IsFiniteSet(read.origins)
      <4>1. CASE read \in Revisions
        BY <4>1, ConstantsAssumption
      <4>2. CASE read = NothingRead
        BY <4>2, FS_EmptySet DEF NothingRead
      <4>3. QED BY <4>1, <4>2 DEF TypeOK
    <3>3. QED BY <3>1, <3>2, BuiltIsShown DEF Expected, Solution
  <2>7. CASE LoseConnection
    BY <2>7, <2>begin DEF LoseConnection, Respond, Refused, NoAnswer
  <2>8. CASE UNCHANGED vars
    BY <2>8, <2>same DEF vars
  <2>9. QED BY <2>1, <2>2, <2>3, <2>4, <2>5, <2>6, <2>7, <2>8 DEF Next
<1>3. QED BY <1>1, <1>2, TypeCorrect, PTL DEF Spec

\* What the screen shows, sent back, matches the event while its row is what
\* it was, and matches no event with another preferred origin.
THEOREM ShownMatches == Spec => []ShownSolutionMatches
<1>1. Shown => ShownSolutionMatches
  <2> SUFFICES ASSUME Shown, answer.kind = "event"
               PROVE  /\ revision.event = read.event => Expected = Solution(revision)
                      /\ Expected = Solution(revision) =>
                            \E o \in answer.origins :
                               o.preferred /\ o.id = revision.event.prefor
    BY DEF ShownSolutionMatches
  <2>1. Expected = Solution(read)
    BY DEF Shown
  <2>2. Expected = Solution(revision) => revision.event.prefor = read.event.prefor
    BY <2>1 DEF Solution
  <2>3. QED BY <2>1, <2>2 DEF Shown, Solution
<1>2. QED BY <1>1, ShownInvariant, PTL

-----------------------------------------------------------------------------
(* What is answered, of which rows.                                        *)

\* The magnitudes whose stations are read.
Stationed(magnitudes) == {c \in magnitudes : Type(c) \in {"local", "duration"}}

\* What the statements for the stations of these magnitudes return of one
\* revision.
StationsOf(r, magnitudes) == UNION {StationRows(r, m) : m \in magnitudes}

\* Along the way of a read nobody disturbs: every statement saw the revision
\* the first one saw, and the stations are those of the magnitudes no longer
\* pending.
QuietSoFar ==
    /\ pc \in {"origins", "magnitudes", "choose"} => stations = {}
    /\ quiet /\ pc \in Pc \ {"idle", "origins"} =>
          read = revision /\ read.event # NoEvent
    /\ quiet /\ pc \in {"choose", "stations"} => listed = read
    /\ pc = "stations" => pending \subseteq Stationed(chosen)
    /\ quiet /\ pc = "stations" =>
          stations = StationsOf(read, Stationed(chosen) \ pending)
    /\ quiet /\ pc = "build" =>
          /\ read.origins = {} \/ listed = read
          /\ stations = StationsOf(read, Stationed(chosen))
    /\ QuietReadsAreWhole

\* Without origins there are no magnitudes, whatever else was read.
LEMMA NoOriginsNoMagnitudes ==
    ASSUME NEW r, NEW s, r.origins = {}
    PROVE  Candidates(s, Identifiers(r)) = {}
BY DEF Candidates, NetmagQuery, Identifiers

\* What is built of one revision alone is that revision, whole.
LEMMA BuiltIsWhole ==
    ASSUME NEW r, r.event # NoEvent
    PROVE  LET best == Best(Candidates(r, Identifiers(r)))
           IN ReadEvent(r, best, StationsOf(r, Stationed(best))) = Whole(r)
BY DEF Whole, Stationed, StationsOf

\* Every step of a read nobody disturbs keeps to one revision.
LEMMA QuietSoFarInvariant == Spec => []QuietSoFar
<1>1. Init => QuietSoFar
  <2>1. ASSUME Init PROVE answer.kind = "none"
    BY <2>1 DEF Init, NoAnswer
  <2>2. QED BY <2>1 DEF Init, QuietSoFar, QuietReadsAreWhole
<1>2. TypeOK /\ BestSoFar /\ QuietSoFar /\ [Next]_vars => QuietSoFar'
  <2> SUFFICES ASSUME TypeOK, BestSoFar, QuietSoFar, [Next]_vars
               PROVE  QuietSoFar'
    OBVIOUS
  <2> USE DEF Pc
  <2>begin. ASSUME NEW again \in BOOLEAN, Begin(again) PROVE QuietSoFar'
    BY <2>begin DEF Begin, QuietSoFar, QuietReadsAreWhole
  <2>refused. ASSUME Respond(Refused) PROVE QuietSoFar'
    BY <2>refused DEF Respond, Refused, NoAnswer, QuietSoFar, QuietReadsAreWhole
  <2>1. CASE Commit
    BY <2>1 DEF Commit, work, QuietSoFar, QuietReadsAreWhole
  <2>2. CASE Ask
    BY <2>2, <2>begin DEF Ask
  <2>3. CASE ReadOrigins
    <3>1. /\ pc = "origins" /\ stations = {} /\ stations' = {}
          /\ read' = revision /\ revision' = revision /\ chosen' = {} /\ chosen = {}
      BY <2>3 DEF ReadOrigins, QuietSoFar, BestSoFar
    <3>2. CASE revision.event = NoEvent
      <4>1. pc' = "idle" /\ answer' = NotFound /\ Whole(revision) = NotFound
        BY <2>3, <3>2 DEF ReadOrigins, Respond, Whole
      <4>2. QED BY <3>1, <4>1 DEF QuietSoFar, QuietReadsAreWhole
    <3>3. CASE revision.event # NoEvent
      <4>1. \/ pc' = "build" /\ revision.origins = {}
            \/ pc' = "magnitudes"
        BY <2>3, <3>3 DEF ReadOrigins
      <4>2. StationsOf(revision, Stationed({})) = {}
        BY DEF StationsOf, Stationed
      <4>3. QED BY <3>1, <3>3, <4>1, <4>2 DEF QuietSoFar, QuietReadsAreWhole
    <3>4. QED BY <3>2, <3>3
  <2>4. CASE ReadMagnitudes
    <3>1. /\ pc = "magnitudes" /\ pc' = "choose" /\ listed' = revision
          /\ UNCHANGED <<read, revision, stations, quiet>>
      BY <2>4 DEF ReadMagnitudes
    <3>2. QED BY <3>1 DEF QuietSoFar, QuietReadsAreWhole
  <2>5. CASE ChooseMagnitude
    <3>1. /\ pc = "choose" /\ pc' = "choose"
          /\ UNCHANGED <<read, revision, listed, stations, quiet>>
      BY <2>5 DEF ChooseMagnitude
    <3>2. QED BY <3>1 DEF QuietSoFar, QuietReadsAreWhole
  <2>6. CASE MagnitudesChosen
    <3>1. /\ pc = "choose" /\ pc' = "stations" /\ pending' = Stationed(chosen)
          /\ UNCHANGED <<read, revision, listed, chosen, stations, quiet>>
      BY <2>6 DEF MagnitudesChosen, Stationed
    <3>2. StationsOf(read, Stationed(chosen) \ pending') = {}
      BY <3>1 DEF StationsOf
    <3>3. QED BY <3>1, <3>2 DEF QuietSoFar, QuietReadsAreWhole
  <2>7. CASE ReadStations
    <3>1. PICK m \in pending : /\ pending' = pending \ {m}
                               /\ stations' = stations \cup StationRows(revision, m)
      BY <2>7 DEF ReadStations
    <3>2. /\ pc = "stations" /\ pc' = "stations"
          /\ UNCHANGED <<read, revision, listed, chosen, quiet>>
      BY <2>7 DEF ReadStations
    <3>3. pending \subseteq Stationed(chosen)
      BY <3>2 DEF QuietSoFar
    <3>4. StationsOf(read, Stationed(chosen) \ pending') =
             StationsOf(read, Stationed(chosen) \ pending) \cup StationRows(read, m)
      BY <3>1, <3>3 DEF StationsOf
    <3>5. QED BY <3>1, <3>2, <3>3, <3>4 DEF QuietSoFar, QuietReadsAreWhole
  <2>8. CASE StationsRead
    <3>1. /\ pc = "stations" /\ pending = {} /\ pc' = "build"
          /\ UNCHANGED <<read, revision, listed, chosen, stations, quiet>>
      BY <2>8 DEF StationsRead, work
    <3>2. QED BY <3>1 DEF QuietSoFar, QuietReadsAreWhole
  <2>9. CASE BuildEvent
    <3>1. /\ pc = "build" /\ pc' = "idle"
          /\ answer' = ReadEvent(read, chosen, stations)
          /\ UNCHANGED <<read, quiet>>
      BY <2>9 DEF BuildEvent, Respond, work
    <3>2. ASSUME quiet PROVE answer' = Whole(read)
      <4>1. /\ read.event # NoEvent
            /\ read.origins = {} \/ listed = read
            /\ stations = StationsOf(read, Stationed(chosen))
        BY <3>1, <3>2 DEF QuietSoFar
      <4>2. chosen = Best(Candidates(listed, Identifiers(read)))
        BY <3>1 DEF BestSoFar, BestOfEachType
      <4>3. Candidates(listed, Identifiers(read)) =
               Candidates(read, Identifiers(read))
        BY <4>1, NoOriginsNoMagnitudes
      <4>4. QED BY <3>1, <4>1, <4>2, <4>3, BuiltIsWhole
    <3>3. QED BY <3>1, <3>2 DEF QuietSoFar, QuietReadsAreWhole
  <2>10. CASE LoseConnection
    BY <2>10, <2>begin, <2>refused DEF LoseConnection
  <2>11. CASE UNCHANGED vars
    BY <2>11 DEF vars, QuietSoFar, QuietReadsAreWhole
  <2>12. QED BY <2>1, <2>2, <2>3, <2>4, <2>5, <2>6, <2>7, <2>8, <2>9, <2>10,
                <2>11 DEF Next
<1>3. QED BY <1>1, <1>2, TypeCorrect, BestSoFarInvariant, PTL DEF Spec

\* A read during which nobody commits answers what AQMS held, whole, however
\* many magnitudes and stations there are and however often it began again.
THEOREM QuietReadsWhole == Spec => []QuietReadsAreWhole
<1>1. QuietSoFar => QuietReadsAreWhole
  BY DEF QuietSoFar
<1>2. QED BY <1>1, QuietSoFarInvariant, PTL

-----------------------------------------------------------------------------
(* The catalog and the detail.                                             *)

\* An event that is answered was built of rows that are still held, and its
\* magnitudes are among those listed.
BuiltOfRows ==
    /\ answer.kind = "event" =>
          /\ pc = "idle"
          /\ answer = ReadEvent(read, chosen, stations)
    /\ pc \in {"stations", "build"} \/ answer.kind = "event" =>
          chosen \subseteq Candidates(listed, Identifiers(read))

\* What is answered is built of committed rows, in every state.
LEMMA BuiltOfRowsInvariant == Spec => []BuiltOfRows
<1>1. Init => BuiltOfRows
  <2>1. ASSUME Init PROVE answer.kind = "none"
    BY <2>1 DEF Init, NoAnswer
  <2>2. QED BY <2>1 DEF Init, BuiltOfRows
<1>2. BestSoFar /\ BestSoFar' /\ BuiltOfRows /\ [Next]_vars => BuiltOfRows'
  <2> SUFFICES ASSUME BestSoFar, BestSoFar', BuiltOfRows, [Next]_vars
               PROVE  BuiltOfRows'
    OBVIOUS
  <2>best. pc' \in {"stations", "build"} =>
              chosen' \subseteq Candidates(listed', Identifiers(read'))
    BY DEF BestSoFar, BestOfEachType, Best, Candidates, Identifiers
  <2>begin. ASSUME NEW again \in BOOLEAN, Begin(again) PROVE BuiltOfRows'
    BY <2>begin DEF Begin, NoAnswer, BuiltOfRows
  <2>1. CASE Commit
    BY <2>1 DEF Commit, work, BuiltOfRows
  <2>2. CASE Ask
    BY <2>2, <2>begin DEF Ask
  <2>3. CASE ReadOrigins
    BY <2>3, <2>best DEF ReadOrigins, Respond, NotFound, NoAnswer, BuiltOfRows
  <2>4. CASE ReadMagnitudes \/ ChooseMagnitude \/ MagnitudesChosen \/ ReadStations
    BY <2>4, <2>best
       DEF ReadMagnitudes, ChooseMagnitude, MagnitudesChosen, ReadStations,
           BuiltOfRows
  <2>5. CASE StationsRead
    BY <2>5, <2>best DEF StationsRead, work, BuiltOfRows
  <2>6. CASE BuildEvent
    BY <2>6 DEF BuildEvent, Respond, work, BuiltOfRows
  <2>7. CASE LoseConnection
    BY <2>7, <2>begin
       DEF LoseConnection, Respond, Refused, NoAnswer, BuiltOfRows
  <2>8. CASE UNCHANGED vars
    BY <2>8 DEF vars, BuiltOfRows
  <2>9. QED BY <2>1, <2>2, <2>3, <2>4, <2>5, <2>6, <2>7, <2>8 DEF Next
<1>3. QED BY <1>1, <1>2, BestSoFarInvariant, PTL DEF Spec

\* A magnitude listed of a revision is the value the catalog joins to it.
LEMMA ListedIsSummed ==
    ASSUME NEW r, NEW ids, NEW c \in Candidates(r, ids), NEW o,
           c.id = r.event.prefmag
    PROVE  [magnitude |-> c.magnitude, type |-> Type(c)]
              \in EventSummary(r, o).magnitudes
<1>1. PICK n \in r.netmags :
         c = [id |-> n.id, origin |-> n.origin, type |-> n.type,
              rflag |-> n.rflag, magnitude |-> n.magnitude,
              valued |-> n.valued,
              preferred |-> \E p \in r.origins : p.id = n.origin /\ p.prefmag = n.id]
  BY DEF Candidates, NetmagQuery
<1>2. c.valued
  BY DEF Candidates, Modelled
<1>3. /\ n.id = c.id /\ n.magnitude = c.magnitude /\ Type(n) = Type(c)
      /\ n.valued
  BY <1>1, <1>2 DEF Type
<1>4. QED BY <1>1, <1>3 DEF EventSummary

\* The catalog and the detail of an event, read of the same revision, say the
\* same of its preferred origin and of its preferred magnitude.
THEOREM CatalogAgreesWithDetail == Spec => []CatalogAndDetailAgree
<1>1. TypeOK /\ BuiltOfRows => CatalogAndDetailAgree
  <2> SUFFICES ASSUME TypeOK, BuiltOfRows, answer.kind = "event"
               PROVE  \E o \in read.origins : \E shown \in answer.origins :
                  /\ shown.preferred /\ shown.id = o.id
                  /\ LET summary == SummaryToJSON(EventSummary(read, o))
                     IN /\ summary.type = answer.type
                        /\ summary.gtype = shown.gtype
                        /\ summary.status = shown.status
                        /\ summary.ndef = shown.ndef
                        /\ listed = read =>
                              \A origin \in answer.origins :
                                  \A m \in origin.magnitudes :
                                      m.id = answer.prefmag =>
                                          [magnitude |-> m.magnitude,
                                           type |-> m.type] \in summary.magnitudes
    BY DEF CatalogAndDetailAgree
  <2>1. /\ answer = ReadEvent(read, chosen, stations)
        /\ chosen \subseteq Candidates(listed, Identifiers(read))
    BY DEF BuiltOfRows
  <2>2. ~Unreadable(read)
    BY <2>1 DEF ReadEvent, Refused, NoAnswer
  <2>3. /\ answer.type = EventTypeName[KnownEventType(read.event.type)]
        /\ answer.prefmag = read.event.prefmag
        /\ answer.origins = {OriginToJSON(read, o, chosen, stations) :
                                o \in read.origins}
    BY <2>1, <2>2 DEF ReadEvent, EventToJSON
  <2>4. PICK o \in read.origins : o.id = read.event.prefor
    <3> DEFINE S == {o \in read.origins : o.id = read.event.prefor}
    <3>1. Cardinality(S) = 1
      BY <2>2 DEF Unreadable, OriginsSet
    <3>2. S # {}
      BY <3>1, FS_EmptySet
    <3>3. QED BY <3>2
  <2>5. o.ndef # 0 /\ o.ndef \in Nat \cup {-1}
    <3>1. read \in Revision
      BY <2>4, ConstantsAssumption DEF TypeOK, NothingRead
    <3>2. QED BY <2>2, <2>4, <3>1 DEF Unreadable, OriginReads, Revision, OriginRow
  <2> DEFINE shown == OriginToJSON(read, o, chosen, stations)
             summary == SummaryToJSON(EventSummary(read, o))
  <2>6. /\ shown \in answer.origins /\ shown.preferred /\ shown.id = o.id
        /\ shown.gtype = Entry(GeographicType, o.gtype)
        /\ shown.status = Entry(ReviewStatus, o.rflag)
        /\ shown.ndef = o.ndef
    BY <2>3, <2>4 DEF OriginToJSON
  <2>7. /\ summary.type = EventTypeName[KnownEventType(read.event.type)]
        /\ summary.gtype = Entry(GeographicType, o.gtype)
        /\ summary.status = Entry(ReviewStatus, o.rflag)
        /\ summary.ndef = IF o.ndef > 0 THEN o.ndef ELSE -1
        /\ summary.magnitudes = EventSummary(read, o).magnitudes
    BY DEF SummaryToJSON, EventSummary
  <2>8. ASSUME listed = read, NEW origin \in answer.origins,
               NEW m \in origin.magnitudes, m.id = answer.prefmag
        PROVE  [magnitude |-> m.magnitude, type |-> m.type]
                  \in EventSummary(read, o).magnitudes
    <3>1. PICK p \in read.origins : origin = OriginToJSON(read, p, chosen, stations)
      BY <2>3
    <3>2. PICK c \in chosen : m = MagnitudeToJSON(c, stations)
      BY <3>1 DEF OriginToJSON, MagnitudesSet
    <3>3. m.id = c.id /\ m.magnitude = c.magnitude /\ m.type = Type(c)
      BY <3>2 DEF MagnitudeToJSON
    <3>4. c \in Candidates(read, Identifiers(read)) /\ c.id = read.event.prefmag
      BY <2>1, <2>3, <2>8, <3>3
    <3>5. QED BY <3>3, <3>4, ListedIsSummed
  <2> HIDE DEF shown, summary
  <2>9. QED BY <2>3, <2>4, <2>5, <2>6, <2>7, <2>8 DEF summary
<1>2. QED BY <1>1, TypeCorrect, BuiltOfRowsInvariant, PTL
=============================================================================
