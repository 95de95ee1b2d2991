----------------------------- MODULE Waveforms ------------------------------
(***************************************************************************)
(* The waveforms of an event: the handler threads of one backend, the file  *)
(* roots they share under mFileRootsMutex, and the table of roots in AQMS,  *)
(* which is turned over every so often.                                     *)
(*                                                                         *)
(* Time is counted in years, an event is known by the year of its origin,   *)
(* and the archive of a year is where the roots AQMS holds put it.  A call  *)
(* of Client::execute is one step, which may throw because the connection   *)
(* is lost or because the server refuses the statement; what the client     *)
(* does in between is in Client.                                            *)
(***************************************************************************)
EXTENDS MiniSeed

CONSTANTS
    Threads,        \* the handler threads
    MaxYear,        \* bound on the years that pass
    Arrivals,       \* the sequences of streams an origin may be picked on
    NoStream,       \* an arrival without a stream
    Archive,        \* Archive[s]: what the files of stream s may hold
    MaxMisled       \* bound on the counting of misled

Free == "free"

ASSUME WaveformsAssumption ==
    /\ MaxYear \in Nat \ {0}
    /\ MaxMisled \in Nat
    /\ Free \notin Threads
    /\ \A a \in Arrivals : a \in Seq(DOMAIN Archive \cup {NoStream})

\* A file is a sequence of records.
ASSUME ArchiveAssumption ==
    \A s \in DOMAIN Archive : Archive[s] \subseteq Seq(MiniSeedRecord)

VARIABLES
    year,           \* now
    waveroots,      \* the active rows of AQMS's table
    fileRoots,      \* mFileRoots
    mutex,          \* mFileRootsMutex: the thread that holds it, or Free
    pc,             \* pc[t]: what thread t does next
    origin,         \* origin[t]: the year of the event t was asked for
    todo,           \* todo[t]: the streams queryWaveforms has still to fetch
    read,           \* read[t]: the roots t has read and not yet stored
    root,           \* root[t]: where t will look for the file
    got,            \* got[t]: the files unpacked, [file, waveform]
    skipped,        \* skipped[t]: why streams were skipped
    answer,         \* answer[t]: the response
    misled          \* history: how many files were looked for under a root
                    \* that is not AQMS's, since the last turnover

roots == <<year, waveroots, fileRoots, misled>>
fetching == <<mutex, pc, origin, todo, read, root, got, skipped, answer>>
waveformVars == <<year, waveroots, fileRoots, mutex, pc, origin, todo, read,
                  root, got, skipped, answer, misled>>

Streams == DOMAIN Archive

Unasked == 0

Years == 1 .. MaxYear

\* Why a stream is skipped: no root covers the origin, or anything else - no
\* connection, a refused statement, no file, no data, data that are no
\* waveform.
Reasons == {"no root", "failed"}

\* seconds::max().
Forever == MaxYear + 2

FileRoot == [onTime : Years, offTime : 2 .. Forever, fileRoot : Years]

-----------------------------------------------------------------------------
(* The roots.                                                              *)

\* A root is known by the year it was added.
NewRoot(on, off) == [onTime |-> on, offTime |-> off, fileRoot |-> on]

Covering(table, y) == {w \in table : y >= w.onTime /\ y < w.offTime}

\* Mutant: the end of the window is not looked at.
SearchFrom(table, y) ==
    {w.fileRoot : w \in {v \in table : y >= v.onTime
                          /\ \A x \in table : y >= x.onTime => v.onTime <= x.onTime}}

\* search(): the first that covers, in the order of onTime.
Search(table, y) ==
    {w.fileRoot : w \in {v \in Covering(table, y) :
                          \A x \in Covering(table, y) : v.onTime <= x.onTime}}

\* Where AQMS says that the files of a year are.
ArchiveOf(y) == {w.fileRoot : w \in Covering(waveroots, y)}

-----------------------------------------------------------------------------
(* The responses.                                                          *)

NoAnswer == [status |-> 0, body |-> <<>>]

Message(status) == [status |-> status, body |-> <<>>]

\* makeWaveformResponse without the filter.
MakeWaveformResponse(t, encoding) ==
    [status |-> 200,
     body   |-> [i \in DOMAIN got[t] |->
                   WaveformToJSON(got[t][i].waveform, encoding)]]

\* streamsFromArrivals: each stream once, in the order of the arrivals.
StreamsFromArrivals(arrivals) ==
    LET First == {i \in DOMAIN arrivals :
                    /\ arrivals[i] # NoStream
                    /\ \A j \in 1 .. i - 1 : arrivals[j] # arrivals[i]}
        nth[n \in 1 .. Cardinality(First)] ==
          CHOOSE i \in First : Cardinality({j \in First : j <= i}) = n
    IN  [n \in 1 .. Cardinality(First) |-> arrivals[nth[n]]]

-----------------------------------------------------------------------------
\* No request is being served.
Quiet ==
    /\ mutex = Free
    /\ pc = [t \in Threads |-> "idle"]
    /\ origin = [t \in Threads |-> Unasked]
    /\ todo = [t \in Threads |-> <<>>]
    /\ read = [t \in Threads |-> {}]
    /\ root = [t \in Threads |-> Unasked]
    /\ got = [t \in Threads |-> <<>>]
    /\ skipped = [t \in Threads |-> {}]
    /\ answer = [t \in Threads |-> NoAnswer]

\* The requests are gone with the process that served them.
FallQuiet ==
    /\ mutex' = Free
    /\ pc' = [t \in Threads |-> "idle"]
    /\ origin' = [t \in Threads |-> Unasked]
    /\ todo' = [t \in Threads |-> <<>>]
    /\ read' = [t \in Threads |-> {}]
    /\ root' = [t \in Threads |-> Unasked]
    /\ got' = [t \in Threads |-> <<>>]
    /\ skipped' = [t \in Threads |-> {}]
    /\ answer' = [t \in Threads |-> NoAnswer]

\* The constructor reads the roots once, and goes on if it cannot.
WaveformsInit ==
    /\ year = 1
    /\ \E off \in {2, Forever} : waveroots = {NewRoot(1, off)}
    /\ fileRoots \in {{}, waveroots}
    /\ misled = 0
    /\ Quiet

-----------------------------------------------------------------------------
(* AQMS.                                                                   *)

\* The new year's root closes the window that was left open.
Turnover ==
    /\ year < MaxYear
    /\ year' = year + 1
    /\ \E off \in {year + 2, Forever} :
          waveroots' = {[w EXCEPT !.offTime = IF @ = Forever THEN year + 1 ELSE @] :
                          w \in waveroots}
                       \cup {NewRoot(year + 1, off)}
    /\ misled' = 0
    /\ UNCHANGED <<fileRoots, fetching>>

\* A year goes by in which nobody adds a root.
Lapse ==
    /\ year < MaxYear
    /\ year' = year + 1
    /\ UNCHANGED <<waveroots, fileRoots, misled, fetching>>

-----------------------------------------------------------------------------
(* The route's handler, once the caller is authorized.                     *)

Respond(t, response) ==
    /\ pc' = [pc EXCEPT ![t] = "answered"]
    /\ answer' = [answer EXCEPT ![t] = response]

Ask(t) ==
    /\ pc[t] = "idle"
    /\ \E y \in 1 .. year : origin' = [origin EXCEPT ![t] = y]
    /\ pc' = [pc EXCEPT ![t] = "event"]
    /\ UNCHANGED <<roots, mutex, todo, read, root, got, skipped, answer>>

\* getEvent, and the streams of the preferred origin's arrivals.
GetEvent(t) ==
    /\ pc[t] = "event"
    /\ \/ /\ \E status \in {404, 500} : Respond(t, Message(status))
          /\ UNCHANGED todo
       \/ \E arrivals \in Arrivals :
             LET streams == StreamsFromArrivals(arrivals)
             IN  IF streams = <<>>
                 THEN Respond(t, Message(404)) /\ UNCHANGED todo
                 ELSE /\ todo' = [todo EXCEPT ![t] = streams]
                      /\ pc' = [pc EXCEPT ![t] = "lock"]
                      /\ UNCHANGED answer
    /\ UNCHANGED <<roots, mutex, origin, read, root, got, skipped>>

\* Mutant: no scoped_lock.
LockNothing(t) ==
    /\ pc[t] = "lock"
    /\ mutex' = t
    /\ pc' = [pc EXCEPT ![t] = "file"]
    /\ UNCHANGED <<roots, origin, todo, read, root, got, skipped, answer>>

\* fetchWaveforms holds the mutex until every stream was tried.
Lock(t) ==
    /\ pc[t] = "lock"
    /\ mutex = Free
    /\ mutex' = t
    /\ pc' = [pc EXCEPT ![t] = "file"]
    /\ UNCHANGED <<roots, origin, todo, read, root, got, skipped, answer>>

\* The end of one turn of the loop.
NextStream(t) ==
    /\ todo' = [todo EXCEPT ![t] = Tail(@)]
    /\ pc' = [pc EXCEPT ![t] = IF Len(todo[t]) = 1 THEN "unlock" ELSE "file"]

\* queryWaveforms catches every exception and goes to the next stream.
Skip(t, reason) ==
    /\ NextStream(t)
    /\ skipped' = [skipped EXCEPT ![t] = @ \cup {reason}]
    /\ UNCHANGED <<root, got>>

LookUnder(t, place) ==
    /\ root' = [root EXCEPT ![t] = place]
    /\ pc' = [pc EXCEPT ![t] = "bytes"]
    /\ UNCHANGED <<todo, got, skipped>>

\* Mutant: a miss counts without reading the table again.
FindFileOnceRead(t) ==
    /\ pc[t] = "file"
    /\ \/ Skip(t, "failed")
       \/ IF Covering(fileRoots, origin[t]) # {}
          THEN \E place \in Search(fileRoots, origin[t]) : LookUnder(t, place)
          ELSE Skip(t, "no root")
    /\ UNCHANGED <<roots, mutex, origin, read, answer>>

\* WAVEFORM_FILE_QUERY, and the search of the roots that are held.
FindFile(t) ==
    /\ pc[t] = "file"
    /\ \/ Skip(t, "failed")
       \/ IF Covering(fileRoots, origin[t]) # {}
          THEN \E place \in Search(fileRoots, origin[t]) : LookUnder(t, place)
          ELSE /\ pc' = [pc EXCEPT ![t] = "roots"]
               /\ UNCHANGED <<todo, root, got, skipped>>
    /\ UNCHANGED <<roots, mutex, origin, read, answer>>

\* getFileRoots, because what is held does not cover the origin.
ReadRoots(t) ==
    /\ pc[t] = "roots"
    /\ \/ /\ Skip(t, "failed")
          /\ UNCHANGED read
       \/ /\ read' = [read EXCEPT ![t] = waveroots]
          /\ pc' = [pc EXCEPT ![t] = "store"]
          /\ UNCHANGED <<todo, root, got, skipped>>
    /\ UNCHANGED <<roots, mutex, origin, answer>>

\* The assignment, and the second search.
StoreRoots(t) ==
    /\ pc[t] = "store"
    /\ fileRoots' = read[t]
    /\ read' = [read EXCEPT ![t] = {}]
    /\ IF Covering(read[t], origin[t]) # {}
       THEN \E place \in Search(read[t], origin[t]) : LookUnder(t, place)
       ELSE Skip(t, "no root")
    /\ UNCHANGED <<year, waveroots, misled, mutex, origin, answer>>

\* WAVEFORM_BLOB_QUERY and unpack.  A file is found under AQMS's root only.
ReadFile(t) ==
    /\ pc[t] = "bytes"
    /\ \/ Skip(t, "failed")
       \/ /\ root[t] \in ArchiveOf(origin[t])
          /\ \E file \in Archive[Head(todo[t])] :
                \/ /\ ReadArchiveFile(file) = {}
                   /\ Skip(t, "failed")
                \/ \E waveform \in ReadArchiveFile(file) :
                      /\ got' = [got EXCEPT ![t] =
                                   Append(@, [file |-> file, waveform |-> waveform])]
                      /\ NextStream(t)
                      /\ UNCHANGED <<root, skipped>>
    /\ misled' = IF root[t] \in ArchiveOf(origin[t]) \/ misled = MaxMisled
                 THEN misled ELSE misled + 1
    /\ UNCHANGED <<year, waveroots, fileRoots, mutex, origin, read, answer>>

\* The guard's destructor, and the response.
Unlock(t) ==
    /\ pc[t] = "unlock"
    /\ mutex' = Free
    /\ \/ /\ got[t] = <<>>
          /\ Respond(t, Message(404))
       \/ /\ got[t] # <<>>
          /\ \E encoding \in Encodings : Respond(t, MakeWaveformResponse(t, encoding))
    /\ UNCHANGED <<roots, origin, todo, read, root, got, skipped>>

\* The thread is given back to Crow.
Return(t) ==
    /\ pc[t] = "answered"
    /\ pc' = [pc EXCEPT ![t] = "idle"]
    /\ origin' = [origin EXCEPT ![t] = Unasked]
    /\ root' = [root EXCEPT ![t] = Unasked]
    /\ got' = [got EXCEPT ![t] = <<>>]
    /\ skipped' = [skipped EXCEPT ![t] = {}]
    /\ answer' = [answer EXCEPT ![t] = NoAnswer]
    /\ UNCHANGED <<roots, mutex, todo, read>>

Step(t) ==
    \/ Ask(t) \/ GetEvent(t) \/ Lock(t) \/ FindFile(t) \/ ReadRoots(t)
    \/ StoreRoots(t) \/ ReadFile(t) \/ Unlock(t) \/ Return(t)

WaveformsNext == Turnover \/ Lapse \/ \E t \in Threads : Step(t)

WaveformsSpec == WaveformsInit /\ [][WaveformsNext]_waveformVars

-----------------------------------------------------------------------------
(* The properties.                                                         *)

Fetching == {"file", "roots", "store", "bytes", "unlock"}

PCs == {"idle", "event", "lock", "answered"} \cup Fetching

\* The values of the variables, but for what an archive file may hold.
WaveformsTypeOK ==
    /\ year \in Years
    /\ waveroots \subseteq FileRoot
    /\ fileRoots \subseteq FileRoot
    /\ mutex \in Threads \cup {Free}
    /\ pc \in [Threads -> PCs]
    /\ origin \in [Threads -> {Unasked} \cup 1 .. year]
    /\ DOMAIN todo = Threads
    /\ read \in [Threads -> SUBSET FileRoot]
    /\ root \in [Threads -> {Unasked} \cup Years]
    /\ DOMAIN got = Threads
    /\ skipped \in [Threads -> SUBSET Reasons]
    /\ DOMAIN answer = Threads
    /\ misled \in 0 .. MaxMisled

\* A file is looked for under a root that is not AQMS's only if the window
\* held is open-ended and AQMS has closed it since: a window whose end was
\* known when it was read never misleads (getFileRoot).
StaleOnlyIfOpenEnded ==
    \A t \in Threads :
       pc[t] = "bytes" /\ root[t] \notin ArchiveOf(origin[t]) =>
          \E w \in fileRoots : /\ w.fileRoot = root[t]
                               /\ w.offTime = Forever
                               /\ w \notin waveroots

\* A stream is given up for want of a root only if AQMS has none: a miss
\* re-reads the table before it counts (getFileRoot), though the roots held
\* may be none at all because the constructor could not read them.
NoRootMeansNone ==
    \A t \in Threads : "no root" \in skipped[t] => ArchiveOf(origin[t]) = {}

\* A thread that stores the roots it read never puts an older version of the
\* table in the place of a newer one: mFileRootsMutex spans the whole of
\* fetchWaveforms, so no other thread has stored in between.
HeldNeverRegress ==
    [][\A t \in Threads : pc[t] = "store" /\ pc'[t] \in Fetching =>
          {w.onTime : w \in fileRoots} \subseteq {w.onTime : w \in fileRoots'}]_waveformVars

\* "A stale root for one request a year": queryWaveform's trade.  A request
\* looks for a file for each of its streams; StaleRoots.cfg gives it one.
StaleRootForOneRequest == misled <= 1

-----------------------------------------------------------------------------
(* What an answer says of the files it was built from.                     *)

Answered == {t \in Threads : answer[t].status = 200}

\* What a client rebuilds from a segment: the running sum if it is delta
\* encoded.  The gain is still in it.
Rebuilt(samples) ==
    LET sum[i \in DOMAIN samples.data] ==
          samples.data[i] + (IF i = 1 THEN 0 ELSE sum[i - 1])
    IN  IF samples.deltaEncoded THEN sum ELSE samples.data

\* Within half a level of full scale; equal where nothing is quantized.
Rebuilds(samples, original) ==
    LET rebuilt == Rebuilt(samples)
    IN  /\ DOMAIN rebuilt = DOMAIN original
        /\ \A i \in DOMAIN original :
              IF samples.gain = <<1, 1>>
              THEN rebuilt[i] = original[i]
              ELSE Abs(rebuilt[i] * samples.gain[2] - original[i] * samples.gain[1])
                      <= samples.gain[2]

\* The record's samples are from the i-th of the segment on, and the first
\* of them is less than half a period off its own time.
IsAt(record, segment, i) ==
    /\ i + Len(record.samples) - 1 <= Len(segment.samples)
    /\ SubSeq(segment.samples, i, i + Len(record.samples) - 1) = record.samples
    /\ 2 * Abs(segment.start + (i - 1) * segment.period - record.start)
          < segment.period

\* Every packet of the archive that could be parsed is drawn where it
\* belongs in time, however many are joined into one segment (setSegments),
\* and there is nothing else in the segments.
EveryPacketInPlace ==
    \A t \in Answered : \A n \in DOMAIN got[t] :
       LET packets  == Segments(Parsed(got[t][n].file))
           segments == got[t][n].waveform.segments
       IN  /\ \A p \in DOMAIN packets : \E k \in DOMAIN segments :
                 \E i \in DOMAIN segments[k].samples :
                    IsAt(packets[p], segments[k], i)
           /\ \A k \in DOMAIN segments : \A i \in DOMAIN segments[k].samples :
                 \E p \in DOMAIN packets : \E j \in 1 .. i :
                    /\ i < j + Len(packets[p].samples)
                    /\ IsAt(packets[p], segments[k], j)

\* A client rebuilds every sample from what was sent, whatever encoding it
\* asked for and whatever was made of the request: exactly, or within half a
\* level of the full scale if it is quantized (writeSamples).
EverySampleRebuilt ==
    \A t \in Answered : \A n \in DOMAIN got[t] :
       LET original == got[t][n].waveform.segments
           sent     == answer[t].body[n].segments
       IN  /\ DOMAIN sent = DOMAIN original
           /\ \A k \in DOMAIN original :
                 Rebuilds(sent[k].samples, original[k].samples)
=============================================================================
