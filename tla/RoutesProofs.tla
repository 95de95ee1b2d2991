---------------------------- MODULE RoutesProofs ----------------------------
(***************************************************************************)
(* The theorems about a backend from its start to its end.  The file roots  *)
(* and the answers keep the invariants of WaveformsProofs over starts and   *)
(* crashes; the counters, the alarms and the locks have one each.           *)
(***************************************************************************)
EXTENDS Routes, WaveformsProofs

\* A thread with a request is past its dispatch, and in the waveforms'
\* handler only if that is the request; nobody serves while the process is
\* down.
ServeInv(t) ==
    /\ route[t] = None <=> stage[t] = "idle"
    /\ pc[t] # "idle" => stage[t] = "handler" /\ route[t] = Waveforms
    /\ process = "down" => route[t] = None
    /\ pc[t] = "answered" => answer[t].status \in {200, 404, 500}

Serving == \A t \in Threads : ServeInv(t)

RInv == IInv /\ TypeOK /\ Serving

-----------------------------------------------------------------------------
(* The file roots.                                                         *)

\* Every step is one of the waveforms' or leaves them alone, but for a start
\* and a crash.
LEMMA StepOfWaveforms ==
  ASSUME [Next]_vars
  PROVE  \/ [WaveformsNext]_waveformVars
         \/ Start
         \/ Crash
  <1>1. CASE Elsewhere
    BY <1>1 DEF Elsewhere, WaveformsNext
  <1>2. CASE Export
    BY <1>2 DEF Export
  <1>3. ASSUME NEW t \in Threads, Handle(t)
        PROVE  [WaveformsNext]_waveformVars
    <2>1. CASE Admit(t) \/ Fetch(t) \/ Fetched(t)
      BY <2>1 DEF Admit, Fetch, Fetched, WaveformsNext, Step
    <2>2. CASE ~(Admit(t) \/ Fetch(t) \/ Fetched(t))
      BY <1>3, <2>2 DEF Handle, Dispatch, Reject, Throw, List, ListLocks, ReadAlarms,
         Break, SkipDatabase, CommitAlarms, AnswerAlarms, GatherOnly, CountDenial,
         CountClientError, Count
    <2> QED
      BY <2>1, <2>2
  <1>4. CASE UNCHANGED vars
    BY <1>4 DEF vars, waveformVars
  <1> QED
    BY <1>1, <1>2, <1>3, <1>4 DEF Next

\* Nothing but fileRoots changes, and it becomes a part of AQMS's table.
LEMMA StartInv ==
  ASSUME IInv, Serving, Start
  PROVE  IInv'
  <1>1. /\ \A t \in Threads : pc[t] = "idle"
        /\ fileRoots' = fileRoots \/ fileRoots' \subseteq waveroots
        /\ UNCHANGED <<year, waveroots, misled, mutex, pc, origin, todo, read, root,
                       got, skipped, answer>>
    BY DEF Serving, ServeInv, Start, fetching
  <1>2. WaveformsTypeOK /\ HeldInv
    BY DEF IInv
  <1>3. WaveformsTypeOK'
    BY <1>1, <1>2 DEF WaveformsTypeOK
  <1>4. HeldInv'
    BY <1>1, <1>2 DEF HeldInv, Known
  <1>5. ASSUME NEW t \in Threads
        PROVE  (FetchInv(t) /\ StoreInv(t) /\ LookInv(t) /\ SkippedInv(t))'
    BY <1>1 DEF IInv, FetchInv, StoreInv, LookInv, SkippedInv, Fetching, ArchiveOf,
                Covering
  <1> QED
    BY <1>3, <1>4, <1>5 DEF IInv

\* What a crash leaves is an empty cache and no request.
LEMMA CrashInv ==
  ASSUME IInv, Crash
  PROVE  IInv'
  <1>1. /\ fileRoots' = {} /\ FallQuiet
        /\ UNCHANGED <<year, waveroots, misled>>
    BY DEF Crash
  <1>2. WaveformsTypeOK
    BY DEF IInv
  <1>3. WaveformsTypeOK'
    BY <1>1, <1>2 DEF FallQuiet, WaveformsTypeOK, PCs
  <1>4. HeldInv'
    BY <1>1, <1>2 DEF FallQuiet, HeldInv, Known
  <1>5. ASSUME NEW t \in Threads
        PROVE  (FetchInv(t) /\ StoreInv(t) /\ LookInv(t) /\ SkippedInv(t))'
    BY <1>1, WaveformsAssumption
       DEF FallQuiet, FetchInv, StoreInv, LookInv, SkippedInv, Fetching
  <1> QED
    BY <1>3, <1>4, <1>5 DEF IInv

\* A start leaves the answers alone, and a crash leaves none.
LEMMA AnswersStep ==
  ASSUME RInv, AnswersInv, [Next]_vars
  PROVE  AnswersInv'
  <1>1. CASE [WaveformsNext]_waveformVars
    BY <1>1, StepAnswers DEF RInv, IInv
  <1>2. CASE Start
    <2>1. UNCHANGED <<pc, todo, got, answer>>
      BY <1>2 DEF Start, fetching
    <2> QED
      BY <2>1, SameAnswer DEF AnswersInv
  <1>3. CASE Crash
    <2>1. FallQuiet
      BY <1>3 DEF Crash
    <2> QED
      BY <2>1 DEF FallQuiet, NoAnswer, AnswersInv, AnswerInv
  <1> QED
    BY <1>1, <1>2, <1>3, StepOfWaveforms

-----------------------------------------------------------------------------
(* The requests.                                                           *)

\* The invariant holds before the first start.
LEMMA RoutesInit == Init => RInv
  <1> SUFFICES ASSUME Init PROVE RInv
    OBVIOUS
  <1>1. IInv
    BY InitInv DEF Init
  <1>2. Serving
    BY RoutesAssumption DEF Init, Fresh, Serving, ServeInv, WaveformsInit, Quiet
  <1>3. Zero \in Counts /\ NothingGathered \in
          [client : Nat, attempt : {1, 2}, open : BOOLEAN, rows : Seq(STRING),
           answered : Nat, actions : Seq([database : Nat, row : STRING])]
    BY DEF Zero, Counts, NothingGathered
  <1>4. TypeOK
    BY <1>1, <1>3, RoutesAssumption
       DEF IInv, TypeOK, Init, Fresh, NothingCounted, NothingExported, Stages
  <1> QED
    BY <1>1, <1>2, <1>4 DEF RInv

\* No step leaves a request without a route, or in the handler of another.
LEMMA ServingStep ==
  ASSUME RInv, [Next]_vars
  PROVE  Serving'
  <1> USE DEF RInv
  <1>0. WaveformsTypeOK
    BY DEF TypeOK
  <1>1. CASE Start
    BY <1>1 DEF Start, serving, fetching, Serving, ServeInv
  <1>2. CASE Crash
    BY <1>2 DEF Crash, FallQuiet, Serving, ServeInv
  <1>3. CASE Elsewhere
    BY <1>3 DEF Elsewhere, Turnover, Lapse, fetching, serving, Serving, ServeInv
  <1>4. CASE Export
    BY <1>4 DEF Export, waveformVars, serving, Serving, ServeInv
  <1>5. CASE UNCHANGED vars
    BY <1>5 DEF vars, waveformVars, Serving, ServeInv
  <1>6. ASSUME NEW t \in Threads, Handle(t) PROVE Serving'
    <2>0. /\ pc \in [Threads -> PCs] /\ DOMAIN answer = Threads
          /\ route \in [Threads -> RouteNames \cup {None}]
          /\ stage \in [Threads -> Stages]
          /\ ServeInv(t) /\ \A u \in Threads : ServeInv(u)
      BY DEF TypeOK, WaveformsTypeOK, Serving
    <2>1. CASE Dispatch(t)
      BY <2>0, <2>1, RoutesAssumption
         DEF Dispatch, waveformVars, Serving, ServeInv, Stages
    <2>2. CASE \/ Reject(t) \/ Throw(t) \/ List(t) \/ ListLocks(t)
               \/ AnswerAlarms(t) \/ CountDenial(t)
      <3>1. /\ stage' = [stage EXCEPT ![t] = stage'[t]]
            /\ stage'[t] # "idle" /\ stage[t] # "idle" /\ pc[t] = "idle"
            /\ UNCHANGED <<pc, answer, route, process>>
        BY <2>0, <2>2, RoutesAssumption
           DEF Reject, Throw, List, ListLocks, AnswerAlarms, CountDenial, Responded,
               Handles, waveformVars, ServeInv, Alarms, Locks, Waveforms
      <3> QED
        BY <2>0, <3>1 DEF Serving, ServeInv, Stages
    <2>3. CASE Admit(t)
      BY <2>0, <2>3
         DEF Admit, Ask, waveformVars, Serving, ServeInv, Stages, PCs, Fetching
    <2>4. CASE Fetch(t)
      <3>1. /\ route[t] = Waveforms /\ stage[t] = "handler"
            /\ UNCHANGED <<route, stage, process>>
        BY <2>4 DEF Fetch, Handles, serving
      <3>2. /\ pc' = [pc EXCEPT ![t] = pc'[t]]
            /\ \A u \in Threads \ {t} : answer'[u] = answer[u]
            /\ pc'[t] = "answered" => answer'[t].status \in {200, 404, 500}
        <4>1. ASSUME NEW response, Respond(t, response),
                     response.status \in {200, 404, 500}
              PROVE  <3>2
          BY <2>0, <4>1 DEF Respond
        <4>2. ASSUME NEW next \in {"lock", "file", "roots", "store", "bytes", "unlock"},
                     pc' = [pc EXCEPT ![t] = next], UNCHANGED answer
              PROVE  <3>2
          BY <2>0, <4>2
        <4>3. CASE GetEvent(t)
          BY <4>1, <4>2, <4>3 DEF GetEvent, Message
        <4>4. CASE Lock(t) \/ ReadRoots(t) \/ FindFile(t) \/ StoreRoots(t) \/ ReadFile(t)
          <5>1. \E next \in {"lock", "file", "roots", "store", "bytes", "unlock"} :
                   pc' = [pc EXCEPT ![t] = next]
            <6>1. CASE Lock(t)
              BY <6>1 DEF Lock
            <6>2. CASE ReadRoots(t)
              BY <6>2 DEF ReadRoots, Skip, NextStream
            <6>3. CASE FindFile(t)
              BY <6>3 DEF FindFile, Skip, NextStream, LookUnder
            <6>4. CASE StoreRoots(t)
              BY <6>4 DEF StoreRoots, Skip, NextStream, LookUnder
            <6>5. CASE ReadFile(t)
              BY <6>5 DEF ReadFile, Skip, NextStream
            <6> QED
              BY <4>4, <6>1, <6>2, <6>3, <6>4, <6>5
          <5>2. UNCHANGED answer
            BY <4>4 DEF Lock, FindFile, ReadRoots, StoreRoots, ReadFile, Skip,
                        NextStream, LookUnder
          <5>3. PICK next \in {"lock", "file", "roots", "store", "bytes", "unlock"} :
                   pc' = [pc EXCEPT ![t] = next]
            BY <5>1
          <5>4. pc'[t] = next
            BY <2>0, <5>3
          <5> QED
            BY <5>2, <5>3, <5>4
        <4>5. CASE Unlock(t)
          <5>1. /\ Message(404).status = 404
                /\ \A encoding : MakeWaveformResponse(t, encoding).status = 200
            BY DEF Message, MakeWaveformResponse
          <5>2. \E response : Respond(t, response) /\ response.status \in {200, 404}
            BY <4>5, <5>1 DEF Unlock
          <5>3. PICK response : Respond(t, response) /\ response.status \in {200, 404}
            BY <5>2
          <5> QED
            BY <4>1, <5>3
        <4> QED
          BY <2>4, <4>3, <4>4, <4>5 DEF Fetch
      <3> QED
        BY <2>0, <3>1, <3>2 DEF Serving, ServeInv
    <2>5. CASE Fetched(t)
      BY <2>0, <2>5
         DEF Fetched, Handles, Responded, Return, Serving, ServeInv, Stages, PCs
    <2>6. CASE ReadAlarms(t) \/ Break(t) \/ SkipDatabase(t) \/ CommitAlarms(t)
      <3>1. UNCHANGED <<pc, answer, route, stage, process>>
        BY <2>6 DEF ReadAlarms, Break, SkipDatabase, CommitAlarms, GatherOnly,
                    waveformVars
      <3> QED
        BY <3>1 DEF Serving, ServeInv
    <2>7. CASE CountClientError(t) \/ Count(t)
      <3>1. /\ stage[t] # "idle" /\ pc[t] = "idle"
            /\ route' = [route EXCEPT ![t] = None]
            /\ stage' = [stage EXCEPT ![t] = "idle"]
            /\ UNCHANGED <<pc, answer, process>>
        BY <2>0, <2>7 DEF CountClientError, Count, Leave, ServeInv, waveformVars
      <3> QED
        BY <2>0, <3>1 DEF Serving, ServeInv
    <2> QED
      BY <1>6, <2>1, <2>2, <2>3, <2>4, <2>5, <2>6, <2>7 DEF Handle
  <1> QED
    BY <1>1, <1>2, <1>3, <1>4, <1>5, <1>6 DEF Next
-----------------------------------------------------------------------------
(* The types.                                                              *)

GatherType == [client : Nat, attempt : {1, 2}, open : BOOLEAN,
               rows : Seq(STRING), answered : Nat,
               actions : Seq([database : Nat, row : STRING])]

CounterType == [success : Counts, clientError : Counts, serverError : Counts,
                unauthenticated : Nat, unauthorized : Nat, denied : Nat]

ExportType == [denied : Nat, unauthenticated : Nat, unauthorized : Nat]

\* What a database's rows become.
LEMMA RowsBecomeActions ==
  ASSUME NEW rows \in Seq(STRING), NEW client \in Nat
  PROVE  [i \in DOMAIN rows |-> [database |-> client, row |-> rows[i]]]
            \in Seq([database : Nat, row : STRING])
  <1>1. \A i \in DOMAIN rows : rows[i] \in STRING
    OBVIOUS
  <1>2. DOMAIN rows = 1 .. Len(rows) /\ Len(rows) \in Nat
    OBVIOUS
  <1> QED
    BY <1>1, <1>2

\* Two sequences over a set, one after the other, are one over it.
LEMMA Joined ==
  ASSUME NEW S, NEW s \in Seq(S), NEW u \in Seq(S)
  PROVE  s \o u \in Seq(S)
  OBVIOUS

\* The empty sequence is a sequence over every set.
LEMMA Empty ==
  ASSUME NEW S
  PROVE  <<>> \in Seq(S)
  OBVIOUS

\* A counter incremented is a counter.
LEMMA Increment ==
  ASSUME NEW f \in Counts, NEW r \in RouteNames
  PROVE  [f EXCEPT ![r] = @ + 1] \in Counts
  BY DEF Counts

\* Passing on to the next database keeps the gather's type.
LEMMA NextClientType ==
  ASSUME NEW g \in GatherType, NEW answered \in Nat,
         NEW actions \in Seq([database : Nat, row : STRING])
  PROVE  NextClient(g, answered, actions) \in GatherType
  <1>1. <<>> \in Seq(STRING) /\ g.client + 1 \in Nat
    BY Empty DEF GatherType
  <1> QED
    BY <1>1 DEF GatherType, NextClient

\* The steps of the gathering keep its type and touch nothing else.
LEMMA GatherStep ==
  ASSUME TypeOK, NEW t \in Threads,
         ReadAlarms(t) \/ Break(t) \/ SkipDatabase(t) \/ CommitAlarms(t)
  PROVE  /\ gather' \in [Threads -> GatherType]
         /\ UNCHANGED <<waveformVars, process, options, starts, requests, served,
                       route, stage, status, locks, metrics>>
  <1>1. gather \in [Threads -> GatherType] /\ gather[t] \in GatherType
    BY DEF TypeOK, GatherType
  <1>2. ASSUME NEW g \in GatherType, GatherOnly(t, g)
        PROVE  /\ gather' \in [Threads -> GatherType]
               /\ UNCHANGED <<waveformVars, process, options, starts, requests, served,
                             route, stage, status, locks, metrics>>
    BY <1>1, <1>2 DEF GatherOnly
  <1>8. <<>> \in Seq(STRING)
    BY Empty
  <1>3. Skipping(gather[t]) \in GatherType
    BY <1>1, NextClientType DEF Skipping, GatherType
  <1>4. CASE ReadAlarms(t)
    <2>1. PICK rows \in AlarmRows :
             GatherOnly(t, [gather[t] EXCEPT !.open = TRUE, !.rows = rows])
      BY <1>4 DEF ReadAlarms
    <2>2. [gather[t] EXCEPT !.open = TRUE, !.rows = rows] \in GatherType
      BY <1>1, RoutesAssumption DEF GatherType
    <2> QED
      BY <2>1, <2>2, <1>2
  <1>5. CASE Break(t)
    <2>1. [gather[t] EXCEPT !.attempt = 2, !.open = FALSE, !.rows = <<>>] \in GatherType
      BY ONLY <1>1, <1>8 DEF GatherType
    <2> QED
      BY <2>1, <1>2, <1>3, <1>5 DEF Break
  <1>6. CASE SkipDatabase(t)
    BY <1>2, <1>3, <1>6 DEF SkipDatabase
  <1>7. CASE CommitAlarms(t)
    <2> DEFINE actions == [i \in DOMAIN gather[t].rows |->
                             [database |-> gather[t].client,
                              row |-> gather[t].rows[i]]]
    <2>1. actions \in Seq([database : Nat, row : STRING])
      BY <1>1, RowsBecomeActions DEF GatherType
    <2> HIDE DEF actions
    <2>2. NextClient(gather[t], gather[t].answered + 1, gather[t].actions \o actions)
             \in GatherType
      <3>1. /\ gather[t].answered + 1 \in Nat
            /\ gather[t].actions \o actions \in Seq([database : Nat, row : STRING])
        BY <1>1, <2>1, Joined DEF GatherType
      <3> QED
        BY <1>1, <3>1, NextClientType
    <2>3. GatherOnly(t, NextClient(gather[t], gather[t].answered + 1,
                                   gather[t].actions \o actions))
      BY <1>7 DEF CommitAlarms, actions
    <2> QED
      BY <2>2, <2>3, <1>2
  <1> QED
    BY <1>4, <1>5, <1>6, <1>7

\* Counting an outcome keeps the counters' type.
LEMMA CounterStep ==
  ASSUME TypeOK, Serving, NEW t \in Threads,
         CountDenial(t) \/ CountClientError(t) \/ Count(t)
  PROVE  counters' \in CounterType
  <1>1. counters \in CounterType
    BY DEF TypeOK, CounterType
  <1>2. /\ counters.success \in Counts /\ counters.clientError \in Counts
        /\ counters.serverError \in Counts
        /\ counters.unauthenticated \in Nat /\ counters.unauthorized \in Nat
        /\ counters.denied \in Nat
    BY <1>1 DEF CounterType
  <1>3. stage[t] # "idle" => route[t] \in RouteNames
    BY DEF TypeOK, Serving, ServeInv
  <1>4. CASE CountDenial(t)
    BY <1>1, <1>2, <1>4 DEF CountDenial, CounterType
  <1>5. CASE CountClientError(t)
    <2>1. [counters.clientError EXCEPT ![route[t]] = @ + 1] \in Counts
      BY <1>2, <1>3, <1>5, Increment DEF CountClientError
    <2>2. /\ counters.denied + 1 \in Nat
          /\ counters' = [counters EXCEPT
               !.clientError = [counters.clientError EXCEPT ![route[t]] = @ + 1],
               !.denied = IF stage[t] = "denied" THEN counters.denied + 1
                          ELSE counters.denied]
      BY <1>1, <1>2, <1>5 DEF CountClientError, CounterType
    <2> QED
      BY <1>1, <1>2, <2>1, <2>2 DEF CounterType
  <1>6. CASE Count(t)
    <2>1. /\ [counters.success EXCEPT ![route[t]] = @ + 1] \in Counts
          /\ [counters.serverError EXCEPT ![route[t]] = @ + 1] \in Counts
      BY <1>2, <1>3, <1>6, Increment DEF Count
    <2> QED
      BY <1>1, <1>2, <1>6, <2>1 DEF Count, CounterType
  <1> QED
    BY <1>4, <1>5, <1>6

\* A callback of the exporter keeps the type of what it exports.
LEMMA ExportStep ==
  ASSUME TypeOK, Export
  PROVE  exporter' \in 0 .. 2 /\ exported' \in ExportType
  <1>1. /\ exporter \in 0 .. 2 /\ exported \in ExportType
        /\ counters.unauthenticated \in Nat /\ counters.unauthorized \in Nat
        /\ counters.denied \in Nat
    BY DEF TypeOK, ExportType
  <1> QED
    BY <1>1 DEF Export, ExportType, NothingExported

\* What a process begins with is of the types.
LEMMA FreshType ==
  /\ Zero \in Counts /\ NothingCounted \in CounterType
  /\ NothingExported \in ExportType /\ NothingGathered \in GatherType
  BY DEF Zero, Counts, NothingCounted, CounterType, NothingExported, ExportType,
         NothingGathered, GatherType

\* Every step keeps the types.
LEMMA TypeStep ==
  ASSUME RInv, IInv', [Next]_vars
  PROVE  TypeOK'
  <1> DEFINE Rest ==
        /\ process \in {"down", "up"}
        /\ options \in Options
        /\ starts \in 0 .. MaxStarts
        /\ served \in 0 .. MaxRequests
        /\ requests \in Counts
        /\ route \in [Threads -> RouteNames \cup {None}]
        /\ stage \in [Threads -> Stages]
        /\ status \in [Threads -> {200, 400, 401, 403, 404, 500}]
        /\ gather \in [Threads -> GatherType]
        /\ counters \in CounterType
        /\ exporter \in 0 .. 2
        /\ exported \in ExportType
  <1>0. Rest /\ TypeOK /\ Serving
    BY DEF RInv, TypeOK, GatherType, CounterType, ExportType
  <1>1. SUFFICES Rest'
    BY DEF IInv, TypeOK, GatherType, CounterType, ExportType
  <1>2. CASE Start
    BY <1>0, <1>2, RoutesAssumption DEF Start, serving, metrics
  <1>3. CASE Crash
    BY <1>0, <1>3, FreshType DEF Crash, Stages
  <1>4. CASE Elsewhere
    BY <1>0, <1>4 DEF Elsewhere, serving, metrics
  <1>5. CASE Export
    BY <1>0, <1>5, ExportStep DEF Export, serving
  <1>6. CASE UNCHANGED vars
    BY <1>0, <1>6 DEF vars
  <1>7. ASSUME NEW t \in Threads, Handle(t) PROVE Rest'
    <2>1. CASE Dispatch(t)
      <3>1. PICK r \in RouteNames : /\ route' = [route EXCEPT ![t] = r]
                                    /\ requests' = [requests EXCEPT ![r] = @ + 1]
        BY <2>1 DEF Dispatch
      <3>2. requests' \in Counts
        BY <1>0, <3>1 DEF Counts
      <3> QED
        BY <1>0, <2>1, <3>1, <3>2, RoutesAssumption DEF Dispatch, metrics, Stages
    <2>2. CASE Reject(t) \/ Throw(t) \/ List(t) \/ ListLocks(t) \/ AnswerAlarms(t)
      BY <1>0, <2>2 DEF Reject, Throw, List, ListLocks, AnswerAlarms, Responded,
                        Rejections, Queried, metrics, Stages
    <2>3. CASE Admit(t)
      BY <1>0, <2>3 DEF Admit, metrics, Stages
    <2>4. CASE Fetch(t)
      BY <1>0, <2>4 DEF Fetch, metrics, serving
    <2>5. CASE Fetched(t)
      <3>1. answer[t].status \in {200, 404, 500}
        BY <1>0, <2>5 DEF Fetched, Return, Serving, ServeInv
      <3> QED
        BY <1>0, <2>5, <3>1 DEF Fetched, Responded, metrics, Stages
    <2>6. CASE ReadAlarms(t) \/ Break(t) \/ SkipDatabase(t) \/ CommitAlarms(t)
      BY <1>0, <2>6, GatherStep DEF metrics
    <2>7. CASE CountDenial(t) \/ CountClientError(t) \/ Count(t)
      <3>1. counters' \in CounterType
        BY <1>0, <2>7, CounterStep
      <3> QED
        BY <1>0, <2>7, <3>1, FreshType
           DEF CountDenial, CountClientError, Count, Leave, Stages
    <2> QED
      BY <1>7, <2>1, <2>2, <2>3, <2>4, <2>5, <2>6, <2>7 DEF Handle
  <1> QED
    BY <1>2, <1>3, <1>4, <1>5, <1>6, <1>7 DEF Next

\* Every step keeps the invariant.
LEMMA RoutesStep == RInv /\ [Next]_vars => RInv'
  <1> SUFFICES ASSUME RInv, [Next]_vars PROVE RInv'
    OBVIOUS
  <1>1. IInv'
    BY StepOfWaveforms, StepInv, StartInv, CrashInv DEF RInv
  <1> QED
    BY <1>1, TypeStep, ServingStep DEF RInv
-----------------------------------------------------------------------------
(* The counters.                                                           *)

Busy(r) == {t \in Threads : route[t] = r}

Denied == {t \in Threads : stage[t] = "denied"}

\* One thread more in a set of threads.
LEMMA Joins ==
  ASSUME NEW S \in SUBSET Threads, NEW t \in Threads \ S
  PROVE  /\ Cardinality(S) \in Nat
         /\ Cardinality(S \cup {t}) = Cardinality(S) + 1
  <1>1. IsFiniteSet(S)
    BY FS_Subset, RoutesAssumption
  <1> QED
    BY <1>1, FS_CardinalityType, FS_AddElement

\* One thread less in a set of threads.
LEMMA Leaves ==
  ASSUME NEW S \in SUBSET Threads, NEW t \in S
  PROVE  /\ Cardinality(S \ {t}) \in Nat
         /\ Cardinality(S) = Cardinality(S \ {t}) + 1
  <1>1. S = (S \ {t}) \cup {t} /\ S \ {t} \in SUBSET Threads /\ t \in Threads \ (S \ {t})
    OBVIOUS
  <1> QED
    BY <1>1, Joins

\* The steps that neither begin nor end a request, nor count anything.
LEMMA UncountedSteps ==
  ASSUME RInv, [Next]_vars, ~Crash,
         \A t \in Threads : /\ ~Dispatch(t) /\ ~CountDenial(t)
                            /\ ~CountClientError(t) /\ ~Count(t)
  PROVE  /\ UNCHANGED <<requests, counters, route>>
         /\ Denied' = Denied
  <1>1. ASSUME NEW t \in Threads, Handle(t)
        PROVE  /\ UNCHANGED <<requests, counters, route>>
               /\ \/ UNCHANGED stage
                  \/ /\ stage[t] # "denied"
                     /\ \E s \in {"handler", "responded"} :
                           stage' = [stage EXCEPT ![t] = s]
    BY <1>1
       DEF Handle, Reject, Admit, Throw, Fetch, Fetched, List, ListLocks, ReadAlarms,
           Break, SkipDatabase, CommitAlarms, AnswerAlarms, GatherOnly, Responded,
           Handles, metrics, serving
  <1>2. CASE Start \/ Elsewhere \/ Export \/ UNCHANGED vars
    BY <1>2 DEF Start, Elsewhere, Export, serving, metrics, vars, Denied
  <1>3. ASSUME NEW t \in Threads, Handle(t) PROVE Denied' = Denied
    <2>1. CASE UNCHANGED stage
      BY <2>1 DEF Denied
    <2>2. ASSUME NEW s \in {"handler", "responded"},
                 stage' = [stage EXCEPT ![t] = s], stage[t] # "denied"
          PROVE  Denied' = Denied
      <3>1. stage \in [Threads -> Stages]
        BY DEF RInv, TypeOK
      <3>2. \A u \in Threads : stage'[u] = "denied" <=> stage[u] = "denied"
        BY <2>2, <3>1
      <3> QED
        BY <3>2 DEF Denied
    <2> QED
      BY <1>1, <1>3, <2>1, <2>2
  <1> QED
    BY <1>1, <1>2, <1>3 DEF Next

\* What is counted of route r.
Counted(r) == counters.success[r] + counters.clientError[r] + counters.serverError[r]

\* The property, in terms of Counted and Busy.
LEMMA CountedOnceIs ==
  RequestsCountedOnce <=>
     \A r \in RouteNames : requests[r] = Counted(r) + Cardinality(Busy(r))
  BY DEF RequestsCountedOnce, Counted, Busy

\* A request that is dispatched joins the busy of its route, and one that is
\* counted leaves them.
LEMMA CountedOnceStep ==
  ASSUME RInv, RequestsCountedOnce, [Next]_vars
  PROVE  RequestsCountedOnce'
  <1>1. ASSUME NEW r \in RouteNames
        PROVE  /\ requests[r] = Counted(r) + Cardinality(Busy(r))
               /\ requests[r] \in Nat
               /\ Counted(r) \in Nat /\ Cardinality(Busy(r)) \in Nat
    <2>1. Busy(r) \in SUBSET Threads /\ IsFiniteSet(Busy(r))
      BY FS_Subset, RoutesAssumption DEF Busy
    <2> QED
      BY <2>1, CountedOnceIs, FS_CardinalityType DEF RInv, TypeOK, Counts, Counted
  <1>2. SUFFICES ASSUME NEW r \in RouteNames
                 PROVE  requests'[r] = Counted(r)' + Cardinality(Busy(r)')
    BY DEF RequestsCountedOnce, Counted, Busy
  <1>3. CASE Crash
    <2>1. Busy(r)' = {}
      BY <1>3, RoutesAssumption DEF Crash, Busy
    <2>2. requests'[r] = 0 /\ Counted(r)' = 0
      BY <1>3 DEF Crash, Zero, NothingCounted, Counted
    <2> QED
      BY <2>1, <2>2, FS_EmptySet
  <1>4. ASSUME NEW t \in Threads, Dispatch(t)
        PROVE  requests'[r] = Counted(r)' + Cardinality(Busy(r)')
    <2>1. PICK new \in RouteNames : /\ route' = [route EXCEPT ![t] = new]
                                    /\ requests' = [requests EXCEPT ![new] = @ + 1]
      BY <1>4 DEF Dispatch
    <2>2. /\ Counted(r)' = Counted(r) /\ route[t] = None
          /\ route \in [Threads -> RouteNames \cup {None}] /\ requests \in Counts
      BY <1>4 DEF Dispatch, metrics, Counted, RInv, TypeOK
    <2>3. CASE r = new
      <3>1. Busy(r)' = Busy(r) \cup {t} /\ t \in Threads \ Busy(r)
        BY <2>1, <2>2, <2>3, RoutesAssumption DEF Busy
      <3>2. Cardinality(Busy(r)') = Cardinality(Busy(r)) + 1
        BY <3>1, Joins DEF Busy
      <3>3. requests'[r] = requests[r] + 1
        BY <2>1, <2>2, <2>3 DEF Counts
      <3> QED
        BY ONLY <1>1, <2>2, <3>2, <3>3
    <2>4. CASE r # new
      <3>1. Busy(r)' = Busy(r) /\ requests'[r] = requests[r]
        BY <2>1, <2>2, <2>4, RoutesAssumption DEF Busy, Counts
      <3> QED
        BY ONLY <1>1, <2>2, <3>1
    <2> QED
      BY <2>3, <2>4
  <1>5. ASSUME NEW t \in Threads, CountDenial(t)
        PROVE  requests'[r] = Counted(r)' + Cardinality(Busy(r)')
    <2>1. Busy(r)' = Busy(r) /\ requests' = requests
      BY <1>5 DEF CountDenial, Busy
    <2>2. Counted(r)' = Counted(r)
      BY <1>5 DEF CountDenial, Counted, RInv, TypeOK
    <2> QED
      BY ONLY <1>1, <2>1, <2>2
  <1>6. ASSUME NEW t \in Threads, CountClientError(t) \/ Count(t)
        PROVE  requests'[r] = Counted(r)' + Cardinality(Busy(r)')
    <2>1. /\ route \in [Threads -> RouteNames \cup {None}]
          /\ stage[t] # "idle" /\ route[t] \in RouteNames
          /\ route' = [route EXCEPT ![t] = None] /\ requests' = requests
      BY <1>6 DEF CountClientError, Count, Leave, RInv, TypeOK, Serving, ServeInv
    <2>2. /\ counters.success \in Counts /\ counters.clientError \in Counts
          /\ counters.serverError \in Counts
          /\ counters \in CounterType
      BY DEF RInv, TypeOK, CounterType
    <2>3. CASE r = route[t]
      <3>1. Busy(r)' = Busy(r) \ {t} /\ t \in Busy(r)
        BY <2>1, <2>3, RoutesAssumption DEF Busy
      <3>2. /\ Cardinality(Busy(r)') \in Nat
            /\ Cardinality(Busy(r)) = Cardinality(Busy(r)') + 1
        BY <3>1, Leaves DEF Busy
      <3>3. Counted(r)' = Counted(r) + 1
        <4>1. CASE CountClientError(t)
          <5>1. /\ counters'.clientError[r] = counters.clientError[r] + 1
                /\ counters'.success[r] = counters.success[r]
                /\ counters'.serverError[r] = counters.serverError[r]
            BY <2>2, <2>3, <4>1 DEF CountClientError, Counts, CounterType
          <5>2. /\ counters.clientError[r] \in Nat /\ counters.success[r] \in Nat
                /\ counters.serverError[r] \in Nat
            BY <2>2 DEF Counts
          <5> QED
            BY ONLY <5>1, <5>2 DEF Counted
        <4>2. CASE Count(t)
          <5>1. /\ counters'.clientError[r] = counters.clientError[r]
                /\ \/ /\ counters'.success[r] = counters.success[r] + 1
                      /\ counters'.serverError[r] = counters.serverError[r]
                   \/ /\ counters'.success[r] = counters.success[r]
                      /\ counters'.serverError[r] = counters.serverError[r] + 1
            BY <2>2, <2>3, <4>2 DEF Count, Counts, CounterType
          <5>2. /\ counters.clientError[r] \in Nat /\ counters.success[r] \in Nat
                /\ counters.serverError[r] \in Nat
            BY <2>2 DEF Counts
          <5> QED
            BY ONLY <5>1, <5>2 DEF Counted
        <4> QED
          BY <1>6, <4>1, <4>2
      <3> QED
        BY ONLY <1>1, <2>1, <3>2, <3>3
    <2>4. CASE r # route[t]
      <3>1. Busy(r)' = Busy(r)
        BY <2>1, <2>4, RoutesAssumption DEF Busy
      <3>2. Counted(r)' = Counted(r)
        <4>1. CASE CountClientError(t)
          BY <2>1, <2>2, <2>4, <4>1 DEF CountClientError, Counts, CounterType, Counted
        <4>2. CASE Count(t)
          BY <2>1, <2>2, <2>4, <4>2 DEF Count, Counts, CounterType, Counted
        <4> QED
          BY <1>6, <4>1, <4>2
      <3> QED
        BY ONLY <1>1, <2>1, <3>1, <3>2
    <2> QED
      BY <2>3, <2>4
  <1>7. CASE /\ ~Crash
             /\ \A t \in Threads : /\ ~Dispatch(t) /\ ~CountDenial(t)
                                   /\ ~CountClientError(t) /\ ~Count(t)
    <2>1. UNCHANGED <<requests, counters, route>>
      BY <1>7, UncountedSteps
    <2>2. Busy(r)' = Busy(r) /\ Counted(r)' = Counted(r) /\ requests' = requests
      BY <2>1 DEF Busy, Counted
    <2> QED
      BY ONLY <1>1, <2>2
  <1> QED
    BY <1>3, <1>4, <1>5, <1>6, <1>7

\* No request, no count.
LEMMA CountedOnceInit == Init => RequestsCountedOnce
  <1> SUFFICES ASSUME Init, NEW r \in RouteNames
               PROVE  requests[r] = Counted(r) + Cardinality(Busy(r))
    BY DEF RequestsCountedOnce, Counted, Busy
  <1>1. Busy(r) = {}
    BY RoutesAssumption DEF Init, Fresh, Busy
  <1>2. requests[r] = 0 /\ Counted(r) = 0
    BY DEF Init, Fresh, Zero, NothingCounted, Counted
  <1> QED
    BY <1>1, <1>2, FS_EmptySet

-----------------------------------------------------------------------------
(* The denials.                                                            *)

Doors == counters.unauthenticated + counters.unauthorized

\* A denial is in its global counter before it is among the client errors;
\* those between the two are Denied.
DenialInv ==
    /\ counters.denied + Cardinality(Denied) = Doors
    /\ exporter = 0 => exported.denied <= exported.unauthenticated + exported.unauthorized
    /\ exporter = 1 => exported.denied <= Doors
    /\ exporter = 2 => exported.denied <= exported.unauthenticated + counters.unauthorized

\* What the argument about the denials adds and compares are numbers.
LEMMA DenialTypes ==
  ASSUME RInv
  PROVE  /\ counters.denied \in Nat /\ counters.unauthenticated \in Nat
         /\ counters.unauthorized \in Nat
         /\ exported.denied \in Nat /\ exported.unauthenticated \in Nat
         /\ exported.unauthorized \in Nat
         /\ exporter \in 0 .. 2
         /\ Cardinality(Denied) \in Nat
         /\ counters \in CounterType /\ exported \in ExportType
         /\ stage \in [Threads -> Stages]
  <1>1. Denied \in SUBSET Threads /\ IsFiniteSet(Denied)
    BY FS_Subset, RoutesAssumption DEF Denied
  <1> QED
    BY <1>1, FS_CardinalityType DEF RInv, TypeOK, CounterType, ExportType

\* Doors only grow while the process is up, and what has been exported stays.
LEMMA DoorsGrow ==
  ASSUME DenialInv, RInv, RInv',
         exporter' = exporter, exported' = exported,
         counters'.unauthenticated >= counters.unauthenticated,
         counters'.unauthorized >= counters.unauthorized,
         counters'.denied + Cardinality(Denied') = Doors'
  PROVE  DenialInv'
  <1>1. /\ counters.unauthenticated \in Nat /\ counters.unauthorized \in Nat
        /\ exported.denied \in Nat /\ exported.unauthenticated \in Nat
        /\ exported.unauthorized \in Nat
    BY DenialTypes
  <1>2. counters'.unauthenticated \in Nat /\ counters'.unauthorized \in Nat
    BY DEF RInv, TypeOK
  <1> QED
    BY <1>1, <1>2 DEF DenialInv, Doors

\* Every step keeps a denial counted at its door before it is counted at its route.
LEMMA DenialStep ==
  ASSUME RInv, RInv', DenialInv, [Next]_vars
  PROVE  DenialInv'
  <1>0. /\ counters.denied \in Nat /\ counters.unauthenticated \in Nat
        /\ counters.unauthorized \in Nat
        /\ exported.denied \in Nat /\ exported.unauthenticated \in Nat
        /\ exported.unauthorized \in Nat
        /\ exporter \in 0 .. 2
        /\ Cardinality(Denied) \in Nat
        /\ counters \in CounterType /\ exported \in ExportType
        /\ stage \in [Threads -> Stages]
    BY DenialTypes
  <1>1. CASE Crash
    <2>1. Denied' = {} /\ counters' = NothingCounted /\ exporter' = 0
          /\ exported' = NothingExported
      BY <1>1 DEF Crash, Denied
    <2> QED
      BY <2>1, FS_EmptySet DEF DenialInv, Doors, NothingCounted, NothingExported
  <1>2. CASE Export
    <2>1. /\ counters' = counters /\ Denied' = Denied
          /\ exporter' = (exporter + 1) % 3
      BY <1>2 DEF Export, serving, Denied
    <2>2. CASE exporter = 0
      <3>1. exporter' = 1 /\ exported'.denied = counters.denied
        BY <1>2, <2>1, <2>2 DEF Export, NothingExported
      <3> QED
        BY <1>0, <2>1, <3>1 DEF DenialInv, Doors
    <2>3. CASE exporter = 1
      <3>1. /\ exporter' = 2 /\ exported'.denied = exported.denied
            /\ exported'.unauthenticated = counters.unauthenticated
        BY <1>0, <1>2, <2>1, <2>3 DEF Export, ExportType
      <3> QED
        BY <1>0, <2>1, <2>3, <3>1 DEF DenialInv, Doors
    <2>4. CASE exporter = 2
      <3>1. /\ exporter' = 0 /\ exported'.denied = exported.denied
            /\ exported'.unauthenticated = exported.unauthenticated
            /\ exported'.unauthorized = counters.unauthorized
        BY <1>0, <1>2, <2>1, <2>4 DEF Export, ExportType
      <3> QED
        BY <1>0, <2>1, <2>4, <3>1 DEF DenialInv, Doors
    <2> QED
      BY <1>0, <2>2, <2>3, <2>4
  <1>3. ASSUME NEW t \in Threads, CountDenial(t) PROVE DenialInv'
    <2>1. /\ stage[t] # "denied" /\ stage' = [stage EXCEPT ![t] = "denied"]
          /\ exporter' = exporter /\ exported' = exported
      BY <1>3 DEF CountDenial
    <2>2. Denied' = Denied \cup {t} /\ t \in Threads \ Denied
      BY <1>0, <2>1 DEF Denied
    <2>3. Cardinality(Denied') = Cardinality(Denied) + 1
      BY <2>2, Joins DEF Denied
    <2>4. /\ counters'.denied = counters.denied
          /\ \/ /\ counters'.unauthenticated = counters.unauthenticated + 1
                /\ counters'.unauthorized = counters.unauthorized
             \/ /\ counters'.unauthenticated = counters.unauthenticated
                /\ counters'.unauthorized = counters.unauthorized + 1
      BY <1>0, <1>3 DEF CountDenial, CounterType
    <2>5. /\ counters.denied + Cardinality(Denied) = Doors
          /\ counters.denied \in Nat /\ counters.unauthenticated \in Nat
          /\ counters.unauthorized \in Nat /\ Cardinality(Denied) \in Nat
      BY <1>0 DEF DenialInv
    <2>6. counters'.denied + Cardinality(Denied') = Doors'
      BY ONLY <2>3, <2>4, <2>5 DEF Doors
    <2> QED
      BY <1>0, <2>1, <2>4, <2>6, DoorsGrow
  <1>4. ASSUME NEW t \in Threads, CountClientError(t) PROVE DenialInv'
    <2>1. /\ stage' = [stage EXCEPT ![t] = "idle"]
          /\ exporter' = exporter /\ exported' = exported
          /\ counters'.unauthenticated = counters.unauthenticated
          /\ counters'.unauthorized = counters.unauthorized
          /\ counters'.denied = IF stage[t] = "denied" THEN counters.denied + 1
                                ELSE counters.denied
      BY <1>0, <1>4 DEF CountClientError, Leave, CounterType
    <2>2. CASE stage[t] = "denied"
      <3>1. Denied' = Denied \ {t} /\ t \in Denied
        BY <1>0, <2>1, <2>2 DEF Denied
      <3>2. /\ Cardinality(Denied') \in Nat
            /\ Cardinality(Denied) = Cardinality(Denied') + 1
        BY <3>1, Leaves DEF Denied
      <3>3. counters'.denied + Cardinality(Denied') = Doors'
        BY <1>0, <2>1, <2>2, <3>2 DEF DenialInv, Doors
      <3> QED
        BY <1>0, <2>1, <3>3, DoorsGrow
    <2>3. CASE stage[t] # "denied"
      <3>1. Denied' = Denied
        BY <1>0, <2>1, <2>3 DEF Denied
      <3>2. counters'.denied + Cardinality(Denied') = Doors'
        BY <1>0, <2>1, <2>3, <3>1 DEF DenialInv, Doors
      <3> QED
        BY <1>0, <2>1, <3>2, DoorsGrow
    <2> QED
      BY <2>2, <2>3
  <1>5. ASSUME NEW t \in Threads, Dispatch(t) \/ Count(t) PROVE DenialInv'
    <2>1. /\ \E s \in {"authorize", "idle"} : stage' = [stage EXCEPT ![t] = s]
          /\ stage[t] # "denied"
          /\ exporter' = exporter /\ exported' = exported
          /\ counters'.unauthenticated = counters.unauthenticated
          /\ counters'.unauthorized = counters.unauthorized
          /\ counters'.denied = counters.denied
      <3>1. CASE Dispatch(t)
        BY <3>1 DEF Dispatch, metrics, RInv, Serving, ServeInv
      <3>2. CASE Count(t)
        BY <1>0, <3>2 DEF Count, Leave, CounterType
      <3> QED
        BY <1>5, <3>1, <3>2
    <2>2. \A u \in Threads : stage'[u] = "denied" <=> stage[u] = "denied"
      BY <1>0, <2>1
    <2>3. Denied' = Denied
      BY <2>2 DEF Denied
    <2>4. counters'.denied + Cardinality(Denied') = Doors'
      BY <1>0, <2>1, <2>3 DEF DenialInv, Doors
    <2> QED
      BY <1>0, <2>1, <2>4, DoorsGrow
  <1>6. CASE /\ ~Crash /\ ~Export
             /\ \A t \in Threads : /\ ~Dispatch(t) /\ ~CountDenial(t)
                                   /\ ~CountClientError(t) /\ ~Count(t)
    <2>1. UNCHANGED counters /\ Denied' = Denied
      BY <1>6, UncountedSteps
    <2>2. UNCHANGED <<exporter, exported>>
      BY <1>6 DEF Next, Start, Elsewhere, vars, metrics, Handle, Reject, Admit, Throw,
         Fetch, Fetched, List, ListLocks, ReadAlarms, Break, SkipDatabase,
         CommitAlarms, AnswerAlarms, GatherOnly
    <2>3. counters'.denied + Cardinality(Denied') = Doors'
      BY <2>1 DEF DenialInv, Doors
    <2> QED
      BY <1>0, <2>1, <2>2, <2>3, DoorsGrow
  <1> QED
    BY <1>1, <1>2, <1>3, <1>4, <1>5, <1>6

\* No denial, no count.
LEMMA DenialInit == Init => DenialInv
  <1> SUFFICES ASSUME Init PROVE DenialInv
    OBVIOUS
  <1>1. Denied = {}
    BY DEF Init, Fresh, Denied
  <1> QED
    BY <1>1, FS_EmptySet
       DEF Init, Fresh, DenialInv, Doors, NothingCounted, NothingExported

-----------------------------------------------------------------------------
(* The alarms.                                                             *)

Ordered(actions) ==
    \A i, j \in DOMAIN actions : i < j =>
       /\ actions[i].database <= actions[j].database
       /\ actions[i] # actions[j]

Before(actions, client) == \A i \in DOMAIN actions : actions[i].database < client

Distinct(rows) == \A i, j \in DOMAIN rows : rows[i] = rows[j] => i = j

\* What is gathered is of the databases already done with; the rows of the
\* database at hand are not among it until they are committed.
AlarmInv == \A t \in Threads :
    /\ Ordered(gather[t].actions)
    /\ Before(gather[t].actions, gather[t].client)
    /\ Distinct(gather[t].rows)

\* The database of an action is a number.
LEMMA DatabasesAreNumbers ==
  ASSUME NEW actions \in Seq([database : Nat, row : STRING]), NEW i \in DOMAIN actions
  PROVE  actions[i].database \in Nat
  <1>1. ASSUME NEW S, NEW s \in Seq(S), NEW k \in DOMAIN s
        PROVE  s[k] \in S
    OBVIOUS
  <1>2. actions[i] \in [database : Nat, row : STRING]
    BY <1>1
  <1> QED
    BY ONLY <1>2

\* The rows of the next database, joined to what is gathered, keep its order.
LEMMA JoinedInOrder ==
  ASSUME NEW actions \in Seq([database : Nat, row : STRING]),
         NEW rows \in Seq(STRING), NEW client \in Nat,
         Ordered(actions), Before(actions, client), Distinct(rows),
         NEW new \in Seq([database : Nat, row : STRING]),
         new = [i \in DOMAIN rows |-> [database |-> client, row |-> rows[i]]]
  PROVE  /\ Ordered(actions \o new)
         /\ Before(actions \o new, client + 1)
  <1>1. /\ DOMAIN new = DOMAIN rows
        /\ \A i \in DOMAIN new : new[i].database = client /\ new[i].row = rows[i]
    OBVIOUS
  <1>2. \A i, j \in DOMAIN new : i # j => new[i] # new[j]
    BY <1>1 DEF Distinct
  <1>3. \A i \in DOMAIN actions : actions[i].database \in Nat
    BY DatabasesAreNumbers
  <1> DEFINE joined == actions \o new
             n == Len(actions)
  <1>4. /\ DOMAIN actions = 1 .. n /\ DOMAIN new = 1 .. Len(new)
        /\ n \in Nat /\ Len(new) \in Nat
        /\ DOMAIN joined = 1 .. (n + Len(new))
        /\ \A i \in 1 .. (n + Len(new)) :
              joined[i] = IF i <= n THEN actions[i] ELSE new[i - n]
    OBVIOUS
  <1> HIDE DEF joined, n
  <1>5. ASSUME NEW i \in DOMAIN joined
        PROVE  \/ i <= n /\ i \in DOMAIN actions /\ joined[i] = actions[i]
               \/ i > n /\ i - n \in DOMAIN new /\ joined[i] = new[i - n]
    BY <1>4
  <1>6. Before(joined, client + 1)
    <2>1. SUFFICES ASSUME NEW i \in DOMAIN joined
                   PROVE  joined[i].database < client + 1
      BY DEF Before
    <2>2. CASE i \in DOMAIN actions /\ joined[i] = actions[i]
      <3>1. actions[i].database < client /\ actions[i].database \in Nat
        BY <1>3, <2>2 DEF Before
      <3> QED
        BY <2>2, <3>1
    <2>3. CASE i - n \in DOMAIN new /\ joined[i] = new[i - n]
      BY <1>1, <2>3
    <2> QED
      BY <1>5, <2>2, <2>3
  <1>7. Ordered(joined)
    <2>1. SUFFICES ASSUME NEW i \in DOMAIN joined, NEW j \in DOMAIN joined, i < j
                   PROVE  /\ joined[i].database <= joined[j].database
                          /\ joined[i] # joined[j]
      BY DEF Ordered
    <2>2. i \in Nat /\ j \in Nat /\ n \in Nat /\ i < j
      BY <1>4, <2>1
    <2>6. \/ i <= n /\ i \in DOMAIN actions /\ joined[i] = actions[i]
          \/ i > n /\ i - n \in DOMAIN new /\ joined[i] = new[i - n]
      BY <1>5
    <2>7. \/ j <= n /\ j \in DOMAIN actions /\ joined[j] = actions[j]
          \/ j > n /\ j - n \in DOMAIN new /\ joined[j] = new[j - n]
      BY <1>5
    <2>3. CASE j <= n
      <3>1. /\ i \in DOMAIN actions /\ j \in DOMAIN actions
            /\ joined[i] = actions[i] /\ joined[j] = actions[j]
        BY ONLY <2>2, <2>6, <2>7, <2>3
      <3> QED
        BY <3>1, <2>1 DEF Ordered
    <2>4. CASE i <= n /\ j > n
      <3>1. /\ i \in DOMAIN actions /\ j - n \in DOMAIN new
            /\ joined[i] = actions[i] /\ joined[j] = new[j - n]
        BY ONLY <2>2, <2>6, <2>7, <2>4
      <3>2. /\ actions[i].database \in Nat /\ actions[i].database < client
            /\ new[j - n].database = client
        BY <1>1, <1>3, <3>1 DEF Before
      <3> QED
        BY <3>1, <3>2
    <2>5. CASE i > n
      <3>1. /\ i - n \in DOMAIN new /\ j - n \in DOMAIN new /\ i - n # j - n
            /\ joined[i] = new[i - n] /\ joined[j] = new[j - n]
        BY ONLY <2>2, <2>6, <2>7, <2>5
      <3>2. /\ new[i - n].database = client /\ new[j - n].database = client
            /\ new[i - n] # new[j - n]
        BY <1>1, <1>2, <3>1
      <3> QED
        BY <3>1, <3>2
    <2> QED
      BY <2>2, <2>3, <2>4, <2>5
  <1> QED
    BY <1>6, <1>7 DEF joined

\* Nothing gathered is in order.
LEMMA NothingGatheredYet ==
  /\ Ordered(NothingGathered.actions)
  /\ Before(NothingGathered.actions, NothingGathered.client)
  /\ Distinct(NothingGathered.rows)
  BY DEF NothingGathered, Ordered, Before, Distinct

\* A client is left with what was gathered before it.
LEMMA NextClientKeeps ==
  ASSUME NEW g, NEW answered, NEW actions,
         Ordered(actions), Before(actions, g.client + 1)
  PROVE  LET h == NextClient(g, answered, actions)
         IN  Ordered(h.actions) /\ Before(h.actions, h.client) /\ Distinct(h.rows)
  BY DEF NextClient, Distinct

\* What comes before a client comes before the next.
LEMMA BeforeNext ==
  ASSUME NEW actions, NEW client \in Nat, Before(actions, client),
         \A i \in DOMAIN actions : actions[i].database \in Nat
  PROVE  Before(actions, client + 1)
  <1> SUFFICES ASSUME NEW i \in DOMAIN actions
               PROVE  actions[i].database < client + 1
    BY DEF Before
  <1>1. actions[i].database \in Nat /\ actions[i].database < client
    BY DEF Before
  <1> QED
    BY <1>1

\* Every step of the gathering keeps its order; a break drops only rows.
LEMMA AlarmStep ==
  ASSUME RInv, AlarmInv, [Next]_vars
  PROVE  AlarmInv'
  <1>1. gather \in [Threads -> GatherType]
    BY DEF RInv, TypeOK, GatherType
  <1>2. ASSUME NEW t \in Threads, NEW g, gather' = [gather EXCEPT ![t] = g],
               Ordered(g.actions), Before(g.actions, g.client), Distinct(g.rows)
        PROVE  AlarmInv'
    BY <1>1, <1>2 DEF AlarmInv
  <1>3. CASE Crash
    BY <1>3, NothingGatheredYet DEF Crash, AlarmInv
  <1>4. ASSUME NEW t \in Threads, CountClientError(t) \/ Count(t) PROVE AlarmInv'
    BY <1>2, <1>4, NothingGatheredYet DEF CountClientError, Count, Leave
  <1>5. ASSUME NEW t \in Threads,
               ReadAlarms(t) \/ Break(t) \/ SkipDatabase(t) \/ CommitAlarms(t)
        PROVE  AlarmInv'
    <2>1. /\ gather[t] \in GatherType
          /\ Ordered(gather[t].actions)
          /\ Before(gather[t].actions, gather[t].client)
          /\ Distinct(gather[t].rows)
      BY <1>1 DEF AlarmInv
    <2>2. /\ gather[t].client \in Nat /\ gather[t].rows \in Seq(STRING)
          /\ gather[t].actions \in Seq([database : Nat, row : STRING])
      BY <2>1 DEF GatherType
    <2>3. Before(gather[t].actions, gather[t].client + 1)
      <3>1. \A i \in DOMAIN gather[t].actions : gather[t].actions[i].database \in Nat
        BY <2>2, DatabasesAreNumbers
      <3> QED
        BY <2>1, <2>2, <3>1, BeforeNext
    <2>4. ASSUME gather' = [gather EXCEPT ![t] = Skipping(gather[t])]
          PROVE  AlarmInv'
      BY <1>2, <2>1, <2>3, <2>4, NextClientKeeps DEF Skipping
    <2>5. CASE ReadAlarms(t)
      <3>1. PICK rows \in AlarmRows :
               gather' = [gather EXCEPT ![t] =
                            [gather[t] EXCEPT !.open = TRUE, !.rows = rows]]
        BY <2>5 DEF ReadAlarms, GatherOnly
      <3> DEFINE g == [gather[t] EXCEPT !.open = TRUE, !.rows = rows]
      <3>5. gather' = [gather EXCEPT ![t] = g]
        BY <3>1
      <3>2. Distinct(rows)
        BY RoutesAssumption DEF Distinct
      <3>3. /\ g.actions = gather[t].actions /\ g.client = gather[t].client
            /\ g.rows = rows
        BY <2>1 DEF GatherType
      <3>4. Ordered(g.actions) /\ Before(g.actions, g.client) /\ Distinct(g.rows)
        BY <2>1, <3>2, <3>3
      <3> HIDE DEF g
      <3> QED
        BY <1>2, <3>5, <3>4
    <2>6. CASE Break(t)
      <3>1. CASE gather[t].attempt = 1
        <4> DEFINE g == [gather[t] EXCEPT !.attempt = 2, !.open = FALSE, !.rows = <<>>]
        <4>1. gather' = [gather EXCEPT ![t] = g]
          BY <2>6, <3>1 DEF Break, GatherOnly
        <4>2. Distinct(<<>>)
          BY DEF Distinct
        <4>3. /\ g.actions = gather[t].actions /\ g.client = gather[t].client
              /\ g.rows = <<>>
          BY <2>1 DEF GatherType
        <4>4. Ordered(g.actions) /\ Before(g.actions, g.client) /\ Distinct(g.rows)
          BY <2>1, <4>2, <4>3
        <4> HIDE DEF g
        <4> QED
          BY <1>2, <4>1, <4>4
      <3>2. CASE gather[t].attempt # 1
        BY <2>4, <2>6, <3>2 DEF Break, GatherOnly
      <3> QED
        BY <3>1, <3>2
    <2>7. CASE SkipDatabase(t)
      BY <2>4, <2>7 DEF SkipDatabase, GatherOnly
    <2>8. CASE CommitAlarms(t)
      <3> DEFINE actions == [i \in DOMAIN gather[t].rows |->
                               [database |-> gather[t].client,
                                row |-> gather[t].rows[i]]]
      <3>1. gather' = [gather EXCEPT ![t] =
               NextClient(gather[t], gather[t].answered + 1, gather[t].actions \o actions)]
        BY <2>8 DEF CommitAlarms, GatherOnly
      <3>2. actions \in Seq([database : Nat, row : STRING])
        BY <2>2, RowsBecomeActions
      <3>3. /\ Ordered(gather[t].actions \o actions)
            /\ Before(gather[t].actions \o actions, gather[t].client + 1)
        BY <2>1, <2>2, <3>2, JoinedInOrder
      <3> HIDE DEF actions
      <3> QED
        BY <1>2, <3>1, <3>3, NextClientKeeps
    <2> QED
      BY <1>5, <2>5, <2>6, <2>7, <2>8
  <1>6. CASE UNCHANGED gather
    BY <1>6 DEF AlarmInv
  <1> QED
    <2>1. CASE Start \/ Elsewhere \/ Export \/ UNCHANGED vars
      BY <1>6, <2>1 DEF Start, Elsewhere, Export, serving, vars
    <2>2. ASSUME NEW t \in Threads, Handle(t) PROVE AlarmInv'
      BY <1>4, <1>5, <1>6, <2>2
         DEF Handle, Dispatch, Reject, Admit, Throw, Fetch, Fetched, List, ListLocks,
             AnswerAlarms, CountDenial, serving
    <2> QED
      BY <1>3, <2>1, <2>2 DEF Next

\* Nothing is gathered at first.
LEMMA AlarmsInit == Init => AlarmInv
  BY NothingGatheredYet DEF Init, Fresh, AlarmInv

-----------------------------------------------------------------------------
(* The locks.                                                              *)

ShownInv ==
    /\ DOMAIN locks = Threads
    /\ \A t \in Threads :
          \/ locks[t] = NoLocks
          \/ \E table \in LockTables, moment \in Moments,
                skew \in -MaxSkew .. MaxSkew :
                locks[t] = [table  |-> table,
                            moment |-> moment,
                            found  |-> EventLocks(table, moment + skew,
                                                  options.catalogDuration)]

\* The bucket is less than its length behind the clock.
LEMMA BucketIsNear ==
  ASSUME NEW moment \in Int
  PROVE  Bucket(moment) \in Int /\ Bucket(moment) > moment - BucketLength
  <1>1. moment % 5 \in 0 .. 4
    OBVIOUS
  <1> QED
    BY <1>1 DEF Bucket, BucketLength

\* What was in the catalog is not behind the cutoff.
LEMMA CutoffIsBefore ==
  ASSUME NEW time \in Int, NEW lddate \in Int, NEW moment \in Int, NEW duration \in Int,
         NEW skew \in -MaxSkew .. MaxSkew,
         NEW seen \in moment - Refresh .. moment,
         InCatalog(time, seen, duration), lddate >= time
  PROVE  lddate > (moment + skew) - duration - LockWindowTolerance
  <1>1. /\ MaxSkew \in Nat /\ Refresh \in Nat /\ skew \in Int /\ seen \in Int
        /\ skew <= MaxSkew /\ seen >= moment - Refresh
        /\ MaxSkew + BucketLength + Refresh <= LockWindowTolerance
    BY WindowAssumption
  <1>2. Bucket(seen) \in Int /\ Bucket(seen) > seen - BucketLength
    BY <1>1, BucketIsNear
  <1>3. time >= Bucket(seen) - duration
    BY DEF InCatalog
  <1> QED
    BY ONLY <1>1, <1>2, <1>3, time \in Int, lddate \in Int, moment \in Int,
            duration \in Int, lddate >= time
       DEF BucketLength, LockWindowTolerance

\* A list of locks found from a table shows those of every event in the window.
LEMMA LocksShown ==
  ASSUME RInv, ShownInv
  PROVE  LockedEventsShown
  <1>1. SUFFICES ASSUME NEW t \in Threads, NEW row \in locks[t].table,
                        NEW seen \in locks[t].moment - Refresh .. locks[t].moment,
                        InCatalog(row.time, seen, options.catalogDuration)
                 PROVE  \E lock \in locks[t].found : lock.event = row.event
    BY DEF LockedEventsShown
  <1>2. PICK table \in LockTables, moment \in Moments, skew \in -MaxSkew .. MaxSkew :
          locks[t] = [table  |-> table,
                      moment |-> moment,
                      found  |-> EventLocks(table, moment + skew,
                                            options.catalogDuration)]
    BY DEF ShownInv, NoLocks
  <1> DEFINE duration == options.catalogDuration
             lock == [event      |-> row.event,
                      user       |-> IF row.user = None THEN "unknown" ELSE row.user,
                      acquiredAt |-> row.lddate]
  <1>3. /\ row \in table /\ moment \in Int /\ duration \in Int
        /\ row.time \in Int /\ row.lddate \in Int
        /\ row.lddate = NoDate \/ row.lddate >= row.time
        /\ seen \in moment - Refresh .. moment
    BY <1>2, LocksAssumption DEF RInv, TypeOK
  <1>4. row.lddate = NoDate \/ row.lddate > (moment + skew) - duration - LockWindowTolerance
    BY <1>1, <1>3, CutoffIsBefore
  <1>5. lock \in EventLocks(table, moment + skew, duration)
    BY <1>3, <1>4 DEF EventLocks
  <1> QED
    BY <1>2, <1>5

\* Every list of locks is found from one table at one moment.
LEMMA LocksStep ==
  ASSUME RInv, ShownInv, [Next]_vars
  PROVE  ShownInv'
  <1>1. UNCHANGED options
    <2>1. ASSUME NEW t \in Threads, Handle(t) PROVE UNCHANGED options
      BY <2>1 DEF Handle, Dispatch, Reject, Admit, Throw, Fetch, Fetched, List,
                  ListLocks, ReadAlarms, Break, SkipDatabase, CommitAlarms,
                  AnswerAlarms, GatherOnly, CountDenial, CountClientError, Count
    <2>2. CASE Start \/ Crash \/ Elsewhere \/ Export \/ UNCHANGED vars
      BY <2>2 DEF Start, Crash, Elsewhere, Export, vars
    <2> QED
      BY <2>1, <2>2 DEF Next
  <1>2. CASE Crash
    BY <1>2 DEF Crash, ShownInv
  <1>3. ASSUME NEW t \in Threads, CountClientError(t) \/ Count(t) PROVE ShownInv'
    BY <1>1, <1>3 DEF CountClientError, Count, Leave, ShownInv
  <1>4. ASSUME NEW t \in Threads, ListLocks(t) PROVE ShownInv'
    BY <1>1, <1>4 DEF ListLocks, ShownInv
  <1>5. CASE UNCHANGED locks
    BY <1>1, <1>5 DEF ShownInv
  <1>6. CASE Start \/ Elsewhere \/ Export \/ UNCHANGED vars
    BY <1>5, <1>6 DEF Start, Elsewhere, Export, serving, vars
  <1>7. ASSUME NEW t \in Threads, Handle(t) PROVE ShownInv'
    BY <1>3, <1>4, <1>5, <1>7
       DEF Handle, Dispatch, Reject, Admit, Throw, Fetch, Fetched, List, ReadAlarms,
           Break, SkipDatabase, CommitAlarms, GatherOnly, AnswerAlarms, CountDenial,
           serving
  <1> QED
    BY <1>2, <1>6, <1>7 DEF Next

\* No locks are listed at first.
LEMMA LocksInit == Init => ShownInv
  BY DEF Init, Fresh, ShownInv

-----------------------------------------------------------------------------
(* The theorems.                                                           *)

\* Every step keeps the invariant of the roots, of the types and of the
\* requests.
LEMMA Invariant == Spec => []RInv
  <1> QED
    BY RoutesInit, RoutesStep, PTL DEF Spec

\* The values of the variables, whatever the process is asked and however
\* often it is killed.
THEOREM TypeCorrect == Spec => []TypeOK
  <1>1. RInv => TypeOK
    BY DEF RInv
  <1> QED
    BY <1>1, Invariant, PTL

\* Over starts and crashes of the process, a root that is asked for and may
\* be wrong is one whose window was open when it was read (getFileRoot).
THEOREM RootsAreTrue == Spec => []StaleOnlyIfOpenEnded
  <1>1. RInv => StaleOnlyIfOpenEnded
    BY InvImplies DEF RInv
  <1> QED
    BY <1>1, Invariant, PTL

\* Over starts and crashes, and though the constructor may hold no roots at
\* all, no root is found only where AQMS has none (getFileRoot).
THEOREM MissesAreTrue == Spec => []NoRootMeansNone
  <1>1. RInv => NoRootMeansNone
    BY InvImplies DEF RInv
  <1> QED
    BY <1>1, Invariant, PTL

\* The roots this process holds never go back to an older reading of the
\* table while it runs, however its requests interleave (mFileRoots).
THEOREM HeldRootsNeverRegress == Spec => HeldNeverRegress
  <1> DEFINE Kept == \A t \in Threads : pc[t] = "store" /\ pc'[t] \in Fetching =>
               {w.onTime : w \in fileRoots} \subseteq {w.onTime : w \in fileRoots'}
  <1>1. ASSUME RInv, [Next]_vars PROVE Kept
    <2>1. CASE [WaveformsNext]_waveformVars
      BY <1>1, <2>1, StepKeeps DEF RInv
    <2>2. CASE Start
      BY <1>1, <2>2 DEF RInv, Serving, ServeInv, Start
    <2>3. CASE Crash
      BY <2>3 DEF Crash, FallQuiet, Fetching
    <2> QED
      BY <1>1, <2>1, <2>2, <2>3, StepOfWaveforms
  <1>2. RInv /\ [Next]_vars => [Kept]_waveformVars
    BY <1>1
  <1> HIDE DEF Kept
  <1>3. Spec => [][Kept]_waveformVars
    BY <1>2, Invariant, PTL DEF Spec
  <1> QED
    BY <1>3 DEF HeldNeverRegress, Kept

\* What is fetched, and what is answered, are the files of the archive.
LEMMA AnswersInvariant == Spec => [](WaveformsTypeOK /\ AnswersInv)
  <1>1. Init => AnswersInv
    BY QuietAnswers DEF Init, WaveformsInit
  <1>2. RInv /\ AnswersInv /\ [Next]_vars => AnswersInv'
    BY AnswersStep
  <1>3. RInv => WaveformsTypeOK
    BY DEF RInv, IInv
  <1> QED
    BY <1>1, <1>2, <1>3, Invariant, PTL DEF Spec

\* For every file an archive may hold, its packets in any order, every one
\* that could be parsed is drawn less than half a period off its own time,
\* and nothing else is drawn (unpack, setSegments).
THEOREM PacketsInPlace == Spec => []EveryPacketInPlace
  <1>1. WaveformsTypeOK /\ AnswersInv => EveryPacketInPlace
    BY AnswersTrue
  <1> QED
    BY <1>1, AnswersInvariant, PTL

\* For every file and every encoding, the samples are rebuilt from what is
\* sent, exactly or within half a level of the full scale (writeSamples).
THEOREM SamplesRebuilt == Spec => []EverySampleRebuilt
  <1>1. WaveformsTypeOK /\ AnswersInv => EverySampleRebuilt
    BY AnswersTrue
  <1> QED
    BY <1>1, AnswersInvariant, PTL

\* A request for waveforms that waits for mFileRootsMutex or holds it has at
\* most four steps to take for each of its streams, one to lock and one to
\* unlock, however often the roots are read again, whatever fails and whatever
\* the other requests do (fetchWaveforms).
THEOREM FetchesRunOut == Spec => [][FetchRunsOut]_vars
  <1>1. ASSUME RInv, AnswersInv, [Next]_vars PROVE FetchRunsOut
    <2>1. CASE [WaveformsNext]_waveformVars
      BY <1>1, <2>1, FetchStep DEF RInv
    <2>2. CASE Start
      BY <1>1, <2>2 DEF RInv, Serving, ServeInv, Start, FetchRunsOut, Fetching
    <2>3. CASE Crash
      <3>1. \A t \in Threads : pc'[t] = "idle"
        BY <2>3 DEF Crash, FallQuiet
      <3>2. \A t \in Threads : Left(t)' = 0
        BY <3>1 DEF Left, AtAStream
      <3> QED
        BY <1>1, <3>2, LeftType DEF FetchRunsOut
    <2> QED
      BY <1>1, <2>1, <2>2, <2>3, StepOfWaveforms
  <1>2. RInv /\ AnswersInv /\ [Next]_vars => [FetchRunsOut]_vars
    BY <1>1
  <1> QED
    BY <1>2, Invariant, AnswersInvariant, PTL DEF Spec

\* mFileRootsMutex never stays with a thread that has no step to take: with
\* FetchesRunOut, whoever waits behind it waits for as many steps of its
\* holder at most.
THEOREM MutexComesFree == Spec => []WaitersAreServed
  <1>1. RInv => WaitersAreServed
    BY HolderGoesOn DEF RInv
  <1> QED
    BY <1>1, Invariant, PTL

\* Every request is counted once against its route or is still under way,
\* whichever way it left its handler (RouteTimer).
THEOREM CountedOnce == Spec => []RequestsCountedOnce
  <1>1. Init => RequestsCountedOnce
    BY CountedOnceInit
  <1>2. RInv /\ RequestsCountedOnce /\ [Next]_vars => RequestsCountedOnce'
    BY CountedOnceStep
  <1> QED
    BY <1>1, <1>2, Invariant, PTL DEF Spec

\* The denials among the client errors of an export are in the global
\* counters of the same export: the global counter is incremented first and
\* read last (recordRouteOutcome, createMeters).
THEOREM DenialsAreExported == Spec => []DenialsExported
  <1>1. Init => DenialInv
    BY DenialInit
  <1>2. RInv /\ RInv' /\ DenialInv /\ [Next]_vars => DenialInv'
    BY DenialStep
  <1>3. DenialInv => DenialsExported
    BY DEF DenialInv, DenialsExported
  <1> QED
    BY <1>1, <1>2, <1>3, Invariant, PTL DEF Spec

\* Each database's alarms are in the answer once and in the order of the
\* databases, although a second attempt reads them again (getAlarms).
THEOREM AlarmsOnce == Spec => []EachAlarmOnce
  <1>1. Init => AlarmInv
    BY AlarmsInit
  <1>2. RInv /\ AlarmInv /\ [Next]_vars => AlarmInv'
    BY AlarmStep
  <1>3. AlarmInv => EachAlarmOnce
    BY DEF AlarmInv, Ordered, EachAlarmOnce
  <1> QED
    BY <1>1, <1>2, <1>3, Invariant, PTL DEF Spec

\* The locks of the events a screen may still show are listed, for every
\* skew and age within the tolerance (LOCK_WINDOW_TOLERANCE).
THEOREM LocksAreShown == Spec => []LockedEventsShown
  <1>1. Init => ShownInv
    BY LocksInit
  <1>2. RInv /\ ShownInv /\ [Next]_vars => ShownInv'
    BY LocksStep
  <1>3. RInv /\ ShownInv => LockedEventsShown
    BY LocksShown
  <1> QED
    BY <1>1, <1>2, <1>3, Invariant, PTL DEF Spec
=============================================================================
