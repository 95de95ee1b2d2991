-------------------------- MODULE CatalogCacheProofs --------------------------
(***************************************************************************)
(* Proofs about CatalogCache, for any number of instances and threads, any *)
(* kinds of change, any bucket length and any age limit.                   *)
(*                                                                         *)
(* The argument: a thread carries the bucket in which it asked for its     *)
(* token ("asked").  What it builds afterwards is the present, so it has   *)
(* everything committed before that bucket; what it finds in the cache     *)
(* carries its own token, hence its own bucket, and was built by a thread  *)
(* that read that token first.  No lddate, no count and no clear() is      *)
(* needed for this, which is why the bound survives the changes the token  *)
(* cannot see.                                                             *)
(***************************************************************************)
EXTENDS CatalogCache, TLAPS

\* No bucket of the past began after a change that is yet to come.
BucketsInOrder ==
    \A b \in 0 .. MaxClock :
        b <= bucket => bucketStart[b] <= aqms.version

\* What a thread has read is consistent with when it asked.
RequestOK(r) ==
    LET q == request[r] IN
    /\ q.asked <= bucket
    /\ q.change <= aqms.version
    /\ q.token # NoToken => q.token.bucket = q.asked
    /\ q.stage = "lookup" => q.token # NoToken
    /\ q.stage \in {"store", "answered"} =>
          /\ q.catalog \in Catalog
          /\ q.catalog.version <= aqms.version
          /\ q.catalog.version >= bucketStart[q.asked]
          /\ q.catalog.window >= q.asked
    /\ (q.stage = "store" /\ ~q.overtaken) =>
          q.catalog.version >= acted[Home[r]]

\* A cached entry is as new as its token, and no newer than AQMS.
EntryOK(i) ==
    cache[i] # NoEntry =>
        /\ cache[i] \in Entry
        /\ cache[i].token.bucket <= bucket
        /\ cache[i].catalog.version <= aqms.version
        /\ cache[i].catalog.version >= bucketStart[cache[i].token.bucket]
        /\ cache[i].catalog.window >= cache[i].token.bucket
        /\ ~cache[i].overtaken => cache[i].catalog.version >= acted[i]

\* The inductive invariant.
IInv ==
    /\ TypeOK
    /\ BucketsInOrder
    /\ \A r \in Requests : RequestOK(r)
    /\ \A i \in Instances : EntryOK(i) /\ acted[i] <= aqms.version
-----------------------------------------------------------------------------
\* Nothing is cached, and nobody has asked.
LEMMA InitIInv == Init => IInv
  <1> SUFFICES ASSUME Init PROVE IInv
    OBVIOUS
  <1> USE ConstantsAssumption DEF Init
  <1>1. TypeOK
    BY DEF TypeOK, Request, IdleRequest, Stage, NoToken, NoCatalog
  <1>2. BucketsInOrder
    BY DEF BucketsInOrder
  <1>3. \A r \in Requests : RequestOK(r)
    BY DEF RequestOK, IdleRequest, NoToken
  <1>4. ASSUME NEW i \in Instances
        PROVE  EntryOK(i) /\ acted[i] <= aqms.version
    <2>1. cache[i] = NoEntry
      OBVIOUS
    <2>2. acted[i] <= aqms.version
      OBVIOUS
    <2> QED
      BY <2>1, <2>2 DEF EntryOK
  <1> QED
    BY <1>1, <1>2, <1>3, <1>4 DEF IInv

(***************************************************************************)
(* A change committed by another writer, or by an action: the version only *)
(* grows, and neither the cache nor the buckets move.                      *)
(***************************************************************************)
LEMMA CommitStep ==
  ASSUME IInv, NEW ld \in Nat, NEW sel \in Int, NEW rev \in BOOLEAN,
         CommitChange(ld, sel, rev)
  PROVE  /\ aqms' \in [version : Nat, stamp : Nat, lddate : Nat,
                       selected : Nat, revised : Nat]
         /\ aqms'.version = aqms.version + 1
         /\ BucketsInOrder'
         /\ \A i \in Instances : EntryOK(i)' /\ acted'[i] <= aqms'.version
  <1> USE DEF CommitChange
  <1>1. aqms.version \in Nat /\ aqms.stamp \in Nat /\ aqms.revised \in Nat
    BY DEF IInv, TypeOK
  <1>2. /\ aqms' \in [version : Nat, stamp : Nat, lddate : Nat,
                      selected : Nat, revised : Nat]
        /\ aqms'.version = aqms.version + 1
    BY <1>1
  <1>3. BucketsInOrder'
    BY <1>1, <1>2, ConstantsAssumption DEF IInv, TypeOK, BucketsInOrder
  <1>4. ASSUME NEW i \in Instances
        PROVE  EntryOK(i)' /\ acted'[i] <= aqms'.version
    BY <1>1, <1>2 DEF IInv, TypeOK, EntryOK, Entry, Catalog
  <1> QED
    BY <1>2, <1>3, <1>4

\* The commits that touch no request.
LEMMA WriterStep ==
  ASSUME IInv, NEW ld \in Nat, NEW sel \in Int, NEW rev \in BOOLEAN,
         CommitChange(ld, sel, rev), UNCHANGED request
  PROVE  IInv'
  <1>1. /\ aqms' \in [version : Nat, stamp : Nat, lddate : Nat,
                      selected : Nat, revised : Nat]
        /\ aqms'.version = aqms.version + 1
        /\ BucketsInOrder'
        /\ \A i \in Instances : EntryOK(i)' /\ acted'[i] <= aqms'.version
    BY CommitStep
  <1>2. UNCHANGED <<clock, bucket, cache, request, bucketStart, acted>>
    BY DEF CommitChange
  <1>3. TypeOK'
    BY <1>1, <1>2 DEF IInv, TypeOK
  <1>4. ASSUME NEW r \in Requests PROVE RequestOK(r)'
    <2>1. request[r] \in Request /\ RequestOK(r) /\ aqms.version \in Nat
      BY DEF IInv, TypeOK
    <2> QED
      BY <1>1, <1>2, <2>1 DEF RequestOK, Request, Catalog
  <1> QED
    BY <1>1, <1>3, <1>4 DEF IInv

\* A new bucket begins with what is committed by then.
LEMMA TickStep == IInv /\ Tick => IInv'
  <1> SUFFICES ASSUME IInv, Tick PROVE IInv'
    OBVIOUS
  <1>1. /\ clock \in 0 .. MaxClock /\ bucket \in 0 .. clock
        /\ bucketStart \in [0 .. MaxClock -> Nat] /\ aqms.version \in Nat
        /\ MaxClock \in Nat
    BY ConstantsAssumption DEF IInv, TypeOK
  <1>2. /\ clock' = clock + 1 /\ clock' \in 0 .. MaxClock
        /\ bucket' \in {bucket, bucket + 1} /\ bucket' \in 0 .. clock'
        /\ bucketStart' \in [0 .. MaxClock -> Nat]
        /\ \A b \in 0 .. MaxClock : b <= bucket => bucketStart'[b] = bucketStart[b]
        /\ \A b \in 0 .. MaxClock :
              b = bucket' /\ b # bucket => bucketStart'[b] = aqms.version
        /\ UNCHANGED <<aqms, cache, request, acted>>
    <2>1. /\ clock' = clock + 1 /\ clock' \in 0 .. MaxClock
          /\ UNCHANGED <<aqms, cache, request, acted>>
      BY <1>1 DEF Tick
    <2>2. CASE /\ bucket' = bucket + 1
               /\ bucketStart' =
                    [bucketStart EXCEPT ![bucket + 1] = aqms.version]
      <3>1. bucket + 1 \in 0 .. MaxClock /\ bucket' \in 0 .. clock'
        BY <1>1, <2>1, <2>2
      <3> QED
        BY <1>1, <2>1, <2>2, <3>1
    <2>3. CASE UNCHANGED <<bucket, bucketStart>>
      BY <1>1, <2>1, <2>3
    <2> QED
      BY <2>2, <2>3 DEF Tick
  <1>3. TypeOK'
    BY <1>2 DEF IInv, TypeOK
  <1>4. BucketsInOrder'
    <2> SUFFICES ASSUME NEW b \in 0 .. MaxClock, b <= bucket'
                 PROVE  bucketStart'[b] <= aqms'.version
      BY DEF BucketsInOrder
    <2>1. CASE b <= bucket
      BY <1>1, <1>2, <2>1 DEF IInv, BucketsInOrder
    <2>2. CASE ~(b <= bucket)
      <3>1. b = bucket' /\ b # bucket
        <4>1. b \in Nat /\ bucket \in Nat
          BY <1>1
        <4> QED
          BY <1>2, <2>2, <4>1
      <3>2. bucketStart'[b] = aqms.version /\ aqms' = aqms
        BY <1>2, <3>1
      <3> QED
        BY <1>1, <3>2
    <2> QED
      BY <2>1, <2>2
  <1>5. ASSUME NEW r \in Requests PROVE RequestOK(r)'
    <2>1. request[r] \in Request /\ RequestOK(r)
      BY DEF IInv, TypeOK
    <2> QED
      BY <1>1, <1>2, <2>1 DEF RequestOK, Request
  <1>6. ASSUME NEW i \in Instances
        PROVE  EntryOK(i)' /\ acted'[i] <= aqms'.version
    <2>1. EntryOK(i) /\ acted[i] <= aqms.version
      BY DEF IInv
    <2>2. cache[i] # NoEntry => cache[i].token.bucket \in 0 .. MaxClock
      BY <1>1, <2>1 DEF EntryOK, Entry, Token
    <2> QED
      BY <1>1, <1>2, <2>1, <2>2 DEF EntryOK, Entry, Token
  <1> QED
    BY <1>3, <1>4, <1>5, <1>6 DEF IInv

(***************************************************************************)
(* A step of one thread that touches nothing but that thread's request.    *)
(***************************************************************************)
LEMMA ThreadStep ==
  ASSUME IInv, NEW r \in Requests, NEW q \in Request,
         request' = [request EXCEPT ![r] = q],
         UNCHANGED <<aqms, clock, bucket, cache, bucketStart, acted>>,
         RequestOK(r)'
  PROVE  IInv'
  <1>1. TypeOK'
    BY DEF IInv, TypeOK
  <1>2. BucketsInOrder'
    BY DEF IInv, BucketsInOrder
  <1>3. ASSUME NEW p \in Requests PROVE RequestOK(p)'
    <2>1. CASE p = r
      BY <2>1
    <2>2. CASE p # r
      <3>1. request'[p] = request[p]
        BY <2>2 DEF IInv, TypeOK
      <3>2. RequestOK(p)
        BY DEF IInv
      <3> QED
        BY <3>1, <3>2 DEF RequestOK
    <2> QED
      BY <2>1, <2>2
  <1>4. \A i \in Instances : EntryOK(i)' /\ acted'[i] <= aqms'.version
    BY DEF IInv, EntryOK
  <1> QED
    BY <1>1, <1>2, <1>3, <1>4 DEF IInv

\* A request asks in the bucket of now, whether its token is read or not
\* (queryCatalogFreshness).
LEMMA BeginStep ==
  ASSUME IInv, NEW r \in Requests, NEW token, NEW next,
         \/ token = Freshness /\ next = "lookup"
         \/ token = NoToken /\ next = "build",
         BeginRequest(r, token, next)
  PROVE  IInv'
  <1> DEFINE q == [IdleRequest EXCEPT !.stage = next, !.token = token,
                                      !.asked = bucket, !.due = aqms.revised]
  <1>1. /\ aqms \in [version : Nat, stamp : Nat, lddate : Nat,
                     selected : Nat, revised : Nat]
        /\ clock \in 0 .. MaxClock /\ bucket \in 0 .. clock
        /\ request \in [Requests -> Request]
    BY DEF IInv, TypeOK
  <1>2. Freshness \in Token /\ Freshness.bucket = bucket
    BY <1>1, ConstantsAssumption DEF Freshness, Token
  <1>3. Freshness # NoToken
    BY <1>1 DEF Freshness, NoToken
  <1>4. q \in Request
    <2>1. next \in Stage
      BY DEF Stage
    <2>2. token \in Token \cup {NoToken}
      BY <1>2
    <2>3. bucket \in 0 .. MaxClock /\ aqms.revised \in Nat
      BY <1>1, ConstantsAssumption
    <2> QED
      BY <2>1, <2>2, <2>3 DEF Request, IdleRequest
  <1>5. request' = [request EXCEPT ![r] = q]
    BY DEF BeginRequest
  <1>6. request'[r] = q
    BY <1>1, <1>5
  <1>7. UNCHANGED <<aqms, clock, bucket, cache, bucketStart, acted>>
    BY DEF BeginRequest
  <1>8. RequestOK(r)'
    BY <1>1, <1>2, <1>3, <1>6, <1>7
       DEF RequestOK, IdleRequest, NoToken
  <1> HIDE DEF q
  <1> QED
    BY <1>4, <1>5, <1>7, <1>8, ThreadStep

\* A hit is an entry of the bucket the request asked in (lookup).
LEMMA HitStep == \A r \in Requests : IInv /\ LookupHit(r) => IInv'
  <1> SUFFICES ASSUME NEW r \in Requests, IInv, LookupHit(r) PROVE IInv'
    OBVIOUS
  <1> DEFINE e == cache[Home[r]]
             q == [request[r] EXCEPT !.stage = "answered", !.catalog = e.catalog]
  <1>1. /\ request[r] \in Request /\ RequestOK(r)
        /\ Home[r] \in Instances /\ EntryOK(Home[r])
        /\ aqms.version \in Nat /\ clock \in 0 .. MaxClock
        /\ request \in [Requests -> Request]
    BY ConstantsAssumption DEF IInv, TypeOK
  <1>2. /\ e # NoEntry /\ e.token = request[r].token
        /\ request[r].stage = "lookup"
    BY DEF LookupHit, Answers
  <1>3. /\ e \in Entry /\ e.token.bucket = request[r].asked
        /\ e.catalog \in Catalog
        /\ e.catalog.version <= aqms.version
        /\ e.catalog.version >= bucketStart[request[r].asked]
        /\ e.catalog.window >= request[r].asked
    BY <1>1, <1>2 DEF EntryOK, RequestOK, Entry
  <1>4. q \in Request
    BY <1>1, <1>3 DEF Request, Stage
  <1>5. /\ request' = [request EXCEPT ![r] = q]
        /\ UNCHANGED <<aqms, clock, bucket, cache, bucketStart, acted>>
    BY <1>1 DEF LookupHit
  <1>6. request'[r] = q
    BY <1>1, <1>5
  <1>7. RequestOK(r)'
    BY <1>1, <1>2, <1>3, <1>5, <1>6 DEF RequestOK, Request
  <1> HIDE DEF q
  <1> QED
    BY <1>4, <1>5, <1>7, ThreadStep

\* A miss leaves everything as it was (lookup).
LEMMA MissStep == \A r \in Requests : IInv /\ LookupMiss(r) => IInv'
  <1> SUFFICES ASSUME NEW r \in Requests, IInv, LookupMiss(r) PROVE IInv'
    OBVIOUS
  <1> DEFINE q == [request[r] EXCEPT !.stage = "build"]
  <1>1. request[r] \in Request /\ RequestOK(r) /\ request \in [Requests -> Request]
    BY DEF IInv, TypeOK
  <1>2. q \in Request
    BY <1>1 DEF Request, Stage
  <1>3. /\ request' = [request EXCEPT ![r] = q]
        /\ UNCHANGED <<aqms, clock, bucket, cache, bucketStart, acted>>
    BY <1>1 DEF LookupMiss
  <1>4. request'[r] = q
    BY <1>1, <1>3
  <1>5. RequestOK(r)'
    BY <1>1, <1>3, <1>4 DEF RequestOK, Request
  <1> HIDE DEF q
  <1> QED
    BY <1>2, <1>3, <1>5, ThreadStep

\* A catalog that is built has all that is committed (queryEventsInTimeRange).
LEMMA BuildStep == \A r \in Requests : IInv /\ BuildCatalog(r) => IInv'
  <1> SUFFICES ASSUME NEW r \in Requests, IInv, BuildCatalog(r) PROVE IInv'
    OBVIOUS
  <1> DEFINE q == [request[r] EXCEPT !.stage = "store", !.catalog = CurrentCatalog]
  <1>1. /\ request[r] \in Request /\ RequestOK(r)
        /\ request \in [Requests -> Request]
        /\ aqms.version \in Nat /\ clock \in 0 .. MaxClock
        /\ bucket \in 0 .. clock
        /\ Home[r] \in Instances /\ acted[Home[r]] <= aqms.version
    BY ConstantsAssumption DEF IInv, TypeOK
  <1>2. /\ request[r].asked \in 0 .. MaxClock /\ request[r].asked <= bucket
        /\ bucketStart[request[r].asked] <= aqms.version
    BY <1>1 DEF IInv, BucketsInOrder, Request, RequestOK
  <1>3. /\ CurrentCatalog \in Catalog
        /\ CurrentCatalog.version = aqms.version
        /\ CurrentCatalog.window = bucket
    BY <1>1, ConstantsAssumption DEF CurrentCatalog, Catalog
  <1>4. q \in Request
    BY <1>1, <1>3 DEF Request, Stage
  <1>5. /\ request' = [request EXCEPT ![r] = q]
        /\ UNCHANGED <<aqms, clock, bucket, cache, bucketStart, acted>>
    BY <1>1 DEF BuildCatalog
  <1>6. request'[r] = q
    BY <1>1, <1>5
  <1>7. RequestOK(r)'
    BY <1>1, <1>2, <1>3, <1>5, <1>6, ConstantsAssumption DEF RequestOK, Request
  <1> HIDE DEF q
  <1> QED
    BY <1>4, <1>5, <1>7, ThreadStep

\* A request without a token answers and stores nothing.
LEMMA UnstoredStep == \A r \in Requests : IInv /\ AnswerUnstored(r) => IInv'
  <1> SUFFICES ASSUME NEW r \in Requests, IInv, AnswerUnstored(r) PROVE IInv'
    OBVIOUS
  <1> DEFINE q == [request[r] EXCEPT !.stage = "answered"]
  <1>1. request[r] \in Request /\ RequestOK(r) /\ request \in [Requests -> Request]
    BY DEF IInv, TypeOK
  <1>2. q \in Request
    BY <1>1 DEF Request, Stage
  <1>3. /\ request' = [request EXCEPT ![r] = q] /\ request[r].stage = "store"
        /\ UNCHANGED <<aqms, clock, bucket, cache, bucketStart, acted>>
    BY <1>1 DEF AnswerUnstored
  <1>4. request'[r] = q
    BY <1>1, <1>3
  <1>5. RequestOK(r)'
    BY <1>1, <1>3, <1>4 DEF RequestOK, Request
  <1> HIDE DEF q
  <1> QED
    BY <1>2, <1>3, <1>5, ThreadStep

\* The thread goes back to waiting for a request.
LEMMA IdleStep ==
  ASSUME IInv, NEW r \in Requests,
         request' = [request EXCEPT ![r] = IdleRequest],
         UNCHANGED <<aqms, clock, bucket, cache, bucketStart, acted>>
  PROVE  IInv'
  <1>1. /\ aqms.version \in Nat /\ clock \in 0 .. MaxClock
        /\ bucket \in 0 .. clock /\ request \in [Requests -> Request]
    BY DEF IInv, TypeOK
  <1>2. IdleRequest \in Request
    BY ConstantsAssumption
       DEF Request, IdleRequest, Stage, NoToken, NoCatalog
  <1>3. request'[r] = IdleRequest
    BY <1>1
  <1>4. RequestOK(r)'
    BY <1>1, <1>3 DEF RequestOK, IdleRequest, NoToken
  <1> QED
    BY <1>2, <1>4, ThreadStep

(***************************************************************************)
(* The steps that touch a cache.                                           *)
(***************************************************************************)
LEMMA StoreStep == \A r \in Requests : IInv /\ Store(r) => IInv'
  <1> SUFFICES ASSUME NEW r \in Requests, IInv, Store(r) PROVE IInv'
    OBVIOUS
  <1> DEFINE h == Home[r]
             q == [request[r] EXCEPT !.stage = "answered"]
             e == [token |-> request[r].token, catalog |-> request[r].catalog,
                   storedAt |-> clock, overtaken |-> request[r].overtaken]
  <1>1. /\ request[r] \in Request /\ RequestOK(r)
        /\ request \in [Requests -> Request] /\ h \in Instances
        /\ cache \in [Instances -> Entry \cup {NoEntry}]
        /\ clock \in 0 .. MaxClock /\ MaxClock \in Nat
    BY ConstantsAssumption DEF IInv, TypeOK
  <1>2. /\ request[r].stage = "store" /\ request[r].token # NoToken
        /\ request' = [request EXCEPT ![r] = q]
        /\ cache' = [cache EXCEPT ![h] = e]
        /\ UNCHANGED <<aqms, clock, bucket, bucketStart, acted>>
    BY <1>1 DEF Store, StoredToken
  <1>3. q \in Request
    BY <1>1 DEF Request, Stage
  <1>4. /\ request[r].token \in Token /\ request[r].catalog \in Catalog
        /\ request[r].overtaken \in BOOLEAN
    BY <1>1, <1>2 DEF Request, RequestOK
  <1>5. e \in Entry
    BY <1>1, <1>4 DEF Entry
  <1>6. /\ request'[r] = q /\ \A p \in Requests \ {r} : request'[p] = request[p]
        /\ cache'[h] = e /\ \A i \in Instances \ {h} : cache'[i] = cache[i]
    BY <1>1, <1>2
  <1>7. TypeOK'
    BY <1>1, <1>2, <1>3, <1>5 DEF IInv, TypeOK
  <1>8. BucketsInOrder'
    BY <1>2 DEF IInv, BucketsInOrder
  <1>9. ASSUME NEW p \in Requests PROVE RequestOK(p)'
    <2>1. CASE p = r
      BY <1>1, <1>2, <1>6, <2>1 DEF RequestOK, Request
    <2>2. CASE p # r
      <3>1. RequestOK(p)
        BY DEF IInv
      <3> QED
        BY <1>2, <1>6, <2>2, <3>1 DEF RequestOK
    <2> QED
      BY <2>1, <2>2
  <1>10. ASSUME NEW i \in Instances
         PROVE  EntryOK(i)' /\ acted'[i] <= aqms'.version
    <2>1. EntryOK(i) /\ acted[i] <= aqms.version
      BY DEF IInv
    <2>2. CASE i = h
      <3>1. /\ request[r].token.bucket = request[r].asked
            /\ request[r].asked <= bucket
            /\ request[r].catalog.version <= aqms.version
            /\ request[r].catalog.version >= bucketStart[request[r].asked]
            /\ request[r].catalog.window >= request[r].asked
            /\ ~request[r].overtaken => request[r].catalog.version >= acted[h]
        BY <1>1, <1>2 DEF RequestOK
      <3> HIDE DEF h
      <3>2. cache'[i] = e
        BY <1>6, <2>2
      <3> QED
        BY <1>2, <1>5, <2>1, <2>2, <3>1, <3>2 DEF EntryOK
    <2>3. CASE i # h
      BY <1>2, <1>6, <2>1, <2>3 DEF EntryOK
    <2> QED
      BY <2>2, <2>3
  <1> QED
    BY <1>7, <1>8, <1>9, <1>10 DEF IInv

\* A commit only adds to what is committed.
LEMMA CommitActionStep == \A r \in Requests : IInv /\ CommitAction(r) => IInv'
  <1> SUFFICES ASSUME NEW r \in Requests, IInv, CommitAction(r) PROVE IInv'
    OBVIOUS
  <1> DEFINE q == [request[r] EXCEPT !.stage = "clear",
                                     !.change = aqms.version + 1]
  <1>1. /\ request[r] \in Request /\ RequestOK(r)
        /\ request \in [Requests -> Request]
        /\ aqms.lddate \in Nat /\ aqms.selected \in Int
        /\ aqms.version \in Nat
    BY DEF IInv, TypeOK
  <1>2. CommitChange(aqms.lddate, aqms.selected, FALSE)
    BY DEF CommitAction
  <1>3. /\ aqms' \in [version : Nat, stamp : Nat, lddate : Nat,
                      selected : Nat, revised : Nat]
        /\ aqms'.version = aqms.version + 1
        /\ BucketsInOrder'
        /\ \A i \in Instances : EntryOK(i)' /\ acted'[i] <= aqms'.version
    BY <1>1, <1>2, CommitStep
  <1>4. UNCHANGED <<clock, bucket, cache, bucketStart, acted>>
    BY <1>2 DEF CommitChange
  <1>5. request' = [request EXCEPT ![r] = q] /\ request[r].stage = "idle"
    BY <1>1 DEF CommitAction
  <1>6. q \in Request
    <2>1. "clear" \in Stage /\ aqms.version + 1 \in Nat
      BY <1>1 DEF Stage
    <2> QED
      BY <1>1, <2>1 DEF Request
  <1>7. request'[r] = q /\ \A p \in Requests \ {r} : request'[p] = request[p]
    BY <1>1, <1>5
  <1>8. TypeOK'
    BY <1>3, <1>4, <1>5, <1>6 DEF IInv, TypeOK
  <1>9. ASSUME NEW p \in Requests PROVE RequestOK(p)'
    <2>1. CASE p = r
      <3>1. /\ q.stage = "clear" /\ q.change = aqms.version + 1
            /\ q.asked = request[r].asked /\ q.token = request[r].token
        BY <1>1 DEF Request
      <3>2. request'[p] = q
        BY <1>7, <2>1
      <3> HIDE DEF q
      <3> QED
        BY <1>1, <1>3, <1>4, <3>1, <3>2 DEF RequestOK
    <2>2. CASE p # r
      <3>1. RequestOK(p) /\ request[p] \in Request
        BY DEF IInv, TypeOK
      <3> QED
        BY <1>1, <1>3, <1>4, <1>7, <2>2, <3>1 DEF RequestOK, Request, Catalog
    <2> QED
      BY <2>1, <2>2
  <1> QED
    BY <1>3, <1>8, <1>9 DEF IInv

\* clear() leaves nothing in the cache to be older than the action.
LEMMA AnswerActionStep == \A r \in Requests : IInv /\ AnswerAction(r) => IInv'
  <1> SUFFICES ASSUME NEW r \in Requests, IInv, AnswerAction(r) PROVE IInv'
    OBVIOUS
  <1> DEFINE h == Home[r]
             newest == IF request[r].change > acted[h]
                       THEN request[r].change ELSE acted[h]
  <1>1. /\ request[r] \in Request /\ RequestOK(r) /\ h \in Instances
        /\ request \in [Requests -> Request]
        /\ acted \in [Instances -> Nat] /\ acted[h] <= aqms.version
        /\ aqms.version \in Nat
        /\ cache \in [Instances -> Entry \cup {NoEntry}]
        /\ clock \in 0 .. MaxClock /\ bucket \in 0 .. clock
    BY ConstantsAssumption DEF IInv, TypeOK
  <1>2. /\ cache' = [cache EXCEPT ![h] = NoEntry]
        /\ acted' = [acted EXCEPT ![h] = newest]
        /\ request' = [q \in Requests |->
              IF q = r THEN IdleRequest
              ELSE IF InFlight(q, h) THEN [request[q] EXCEPT !.overtaken = TRUE]
              ELSE request[q]]
        /\ UNCHANGED <<aqms, clock, bucket, bucketStart>>
    BY DEF AnswerAction, Cleared
  <1>3. newest \in Nat /\ newest <= aqms.version
    BY <1>1 DEF Request, RequestOK
  <1>4. IdleRequest \in Request
    BY ConstantsAssumption
       DEF Request, IdleRequest, Stage, NoToken, NoCatalog
  <1>5. ASSUME NEW p \in Requests
        PROVE  request'[p] \in Request /\ RequestOK(p)'
    <2>1. request[p] \in Request /\ RequestOK(p) /\ Home[p] \in Instances
      BY ConstantsAssumption DEF IInv, TypeOK
    <2>2. CASE p = r
      <3>1. request'[p] = IdleRequest
        BY <1>2, <2>2
      <3> QED
        BY <1>1, <1>2, <1>4, <3>1 DEF RequestOK, IdleRequest, NoToken
    <2>3. CASE p # r /\ InFlight(p, h)
      <3>1. request'[p] = [request[p] EXCEPT !.overtaken = TRUE]
        BY <1>2, <2>3
      <3> QED
        BY <1>2, <2>1, <3>1 DEF RequestOK, Request
    <2>4. CASE p # r /\ ~InFlight(p, h)
      <3>1. request'[p] = request[p]
        BY <1>2, <2>4
      <3>2. request[p].stage = "store" => Home[p] # h
        BY <2>4 DEF InFlight
      <3>3. request[p].stage = "store" => acted'[Home[p]] = acted[Home[p]]
        BY <1>1, <1>2, <2>1, <3>2
      <3> QED
        BY <1>2, <2>1, <3>1, <3>3 DEF RequestOK, Request
    <2> QED
      BY <2>2, <2>3, <2>4
  <1>6. TypeOK'
    <2>1. request' \in [Requests -> Request]
      BY <1>2, <1>5
    <2>2. cache' \in [Instances -> Entry \cup {NoEntry}]
      BY <1>1, <1>2
    <2>3. acted' \in [Instances -> Nat]
      BY <1>1, <1>2, <1>3
    <2> QED
      BY <1>2, <2>1, <2>2, <2>3 DEF IInv, TypeOK
  <1>7. BucketsInOrder'
    BY <1>2 DEF IInv, BucketsInOrder
  <1>8. ASSUME NEW i \in Instances
        PROVE  EntryOK(i)' /\ acted'[i] <= aqms'.version
    <2>1. EntryOK(i) /\ acted[i] <= aqms.version
      BY DEF IInv
    <2>2. CASE i = h
      <3>1. cache'[i] = NoEntry /\ acted'[i] = newest
        BY <1>1, <1>2, <2>2
      <3> QED
        BY <1>2, <1>3, <3>1 DEF EntryOK
    <2>3. CASE i # h
      <3>1. cache'[i] = cache[i] /\ acted'[i] = acted[i]
        BY <1>1, <1>2, <2>3
      <3> QED
        BY <1>2, <2>1, <3>1 DEF EntryOK
    <2> QED
      BY <2>2, <2>3
  <1> QED
    BY <1>5, <1>6, <1>7, <1>8 DEF IInv

-----------------------------------------------------------------------------
\* Every step preserves the inductive invariant.
LEMMA NextIInv == IInv /\ [Next]_vars => IInv'
  <1> SUFFICES ASSUME IInv, [Next]_vars PROVE IInv'
    OBVIOUS
  <1>1. /\ aqms.stamp \in Nat /\ aqms.lddate \in Nat /\ aqms.selected \in Nat
    BY DEF IInv, TypeOK
  <1>2. CASE Revise
    <2>1. PICK new \in {0, 1} :
             CommitChange(aqms.stamp + 1, aqms.selected + new, TRUE)
      BY <1>2 DEF Revise
    <2>2. aqms.stamp + 1 \in Nat /\ aqms.selected + new \in Int
      BY <1>1
    <2> QED
      BY <1>2, <2>1, <2>2, WriterStep, Zenon DEF Revise
  <1>3. CASE ReviseLate
    <2>1. CommitChange(aqms.lddate, aqms.selected, TRUE) /\ UNCHANGED request
      BY <1>3 DEF ReviseLate
    <2>2. aqms.selected \in Int
      BY <1>1
    <2> QED
      BY <1>1, <2>1, <2>2, WriterStep, Zenon
  <1>4. CASE Select
    <2>1. PICK lddate \in aqms.lddate .. aqms.stamp :
             CommitChange(lddate, aqms.selected + 1, FALSE)
      BY <1>4 DEF Select
    <2>2. lddate \in Nat /\ aqms.selected + 1 \in Int
      BY <1>1
    <2> QED
      BY <1>4, <2>1, <2>2, WriterStep, Zenon DEF Select
  <1>5. CASE Deselect
    <2>1. PICK lddate \in 1 .. aqms.lddate :
             CommitChange(lddate, aqms.selected - 1, FALSE)
      BY <1>5 DEF Deselect
    <2>2. lddate \in Nat /\ aqms.selected - 1 \in Int
      BY <1>1
    <2> QED
      BY <1>5, <2>1, <2>2, WriterStep, Zenon DEF Deselect
  <1>6. CASE ReviewElsewhere
    <2>1. CommitChange(aqms.lddate, aqms.selected, FALSE) /\ UNCHANGED request
      BY <1>6 DEF ReviewElsewhere
    <2>2. aqms.selected \in Int
      BY <1>1
    <2> QED
      BY <1>1, <2>1, <2>2, WriterStep, Zenon
  <1>7. CASE Tick
    BY <1>7, TickStep
  <1>8. ASSUME NEW r \in Requests, ReadFreshness(r) \/ FreshnessFails(r)
        PROVE  IInv'
    BY <1>8, BeginStep DEF ReadFreshness, FreshnessFails
  <1>9. ASSUME NEW r \in Requests,
               LookupHit(r) \/ LookupMiss(r) \/ BuildCatalog(r)
        PROVE  IInv'
    BY <1>9, HitStep, MissStep, BuildStep
  <1>10. ASSUME NEW r \in Requests, Store(r) \/ AnswerUnstored(r)
         PROVE  IInv'
    BY <1>10, StoreStep, UnstoredStep
  <1>11. ASSUME NEW r \in Requests, Finish(r) \/ LoseActionAnswer(r)
         PROVE  IInv'
    BY <1>11, IdleStep DEF Finish, LoseActionAnswer
  <1>12. ASSUME NEW r \in Requests, CommitAction(r) \/ AnswerAction(r)
         PROVE  IInv'
    BY <1>12, CommitActionStep, AnswerActionStep
  <1>13. CASE UNCHANGED vars
    <2>1. UNCHANGED <<aqms, clock, bucket, cache, request, bucketStart, acted>>
      BY <1>13 DEF vars
    <2> QED
      BY <2>1 DEF IInv, TypeOK, BucketsInOrder, RequestOK, EntryOK
  <1> QED
    BY <1>2, <1>3, <1>4, <1>5, <1>6, <1>7, <1>8, <1>9, <1>10, <1>11, <1>12,
       <1>13 DEF Next

\* The inductive invariant holds of every state: the cache of every instance
\* is as new as its token says, and every request as its bucket
\* (CatalogCache).
THEOREM Invariance == Spec => []IInv
  BY InitIInv, NextIInv, PTL DEF Spec

\* The variables of the catalog cache always have their types; in particular
\* no lookup carries the empty token and no entry is stored against it.
THEOREM TypeCorrect == Spec => []TypeOK
  <1>1. IInv => TypeOK
    BY DEF IInv
  <1> QED
    BY <1>1, Invariance, PTL

\* Whatever AQMS's writers do and however the threads interleave, a catalog
\* a request is answered with has every change committed before the bucket
\* in which the request asked for its token.
THEOREM StalenessBounded == Spec => []AnswerWithinBucket
  <1>1. IInv => AnswerWithinBucket
    BY DEF IInv, AnswerWithinBucket, RequestOK
  <1> QED
    BY <1>1, Invariance, PTL

\* The token stored with a catalog never describes a state newer than it.
THEOREM TokensVouched == Spec => []StoredNotOlderThanToken
  <1>1. IInv => StoredNotOlderThanToken
    BY DEF IInv, StoredNotOlderThanToken, EntryOK
  <1> QED
    BY <1>1, Invariance, PTL

\* Only a thread that had read its token before an action was answered can
\* bring back a catalog from before the action.
THEOREM ClearHolds == Spec => []OnlyInFlightBuildersLag
  <1>1. IInv => OnlyInFlightBuildersLag
    BY DEF IInv, OnlyInFlightBuildersLag, EntryOK
  <1> QED
    BY <1>1, Invariance, PTL

-----------------------------------------------------------------------------
(***************************************************************************)
(* Revisions.  AQMS gives a revision an lddate above every earlier one, so *)
(* a token read before the revision shows a smaller lddate than one read   *)
(* after it, for as long as max(lddate) does not fall back.  The invariant *)
(* says so of every catalog a lookup could still be answered with.         *)
(***************************************************************************)

\* A catalog that is stored against a token, or is about to be.
Vouched(token, catalog) ==
    \/ \E i \in Instances : /\ cache[i] # NoEntry
                            /\ cache[i].token = token
                            /\ cache[i].catalog = catalog
    \/ \E r \in Requests : /\ request[r].stage = "store"
                           /\ request[r].token = token
                           /\ request[r].catalog = catalog

Kept == {k \in [token : Token, catalog : Catalog] : Vouched(k.token, k.catalog)}

\* A catalog without the revision has a token with a smaller lddate.
Behind(k, revision, lddate) ==
    k.catalog.version < revision => k.token.lddate < lddate

\* AQMS shows no revision it has not committed and no lddate it has not given.
ShownIsCommitted ==
    /\ aqms.lddate <= aqms.stamp
    /\ aqms.revised <= aqms.version

KeptBehind ==
    \A k \in Kept : /\ k.token.lddate <= aqms.stamp
                    /\ Behind(k, aqms.revised, aqms.lddate)

\* What a thread builds is no older than the revision it was shown.
DueCommitted(r) ==
    /\ request[r].token.lddate <= aqms.stamp
    /\ request[r].due <= aqms.version
    /\ request[r].stage \in {"store", "answered"} =>
          request[r].catalog.version >= request[r].due

\* What a lookup may be answered with has the revision its thread was shown.
LookupBehind(r) ==
    request[r].stage = "lookup" =>
        \A k \in Kept : Behind(k, request[r].due, request[r].token.lddate)

\* The inductive invariant, on top of IInv.
RevisionInv ==
    /\ ShownIsCommitted
    /\ KeptBehind
    /\ \A r \in Requests : DueCommitted(r) /\ LookupBehind(r)

\* At first there is one revision, and nobody was shown any.
LEMMA InitRevisionInv == Init => RevisionInv
  <1> SUFFICES ASSUME Init PROVE RevisionInv
    OBVIOUS
  <1>1. \A r \in Requests : request[r] = IdleRequest
    BY DEF Init
  <1>2. \A i \in Instances : cache[i] = NoEntry
    BY DEF Init
  <1>3. Kept = {}
    BY <1>1, <1>2 DEF Kept, Vouched, IdleRequest
  <1>4. ShownIsCommitted
    BY DEF Init, ShownIsCommitted
  <1>5. \A r \in Requests : DueCommitted(r) /\ LookupBehind(r)
    BY <1>1 DEF Init, DueCommitted, LookupBehind, IdleRequest, NoToken
  <1> QED
    BY <1>3, <1>4, <1>5 DEF RevisionInv, KeptBehind

(***************************************************************************)
(* A commit: whichever lddate it leaves, either max(lddate) falls and no   *)
(* revision is shown any more, or what a kept token shows stays behind.    *)
(***************************************************************************)
LEMMA CommitRevision ==
  ASSUME IInv, RevisionInv, NEW ld \in Nat, NEW sel \in Int,
         NEW rev \in BOOLEAN, CommitChange(ld, sel, rev), Kept' = Kept,
         \A p \in Requests :
            /\ request'[p].token = request[p].token
            /\ request'[p].due = request[p].due
            /\ request'[p].catalog = request[p].catalog
            /\ request'[p].stage = request[p].stage \/ request'[p].stage = "clear"
  PROVE  RevisionInv'
  <1>1. /\ aqms.version \in Nat /\ aqms.stamp \in Nat /\ aqms.revised \in Nat
        /\ aqms.lddate \in Nat
        /\ aqms.lddate <= aqms.stamp /\ aqms.revised <= aqms.version
    BY DEF IInv, TypeOK, RevisionInv, ShownIsCommitted
  <1>2. /\ aqms'.version = aqms.version + 1 /\ aqms'.lddate = ld
        /\ aqms'.stamp = IF ld > aqms.stamp THEN ld ELSE aqms.stamp
        /\ aqms'.revised = IF ld < aqms.lddate THEN 0
                           ELSE IF rev /\ ld > aqms.stamp THEN aqms.version + 1
                           ELSE aqms.revised
    BY DEF CommitChange
  <1>3. ShownIsCommitted'
    BY <1>1, <1>2 DEF ShownIsCommitted
  <1>4. KeptBehind'
    <2> SUFFICES ASSUME NEW k \in Kept
                 PROVE  /\ k.token.lddate <= aqms'.stamp
                        /\ Behind(k, aqms'.revised, aqms'.lddate)
      BY DEF KeptBehind
    <2>1. k.token.lddate \in Nat /\ k.catalog.version \in Nat
      BY DEF Kept, Token, Catalog
    <2>2. k.token.lddate <= aqms.stamp /\ Behind(k, aqms.revised, aqms.lddate)
      BY DEF RevisionInv, KeptBehind
    <2> QED
      BY <1>1, <1>2, <2>1, <2>2 DEF Behind
  <1>5. ASSUME NEW r \in Requests PROVE DueCommitted(r)' /\ LookupBehind(r)'
    <2>1. /\ request[r].token.lddate \in Int /\ request[r].due \in Nat
          /\ DueCommitted(r) /\ LookupBehind(r)
      BY DEF IInv, TypeOK, Request, Token, NoToken, RevisionInv
    <2>2. DueCommitted(r)'
      BY <1>1, <1>2, <2>1 DEF DueCommitted
    <2>3. LookupBehind(r)'
      BY <2>1 DEF LookupBehind, Behind
    <2> QED
      BY <2>2, <2>3
  <1> QED
    BY <1>3, <1>4, <1>5 DEF RevisionInv

(***************************************************************************)
(* A step of one thread: nothing is kept that was not, but for a catalog   *)
(* read now.                                                               *)
(***************************************************************************)
LEMMA ThreadRevision ==
  ASSUME IInv, IInv', RevisionInv, UNCHANGED aqms, NEW r \in Requests,
         \A k \in Kept' \ Kept : /\ k.catalog.version = aqms.version
                                 /\ k.token.lddate <= aqms.stamp,
         \A p \in Requests \ {r} :
            /\ request'[p].token = request[p].token
            /\ request'[p].due = request[p].due
            /\ request'[p].catalog = request[p].catalog
            /\ request'[p].stage = request[p].stage,
         DueCommitted(r)',
         request'[r].stage = "lookup" =>
            \A k \in Kept : Behind(k, request'[r].due, request'[r].token.lddate)
  PROVE  RevisionInv'
  <1>1. aqms.version \in Nat /\ aqms.revised \in Nat /\ aqms.revised <= aqms.version
    BY DEF IInv, TypeOK, RevisionInv, ShownIsCommitted
  <1>2. ShownIsCommitted'
    BY DEF RevisionInv, ShownIsCommitted
  <1>3. KeptBehind'
    <2> SUFFICES ASSUME NEW k \in Kept'
                 PROVE  /\ k.token.lddate <= aqms.stamp
                        /\ Behind(k, aqms.revised, aqms.lddate)
      BY DEF KeptBehind
    <2> QED
      BY <1>1 DEF RevisionInv, KeptBehind, Behind
  <1>4. ASSUME NEW p \in Requests PROVE DueCommitted(p)'
    BY DEF RevisionInv, DueCommitted
  <1>5. ASSUME NEW p \in Requests PROVE LookupBehind(p)'
    <2> SUFFICES ASSUME request'[p].stage = "lookup", NEW k \in Kept'
                 PROVE  Behind(k, request'[p].due, request'[p].token.lddate)
      BY DEF LookupBehind
    <2>1. request'[p].due \in Nat /\ request'[p].due <= aqms.version
      BY <1>4 DEF IInv, TypeOK, Request, DueCommitted
    <2>2. CASE k \in Kept
      BY <2>2 DEF RevisionInv, LookupBehind
    <2>3. CASE k \notin Kept
      BY <1>1, <2>1, <2>3 DEF Behind
    <2> QED
      BY <2>2, <2>3
  <1> QED
    BY <1>2, <1>3, <1>4, <1>5 DEF RevisionInv

\* Nothing is kept that was not, when no thread begins to store and no
\* instance takes an entry.
LEMMA KeptShrinks ==
  ASSUME \A i \in Instances : cache'[i] # NoEntry => cache'[i] = cache[i],
         \A p \in Requests :
            request'[p].stage = "store" =>
               /\ request[p].stage = "store"
               /\ request'[p].token = request[p].token
               /\ request'[p].catalog = request[p].catalog
  PROVE  Kept' \subseteq Kept
  BY DEF Kept, Vouched

\* A catalog is built of rows that are committed
\* (queryEventsInTimeRange).
LEMMA BuildRevision ==
  ASSUME IInv, IInv', RevisionInv, NEW r \in Requests, BuildCatalog(r)
  PROVE  RevisionInv'
  <1>1. /\ request \in [Requests -> Request] /\ aqms.version \in Nat
        /\ UNCHANGED <<aqms, cache>> /\ DueCommitted(r)
    BY DEF BuildCatalog, IInv, TypeOK, RevisionInv
  <1>2. /\ request'[r].stage = "store" /\ request'[r].token = request[r].token
        /\ request'[r].due = request[r].due
        /\ request'[r].catalog.version = aqms.version
    BY <1>1 DEF BuildCatalog, CurrentCatalog, Request
  <1>3. \A p \in Requests \ {r} : request'[p] = request[p]
    BY <1>1 DEF BuildCatalog
  <1>4. ASSUME NEW k \in Kept', k \notin Kept
        PROVE  k.catalog.version = aqms.version /\ k.token.lddate <= aqms.stamp
    <2>1. PICK p \in Requests : /\ request'[p].stage = "store"
                                /\ request'[p].token = k.token
                                /\ request'[p].catalog = k.catalog
                                /\ ~(/\ request[p].stage = "store"
                                     /\ request[p].token = k.token
                                     /\ request[p].catalog = k.catalog)
      BY <1>1, <1>4 DEF Kept, Vouched
    <2>2. p = r
      BY <1>3, <2>1
    <2> QED
      BY <1>1, <1>2, <2>1, <2>2 DEF DueCommitted
  <1>5. DueCommitted(r)'
    BY <1>1, <1>2 DEF DueCommitted
  <1> QED
    BY <1>1, <1>2, <1>3, <1>4, <1>5, ThreadRevision

\* What is stored was built, or is what was stored before (store).
LEMMA StoreRevision ==
  ASSUME IInv, IInv', RevisionInv, NEW r \in Requests, Store(r)
  PROVE  RevisionInv'
  <1>1. /\ request \in [Requests -> Request]
        /\ cache \in [Instances -> Entry \cup {NoEntry}]
        /\ UNCHANGED aqms /\ Home[r] \in Instances
        /\ request[r].stage = "store" /\ DueCommitted(r)
    BY ConstantsAssumption DEF Store, IInv, TypeOK, RevisionInv
  <1>2. /\ request'[r].stage = "answered" /\ request'[r].token = request[r].token
        /\ request'[r].due = request[r].due
        /\ request'[r].catalog = request[r].catalog
    BY <1>1 DEF Store, Request
  <1>3. \A p \in Requests \ {r} : request'[p] = request[p]
    BY <1>1 DEF Store
  <1>4. /\ cache'[Home[r]].token = request[r].token
        /\ cache'[Home[r]].catalog = request[r].catalog
        /\ \A i \in Instances \ {Home[r]} : cache'[i] = cache[i]
    BY <1>1 DEF Store, StoredToken
  <1>5. ASSUME NEW k \in Kept' PROVE k \in Kept
    <2>1. k \in [token : Token, catalog : Catalog] /\ Vouched(k.token, k.catalog)'
      BY DEF Kept
    <2>2. CASE \E i \in Instances : /\ cache'[i] # NoEntry
                                    /\ cache'[i].token = k.token
                                    /\ cache'[i].catalog = k.catalog
      <3>1. Vouched(k.token, k.catalog)
        BY <1>1, <1>4, <2>2 DEF Vouched
      <3> QED
        BY <2>1, <3>1 DEF Kept
    <2>3. CASE \E p \in Requests : /\ request'[p].stage = "store"
                                   /\ request'[p].token = k.token
                                   /\ request'[p].catalog = k.catalog
      <3>1. Vouched(k.token, k.catalog)
        BY <1>2, <1>3, <2>3 DEF Vouched
      <3> QED
        BY <2>1, <3>1 DEF Kept
    <2> QED
      BY <2>1, <2>2, <2>3 DEF Vouched
  <1>6. DueCommitted(r)'
    BY <1>1, <1>2 DEF DueCommitted
  <1> QED
    BY <1>1, <1>2, <1>3, <1>5, <1>6, ThreadRevision

\* A request begins with no catalog.
LEMMA BeginRevision ==
  ASSUME IInv, IInv', RevisionInv, NEW r \in Requests,
         ReadFreshness(r) \/ FreshnessFails(r)
  PROVE  RevisionInv'
  <1>1. /\ request \in [Requests -> Request] /\ UNCHANGED <<aqms, cache>>
        /\ aqms.lddate \in Nat /\ aqms.stamp \in Nat
        /\ ShownIsCommitted /\ KeptBehind
    BY DEF ReadFreshness, FreshnessFails, BeginRequest, IInv, TypeOK, RevisionInv
  <1>2. /\ request'[r].due = aqms.revised
        /\ \/ /\ request'[r].stage = "lookup"
              /\ request'[r].token.lddate = aqms.lddate
           \/ /\ request'[r].stage = "build"
              /\ request'[r].token.lddate = -1
    <2>1. ASSUME NEW token, NEW next, BeginRequest(r, token, next)
          PROVE  /\ request'[r].due = aqms.revised
                 /\ request'[r].stage = next /\ request'[r].token = token
      BY <1>1, <2>1 DEF BeginRequest, IdleRequest
    <2>2. Freshness.lddate = aqms.lddate /\ NoToken.lddate = -1
      BY DEF Freshness, NoToken
    <2>3. CASE ReadFreshness(r)
      BY <2>1, <2>2, <2>3 DEF ReadFreshness
    <2>4. CASE FreshnessFails(r)
      BY <2>1, <2>2, <2>4 DEF FreshnessFails
    <2> QED
      BY <2>3, <2>4
  <1>3. \A p \in Requests \ {r} : request'[p] = request[p]
    BY <1>1 DEF ReadFreshness, FreshnessFails, BeginRequest
  <1>4. Kept' \subseteq Kept
    BY <1>1, <1>2, <1>3, KeptShrinks
  <1>5. DueCommitted(r)'
    BY <1>1, <1>2 DEF DueCommitted, ShownIsCommitted
  <1>6. request'[r].stage = "lookup" =>
           \A k \in Kept : Behind(k, request'[r].due, request'[r].token.lddate)
    BY <1>1, <1>2 DEF KeptBehind
  <1> QED
    BY <1>1, <1>3, <1>4, <1>5, <1>6, ThreadRevision

\* What a hit answers was stored (lookup).
LEMMA HitRevision ==
  ASSUME IInv, IInv', RevisionInv, NEW r \in Requests, LookupHit(r)
  PROVE  RevisionInv'
  <1> DEFINE e == cache[Home[r]]
             k == [token |-> e.token, catalog |-> e.catalog]
  <1>1. /\ request \in [Requests -> Request] /\ UNCHANGED <<aqms, cache>>
        /\ request[r].stage = "lookup" /\ Home[r] \in Instances
        /\ request[r].due \in Nat /\ DueCommitted(r) /\ LookupBehind(r)
        /\ EntryOK(Home[r])
    BY ConstantsAssumption
       DEF LookupHit, IInv, TypeOK, Request, RevisionInv
  <1>2. e # NoEntry /\ e.token = request[r].token
    BY DEF LookupHit, Answers
  <1>3. e.token \in Token /\ e.catalog \in Catalog
    BY <1>1, <1>2 DEF EntryOK, Entry
  <1>4. k \in Kept
    BY <1>1, <1>2, <1>3 DEF Kept, Vouched
  <1>5. e.catalog.version >= request[r].due
    <2>1. Behind(k, request[r].due, request[r].token.lddate)
      BY <1>1, <1>4 DEF LookupBehind
    <2> HIDE DEF e
    <2> QED
      BY <1>1, <1>2, <1>3, <2>1 DEF Behind, Token, Catalog
  <1>6. /\ request'[r].stage = "answered" /\ request'[r].token = request[r].token
        /\ request'[r].due = request[r].due /\ request'[r].catalog = e.catalog
    BY <1>1 DEF LookupHit, Request
  <1>7. \A p \in Requests \ {r} : request'[p] = request[p]
    BY <1>1 DEF LookupHit
  <1> HIDE DEF e, k
  <1>8. Kept' \subseteq Kept
    BY <1>1, <1>6, <1>7, KeptShrinks
  <1>9. DueCommitted(r)'
    BY <1>1, <1>5, <1>6 DEF DueCommitted
  <1> QED
    BY <1>1, <1>6, <1>7, <1>8, <1>9, ThreadRevision

\* A thread's step that neither asks, nor looks up, nor builds, nor stores.
LEMMA PlainRevision ==
  ASSUME IInv, IInv', RevisionInv, NEW r \in Requests,
         LookupMiss(r) \/ AnswerUnstored(r) \/ Finish(r) \/ LoseActionAnswer(r)
  PROVE  RevisionInv'
  <1>1. /\ request \in [Requests -> Request] /\ UNCHANGED <<aqms, cache>>
        /\ aqms.version \in Nat /\ aqms.stamp \in Nat /\ DueCommitted(r)
    BY DEF LookupMiss, AnswerUnstored, Finish, LoseActionAnswer, IInv, TypeOK,
           RevisionInv
  <1>2. \/ request'[r] = IdleRequest
        \/ /\ request'[r].token = request[r].token
           /\ request'[r].due = request[r].due
           /\ request'[r].catalog = request[r].catalog
           /\ \/ request'[r].stage = "build"
              \/ request'[r].stage = "answered" /\ request[r].stage = "store"
    BY <1>1 DEF LookupMiss, AnswerUnstored, Finish, LoseActionAnswer, Request
  <1>3. \A p \in Requests \ {r} : request'[p] = request[p]
    BY <1>1 DEF LookupMiss, AnswerUnstored, Finish, LoseActionAnswer
  <1>4. request'[r].stage \notin {"store", "lookup"}
    BY <1>2 DEF IdleRequest
  <1>5. Kept' \subseteq Kept
    BY <1>1, <1>3, <1>4, KeptShrinks
  <1>6. DueCommitted(r)'
    BY <1>1, <1>2 DEF DueCommitted, IdleRequest, NoToken
  <1> QED
    BY <1>1, <1>3, <1>4, <1>5, <1>6, ThreadRevision

\* clear() answers nothing from the cache.
LEMMA AnswerActionRevision ==
  ASSUME IInv, IInv', RevisionInv, NEW r \in Requests, AnswerAction(r)
  PROVE  RevisionInv'
  <1>1. /\ request \in [Requests -> Request]
        /\ cache \in [Instances -> Entry \cup {NoEntry}]
        /\ UNCHANGED aqms /\ aqms.version \in Nat /\ aqms.stamp \in Nat
    BY DEF AnswerAction, IInv, TypeOK
  <1>2. \A i \in Instances : cache'[i] # NoEntry => cache'[i] = cache[i]
    BY <1>1 DEF AnswerAction, Cleared
  <1>3. request'[r] = IdleRequest
    BY DEF AnswerAction
  <1>4. \A p \in Requests \ {r} :
           /\ request'[p].token = request[p].token
           /\ request'[p].due = request[p].due
           /\ request'[p].catalog = request[p].catalog
           /\ request'[p].stage = request[p].stage
    BY <1>1 DEF AnswerAction, Request
  <1>5. request'[r].stage \notin {"store", "lookup"}
    BY <1>3 DEF IdleRequest
  <1>6. Kept' \subseteq Kept
    BY <1>2, <1>4, <1>5, KeptShrinks
  <1>7. DueCommitted(r)'
    BY <1>1, <1>3 DEF DueCommitted, IdleRequest, NoToken
  <1> QED
    BY <1>1, <1>4, <1>5, <1>6, <1>7, ThreadRevision

\* Every step keeps the invariant of the revisions.
LEMMA NextRevisionInv ==
  IInv /\ IInv' /\ RevisionInv /\ [Next]_vars => RevisionInv'
  <1> SUFFICES ASSUME IInv, IInv', RevisionInv, [Next]_vars PROVE RevisionInv'
    OBVIOUS
  <1>1. /\ aqms.stamp \in Nat /\ aqms.lddate \in Nat /\ aqms.selected \in Nat
        /\ request \in [Requests -> Request]
    BY DEF IInv, TypeOK
  <1>2. CASE Revise \/ ReviseLate \/ Select \/ Deselect \/ ReviewElsewhere
    <2>1. \E ld \in Nat, sel \in Int, rev \in BOOLEAN : CommitChange(ld, sel, rev)
      <3>1. CASE Revise
        <4>1. PICK new \in {0, 1} :
                 CommitChange(aqms.stamp + 1, aqms.selected + new, TRUE)
          BY <3>1 DEF Revise
        <4>2. aqms.stamp + 1 \in Nat /\ aqms.selected + new \in Int
          BY <1>1
        <4> QED
          BY <4>1, <4>2, Zenon
      <3>2. CASE ReviseLate \/ ReviewElsewhere
        <4>1. \E rev \in BOOLEAN : CommitChange(aqms.lddate, aqms.selected, rev)
          BY <3>2, Zenon DEF ReviseLate, ReviewElsewhere
        <4>2. aqms.selected \in Int
          BY <1>1
        <4> QED
          BY <1>1, <4>1, <4>2, Zenon
      <3>3. CASE Select
        <4>1. PICK ld \in aqms.lddate .. aqms.stamp :
                 CommitChange(ld, aqms.selected + 1, FALSE)
          BY <3>3 DEF Select
        <4>2. ld \in Nat /\ aqms.selected + 1 \in Int
          BY <1>1
        <4> QED
          BY <4>1, <4>2, Zenon
      <3>4. CASE Deselect
        <4>1. PICK ld \in 1 .. aqms.lddate :
                 CommitChange(ld, aqms.selected - 1, FALSE)
          BY <3>4 DEF Deselect
        <4>2. ld \in Nat /\ aqms.selected - 1 \in Int
          BY <1>1
        <4> QED
          BY <4>1, <4>2, Zenon
      <3> QED
        BY <1>2, <3>1, <3>2, <3>3, <3>4
    <2>2. UNCHANGED <<cache, request>>
      BY <1>2 DEF Revise, ReviseLate, Select, Deselect, ReviewElsewhere,
                  CommitChange
    <2>3. Kept' = Kept
      BY <2>2 DEF Kept, Vouched
    <2> QED
      BY <2>1, <2>2, <2>3, CommitRevision
  <1>3. ASSUME NEW r \in Requests, CommitAction(r) PROVE RevisionInv'
    <2>1. CommitChange(aqms.lddate, aqms.selected, FALSE) /\ UNCHANGED cache
      BY <1>3 DEF CommitAction, CommitChange
    <2>2. /\ request[r].stage = "idle" /\ request'[r].stage = "clear"
          /\ request'[r].token = request[r].token
          /\ request'[r].due = request[r].due
          /\ request'[r].catalog = request[r].catalog
      BY <1>1, <1>3 DEF CommitAction, Request
    <2>3. \A p \in Requests \ {r} : request'[p] = request[p]
      BY <1>1, <1>3 DEF CommitAction
    <2>4. Kept' = Kept
      BY <2>1, <2>2, <2>3 DEF Kept, Vouched
    <2>5. aqms.selected \in Int /\ FALSE \in BOOLEAN
      BY <1>1
    <2> QED
      BY <1>1, <2>1, <2>2, <2>3, <2>4, <2>5, CommitRevision
  <1>4. CASE Tick \/ UNCHANGED vars
    <2>1. UNCHANGED <<aqms, cache, request>>
      BY <1>4 DEF Tick, vars
    <2> QED
      BY <2>1 DEF RevisionInv, ShownIsCommitted, KeptBehind, DueCommitted,
                  LookupBehind, Behind, Kept, Vouched
  <1>5. ASSUME NEW r \in Requests,
               \/ ReadFreshness(r) \/ FreshnessFails(r) \/ LookupHit(r)
               \/ LookupMiss(r) \/ BuildCatalog(r) \/ Store(r)
               \/ AnswerUnstored(r) \/ Finish(r) \/ AnswerAction(r)
               \/ LoseActionAnswer(r)
        PROVE  RevisionInv'
    BY <1>5, BeginRevision, HitRevision, PlainRevision, BuildRevision,
       StoreRevision, AnswerActionRevision
  <1> QED
    BY <1>2, <1>3, <1>4, <1>5 DEF Next

\* A revision max(lddate) showed when a request read its token is in the
\* catalog the request is answered with, from whichever cache it comes.
THEOREM RevisionsReachClients == Spec => []RevisionsAnswered
  <1>1. IInv /\ RevisionInv => RevisionsAnswered
    BY DEF RevisionInv, DueCommitted, RevisionsAnswered
  <1> QED
    BY <1>1, Invariance, InitRevisionInv, NextRevisionInv, PTL DEF Spec

-----------------------------------------------------------------------------
(***************************************************************************)
(* The refinement.  What the abstract specification sees:                  *)
(***************************************************************************)
Owed(r) == IF request[r].stage \in {"idle", "clear"} THEN -1
           ELSE bucketStart[request[r].asked]

Answered(r) == IF request[r].stage = "answered"
               THEN request[r].catalog.version ELSE -1

\* What was promised to the other threads stays as it was.
LEMMA OthersKeep ==
  ASSUME IInv, NEW r \in Requests, NEW q,
         request' = [request EXCEPT ![r] = q], UNCHANGED bucketStart
  PROVE  \A p \in Requests \ {r} : Owed(p)' = Owed(p) /\ Answered(p)' = Answered(p)
  <1>1. \A p \in Requests \ {r} : request'[p] = request[p]
    BY DEF IInv, TypeOK
  <1> QED
    BY <1>1 DEF Owed, Answered

\* A thread's step that changes neither promise nor answer is a stutter.
LEMMA QuietStep ==
  ASSUME IInv, NEW r \in Requests, NEW q,
         request' = [request EXCEPT ![r] = q],
         UNCHANGED <<aqms, bucket, bucketStart>>,
         Owed(r)' = Owed(r), Answered(r)' = Answered(r)
  PROVE  UNCHANGED Promise!vars
  <1>1. \A p \in Requests : Owed(p)' = Owed(p) /\ Answered(p)' = Answered(p)
    BY OthersKeep
  <1> QED
    BY <1>1 DEF Promise!vars, Owed, Answered

\* A thread's step that ends its request.
LEMMA FinishStep ==
  ASSUME IInv, NEW r \in Requests,
         request' = [request EXCEPT ![r] = IdleRequest],
         UNCHANGED <<aqms, bucket, bucketStart>>
  PROVE  Promise!Finish(r)
  <1>1. request'[r] = IdleRequest
    BY DEF IInv, TypeOK
  <1>2. Owed(r)' = -1 /\ Answered(r)' = -1
    BY <1>1 DEF Owed, Answered, IdleRequest
  <1>3. \A p \in Requests \ {r} : Owed(p)' = Owed(p) /\ Answered(p)' = Answered(p)
    BY OthersKeep
  <1>4. \A p \in Requests : p # r => Owed(p)' = Owed(p) /\ Answered(p)' = Answered(p)
    BY <1>3
  <1> QED
    BY <1>2, <1>4 DEF Promise!Finish, Promise!Nothing, Owed, Answered

\* A thread's step that answers its request with a catalog it may have.
LEMMA AnswerStep ==
  ASSUME IInv, NEW r \in Requests, NEW q, IInv',
         request' = [request EXCEPT ![r] = q],
         request[r].stage \in {"lookup", "store"},
         q.stage = "answered", q.asked = request[r].asked,
         UNCHANGED <<aqms, bucket, bucketStart>>
  PROVE  Promise!Answer(r)
  <1>1. /\ request[r] \in Request /\ request'[r] = q /\ RequestOK(r)'
        /\ bucketStart \in [0 .. MaxClock -> Nat] /\ aqms.version \in Nat
    BY DEF IInv, TypeOK
  <1>2. /\ Owed(r) = bucketStart[request[r].asked] /\ Owed(r) \in Nat
        /\ Owed(r)' = Owed(r) /\ Answered(r) = -1
    BY <1>1 DEF Owed, Answered, Request
  <1>3. Answered(r)' \in Owed(r) .. aqms.version
    <2>1. /\ q.catalog \in Catalog /\ q.catalog.version <= aqms.version
          /\ q.catalog.version >= bucketStart[q.asked]
      BY <1>1 DEF RequestOK
    <2> QED
      BY <1>1, <1>2, <2>1 DEF Answered, Catalog
  <1>4. \A p \in Requests \ {r} : Owed(p)' = Owed(p) /\ Answered(p)' = Answered(p)
    BY OthersKeep
  <1>5. [p \in Requests |-> Owed(p)]' = [p \in Requests |-> Owed(p)]
    BY <1>2, <1>4
  <1>6. [p \in Requests |-> Answered(p)]' =
          [[p \in Requests |-> Answered(p)] EXCEPT ![r] = Answered(r)']
    BY <1>4
  <1>7. /\ [p \in Requests |-> Owed(p)][r] = Owed(r)
        /\ [p \in Requests |-> Answered(p)][r] = -1
        /\ Owed(r) # -1
    BY <1>2
  <1> QED
    BY <1>3, <1>5, <1>6, <1>7, Zenon
       DEF Promise!Answer, Promise!Nothing, Owed, Answered

\* A request is an Ask of the promise.
LEMMA AskStep ==
  ASSUME IInv, NEW r \in Requests, NEW token,
         NEW next \in {"lookup", "build"}, BeginRequest(r, token, next)
  PROVE  Promise!Ask(r)
  <1> DEFINE q == [IdleRequest EXCEPT !.stage = next, !.token = token,
                                      !.asked = bucket, !.due = aqms.revised]
  <1>1. /\ request[r].stage = "idle" /\ request' = [request EXCEPT ![r] = q]
        /\ UNCHANGED <<aqms, bucket, bucketStart>>
    BY DEF BeginRequest
  <1>2. request'[r] = q
    BY <1>1 DEF IInv, TypeOK
  <1>3. q.stage = next /\ q.asked = bucket
    BY DEF IdleRequest
  <1> HIDE DEF q
  <1>4. /\ Owed(r) = -1 /\ Owed(r)' = bucketStart[bucket]
        /\ Answered(r) = -1 /\ Answered(r)' = -1
    BY <1>1, <1>2, <1>3 DEF Owed, Answered
  <1>5. \A p \in Requests \ {r} : Owed(p)' = Owed(p) /\ Answered(p)' = Answered(p)
    BY <1>1, OthersKeep
  <1>6. [p \in Requests |-> Owed(p)]' =
          [[p \in Requests |-> Owed(p)] EXCEPT ![r] = bucketStart[bucket]]
    BY <1>4, <1>5
  <1>7. [p \in Requests |-> Answered(p)]' = [p \in Requests |-> Answered(p)]
    BY <1>4, <1>5
  <1>8. [p \in Requests |-> Owed(p)][r] = -1
    BY <1>4
  <1> QED
    BY <1>1, <1>6, <1>7, <1>8, Zenon
       DEF Promise!Ask, Promise!Nothing, Owed, Answered

\* Every step of the cache is a step of the promise, or a stutter.
LEMMA StepRefines ==
  IInv /\ IInv' /\ [Next]_vars => [Promise!Next]_(Promise!vars)
  <1> SUFFICES ASSUME IInv, IInv', [Next]_vars
               PROVE  [Promise!Next]_(Promise!vars)
    OBVIOUS
  <1>0. aqms.version \in Nat /\ request \in [Requests -> Request]
    BY DEF IInv, TypeOK
  <1>1. CASE Revise \/ ReviseLate \/ Select \/ Deselect \/ ReviewElsewhere
    <2>1. /\ aqms'.version = aqms.version + 1
          /\ UNCHANGED <<bucket, bucketStart, request>>
      BY <1>1 DEF Revise, ReviseLate, Select, Deselect, ReviewElsewhere,
                  CommitChange
    <2> QED
      BY <2>1 DEF Promise!Next, Promise!Commit
  <1>2. CASE Tick
    <2>1. /\ bucket \in 0 .. MaxClock /\ UNCHANGED <<aqms, request>>
          /\ bucketStart \in [0 .. MaxClock -> Nat]
          /\ bucket' \in 0 .. MaxClock
      BY <1>2, ConstantsAssumption DEF IInv, TypeOK, Tick
    <2>2. CASE UNCHANGED <<bucket, bucketStart>>
      BY <2>1, <2>2 DEF Promise!vars
    <2>3. CASE /\ bucket' = bucket + 1
               /\ bucketStart' =
                    [bucketStart EXCEPT ![bucket + 1] = aqms.version]
      <3>1. bucketStart'[bucket'] = aqms.version
        BY <2>1, <2>3
      <3>2. ASSUME NEW p \in Requests PROVE Owed(p)' = Owed(p)
        <4>1. request[p].asked \in 0 .. MaxClock /\ request[p].asked <= bucket
          BY <1>0 DEF IInv, Request, RequestOK
        <4>2. bucketStart'[request[p].asked] = bucketStart[request[p].asked]
          BY <2>1, <2>3, <4>1
        <4> QED
          BY <2>1, <4>2 DEF Owed
      <3>3. \A p \in Requests : Answered(p)' = Answered(p)
        BY <2>1 DEF Answered
      <3> QED
        BY <2>1, <3>1, <3>2, <3>3
           DEF Promise!Next, Promise!NextBucket, Owed, Answered
    <2> QED
      BY <1>2, <2>2, <2>3 DEF Tick
  <1>3. ASSUME NEW r \in Requests, ReadFreshness(r) \/ FreshnessFails(r)
        PROVE  Promise!Next
    <2>1. Promise!Ask(r)
      BY <1>3, AskStep DEF ReadFreshness, FreshnessFails
    <2> QED
      BY <2>1 DEF Promise!Next
  <1>4. ASSUME NEW r \in Requests,
               LookupHit(r) \/ Store(r) \/ AnswerUnstored(r)
        PROVE  Promise!Next
    <2>1. request'[r].stage = "answered" /\ request'[r].asked = request[r].asked
      BY <1>0, <1>4 DEF LookupHit, Store, AnswerUnstored, Request
    <2>2. /\ request[r].stage \in {"lookup", "store"}
          /\ UNCHANGED <<aqms, bucket, bucketStart>>
      BY <1>4 DEF LookupHit, Store, AnswerUnstored
    <2>3. request' = [request EXCEPT ![r] = request'[r]]
      BY <1>0, <1>4 DEF LookupHit, Store, AnswerUnstored
    <2>4. Promise!Answer(r)
      BY <2>1, <2>2, <2>3, AnswerStep
    <2> QED
      BY <2>4 DEF Promise!Next
  <1>5. ASSUME NEW r \in Requests, LookupMiss(r) \/ BuildCatalog(r)
        PROVE  UNCHANGED Promise!vars
    <2>1. /\ request[r].stage \in {"lookup", "build"}
          /\ request'[r].stage \in {"build", "store"}
          /\ request'[r].asked = request[r].asked
      BY <1>0, <1>5 DEF LookupMiss, BuildCatalog, Request
    <2>2. /\ request' = [request EXCEPT ![r] = request'[r]]
          /\ UNCHANGED <<aqms, bucket, bucketStart>>
      BY <1>0, <1>5 DEF LookupMiss, BuildCatalog
    <2>3. Owed(r)' = Owed(r) /\ Answered(r)' = Answered(r)
      BY <2>1, <2>2 DEF Owed, Answered
    <2> QED
      BY <2>2, <2>3, QuietStep
  <1>6. ASSUME NEW r \in Requests, Finish(r) \/ LoseActionAnswer(r)
        PROVE  Promise!Next
    <2>1. Promise!Finish(r)
      BY <1>6, FinishStep DEF Finish, LoseActionAnswer
    <2> QED
      BY <2>1 DEF Promise!Next
  <1>7. ASSUME NEW r \in Requests, CommitAction(r) PROVE Promise!Next
    <2>1. /\ aqms'.version = aqms.version + 1
          /\ UNCHANGED <<bucket, bucketStart>>
          /\ request[r].stage = "idle" /\ request'[r].stage = "clear"
          /\ request' = [request EXCEPT ![r] = request'[r]]
      BY <1>0, <1>7 DEF CommitAction, CommitChange, Request
    <2>2. \A p \in Requests : Owed(p)' = Owed(p) /\ Answered(p)' = Answered(p)
      <3>1. Owed(r)' = Owed(r) /\ Answered(r)' = Answered(r)
        BY <2>1 DEF Owed, Answered
      <3> QED
        BY <2>1, <3>1, OthersKeep
    <2> QED
      BY <2>1, <2>2 DEF Promise!Next, Promise!Commit, Owed, Answered
  <1>8. ASSUME NEW r \in Requests, AnswerAction(r)
        PROVE  UNCHANGED Promise!vars
    <2>1. /\ UNCHANGED <<aqms, bucket, bucketStart>>
          /\ request[r].stage = "clear"
          /\ \A p \in Requests :
                request'[p] = IF p = r THEN IdleRequest
                              ELSE IF InFlight(p, Home[r])
                              THEN [request[p] EXCEPT !.overtaken = TRUE]
                              ELSE request[p]
      BY <1>8 DEF AnswerAction
    <2>2. ASSUME NEW p \in Requests
          PROVE  Owed(p)' = Owed(p) /\ Answered(p)' = Answered(p)
      <3>1. CASE p = r
        <4>1. request'[p] = IdleRequest /\ request[p].stage = "clear"
          BY <2>1, <3>1
        <4> QED
          BY <4>1 DEF Owed, Answered, IdleRequest
      <3>2. CASE p # r
        <4>1. /\ request'[p].stage = request[p].stage
              /\ request'[p].asked = request[p].asked
              /\ request'[p].catalog = request[p].catalog
          BY <1>0, <2>1, <3>2 DEF Request
        <4> QED
          BY <2>1, <4>1 DEF Owed, Answered
      <3> QED
        BY <3>1, <3>2
    <2> QED
      BY <2>1, <2>2 DEF Promise!vars, Owed, Answered
  <1>9. CASE UNCHANGED vars
    BY <1>9 DEF vars, Promise!vars
  <1> QED
    BY <1>1, <1>2, <1>3, <1>4, <1>5, <1>6, <1>7, <1>8, <1>9 DEF Next

\* The caching catalog implements the abstract promise to its clients: an
\* answer never lags behind the bucket its request began in.
THEOREM CacheKeepsPromise == Spec => ImplementsBoundedStaleness
  <1>1. Init => Promise!Init
    BY ConstantsAssumption DEF Init, IdleRequest, Promise!Init, Promise!Nothing
  <1> QED
    BY <1>1, Invariance, StepRefines, PTL
       DEF Spec, ImplementsBoundedStaleness, Promise!Spec
===============================================================================
