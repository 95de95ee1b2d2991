-------------------------- MODULE WaveformsProofs ---------------------------
(***************************************************************************)
(* What the proofs about the file roots and about the answers rest on: IInv *)
(* and AnswersInv are kept by every step of the waveforms' handlers and of  *)
(* AQMS.  RoutesProofs carries them over to the starts and the crashes of   *)
(* the process.                                                            *)
(*                                                                         *)
(* What a file becomes is defined by recursion along its records, and what  *)
(* is said of it goes by induction.  The least index of which it is not     *)
(* true stands in for the induction (EveryIndex), and Recursion says that   *)
(* there is what is defined.                                               *)
(***************************************************************************)
EXTENDS Waveforms, WellFoundedInduction, SequenceTheorems, FiniteSetTheorems, TLAPS

\* The mutex is held while fetching; a request has an origin, and has skipped
\* nothing before it fetches.
FetchInv(t) ==
    /\ pc[t] \in Fetching <=> mutex = t
    /\ pc[t] # "idle" => origin[t] \in 1 .. year
    /\ pc[t] \in {"idle", "event", "lock"} => skipped[t] = {}

\* What was read and is about to be stored is AQMS's for the year of the
\* origin, and no older than what is held.
StoreInv(t) ==
    pc[t] = "store" =>
       /\ {w.fileRoot : w \in Covering(read[t], origin[t])} = ArchiveOf(origin[t])
       /\ {w.onTime : w \in fileRoots} \subseteq {w.onTime : w \in read[t]}

\* Where a thread looks is where a held root says.
LookInv(t) ==
    pc[t] = "bytes" =>
       \E w \in fileRoots : /\ w.fileRoot = root[t]
                            /\ w \in Covering(fileRoots, origin[t])

\* What was ever read is still in AQMS's table, but for a window that was
\* open-ended.
Known(w) == w \in waveroots \/ w.offTime = Forever

HeldInv ==
    /\ \A w \in fileRoots : Known(w)
    /\ \A t \in Threads : \A w \in read[t] : Known(w)
    /\ {w.onTime : w \in fileRoots} \subseteq {w.onTime : w \in waveroots}
    /\ \A t \in Threads :
          {w.onTime : w \in read[t]} \subseteq {w.onTime : w \in waveroots}

\* A stream that no root covered has still none, and had a year that was.
SkippedInv(t) ==
    "no root" \in skipped[t] =>
       /\ origin[t] \in 1 .. year
       /\ ArchiveOf(origin[t]) = {}

IInv ==
    /\ WaveformsTypeOK
    /\ HeldInv
    /\ \A t \in Threads : /\ FetchInv(t)
                          /\ StoreInv(t)
                          /\ LookInv(t)
                          /\ SkippedInv(t)

-----------------------------------------------------------------------------
\* It holds with no roots held and no request under way.
LEMMA InitInv == WaveformsInit => IInv
  <1> SUFFICES ASSUME WaveformsInit PROVE IInv
    OBVIOUS
  <1> USE DEF WaveformsInit, Quiet
  <1>1. 1 \in Years /\ Forever \in 2 .. Forever /\ 2 \in 2 .. Forever
        /\ year = 1 /\ year \in Years
    BY WaveformsAssumption DEF Years, Forever
  <1>2. waveroots \subseteq FileRoot
    BY <1>1 DEF FileRoot, NewRoot
  <1>3. fileRoots \subseteq waveroots
    OBVIOUS
  <1>4. WaveformsTypeOK
    BY <1>1, <1>2, <1>3, WaveformsAssumption DEF WaveformsTypeOK, PCs, Fetching, Unasked
  <1>5. HeldInv
    BY <1>3 DEF HeldInv, Known
  <1>6. ASSUME NEW t \in Threads
        PROVE  FetchInv(t) /\ StoreInv(t) /\ LookInv(t) /\ SkippedInv(t)
    BY WaveformsAssumption DEF FetchInv, StoreInv, LookInv, SkippedInv, Fetching, Free
  <1> QED
    BY <1>4, <1>5, <1>6 DEF IInv
-----------------------------------------------------------------------------
(* AQMS's steps.                                                           *)

\* A turnover leaves the archive of every year up to now where it is, and
\* what is known of its rows is still known.
LEMMA TurnoverKeeps ==
  ASSUME IInv, Turnover
  PROVE  /\ \A y \in 1 .. year : ArchiveOf(y)' = ArchiveOf(y)
         /\ \A w \in FileRoot : Known(w) => Known(w)'
         /\ {w.onTime : w \in waveroots} \subseteq {w.onTime : w \in waveroots'}
         /\ waveroots' \subseteq FileRoot
         /\ year' \in Years /\ year' = year + 1 /\ year + 1 \in Int
  <1> DEFINE Close(w) == [w EXCEPT !.offTime = IF @ = Forever THEN year + 1 ELSE @]
  <1>1. /\ year \in Years /\ waveroots \subseteq FileRoot /\ year < MaxYear
        /\ MaxYear \in Nat
    BY WaveformsAssumption DEF IInv, WaveformsTypeOK, Turnover
  <1>2. PICK off \in {year + 2, Forever} :
          waveroots' = {Close(w) : w \in waveroots} \cup {NewRoot(year + 1, off)}
    BY DEF Turnover
  <1>3. /\ year' = year + 1 /\ year' \in Years /\ year \in Nat /\ Forever \in Nat
        /\ year + 1 < Forever /\ year + 2 \in 2 .. Forever /\ Forever \in 2 .. Forever
        /\ year + 1 \in 2 .. Forever
    BY <1>1 DEF Turnover, Years, Forever
  <1>4. ASSUME NEW w \in FileRoot
        PROVE  /\ Close(w) \in FileRoot
               /\ Close(w).onTime = w.onTime /\ Close(w).fileRoot = w.fileRoot
               /\ Close(w).offTime = IF w.offTime = Forever THEN year + 1 ELSE w.offTime
               /\ w.offTime # Forever => Close(w) = w
    BY <1>3 DEF FileRoot
  <1>5. NewRoot(year + 1, off) \in FileRoot
    BY <1>3 DEF NewRoot, FileRoot
  <1>6. waveroots' \subseteq FileRoot
    BY <1>1, <1>2, <1>4, <1>5
  <1>7. ASSUME NEW w \in FileRoot, Known(w) PROVE Known(w)'
    BY <1>2, <1>4, <1>7 DEF Known
  <1> HIDE DEF Close
  <1>10. ASSUME NEW w \in waveroots
         PROVE  /\ w \in FileRoot /\ Close(w) \in waveroots'
                /\ Close(w).onTime = w.onTime /\ Close(w).fileRoot = w.fileRoot
    BY <1>1, <1>2, <1>4
  <1>8. {w.onTime : w \in waveroots} \subseteq {w.onTime : w \in waveroots'}
    BY <1>10
  <1>9. ASSUME NEW y \in 1 .. year PROVE ArchiveOf(y)' = ArchiveOf(y)
    <2>1. ASSUME NEW w \in waveroots
          PROVE  w \in Covering(waveroots, y) <=> Close(w) \in Covering(waveroots', y)
      <3>1. Close(w) \in waveroots' /\ w \in FileRoot
        BY <1>10
      <3>2. (y >= w.onTime /\ y < w.offTime)
            <=> (y >= Close(w).onTime /\ y < Close(w).offTime)
        BY <3>1, <1>3, <1>4 DEF FileRoot
      <3> QED
        BY <3>1, <3>2 DEF Covering
    <2>2. NewRoot(year + 1, off) \notin Covering(waveroots', y)
      BY <1>3 DEF NewRoot, Covering
    <2>3. Covering(waveroots, y) \subseteq waveroots
      BY DEF Covering
    <2>4. Covering(waveroots', y) \subseteq {Close(w) : w \in waveroots}
      BY <2>2, <1>2 DEF Covering
    <2>5. ASSUME NEW p \in ArchiveOf(y) PROVE p \in ArchiveOf(y)'
      <3>1. PICK w \in Covering(waveroots, y) : w.fileRoot = p
        BY DEF ArchiveOf
      <3>2. Close(w) \in Covering(waveroots', y) /\ Close(w).fileRoot = p
        BY <3>1, <2>1, <2>3, <1>10
      <3> QED
        BY <3>2 DEF ArchiveOf
    <2>6. ASSUME NEW p \in ArchiveOf(y)' PROVE p \in ArchiveOf(y)
      <3>1. PICK v \in Covering(waveroots', y) : v.fileRoot = p
        BY DEF ArchiveOf
      <3>2. PICK w \in waveroots : v = Close(w)
        BY <2>4
      <3>3. w \in Covering(waveroots, y) /\ w.fileRoot = p
        BY <3>1, <3>2, <2>1, <1>10
      <3> QED
        BY <3>3 DEF ArchiveOf
    <2> QED
      BY <2>5, <2>6
  <1> QED
    BY <1>3, <1>6, <1>7, <1>8, <1>9

\* A new year only adds to what a root may be for.
LEMMA TurnoverInv == IInv /\ Turnover => IInv'
  <1> SUFFICES ASSUME IInv, Turnover PROVE IInv'
    OBVIOUS
  <1>0. /\ UNCHANGED <<fileRoots, mutex, pc, origin, todo, read, root, got,
                       skipped, answer>>
        /\ misled' = 0
    BY DEF Turnover, fetching
  <1>1. /\ \A y \in 1 .. year : ArchiveOf(y)' = ArchiveOf(y)
        /\ \A w \in FileRoot : Known(w) => Known(w)'
        /\ {w.onTime : w \in waveroots} \subseteq {w.onTime : w \in waveroots'}
        /\ waveroots' \subseteq FileRoot
        /\ year' \in Years /\ year' = year + 1 /\ year + 1 \in Int
    BY TurnoverKeeps
  <1>2. WaveformsTypeOK /\ HeldInv
    BY DEF IInv
  <1>3. \A y \in 1 .. year : y \in 1 .. year'
    BY <1>1, <1>2, WaveformsAssumption DEF WaveformsTypeOK, Years
  <1>4. WaveformsTypeOK'
    BY <1>0, <1>1, <1>2, <1>3, WaveformsAssumption DEF WaveformsTypeOK
  <1>5. HeldInv'
    BY <1>0, <1>1, <1>2 DEF HeldInv, WaveformsTypeOK
  <1>6. ASSUME NEW t \in Threads
        PROVE  (FetchInv(t) /\ StoreInv(t) /\ LookInv(t) /\ SkippedInv(t))'
    <2>1. FetchInv(t) /\ StoreInv(t) /\ LookInv(t) /\ SkippedInv(t)
      BY DEF IInv
    <2>2. FetchInv(t)'
      BY <2>1, <1>0, <1>3 DEF FetchInv
    <2>3. StoreInv(t)'
      BY <2>1, <1>0, <1>1 DEF StoreInv, FetchInv, Covering
    <2>4. LookInv(t)'
      BY <2>1, <1>0 DEF LookInv, Covering
    <2>5. SkippedInv(t)'
      BY <2>1, <1>0, <1>1, <1>3 DEF SkippedInv
    <2> QED
      BY <2>2, <2>3, <2>4, <2>5
  <1> QED
    BY <1>4, <1>5, <1>6 DEF IInv

\* A year without a new root only adds to the years that were.
LEMMA LapseInv == IInv /\ Lapse => IInv'
  <1> SUFFICES ASSUME IInv, Lapse PROVE IInv'
    OBVIOUS
  <1>0. UNCHANGED <<waveroots, fileRoots, mutex, pc, origin, todo, read, root,
                    got, skipped, answer, misled>>
    BY DEF Lapse, fetching
  <1>1. /\ year' \in Years
        /\ \A y \in 1 .. year : y \in 1 .. year'
    BY WaveformsAssumption DEF IInv, WaveformsTypeOK, Lapse, Years
  <1>2. WaveformsTypeOK'
    BY <1>0, <1>1 DEF IInv, WaveformsTypeOK
  <1>3. HeldInv'
    BY <1>0 DEF IInv, HeldInv, Known
  <1>4. ASSUME NEW t \in Threads
        PROVE  (FetchInv(t) /\ StoreInv(t) /\ LookInv(t) /\ SkippedInv(t))'
    <2>1. FetchInv(t)'
      BY <1>0, <1>1 DEF IInv, FetchInv
    <2>2. StoreInv(t)'
      BY <1>0, <1>1 DEF IInv, StoreInv, Covering, ArchiveOf
    <2>3. LookInv(t)' /\ SkippedInv(t)'
      BY <1>0, <1>1 DEF IInv, LookInv, SkippedInv, Covering, ArchiveOf
    <2> QED
      BY <2>1, <2>2, <2>3
  <1> QED
    BY <1>2, <1>3, <1>4 DEF IInv
-----------------------------------------------------------------------------
(* The steps of a thread.                                                  *)

\* A step that touches only the thread's own entries, and stores no roots,
\* leaves to be shown what it does to its own.
LEMMA OwnStep ==
  ASSUME IInv, NEW t \in Threads,
         UNCHANGED <<year, waveroots, fileRoots>>,
         WaveformsTypeOK',
         \A w \in read'[t] : w \in read[t] \/ w \in waveroots,
         \A u \in Threads \ {t} :
            /\ pc'[u] = pc[u] /\ origin'[u] = origin[u] /\ read'[u] = read[u]
            /\ root'[u] = root[u] /\ skipped'[u] = skipped[u]
            /\ mutex' = u <=> mutex = u,
         (FetchInv(t) /\ StoreInv(t) /\ LookInv(t) /\ SkippedInv(t))'
  PROVE  IInv'
  <1>1. HeldInv'
    BY DEF IInv, HeldInv, Known
  <1>2. ASSUME NEW u \in Threads \ {t}
        PROVE  (FetchInv(u) /\ StoreInv(u) /\ LookInv(u) /\ SkippedInv(u))'
    <2>1. FetchInv(u) /\ StoreInv(u) /\ LookInv(u) /\ SkippedInv(u)
      BY DEF IInv
    <2> QED
      BY <2>1 DEF FetchInv, StoreInv, LookInv, SkippedInv, Covering, ArchiveOf
  <1> QED
    BY <1>1, <1>2 DEF IInv

\* A request that begins has skipped nothing.
LEMMA AskInv == ASSUME IInv, NEW t \in Threads, Ask(t) PROVE IInv'
  <1>1. PICK y \in 1 .. year : origin' = [origin EXCEPT ![t] = y]
    BY DEF Ask
  <1>2. /\ pc[t] = "idle" /\ pc' = [pc EXCEPT ![t] = "event"]
        /\ UNCHANGED <<year, waveroots, fileRoots, misled, mutex, todo, read,
                       root, got, skipped, answer>>
    BY DEF Ask, roots
  <1>3. WaveformsTypeOK /\ FetchInv(t) /\ SkippedInv(t)
    BY DEF IInv
  <1>4. WaveformsTypeOK'
    BY <1>1, <1>2, <1>3 DEF WaveformsTypeOK, PCs
  <1>5. (FetchInv(t) /\ StoreInv(t) /\ LookInv(t) /\ SkippedInv(t))'
    BY <1>1, <1>2, <1>3
       DEF WaveformsTypeOK, FetchInv, StoreInv, LookInv, SkippedInv, Fetching
  <1> QED
    BY <1>1, <1>2, <1>3, <1>4, <1>5, OwnStep DEF WaveformsTypeOK

\* The origin of the event is of a year that was.
LEMMA GetEventInv == ASSUME IInv, NEW t \in Threads, GetEvent(t) PROVE IInv'
  <1>1. PICK next \in {"answered", "lock"} : pc' = [pc EXCEPT ![t] = next]
    BY DEF GetEvent, Respond
  <1>2. /\ pc[t] = "event"
        /\ UNCHANGED <<year, waveroots, fileRoots, misled, mutex, origin, read,
                       root, got, skipped>>
    BY DEF GetEvent, roots
  <1>3. WaveformsTypeOK /\ FetchInv(t) /\ SkippedInv(t)
    BY DEF IInv
  <1>4. DOMAIN todo' = Threads /\ DOMAIN answer' = Threads
    BY <1>3 DEF GetEvent, Respond, WaveformsTypeOK
  <1>5. WaveformsTypeOK'
    BY <1>1, <1>2, <1>3, <1>4 DEF WaveformsTypeOK, PCs
  <1>6. (FetchInv(t) /\ StoreInv(t) /\ LookInv(t) /\ SkippedInv(t))'
    BY <1>1, <1>2, <1>3
       DEF WaveformsTypeOK, FetchInv, StoreInv, LookInv, SkippedInv, Fetching
  <1> QED
    BY <1>1, <1>2, <1>3, <1>5, <1>6, OwnStep DEF WaveformsTypeOK

\* The mutex is taken by nobody else.
LEMMA LockInv == ASSUME IInv, NEW t \in Threads, Lock(t) PROVE IInv'
  <1>1. /\ pc[t] = "lock" /\ mutex = Free /\ mutex' = t
        /\ pc' = [pc EXCEPT ![t] = "file"]
        /\ UNCHANGED <<year, waveroots, fileRoots, misled, origin, todo, read,
                       root, got, skipped, answer>>
    BY DEF Lock, roots
  <1>2. WaveformsTypeOK /\ FetchInv(t) /\ SkippedInv(t)
    BY DEF IInv
  <1>3. WaveformsTypeOK'
    BY <1>1, <1>2 DEF WaveformsTypeOK, PCs, Fetching
  <1>4. (FetchInv(t) /\ StoreInv(t) /\ LookInv(t) /\ SkippedInv(t))'
    BY <1>1, <1>2
       DEF WaveformsTypeOK, FetchInv, StoreInv, LookInv, SkippedInv, Fetching
  <1> QED
    BY <1>1, <1>2, <1>3, <1>4, OwnStep, WaveformsAssumption DEF WaveformsTypeOK

\* Skipping a stream for another reason than that no root covers it.
LEMMA SkipStep ==
  ASSUME IInv, NEW t \in Threads, Skip(t, "failed"), pc[t] \in Fetching,
         UNCHANGED <<year, waveroots, fileRoots, mutex, origin, read, answer>>,
         misled' \in 0 .. MaxMisled
  PROVE  IInv'
  <1>1. PICK next \in {"unlock", "file"} : pc' = [pc EXCEPT ![t] = next]
    BY DEF Skip, NextStream
  <1>2. /\ DOMAIN todo' = Threads
        /\ skipped' = [skipped EXCEPT ![t] = @ \cup {"failed"}]
        /\ UNCHANGED <<root, got>>
    BY DEF Skip, NextStream, IInv, WaveformsTypeOK
  <1>3. WaveformsTypeOK /\ FetchInv(t) /\ SkippedInv(t)
    BY DEF IInv
  <1>4. WaveformsTypeOK'
    BY <1>1, <1>2, <1>3 DEF WaveformsTypeOK, PCs, Fetching, Reasons
  <1>5. (FetchInv(t) /\ StoreInv(t) /\ LookInv(t) /\ SkippedInv(t))'
    BY <1>1, <1>2, <1>3
       DEF WaveformsTypeOK, FetchInv, StoreInv, LookInv, SkippedInv, Fetching,
           ArchiveOf, Covering
  <1> QED
    BY <1>1, <1>2, <1>3, <1>4, <1>5, OwnStep DEF WaveformsTypeOK

\* A root is found among those held, and none is skipped for want of one.
LEMMA FindFileInv == ASSUME IInv, NEW t \in Threads, FindFile(t) PROVE IInv'
  <1>1. /\ pc[t] = "file" /\ pc[t] \in Fetching
        /\ UNCHANGED <<year, waveroots, fileRoots, misled, mutex, origin, read,
                       answer>>
    BY DEF FindFile, roots, Fetching
  <1>2. WaveformsTypeOK /\ FetchInv(t) /\ SkippedInv(t)
    BY DEF IInv
  <1>3. CASE Skip(t, "failed")
    BY <1>1, <1>2, <1>3, SkipStep DEF WaveformsTypeOK
  <1>4. ASSUME NEW place \in Search(fileRoots, origin[t]), LookUnder(t, place)
        PROVE  IInv'
    <2>1. PICK w \in Covering(fileRoots, origin[t]) : w.fileRoot = place
      BY DEF Search
    <2>2. w \in fileRoots /\ place \in Years
      BY <2>1, <1>2 DEF Covering, WaveformsTypeOK, FileRoot
    <2>3. /\ root' = [root EXCEPT ![t] = place]
          /\ pc' = [pc EXCEPT ![t] = "bytes"]
          /\ UNCHANGED <<todo, got, skipped>>
      BY <1>4 DEF LookUnder
    <2>4. WaveformsTypeOK'
      BY <1>1, <1>2, <2>2, <2>3 DEF WaveformsTypeOK, PCs, Fetching
    <2>5. LookInv(t)'
      BY <1>1, <1>2, <2>1, <2>2, <2>3 DEF LookInv, WaveformsTypeOK, Covering
    <2>6. (FetchInv(t) /\ StoreInv(t) /\ SkippedInv(t))'
      BY <1>1, <1>2, <2>3
         DEF WaveformsTypeOK, FetchInv, StoreInv, SkippedInv, Fetching,
             ArchiveOf, Covering
    <2> QED
      BY <1>1, <1>2, <2>3, <2>4, <2>5, <2>6, OwnStep DEF WaveformsTypeOK
  <1>5. CASE pc' = [pc EXCEPT ![t] = "roots"] /\ UNCHANGED <<todo, root, got, skipped>>
    <2>1. WaveformsTypeOK'
      BY <1>1, <1>2, <1>5 DEF WaveformsTypeOK, PCs, Fetching
    <2>2. (FetchInv(t) /\ StoreInv(t) /\ LookInv(t) /\ SkippedInv(t))'
      BY <1>1, <1>2, <1>5
         DEF WaveformsTypeOK, FetchInv, StoreInv, LookInv, SkippedInv, Fetching,
             ArchiveOf, Covering
    <2> QED
      BY <1>1, <1>2, <1>5, <2>1, <2>2, OwnStep DEF WaveformsTypeOK
  <1> QED
    BY <1>3, <1>4, <1>5 DEF FindFile

\* What is read is AQMS's table as it is now.
LEMMA ReadRootsInv == ASSUME IInv, NEW t \in Threads, ReadRoots(t) PROVE IInv'
  <1>1. /\ pc[t] = "roots" /\ pc[t] \in Fetching
        /\ UNCHANGED <<year, waveroots, fileRoots, misled, mutex, origin, answer>>
    BY DEF ReadRoots, roots, Fetching
  <1>2. WaveformsTypeOK /\ HeldInv /\ FetchInv(t) /\ SkippedInv(t)
    BY DEF IInv
  <1>3. CASE Skip(t, "failed") /\ UNCHANGED read
    BY <1>1, <1>2, <1>3, SkipStep DEF WaveformsTypeOK
  <1>4. CASE /\ read' = [read EXCEPT ![t] = waveroots]
             /\ pc' = [pc EXCEPT ![t] = "store"]
             /\ UNCHANGED <<todo, root, got, skipped>>
    <2>1. WaveformsTypeOK'
      BY <1>1, <1>2, <1>4 DEF WaveformsTypeOK, PCs, Fetching
    <2>2. read'[t] = waveroots
      BY <1>2, <1>4 DEF WaveformsTypeOK
    <2>3. StoreInv(t)'
      BY <1>1, <1>2, <2>2 DEF StoreInv, HeldInv, ArchiveOf, Covering
    <2>4. (FetchInv(t) /\ LookInv(t) /\ SkippedInv(t))'
      BY <1>1, <1>2, <1>4
         DEF WaveformsTypeOK, FetchInv, LookInv, SkippedInv, Fetching, ArchiveOf,
             Covering
    <2> QED
      BY <1>1, <1>2, <1>4, <2>1, <2>2, <2>3, <2>4, OwnStep DEF WaveformsTypeOK
  <1> QED
    BY <1>3, <1>4 DEF ReadRoots

\* Only the thread that holds the mutex has anything that depends on the
\* roots that are held.
LEMMA StoreRootsInv == ASSUME IInv, NEW t \in Threads, StoreRoots(t) PROVE IInv'
  <1>1. /\ pc[t] = "store" /\ fileRoots' = read[t]
        /\ read' = [read EXCEPT ![t] = {}]
        /\ UNCHANGED <<year, waveroots, misled, mutex, origin, answer>>
    BY DEF StoreRoots
  <1>2. WaveformsTypeOK /\ HeldInv /\ FetchInv(t) /\ StoreInv(t) /\ SkippedInv(t)
    BY DEF IInv
  <1>3. /\ Covering(read[t], origin[t]) = {} => ArchiveOf(origin[t]) = {}
        /\ origin[t] \in 1 .. year
    BY <1>1, <1>2 DEF StoreInv, FetchInv
  <1> DEFINE Ends(next, place, reasons) ==
        /\ pc' = [pc EXCEPT ![t] = next]
        /\ root' = [root EXCEPT ![t] = place]
        /\ skipped' = [skipped EXCEPT ![t] = reasons]
        /\ next = "bytes" => \E w \in read[t] : /\ w.fileRoot = place
                                                /\ w \in Covering(read[t], origin[t])
        /\ reasons # skipped[t] => ArchiveOf(origin[t]) = {}
        /\ DOMAIN todo' = Threads /\ UNCHANGED got
  <1>4. \E next \in {"bytes", "unlock", "file"}, place \in Years \cup {root[t]},
           reasons \in {skipped[t], skipped[t] \cup {"no root"}} :
              Ends(next, place, reasons)
    <2>1. ASSUME NEW place \in Search(read[t], origin[t]), LookUnder(t, place)
          PROVE  place \in Years /\ Ends("bytes", place, skipped[t])
      <3>1. PICK w \in Covering(read[t], origin[t]) : w.fileRoot = place
        BY DEF Search
      <3>2. w \in read[t] /\ place \in Years
        BY <3>1, <1>2 DEF Covering, WaveformsTypeOK, FileRoot
      <3> QED
        BY <3>1, <3>2, <2>1, <1>2 DEF LookUnder, WaveformsTypeOK
    <2>2. ASSUME Skip(t, "no root"), Covering(read[t], origin[t]) = {}
          PROVE  \E next \in {"unlock", "file"} :
                    Ends(next, root[t], skipped[t] \cup {"no root"})
      BY <2>2, <1>2, <1>3 DEF Skip, NextStream, WaveformsTypeOK
    <2> HIDE DEF Ends
    <2> QED
      BY <1>1, <2>1, <2>2 DEF StoreRoots
  <1>41. PICK next \in {"bytes", "unlock", "file"}, place \in Years \cup {root[t]},
              reasons \in {skipped[t], skipped[t] \cup {"no root"}} :
                 Ends(next, place, reasons)
    BY <1>4
  <1>5. WaveformsTypeOK'
    BY <1>1, <1>2, <1>41 DEF WaveformsTypeOK, PCs, Fetching, Reasons
  <1>6. HeldInv'
    <2>1. \A w \in read[t] : Known(w)
      BY <1>2 DEF HeldInv
    <2>2. \A u \in Threads : read'[u] \subseteq read[u]
      BY <1>1, <1>2 DEF WaveformsTypeOK
    <2> QED
      BY <1>1, <1>2, <2>1, <2>2 DEF HeldInv, Known
  <1>7. ASSUME NEW u \in Threads \ {t}
        PROVE  (FetchInv(u) /\ StoreInv(u) /\ LookInv(u) /\ SkippedInv(u))'
    <2>1. FetchInv(u) /\ SkippedInv(u) /\ pc[u] \notin Fetching
      BY <1>1, <1>2 DEF IInv, FetchInv, Fetching
    <2>2. pc'[u] = pc[u] /\ skipped'[u] = skipped[u]
      BY <1>2, <1>41 DEF WaveformsTypeOK
    <2> QED
      BY <1>1, <2>1, <2>2
         DEF FetchInv, StoreInv, LookInv, SkippedInv, ArchiveOf, Covering, Fetching
  <1>8. LookInv(t)'
    BY <1>1, <1>2, <1>41 DEF LookInv, WaveformsTypeOK, Covering
  <1>9. SkippedInv(t)'
    BY <1>1, <1>2, <1>3, <1>41
       DEF SkippedInv, WaveformsTypeOK, ArchiveOf, Covering
  <1>10. (FetchInv(t) /\ StoreInv(t))'
    BY <1>1, <1>2, <1>41 DEF FetchInv, StoreInv, WaveformsTypeOK, Fetching
  <1> QED
    BY <1>5, <1>6, <1>7, <1>8, <1>9, <1>10 DEF IInv

\* A file that is read or not leaves the roots alone.
LEMMA ReadFileInv == ASSUME IInv, NEW t \in Threads, ReadFile(t) PROVE IInv'
  <1>1. /\ pc[t] = "bytes" /\ pc[t] \in Fetching
        /\ UNCHANGED <<year, waveroots, fileRoots, mutex, origin, read, answer>>
    BY DEF ReadFile, Fetching
  <1>2. WaveformsTypeOK /\ FetchInv(t) /\ SkippedInv(t)
    BY DEF IInv
  <1>3. misled' \in 0 .. MaxMisled
    BY <1>2, WaveformsAssumption DEF ReadFile, WaveformsTypeOK
  <1>4. CASE Skip(t, "failed")
    BY <1>1, <1>3, <1>4, SkipStep
  <1>5. CASE /\ DOMAIN got' = DOMAIN got
             /\ NextStream(t)
             /\ UNCHANGED <<root, skipped>>
    <2>1. PICK next \in {"unlock", "file"} : pc' = [pc EXCEPT ![t] = next]
      BY <1>5 DEF NextStream
    <2>2. DOMAIN todo' = Threads
      BY <1>2, <1>5 DEF NextStream, WaveformsTypeOK
    <2>3. WaveformsTypeOK'
      BY <1>1, <1>2, <1>3, <1>5, <2>1, <2>2 DEF WaveformsTypeOK, PCs, Fetching
    <2>4. (FetchInv(t) /\ StoreInv(t) /\ LookInv(t) /\ SkippedInv(t))'
      BY <1>1, <1>2, <1>5, <2>1
         DEF WaveformsTypeOK, FetchInv, StoreInv, LookInv, SkippedInv, Fetching,
             ArchiveOf, Covering
    <2> QED
      BY <1>1, <1>2, <1>5, <2>1, <2>3, <2>4, OwnStep DEF WaveformsTypeOK
  <1>6. \/ Skip(t, "failed")
        \/ /\ DOMAIN got' = DOMAIN got
           /\ NextStream(t)
           /\ UNCHANGED <<root, skipped>>
    BY DEF ReadFile
  <1> QED
    BY <1>4, <1>5, <1>6

\* The mutex is released with the answer.
LEMMA UnlockInv == ASSUME IInv, NEW t \in Threads, Unlock(t) PROVE IInv'
  <1>1. /\ pc[t] = "unlock" /\ mutex' = Free
        /\ pc' = [pc EXCEPT ![t] = "answered"]
        /\ UNCHANGED <<year, waveroots, fileRoots, misled, origin, todo, read,
                       root, got, skipped>>
    BY DEF Unlock, Respond, roots
  <1>2. WaveformsTypeOK /\ FetchInv(t) /\ SkippedInv(t)
    BY DEF IInv
  <1>3. DOMAIN answer' = Threads
    BY <1>2 DEF Unlock, Respond, WaveformsTypeOK
  <1>4. WaveformsTypeOK'
    BY <1>1, <1>2, <1>3 DEF WaveformsTypeOK, PCs
  <1>5. (FetchInv(t) /\ StoreInv(t) /\ LookInv(t) /\ SkippedInv(t))'
    BY <1>1, <1>2, WaveformsAssumption
       DEF WaveformsTypeOK, FetchInv, StoreInv, LookInv, SkippedInv, Fetching,
           ArchiveOf, Covering
  <1>6. mutex = t
    BY <1>1, <1>2 DEF FetchInv, Fetching
  <1> QED
    BY <1>1, <1>2, <1>4, <1>5, <1>6, OwnStep, WaveformsAssumption DEF WaveformsTypeOK

\* The answer is handed over and forgotten.
LEMMA ReturnInv == ASSUME IInv, NEW t \in Threads, Return(t) PROVE IInv'
  <1>1. /\ pc[t] = "answered"
        /\ pc' = [pc EXCEPT ![t] = "idle"]
        /\ origin' = [origin EXCEPT ![t] = Unasked]
        /\ root' = [root EXCEPT ![t] = Unasked]
        /\ got' = [got EXCEPT ![t] = <<>>]
        /\ skipped' = [skipped EXCEPT ![t] = {}]
        /\ answer' = [answer EXCEPT ![t] = NoAnswer]
        /\ UNCHANGED <<year, waveroots, fileRoots, misled, mutex, todo, read>>
    BY DEF Return, roots
  <1>2. WaveformsTypeOK /\ FetchInv(t)
    BY DEF IInv
  <1>3. WaveformsTypeOK'
    BY <1>1, <1>2 DEF WaveformsTypeOK, PCs
  <1>4. (FetchInv(t) /\ StoreInv(t) /\ LookInv(t) /\ SkippedInv(t))'
    BY <1>1, <1>2
       DEF WaveformsTypeOK, FetchInv, StoreInv, LookInv, SkippedInv, Fetching
  <1> QED
    BY <1>1, <1>2, <1>3, <1>4, OwnStep DEF WaveformsTypeOK

-----------------------------------------------------------------------------
\* Every step of the handlers and of AQMS keeps it (queryWaveforms).
LEMMA StepInv == IInv /\ [WaveformsNext]_waveformVars => IInv'
  <1> SUFFICES ASSUME IInv, [WaveformsNext]_waveformVars PROVE IInv'
    OBVIOUS
  <1>1. CASE Turnover
    BY <1>1, TurnoverInv
  <1>2. CASE Lapse
    BY <1>2, LapseInv
  <1>3. ASSUME NEW t \in Threads, Step(t) PROVE IInv'
    BY <1>3, AskInv, GetEventInv, LockInv, FindFileInv, ReadRootsInv,
       StoreRootsInv, ReadFileInv, UnlockInv, ReturnInv DEF Step
  <1>4. CASE UNCHANGED waveformVars
    <2>1. WaveformsTypeOK'
      BY <1>4 DEF waveformVars, IInv, WaveformsTypeOK
    <2>2. HeldInv'
      BY <1>4 DEF waveformVars, IInv, HeldInv, Known
    <2>3. ASSUME NEW t \in Threads
          PROVE  (FetchInv(t) /\ StoreInv(t) /\ LookInv(t) /\ SkippedInv(t))'
      <3>1. FetchInv(t)'
        BY <1>4 DEF waveformVars, IInv, FetchInv
      <3>2. StoreInv(t)'
        BY <1>4 DEF waveformVars, IInv, StoreInv, Covering, ArchiveOf
      <3>3. LookInv(t)' /\ SkippedInv(t)'
        BY <1>4 DEF waveformVars, IInv, LookInv, SkippedInv, Covering, ArchiveOf
      <3> QED
        BY <3>1, <3>2, <3>3
    <2> QED
      BY <2>1, <2>2, <2>3 DEF IInv
  <1> QED
    BY <1>1, <1>2, <1>3, <1>4 DEF WaveformsNext

\* What the invariant says of a single state.
LEMMA InvImplies == IInv => StaleOnlyIfOpenEnded /\ NoRootMeansNone
  <1> SUFFICES ASSUME IInv PROVE StaleOnlyIfOpenEnded /\ NoRootMeansNone
    OBVIOUS
  <1>1. ASSUME NEW t \in Threads, pc[t] = "bytes", root[t] \notin ArchiveOf(origin[t])
        PROVE  \E w \in fileRoots : /\ w.fileRoot = root[t]
                                    /\ w.offTime = Forever
                                    /\ w \notin waveroots
    <2>1. PICK w \in fileRoots : w.fileRoot = root[t]
                                /\ w \in Covering(fileRoots, origin[t])
      BY <1>1 DEF IInv, LookInv
    <2>2. w \notin waveroots
      BY <1>1, <2>1 DEF ArchiveOf, Covering
    <2> QED
      BY <2>1, <2>2 DEF IInv, HeldInv, Known
  <1> QED
    BY <1>1 DEF IInv, SkippedInv, StaleOnlyIfOpenEnded, NoRootMeansNone

\* What it says of a step.
LEMMA StepKeeps ==
  ASSUME IInv, [WaveformsNext]_waveformVars
  PROVE  \A t \in Threads : pc[t] = "store" /\ pc'[t] \in Fetching =>
            {w.onTime : w \in fileRoots} \subseteq {w.onTime : w \in fileRoots'}
  <1> SUFFICES ASSUME NEW t \in Threads, pc[t] = "store", fileRoots' # fileRoots
               PROVE  {w.onTime : w \in fileRoots} \subseteq {w.onTime : w \in fileRoots'}
    OBVIOUS
  <1>1. PICK u \in Threads : StoreRoots(u)
    BY DEF WaveformsNext, waveformVars, Step, Turnover, Lapse, Ask, GetEvent, Lock,
           FindFile, ReadRoots, ReadFile, Unlock, Return, roots
  <1>2. u = t
    BY <1>1 DEF IInv, FetchInv, Fetching, StoreRoots
  <1> QED
    BY <1>1, <1>2 DEF IInv, StoreInv, StoreRoots

-----------------------------------------------------------------------------
(* Induction over the indices of a sequence.                               *)

\* A set of numbers that is not empty has a least one.
LEMMA Least ==
  ASSUME NEW T, T \subseteq Nat, T # {}
  PROVE  \E x \in T : \A y \in T : x <= y
  <1> DEFINE R == OpToRel(<, Nat)
  <1>1. IsWellFoundedOn(R, Nat)
    BY NatLessThanWellFounded
  <1>2. \A x, y \in T : <<y, x>> \in R <=> y < x
    BY DEF OpToRel
  <1> HIDE DEF R
  <1>3. PICK x \in T : \A y \in T : ~(<<y, x>> \in R)
    BY <1>1, WFMin
  <1>4. \A y \in T : ~(y < x)
    BY <1>2, <1>3
  <1> QED
    BY <1>4

\* Induction over the indices of a sequence, as a fact about the set of those
\* that are good: the least bad one would have a good one before it.
LEMMA EveryIndex ==
  ASSUME NEW a \in Nat, NEW n \in Nat, NEW Good \in SUBSET (a .. n),
         a <= n => a \in Good,
         \A i \in Good : i < n => i + 1 \in Good
  PROVE  Good = a .. n
  <1> DEFINE Bad == (a .. n) \ Good
  <1> SUFFICES ASSUME Bad # {} PROVE FALSE
    OBVIOUS
  <1>1. Bad \subseteq Nat
    OBVIOUS
  <1> HIDE DEF Bad
  <1>2. PICK i \in Bad : \A j \in Bad : i <= j
    BY <1>1, Least
  <1> USE DEF Bad
  <1>3. i # a /\ i \in a .. n /\ i \notin Good
    BY <1>2
  <1>4. i - 1 \in a .. n /\ i - 1 \notin Bad
    BY <1>2, <1>3
  <1>5. i - 1 \in Good /\ i - 1 < n /\ (i - 1) + 1 = i
    BY <1>3, <1>4
  <1> QED
    BY <1>3, <1>5

\* f is what a recursion along the indices defines.
Follows(f, a, n, base, step) ==
    \A i \in a .. n : f[i] = IF i = a THEN base ELSE step[<<i, f[i - 1]>>]

\* A recursion along the indices defines something, and keeps to V.
LEMMA Recursion ==
  ASSUME NEW V, NEW base \in V, NEW a \in Nat, NEW n \in Nat,
         NEW step \in [(a .. n) \X V -> V]
  PROVE  \E f \in [a .. n -> V] : Follows(f, a, n, base, step)
  <1> USE DEF Follows
  <1>1. ASSUME NEW m \in a .. n, NEW f \in [a .. m - 1 -> V], Follows(f, a, m - 1, base, step)
        PROVE  \E g \in [a .. m -> V] : Follows(g, a, m, base, step)
    <2> DEFINE g == [i \in a .. m |->
                       IF i < m THEN f[i]
                       ELSE IF i = a THEN base ELSE step[<<i, f[i - 1]>>]]
    <2>1. \A i \in a .. m : /\ i \in a .. n /\ i \in Int
                            /\ i # a => i - 1 \in a .. m - 1
                            /\ i < m => i \in a .. m - 1
      OBVIOUS
    <2>2. g \in [a .. m -> V]
      BY <2>1
    <2>3. \A i \in a .. m : g[i] = IF i = a THEN base ELSE step[<<i, g[i - 1]>>]
      <3>1. ASSUME NEW i \in a .. m - 1
            PROVE  f[i] = IF i = a THEN base ELSE step[<<i, f[i - 1]>>]
        BY <1>1
      <3>2. \A i \in a .. m - 1 : g[i] = f[i]
        OBVIOUS
      <3> QED
        BY <2>1, <3>1, <3>2
    <2> HIDE DEF g
    <2>4. Follows(g, a, m, base, step)
      BY <2>2, <2>3
    <2> QED
      BY <2>2, <2>4
  <1>2. ASSUME NEW m \in Int, m < a
        PROVE  \E f \in [a .. m -> V] : Follows(f, a, m, base, step)
    <2>1. a .. m = {}
      BY <1>2
    <2> DEFINE e == [i \in a .. m |-> base]
    <2>2. e \in [a .. m -> V] /\ Follows(e, a, m, base, step)
      BY <2>1
    <2> QED
      BY <2>2
  <1>3. ASSUME a <= n
        PROVE  \E f \in [a .. n -> V] : Follows(f, a, n, base, step)
    <2> DEFINE Good == {m \in a .. n : \E f \in [a .. m -> V] : Follows(f, a, m, base, step)}
    <2> HIDE DEF Follows
    <2>1. a \in Good
      <3>1. a - 1 \in Int /\ a - 1 < a /\ a \in a .. n
        BY <1>3
      <3>2. \E f \in [a .. a - 1 -> V] : Follows(f, a, a - 1, base, step)
        BY <1>2, <3>1
      <3> QED
        BY <1>1, <3>1, <3>2
    <2>2. ASSUME NEW m \in Good, m < n PROVE m + 1 \in Good
      <3>1. m + 1 \in a .. n /\ (m + 1) - 1 = m
        BY <2>2
      <3> QED
        BY <1>1, <2>2, <3>1
    <2>3. Good \in SUBSET (a .. n) /\ n \in a .. n
      BY <1>3
    <2> HIDE DEF Good
    <2>4. Good = a .. n
      BY <2>1, <2>2, <2>3, EveryIndex
    <2> QED
      BY <2>3, <2>4 DEF Good
  <1>4. CASE n < a
    BY <1>2, <1>4
  <1>5. CASE a <= n
    BY <1>3, <1>5
  <1> QED
    BY <1>4, <1>5
-----------------------------------------------------------------------------
(* The packets of a file.                                                  *)

\* A segment that has something to draw.
Drawable == [start : Int, period : Nat \ {0}, samples : Seq(Int) \ {<<>>}]

\* What is parsed is the beginning of the file.
LEMMA ParsedIsASeq ==
  ASSUME NEW file \in Seq(MiniSeedRecord)
  PROVE  Parsed(file) \in Seq(MiniSeedRecord)
  <1> DEFINE I == {i \in DOMAIN file : \A j \in 1 .. i : file[j].parses}
  <1>1. DOMAIN file = 1 .. Len(file) /\ Len(file) \in Nat
    OBVIOUS
  <1>2. /\ IsFiniteSet(1 .. Len(file)) /\ Cardinality(1 .. Len(file)) = Len(file)
    BY <1>1, FS_Interval
  <1>3. Cardinality(I) \in Nat /\ Cardinality(I) <= Len(file)
    BY <1>1, <1>2, FS_Subset, FS_CardinalityType
  <1>4. \A i \in 1 .. Cardinality(I) : file[i] \in MiniSeedRecord
    BY <1>1, <1>3
  <1> HIDE DEF I
  <1>5. SubSeq(file, 1, Cardinality(I)) \in Seq(MiniSeedRecord)
    BY <1>3, <1>4, SubSeqProperties
  <1> QED
    BY <1>5 DEF Parsed, I

\* What unpack() keeps of records that do not make it throw can be drawn.
LEMMA SegmentsAreDrawable ==
  ASSUME NEW records \in Seq(MiniSeedRecord), ~Throws(records)
  PROVE  Segments(records) \in Seq(Drawable)
  <1> DEFINE n == Len(records)
             V == Seq(Drawable)
             step == [x \in (0 .. n) \X V |->
                        IF x[1] = 0 \/ records[x[1]].samples = <<>> THEN x[2]
                        ELSE Append(x[2], Segment(records[x[1]]))]
             held[i \in 0 .. n] ==
                IF i = 0 THEN <<>>
                ELSE IF records[i].samples = <<>> THEN held[i - 1]
                ELSE Append(held[i - 1], Segment(records[i]))
  <1>1. n \in Nat /\ <<>> \in V /\ DOMAIN records = 1 .. n
    OBVIOUS
  <1>2. ASSUME NEW i \in 0 .. n, i # 0, records[i].samples # <<>>
        PROVE  Segment(records[i]) \in Drawable
    <2>1. i \in DOMAIN records /\ records[i] \in MiniSeedRecord
      BY <1>1, <1>2
    <2>2. ~(records[i].period <= 0)
      BY <2>1 DEF Throws
    <2>3. /\ records[i].start \in Int /\ records[i].period \in Nat \ {0}
          /\ records[i].samples \in Seq(Int) \ {<<>>}
      BY <1>2, <2>1, <2>2 DEF MiniSeedRecord
    <2> QED
      BY <2>3 DEF Segment, Drawable
  <1>3. step \in [(0 .. n) \X V -> V]
    <2> SUFFICES ASSUME NEW x \in (0 .. n) \X V
                 PROVE  (IF x[1] = 0 \/ records[x[1]].samples = <<>> THEN x[2]
                         ELSE Append(x[2], Segment(records[x[1]]))) \in V
      OBVIOUS
    <2>1. x[1] \in 0 .. n /\ x[2] \in V
      OBVIOUS
    <2> HIDE DEF V
    <2>2. CASE x[1] = 0 \/ records[x[1]].samples = <<>>
      BY <2>1, <2>2
    <2>3. CASE x[1] # 0 /\ records[x[1]].samples # <<>>
      BY <1>2, <2>1, <2>3 DEF V
    <2> QED
      BY <2>2, <2>3
  <1> HIDE DEF V
  <1>4. PICK f \in [0 .. n -> V] : Follows(f, 0, n, <<>>, step)
    <2>1. 0 \in Nat /\ n \in Nat /\ <<>> \in V
      BY <1>1
    <2> HIDE DEF step, n
    <2> QED
      BY <1>3, <2>1, Recursion
  <1>5. f = [i \in 0 .. n |->
                IF i = 0 THEN <<>>
                ELSE IF records[i].samples = <<>> THEN f[i - 1]
                ELSE Append(f[i - 1], Segment(records[i]))]
    <2>1. \A i \in 0 .. n : i # 0 => i - 1 \in 0 .. n
      BY <1>1
    <2>2. ASSUME NEW i \in 0 .. n, i # 0
          PROVE  step[<<i, f[i - 1]>>] =
                    IF records[i].samples = <<>> THEN f[i - 1]
                    ELSE Append(f[i - 1], Segment(records[i]))
      BY <2>1, <2>2
    <2> QED
      BY <1>4, <2>2 DEF Follows
  <1>6. held = [i \in 0 .. n |->
                IF i = 0 THEN <<>>
                ELSE IF records[i].samples = <<>> THEN held[i - 1]
                ELSE Append(held[i - 1], Segment(records[i]))]
    BY <1>5
  <1>7. held[n] \in V
    <2> HIDE DEF held
    <2> DEFINE Good == {i \in 0 .. n : held[i] \in V}
    <2>1. 0 \in Good
      BY <1>1, <1>6
    <2>2. ASSUME NEW i \in Good, i < n PROVE i + 1 \in Good
      <3>1. i + 1 \in 0 .. n /\ (i + 1) - 1 = i /\ i + 1 # 0 /\ held[i] \in V
        BY <2>2
      <3>2. held[i + 1] = IF records[i + 1].samples = <<>> THEN held[i]
                          ELSE Append(held[i], Segment(records[i + 1]))
        BY <1>6, <3>1
      <3>3. held[i + 1] \in V
        BY <1>2, <3>1, <3>2 DEF V
      <3> QED
        BY <3>1, <3>3
    <2> HIDE DEF Good
    <2>3. Good = 0 .. n
      BY <1>1, <2>1, <2>2, EveryIndex DEF Good
    <2> QED
      BY <1>1, <2>3 DEF Good
  <1> QED
    BY <1>7 DEF V, Segments

\* Sorting loses no segment and invents none (std::sort).
LEMMA SortedKeeps ==
  ASSUME NEW segments \in Seq(Drawable), NEW s \in Sorted(segments)
  PROVE  /\ s \in Seq(Drawable) /\ Len(s) = Len(segments)
         /\ \A p \in DOMAIN segments : \E q \in DOMAIN s : s[q] = segments[p]
         /\ \A q \in DOMAIN s : \E p \in DOMAIN segments : s[q] = segments[p]
  <1> DEFINE n == Len(segments)
  <1>1. n \in Nat /\ DOMAIN segments = 1 .. n
    OBVIOUS
  <1>2. PICK f \in [1 .. n -> 1 .. n] :
          /\ s = [i \in 1 .. n |-> segments[f[i]]]
          /\ \A i, j \in 1 .. n : i < j => f[i] # f[j]
    BY <1>1 DEF Sorted
  <1>3. \A i \in 1 .. n : f[i] \in 1 .. n /\ segments[f[i]] \in Drawable
    BY <1>1, <1>2
  <1>4. s \in Seq(Drawable) /\ Len(s) = n /\ DOMAIN s = 1 .. n
    BY <1>1, <1>2, <1>3, IsASeq
  <1>5. ASSUME NEW p \in 1 .. n PROVE \E q \in 1 .. n : f[q] = p
    <2> SUFFICES ASSUME \A q \in 1 .. n : f[q] # p PROVE FALSE
      OBVIOUS
    <2>1. IsFiniteSet(1 .. n) /\ Cardinality(1 .. n) = n
      BY <1>1, FS_Interval
    <2>2. /\ IsFiniteSet((1 .. n) \ {p})
          /\ Cardinality((1 .. n) \ {p}) < Cardinality(1 .. n)
      <3> HIDE DEF n
      <3> DEFINE I == 1 .. n
      <3>1. IsFiniteSet(I) /\ Cardinality(I) = n /\ p \in I
        BY <2>1, <1>5
      <3> HIDE DEF I
      <3>2. IsFiniteSet(I \ {p}) /\ Cardinality(I \ {p}) = Cardinality(I) - 1
        BY <3>1, FS_RemoveElement
      <3> QED
        BY <1>1, <3>1, <3>2 DEF I
    <2>3. f \in [1 .. n -> (1 .. n) \ {p}]
      BY <1>2, <1>3
    <2>4. PICK i, j \in 1 .. n : i # j /\ f[i] = f[j]
      <3> HIDE DEF n
      <3> QED
        BY <2>1, <2>2, <2>3, FS_PigeonHole
    <2>5. i < j \/ j < i
      BY <2>4
    <2> QED
      BY <1>2, <2>4, <2>5
  <1>6. ASSUME NEW p \in 1 .. n PROVE \E q \in 1 .. n : s[q] = segments[p]
    BY <1>2, <1>5
  <1>7. ASSUME NEW q \in 1 .. n PROVE \E p \in 1 .. n : s[q] = segments[p]
    BY <1>2, <1>3
  <1> QED
    BY <1>1, <1>4, <1>6, <1>7

\* A segment is where it belongs in itself.
LEMMA OwnPlace == ASSUME NEW r \in Drawable PROVE IsAt(r, r, 1)
  <1>1. /\ r.samples \in Seq(Int) /\ r.start \in Int /\ r.period \in Int
        /\ r.period > 0
    BY DEF Drawable
  <1>2. SubSeq(r.samples, 1, Len(r.samples)) = r.samples
    BY <1>1, SubSeqFull
  <1>3. (1 - 1) * r.period = 0
    BY <1>1
  <1>4. Abs(r.start + (1 - 1) * r.period - r.start) = 0
    BY <1>1, <1>3 DEF Abs
  <1>5. 1 + Len(r.samples) - 1 = Len(r.samples) /\ Len(r.samples) \in Nat
    BY <1>1
  <1> QED
    BY <1>1, <1>2, <1>4, <1>5 DEF IsAt

\* Joining appends the samples and leaves the rest (setSegments).
LEMMA JoinIsDrawable ==
  ASSUME NEW last \in Drawable, NEW next \in Drawable
  PROVE  /\ Join(last, next) \in Drawable
         /\ Join(last, next).start = last.start
         /\ Join(last, next).period = last.period
         /\ Join(last, next).samples = last.samples \o next.samples
         /\ Len(Join(last, next).samples) = Len(last.samples) + Len(next.samples)
  <1>1. /\ last.samples \in Seq(Int) /\ next.samples \in Seq(Int)
        /\ last.samples # <<>>
    BY DEF Drawable
  <1>2. /\ last.samples \o next.samples \in Seq(Int)
        /\ Len(last.samples \o next.samples) = Len(last.samples) + Len(next.samples)
    BY <1>1, ConcatProperties
  <1>3. last.samples \o next.samples # <<>>
    BY <1>1, <1>2
  <1> QED
    BY <1>2, <1>3 DEF Join, Drawable

\* What is in place stays there when samples are appended.
LEMMA JoinKeepsPlaces ==
  ASSUME NEW last \in Drawable, NEW next \in Drawable, NEW r \in Drawable,
         NEW i \in 1 .. Len(last.samples), IsAt(r, last, i)
  PROVE  IsAt(r, Join(last, next), i)
  <1> DEFINE e == i + Len(r.samples) - 1
  <1>1. /\ last.samples \in Seq(Int) /\ next.samples \in Seq(Int)
        /\ r.samples \in Seq(Int) /\ Len(r.samples) \in Nat \ {0}
        /\ Len(last.samples) \in Nat /\ Len(next.samples) \in Nat
    BY DEF Drawable
  <1>2. e \in 1 .. Len(last.samples)
    <2>1. e <= Len(last.samples)
      BY DEF IsAt
    <2> QED
      BY <1>1, <2>1
  <1> HIDE DEF e
  <1>3. SubSeq(last.samples \o next.samples, i, e) = SubSeq(last.samples, i, e)
    BY <1>1, <1>2, SubSeqOfConcat1
  <1> DEFINE l == Len(last.samples)
             m == Len(next.samples)
  <1>4. e <= l + m
    <2>1. l \in Nat /\ m \in Nat /\ e \in 1 .. l
      BY <1>1, <1>2
    <2> HIDE DEF l, m
    <2> QED
      BY <2>1
  <1> QED
    BY <1>3, <1>4, JoinIsDrawable DEF IsAt, e

\* What is joined to a segment it continues is in place there.
LEMMA JoinedPlace ==
  ASSUME NEW last \in Drawable, NEW next \in Drawable, Contiguous(last, next)
  PROVE  IsAt(next, Join(last, next), Len(last.samples) + 1)
  <1> DEFINE l == Len(last.samples)
             m == Len(next.samples)
  <1>1. /\ last.samples \in Seq(Int) /\ next.samples \in Seq(Int)
        /\ l \in Nat \ {0} /\ m \in Nat \ {0}
        /\ last.start \in Int /\ last.period \in Nat \ {0} /\ next.start \in Int
    BY DEF Drawable
  <1>2. SubSeq(last.samples \o next.samples, l + 1, l + m) = next.samples
    <2>1. l + 1 \in l + 1 .. l + m /\ l + m \in l + 1 .. l + m
      <3>1. l \in Nat \ {0} /\ m \in Nat \ {0}
        BY <1>1
      <3> HIDE DEF l, m
      <3> QED
        BY <3>1
    <2>2. SubSeq(last.samples \o next.samples, l + 1, l + m)
             = SubSeq(next.samples, (l + 1) - l, (l + m) - l)
      BY <1>1, <2>1, SubSeqOfConcat2
    <2>3. (l + 1) - l = 1 /\ (l + m) - l = m
      BY <1>1
    <2> QED
      BY <1>1, <2>2, <2>3, SubSeqFull
  <1> HIDE DEF l, m
  <1>3. last.period * (l - 1) + last.period = l * last.period
    BY <1>1
  <1>4. last.period * (l - 1) \in Int /\ l * last.period \in Int
    BY <1>1
  <1> DEFINE gap == last.start + l * last.period - next.start
  <1>5. EndTime(last) + last.period - next.start = gap
    <2> DEFINE before == last.period * (l - 1)
               all == l * last.period
    <2>1. EndTime(last) = last.start + before
      BY DEF EndTime, l
    <2>2. before \in Int /\ all \in Int /\ before + last.period = all
      BY <1>3, <1>4
    <2>3. gap = last.start + all - next.start
      OBVIOUS
    <2> HIDE DEF before, all, gap
    <2> QED
      BY <1>1, <2>1, <2>2, <2>3
  <1>6. Abs(gap) < last.period \div 2
    BY <1>5 DEF Contiguous
  <1>7. gap \in Int
    BY <1>1, <1>4
  <1> HIDE DEF gap
  <1>8. 2 * Abs(gap) < last.period
    <2>1. Abs(gap) \in Int
      BY <1>7 DEF Abs
    <2> QED
      BY <1>1, <1>6, <2>1
  <1>9. /\ (l + 1) + m - 1 = l + m
        /\ last.start + ((l + 1) - 1) * last.period - next.start = gap
    BY <1>1, <1>4 DEF gap
  <1> DEFINE joined == Join(last, next)
  <1>10. /\ joined.start = last.start /\ joined.period = last.period
         /\ SubSeq(joined.samples, l + 1, l + m) = next.samples
         /\ Len(joined.samples) = l + m
    BY <1>2, JoinIsDrawable DEF l, m
  <1> HIDE DEF joined
  <1>11. /\ l + m <= Len(joined.samples)
         /\ joined.start + ((l + 1) - 1) * joined.period - next.start = gap
    BY <1>1, <1>9, <1>10
  <1>12. /\ (l + 1) + Len(next.samples) - 1 = l + m
         /\ joined.start + ((l + 1) - 1) * joined.period - next.start = gap
    BY <1>9, <1>11 DEF m
  <1>13. IsAt(next, joined, l + 1)
    BY <1>8, <1>10, <1>11, <1>12 DEF IsAt
  <1> QED
    BY <1>13 DEF joined, l
-----------------------------------------------------------------------------
(* What is drawn of them.                                                  *)

\* Packet r is drawn.
Found(r, m) ==
    \E k \in DOMAIN m : \E i \in DOMAIN m[k].samples : IsAt(r, m[k], i)

\* Sample i of segment w is of one of the first n packets.
Covered(s, n, w, i) ==
    \E p \in 1 .. n : \E j \in 1 .. i :
       /\ i < j + Len(s[p].samples)
       /\ IsAt(s[p], w, j)

\* The segments m draw the first n packets, each in its place, and nothing else.
Placed(s, n, m) ==
    /\ m \in Seq(Drawable) \ {<<>>}
    /\ \A p \in 1 .. n : Found(s[p], m)
    /\ \A k \in DOMAIN m : \A i \in DOMAIN m[k].samples : Covered(s, n, m[k], i)

\* One turn of the loop of setSegments.
Merged(before, next) ==
    LET last == before[Len(before)]
    IN  IF Contiguous(last, next)
        THEN [before EXCEPT ![Len(before)] = Join(last, next)]
        ELSE Append(before, next)

\* What is drawn has samples.
LEMMA DrawableFacts ==
  ASSUME NEW r \in Drawable
  PROVE  /\ r.samples \in Seq(Int) /\ Len(r.samples) \in Nat \ {0}
         /\ DOMAIN r.samples = 1 .. Len(r.samples)
  BY DEF Drawable

\* Where the samples of a joined segment are.
LEMMA JoinedIndices ==
  ASSUME NEW last \in Drawable, NEW next \in Drawable
  PROVE  /\ DOMAIN last.samples \subseteq DOMAIN Join(last, next).samples
         /\ Len(last.samples) + 1 \in DOMAIN Join(last, next).samples
  <1> DEFINE joined == Join(last, next)
             l == Len(last.samples)
             m == Len(next.samples)
  <1>1. joined \in Drawable /\ Len(joined.samples) = l + m
    BY JoinIsDrawable
  <1>2. DOMAIN joined.samples = 1 .. Len(joined.samples)
    BY <1>1, DrawableFacts
  <1>3. l \in Nat \ {0} /\ m \in Nat \ {0} /\ DOMAIN last.samples = 1 .. l
    BY DrawableFacts
  <1> HIDE DEF l, m, joined
  <1>4. DOMAIN joined.samples = 1 .. l + m
    BY <1>1, <1>2
  <1>5. DOMAIN last.samples \subseteq 1 .. l + m /\ l + 1 \in 1 .. l + m
    BY <1>3
  <1> QED
    BY <1>4, <1>5 DEF joined, l

\* A segment that is one packet has no other samples.
LEMMA OwnCover ==
  ASSUME NEW s \in Seq(Drawable), NEW n \in 1 .. Len(s), NEW i \in 1 .. Len(s[n].samples)
  PROVE  Covered(s, n, s[n], i)
  <1>1. s[n] \in Drawable
    OBVIOUS
  <1>2. IsAt(s[n], s[n], 1)
    BY <1>1, OwnPlace
  <1>3. Len(s[n].samples) \in Nat \ {0}
    BY <1>1, DrawableFacts
  <1>4. 1 \in 1 .. i /\ i < 1 + Len(s[n].samples) /\ n \in 1 .. n
    BY <1>3
  <1> QED
    BY <1>2, <1>4 DEF Covered

\* The samples of a joined segment are of what was joined.
LEMMA CoverJoined ==
  ASSUME NEW s \in Seq(Drawable), NEW n \in Nat, n + 1 <= Len(s),
         NEW last \in Drawable, Contiguous(last, s[n + 1]),
         \A i \in DOMAIN last.samples : Covered(s, n, last, i),
         NEW i \in DOMAIN Join(last, s[n + 1]).samples
  PROVE  Covered(s, n + 1, Join(last, s[n + 1]), i)
  <1> DEFINE l == Len(last.samples)
             m == Len(s[n + 1].samples)
             joined == Join(last, s[n + 1])
  <1>1. s[n + 1] \in Drawable /\ n + 1 \in 1 .. n + 1
    OBVIOUS
  <1>2. l \in Nat \ {0} /\ m \in Nat \ {0} /\ DOMAIN last.samples = 1 .. l
    BY <1>1, DrawableFacts
  <1>3. joined \in Drawable /\ i \in 1 .. l + m
    <2>1. joined \in Drawable /\ Len(joined.samples) = l + m
      BY <1>1, JoinIsDrawable
    <2> HIDE DEF l, m
    <2>2. DOMAIN joined.samples = 1 .. l + m
      <3> HIDE DEF joined
      <3> QED
        BY <2>1, DrawableFacts
    <2> QED
      BY <2>1, <2>2
  <1> HIDE DEF l, m
  <1>4. CASE i <= l
    <2>1. Covered(s, n, last, i) /\ i \in 1 .. l
      BY <1>2, <1>3, <1>4
    <2>2. PICK p \in 1 .. n, j \in 1 .. i : /\ i < j + Len(s[p].samples)
                                            /\ IsAt(s[p], last, j)
      BY <2>1 DEF Covered
    <2>3. p \in 1 .. n + 1 /\ s[p] \in Drawable /\ j \in 1 .. l
      BY <1>2, <2>1, <2>2
    <2> HIDE DEF joined
    <2>4. IsAt(s[p], Join(last, s[n + 1]), j)
      BY <1>1, <2>2, <2>3, JoinKeepsPlaces DEF l
    <2> QED
      BY <2>2, <2>3, <2>4 DEF Covered
  <1>5. CASE i > l
    <2>1. l + 1 \in 1 .. i /\ i < l + 1 + m
      BY <1>2, <1>3, <1>5
    <2>2. IsAt(s[n + 1], Join(last, s[n + 1]), l + 1)
      BY <1>1, JoinedPlace DEF l
    <2> QED
      BY <1>1, <2>1, <2>2 DEF Covered, m
  <1> QED
    BY <1>2, <1>3, <1>4, <1>5

\* A sample of an earlier packet remains one.
LEMMA CoveredSoFar ==
  ASSUME NEW s, NEW n \in Nat, NEW w, NEW i, Covered(s, n, w, i)
  PROVE  Covered(s, n + 1, w, i)
  <1>1. 1 .. n \subseteq 1 .. n + 1
    OBVIOUS
  <1> QED
    BY <1>1 DEF Covered

\* A turn of the loop loses no packet that was drawn.
LEMMA FoundInMerged ==
  ASSUME NEW before \in Seq(Drawable) \ {<<>>}, NEW next \in Drawable,
         NEW r \in Drawable, Found(r, before)
  PROVE  Found(r, Merged(before, next))
  <1> DEFINE b == Len(before)
             last == before[b]
  <1>1. b \in Nat \ {0} /\ DOMAIN before = 1 .. b /\ last \in Drawable
    OBVIOUS
  <1>2. PICK k \in 1 .. b : \E i \in DOMAIN before[k].samples : IsAt(r, before[k], i)
    BY <1>1 DEF Found
  <1>3. PICK i \in DOMAIN before[k].samples : IsAt(r, before[k], i)
    BY <1>2
  <1>4. CASE Contiguous(last, next)
    <2> DEFINE m == [before EXCEPT ![b] = Join(last, next)]
    <2>1. Merged(before, next) = m
      BY <1>4 DEF Merged
    <2>2. k \in DOMAIN m /\ (k # b => m[k] = before[k]) /\ m[b] = Join(last, next)
      <3> HIDE DEF b, last
      <3> QED
        BY <1>1, <1>2
    <2> HIDE DEF m, b
    <2>3. CASE k # b
      BY <1>3, <2>1, <2>2, <2>3 DEF Found
    <2>4. CASE k = b
      <3>1. i \in 1 .. Len(last.samples)
        BY <1>1, <1>3, <2>4, DrawableFacts
      <3>2. IsAt(r, Join(last, next), i)
        BY <1>1, <1>3, <2>4, <3>1, JoinKeepsPlaces
      <3>3. i \in DOMAIN Join(last, next).samples
        BY <1>1, <1>3, <2>4, JoinedIndices
      <3> QED
        BY <2>1, <2>2, <2>4, <3>2, <3>3 DEF Found
    <2> QED
      BY <2>3, <2>4
  <1>5. CASE ~Contiguous(last, next)
    <2>1. Merged(before, next) = Append(before, next)
      BY <1>5 DEF Merged
    <2>2. k \in DOMAIN Append(before, next) /\ Append(before, next)[k] = before[k]
      BY <1>1, <1>2
    <2> QED
      BY <1>3, <2>1, <2>2 DEF Found
  <1> QED
    BY <1>4, <1>5

\* A turn of the loop draws the next packet as well.
LEMMA PlacedStep ==
  ASSUME NEW s \in Seq(Drawable), NEW n \in Nat, n + 1 <= Len(s),
         NEW before, Placed(s, n, before)
  PROVE  Placed(s, n + 1, Merged(before, s[n + 1]))
  <1> DEFINE b == Len(before)
             last == before[b]
             next == s[n + 1]
  <1>1. before \in Seq(Drawable) \ {<<>>}
    BY DEF Placed
  <1>2. b \in Nat \ {0} /\ DOMAIN before = 1 .. b /\ last \in Drawable
    BY <1>1
  <1>3. next \in Drawable /\ n + 1 \in 1 .. Len(s)
    OBVIOUS
  <1>4. ASSUME NEW p \in 1 .. n PROVE Found(s[p], Merged(before, next))
    <2>1. s[p] \in Drawable /\ Found(s[p], before)
      BY DEF Placed
    <2> QED
      BY <1>1, <1>3, <2>1, FoundInMerged
  <1>5. CASE Contiguous(last, next)
    <2> DEFINE m == [before EXCEPT ![b] = Join(last, next)]
    <2>1. Merged(before, next) = m
      BY <1>5 DEF Merged
    <2>2. Join(last, next) \in Drawable
      BY <1>2, <1>3, JoinIsDrawable
    <2>3. m \in Seq(Drawable) \ {<<>>} /\ DOMAIN m = 1 .. b
      BY <1>1, <1>2, <2>2
    <2>4. m[b] = Join(last, next) /\ \A k \in 1 .. b : k # b => m[k] = before[k]
      BY <1>2
    <2>5. \A k \in 1 .. b : \A i \in DOMAIN before[k].samples : Covered(s, n, before[k], i)
      BY <1>2 DEF Placed
    <2> HIDE DEF m, b, last, next
    <2>6. Found(next, m)
      <3>1. IsAt(next, Join(last, next), Len(last.samples) + 1)
        BY <1>2, <1>3, <1>5, JoinedPlace
      <3>3. Len(last.samples) + 1 \in DOMAIN Join(last, next).samples
        BY <1>2, <1>3, JoinedIndices
      <3>4. b \in DOMAIN m
        BY <1>2, <2>3
      <3> QED
        BY <2>4, <3>1, <3>3, <3>4 DEF Found
    <2>7. ASSUME NEW k \in DOMAIN m, NEW i \in DOMAIN m[k].samples
          PROVE  Covered(s, n + 1, m[k], i)
      <3>1. CASE k # b
        <4>1. Covered(s, n, m[k], i)
          BY <2>3, <2>4, <2>5, <2>7, <3>1
        <4> QED
          BY <4>1, CoveredSoFar
      <3>2. CASE k = b
        <4>1. \A j \in DOMAIN last.samples : Covered(s, n, last, j)
          BY <1>2, <2>5 DEF last
        <4>2. i \in DOMAIN Join(last, s[n + 1]).samples
          BY <2>4, <2>7, <3>2 DEF next
        <4>3. last \in Drawable /\ Contiguous(last, s[n + 1])
          BY <1>2, <1>5 DEF next
        <4>4. Covered(s, n + 1, Join(last, s[n + 1]), i)
          BY <4>1, <4>2, <4>3, CoverJoined
        <4> QED
          BY <2>4, <3>2, <4>4 DEF next
      <3> QED
        BY <3>1, <3>2
    <2>8. ASSUME NEW p \in 1 .. n + 1 PROVE Found(s[p], m)
      <3>1. p \in 1 .. n \/ p = n + 1
        OBVIOUS
      <3> QED
        BY <1>4, <2>1, <2>6, <3>1 DEF next
    <2> QED
      BY <2>1, <2>3, <2>7, <2>8 DEF Placed, next
  <1>6. CASE ~Contiguous(last, next)
    <2> DEFINE m == Append(before, next)
    <2>1. Merged(before, next) = m
      BY <1>6 DEF Merged
    <2>2. /\ m \in Seq(Drawable) \ {<<>>} /\ DOMAIN m = 1 .. b + 1
          /\ m[b + 1] = next
      BY <1>1, <1>2, <1>3
    <2>3. \A k \in 1 .. b : m[k] = before[k]
      BY <1>1, <1>2
    <2>4. \A k \in 1 .. b : \A i \in DOMAIN before[k].samples : Covered(s, n, before[k], i)
      BY <1>2 DEF Placed
    <2> HIDE DEF m, b, last
    <2>5. Found(next, m)
      <3>1. IsAt(next, next, 1)
        BY <1>3, OwnPlace
      <3>2. 1 \in DOMAIN next.samples
        BY <1>3, DrawableFacts
      <3>3. b + 1 \in DOMAIN m
        BY <1>2, <2>2
      <3> QED
        BY <2>2, <3>1, <3>2, <3>3 DEF Found
    <2>6. ASSUME NEW k \in DOMAIN m, NEW i \in DOMAIN m[k].samples
          PROVE  Covered(s, n + 1, m[k], i)
      <3>1. CASE k # b + 1
        <4>1. k \in 1 .. b
          BY <1>2, <2>2, <2>6, <3>1
        <4>2. Covered(s, n, m[k], i)
          BY <2>3, <2>4, <2>6, <4>1
        <4> QED
          BY <4>2, CoveredSoFar
      <3>2. CASE k = b + 1
        <4>1. i \in 1 .. Len(s[n + 1].samples)
          BY <1>3, <2>2, <2>6, <3>2, DrawableFacts
        <4> QED
          BY <1>3, <2>2, <3>2, <4>1, OwnCover
      <3> QED
        BY <3>1, <3>2
    <2> HIDE DEF next
    <2>7. ASSUME NEW p \in 1 .. n + 1 PROVE Found(s[p], m)
      <3>1. p \in 1 .. n \/ p = n + 1
        OBVIOUS
      <3> QED
        BY <1>4, <2>1, <2>5, <3>1 DEF next
    <2> QED
      BY <2>1, <2>2, <2>6, <2>7 DEF Placed, next
  <1> QED
    BY <1>5, <1>6

\* When the loop ends every packet is drawn (setSegments).
LEMMA MergeInPlace ==
  ASSUME NEW s \in Seq(Drawable) \ {<<>>}
  PROVE  Placed(s, Len(s), MergeSegments(s))
  <1> DEFINE n == Len(s)
             V == Seq(Drawable) \ {<<>>}
             step == [x \in (1 .. n) \X V |-> Merged(x[2], s[x[1]])]
             merged[i \in DOMAIN s] ==
                IF i = 1 THEN <<s[1]>>
                ELSE LET before == merged[i - 1]
                         last   == before[Len(before)]
                     IN  IF Contiguous(last, s[i])
                         THEN [before EXCEPT ![Len(before)] = Join(last, s[i])]
                         ELSE Append(before, s[i])
  <1>1. n \in Nat \ {0} /\ DOMAIN s = 1 .. n
    OBVIOUS
  <1>2. s[1] \in Drawable /\ <<s[1]>> \in V
    BY <1>1
  <1>3. ASSUME NEW before \in V, NEW next \in Drawable PROVE Merged(before, next) \in V
    <2>1. Len(before) \in DOMAIN before /\ before[Len(before)] \in Drawable
      OBVIOUS
    <2>2. Join(before[Len(before)], next) \in Drawable
      BY <2>1, JoinIsDrawable
    <2>3. [before EXCEPT ![Len(before)] = Join(before[Len(before)], next)] \in V
      BY <2>1, <2>2
    <2>4. Append(before, next) \in V
      OBVIOUS
    <2> HIDE DEF V
    <2> QED
      BY <2>3, <2>4 DEF Merged
  <1>4. step \in [(1 .. n) \X V -> V]
    <2>1. ASSUME NEW x \in (1 .. n) \X V PROVE Merged(x[2], s[x[1]]) \in V
      <3>1. x[1] \in 1 .. n /\ x[2] \in V
        OBVIOUS
      <3>2. s[x[1]] \in Drawable
        BY <3>1
      <3> HIDE DEF V
      <3> QED
        BY <1>3, <3>1, <3>2
    <2> HIDE DEF V, n
    <2> QED
      BY <2>1
  <1> HIDE DEF V
  <1>5. PICK f \in [1 .. n -> V] : Follows(f, 1, n, <<s[1]>>, step)
    <2>1. 1 \in Nat /\ n \in Nat
      BY <1>1
    <2> HIDE DEF step, n
    <2> QED
      BY <1>2, <1>4, <2>1, Recursion
  <1>6. f = [i \in DOMAIN s |->
                IF i = 1 THEN <<s[1]>>
                ELSE LET before == f[i - 1]
                         last   == before[Len(before)]
                     IN  IF Contiguous(last, s[i])
                         THEN [before EXCEPT ![Len(before)] = Join(last, s[i])]
                         ELSE Append(before, s[i])]
    <2>1. \A i \in 1 .. n : i # 1 => i - 1 \in 1 .. n
      BY <1>1
    <2>2. ASSUME NEW i \in 1 .. n, i # 1
          PROVE  f[i] = Merged(f[i - 1], s[i])
      <3>1. step[<<i, f[i - 1]>>] = Merged(f[i - 1], s[i])
        BY <2>1, <2>2
      <3> HIDE DEF step
      <3> QED
        BY <1>5, <2>2, <3>1 DEF Follows
    <2>3. f[1] = <<s[1]>>
      <3>1. 1 \in 1 .. n
        BY <1>1
      <3> HIDE DEF step
      <3> QED
        BY <1>5, <3>1 DEF Follows
    <2> HIDE DEF step
    <2> QED
      BY <1>1, <2>2, <2>3 DEF Merged
  <1>7. merged = [i \in DOMAIN s |->
                IF i = 1 THEN <<s[1]>>
                ELSE LET before == merged[i - 1]
                         last   == before[Len(before)]
                     IN  IF Contiguous(last, s[i])
                         THEN [before EXCEPT ![Len(before)] = Join(last, s[i])]
                         ELSE Append(before, s[i])]
    BY <1>6
  <1>8. Placed(s, n, merged[n])
    <2> HIDE DEF merged
    <2> DEFINE Good == {i \in 1 .. n : Placed(s, i, merged[i])}
    <2>1. 1 \in Good
      <3>1. 1 \in 1 .. n /\ merged[1] = <<s[1]>>
        BY <1>1, <1>7
      <3>2. Found(s[1], <<s[1]>>)
        <4>1. IsAt(s[1], s[1], 1) /\ 1 \in DOMAIN s[1].samples
          BY <1>2, OwnPlace, DrawableFacts
        <4>2. 1 \in DOMAIN <<s[1]>> /\ <<s[1]>>[1] = s[1]
          OBVIOUS
        <4> QED
          BY <4>1, <4>2 DEF Found
      <3>3. \A i \in DOMAIN s[1].samples : Covered(s, 1, s[1], i)
        <4>1. DOMAIN s[1].samples = 1 .. Len(s[1].samples) /\ 1 \in 1 .. Len(s)
          BY <1>1, <1>2, DrawableFacts
        <4> QED
          BY <4>1, OwnCover
      <3>4. Placed(s, 1, <<s[1]>>)
        <4>1. \A k \in DOMAIN <<s[1]>> : k = 1 /\ <<s[1]>>[k] = s[1]
          OBVIOUS
        <4>2. \A p \in 1 .. 1 : p = 1
          OBVIOUS
        <4> QED
          BY <1>2, <3>2, <3>3, <4>1, <4>2 DEF Placed, V
      <3> QED
        BY <3>1, <3>4
    <2>2. ASSUME NEW i \in Good, i < n PROVE i + 1 \in Good
      <3>1. /\ i \in Nat /\ i + 1 \in 1 .. n /\ (i + 1) - 1 = i /\ i + 1 # 1
            /\ i + 1 <= Len(s) /\ Placed(s, i, merged[i])
        BY <1>1, <2>2
      <3>2. merged[i + 1] = Merged(merged[i], s[i + 1])
        BY <1>1, <1>7, <3>1 DEF Merged
      <3>3. Placed(s, i + 1, merged[i + 1])
        BY <3>1, <3>2, PlacedStep
      <3> QED
        BY <3>1, <3>3
    <2> HIDE DEF Good
    <2>3. Good = 1 .. n
      BY <1>1, <2>1, <2>2, EveryIndex DEF Good
    <2>4. n \in 1 .. n
      BY <1>1
    <2> QED
      BY <2>3, <2>4 DEF Good
  <1> QED
    BY <1>8 DEF MergeSegments

\* What EveryPacketInPlace says of one file.
InPlace(packets, segments) ==
    /\ \A p \in DOMAIN packets : \E k \in DOMAIN segments :
          \E i \in DOMAIN segments[k].samples :
             IsAt(packets[p], segments[k], i)
    /\ \A k \in DOMAIN segments : \A i \in DOMAIN segments[k].samples :
          \E p \in DOMAIN packets : \E j \in 1 .. i :
             /\ i < j + Len(packets[p].samples)
             /\ IsAt(packets[p], segments[k], j)

\* Every file that can be unpacked is drawn packet by packet (unpack).
LEMMA ReadInPlace ==
  ASSUME NEW file \in Seq(MiniSeedRecord), NEW w \in ReadArchiveFile(file)
  PROVE  /\ w.segments \in Seq(Drawable)
         /\ InPlace(Segments(Parsed(file)), w.segments)
  <1> DEFINE records  == Parsed(file)
             segments == Segments(records)
  <1>1. records \in Seq(MiniSeedRecord)
    BY ParsedIsASeq
  <1>2. /\ ~Throws(records) /\ segments # <<>>
        /\ \E s \in Sorted(segments) :
              w = [stream |-> records[1].stream, segments |-> MergeSegments(s)]
    BY DEF ReadArchiveFile, Unpack
  <1>3. PICK s \in Sorted(segments) : w.segments = MergeSegments(s)
    BY <1>2
  <1>4. segments \in Seq(Drawable) \ {<<>>}
    BY <1>1, <1>2, SegmentsAreDrawable
  <1> HIDE DEF records, segments
  <1>5. /\ s \in Seq(Drawable) /\ Len(s) = Len(segments)
        /\ \A p \in DOMAIN segments : \E q \in DOMAIN s : s[q] = segments[p]
        /\ \A q \in DOMAIN s : \E p \in DOMAIN segments : s[q] = segments[p]
    BY <1>4, SortedKeeps
  <1> DEFINE m == MergeSegments(s)
  <1>6. Placed(s, Len(s), m)
    <2>1. Len(segments) # 0
      BY <1>4
    <2>2. s \in Seq(Drawable) \ {<<>>}
      BY <1>5, <2>1
    <2> QED
      BY <2>2, MergeInPlace
  <1>7. m \in Seq(Drawable)
    BY <1>6 DEF Placed
  <1> HIDE DEF m
  <1>8. DOMAIN s = 1 .. Len(s)
    BY <1>5
  <1>9. ASSUME NEW p \in DOMAIN segments
        PROVE  \E k \in DOMAIN m : \E i \in DOMAIN m[k].samples :
                  IsAt(segments[p], m[k], i)
    <2>1. PICK q \in DOMAIN s : s[q] = segments[p]
      BY <1>5
    <2>2. Found(s[q], m)
      BY <1>6, <1>8 DEF Placed
    <2> QED
      BY <2>1, <2>2 DEF Found
  <1>10. ASSUME NEW k \in DOMAIN m, NEW i \in DOMAIN m[k].samples
         PROVE  \E p \in DOMAIN segments : \E j \in 1 .. i :
                   /\ i < j + Len(segments[p].samples)
                   /\ IsAt(segments[p], m[k], j)
    <2>1. PICK q \in 1 .. Len(s), j \in 1 .. i :
            i < j + Len(s[q].samples) /\ IsAt(s[q], m[k], j)
      BY <1>6 DEF Placed, Covered
    <2>2. PICK p \in DOMAIN segments : s[q] = segments[p]
      BY <1>5, <1>8
    <2>3. i < j + Len(segments[p].samples) /\ IsAt(segments[p], m[k], j)
      BY <2>1, <2>2
    <2> QED
      BY <2>3
  <1>11. InPlace(segments, m)
    BY <1>9, <1>10 DEF InPlace
  <1>12. w.segments = m
    BY <1>3 DEF m
  <1> QED
    BY <1>7, <1>11, <1>12 DEF records, segments
-----------------------------------------------------------------------------
(* What is sent of it.                                                     *)

\* A segment has a largest absolute value.
LEMMA PeakIsNat ==
  ASSUME NEW samples \in Seq(Int) \ {<<>>}
  PROVE  Peak(samples) \in Nat
  <1> DEFINE n == Len(samples)
             size(i) == Abs(samples[i])
             Good == {i \in 1 .. n : \E p \in 1 .. i : \A j \in 1 .. i : size(j) <= size(p)}
             Sizes == {Abs(samples[i]) : i \in DOMAIN samples}
  <1>1. n \in Nat \ {0} /\ DOMAIN samples = 1 .. n
    OBVIOUS
  <1>2. \A i \in 1 .. n : samples[i] \in Int
    BY <1>1
  <1>3. \A i \in 1 .. n : size(i) \in Nat
    BY <1>2 DEF Abs
  <1> HIDE DEF n, size
  <1>4. 1 \in Good
    BY <1>1, <1>3
  <1>5. ASSUME NEW i \in Good, i < n PROVE i + 1 \in Good
    <2>1. PICK p \in 1 .. i : \A j \in 1 .. i : size(j) <= size(p)
      OBVIOUS
    <2>2. i + 1 \in 1 .. n /\ p \in 1 .. n /\ i \in 1 .. n
      BY <1>1, <1>5
    <2>3. size(i + 1) \in Nat /\ size(p) \in Nat /\ \A j \in 1 .. i : size(j) \in Nat
      BY <1>1, <1>3, <2>2
    <2>4. \A j \in 1 .. i + 1 : j \in 1 .. i \/ j = i + 1
      BY <2>2
    <2>5. CASE size(p) <= size(i + 1)
      <3>1. \A j \in 1 .. i + 1 : size(j) <= size(i + 1)
        BY <2>1, <2>3, <2>4, <2>5
      <3>2. i + 1 \in 1 .. i + 1
        BY <2>2
      <3> QED
        BY <2>2, <3>1, <3>2
    <2>6. CASE size(i + 1) <= size(p)
      <3>1. \A j \in 1 .. i + 1 : size(j) <= size(p)
        BY <2>1, <2>3, <2>4, <2>6
      <3>2. p \in 1 .. i + 1
        BY <2>2
      <3> QED
        BY <2>2, <3>1, <3>2
    <2> QED
      BY <2>3, <2>5, <2>6
  <1>6. Good \in SUBSET (1 .. n) /\ n \in 1 .. n
    BY <1>1
  <1> HIDE DEF Good
  <1>7. Good = 1 .. n
    BY <1>1, <1>4, <1>5, <1>6, EveryIndex
  <1>8. PICK p \in 1 .. n : \A j \in 1 .. n : size(j) <= size(p)
    BY <1>6, <1>7 DEF Good
  <1>9. size(p) \in Sizes /\ \A s \in Sizes : s <= size(p)
    BY <1>1, <1>8 DEF size
  <1>10. Peak(samples) \in Sizes
    BY <1>9 DEF Peak
  <1> QED
    BY <1>1, <1>3, <1>10 DEF size

\* Rounding is off by half at most; first for what is not negative.
LEMMA RoundUpError ==
  ASSUME NEW n \in Nat, NEW d \in Nat \ {0}
  PROVE  /\ (2 * n + d) \div (2 * d) \in Int
         /\ 2 * ((2 * n + d) \div (2 * d)) * d - 2 * n <= d
         /\ 2 * n - 2 * ((2 * n + d) \div (2 * d)) * d <= d
  <1> DEFINE x == 2 * n + d
             y == 2 * d
             q == x \div y
  <1>1. x \in Int /\ y \in Nat \ {0}
    OBVIOUS
  <1>2. q \in Int /\ x = y * q + (x % y) /\ 0 <= x % y /\ x % y < y /\ x % y \in Int
    <2> HIDE DEF x, y
    <2> QED
      BY <1>1
  <1> HIDE DEF q
  <1>3. 2 * q * d = y * q
    BY <1>2
  <1>4. y * q \in Int
    BY <1>1, <1>2
  <1> QED
    BY <1>2, <1>3, <1>4 DEF q

\* std::round is off by half at most.
LEMMA RoundError ==
  ASSUME NEW n \in Int, NEW d \in Nat \ {0}
  PROVE  /\ Round(n, d) \in Int
         /\ 2 * Round(n, d) * d - 2 * n <= d
         /\ 2 * n - 2 * Round(n, d) * d <= d
  <1>1. CASE n < 0
    <2> DEFINE q == (2 * (-n) + d) \div (2 * d)
    <2>1. /\ q \in Int
          /\ 2 * q * d - 2 * (-n) <= d
          /\ 2 * (-n) - 2 * q * d <= d
      <3>1. -n \in Nat
        BY <1>1
      <3> QED
        BY <3>1, RoundUpError
    <2>2. Round(n, d) = -q
      BY <1>1 DEF Round
    <2> HIDE DEF q
    <2>3. 2 * (-q) * d = -(2 * q * d) /\ 2 * q * d \in Int
      BY <2>1
    <2> QED
      BY <2>1, <2>2, <2>3
  <1>2. CASE ~(n < 0)
    <2> DEFINE q == (2 * n + d) \div (2 * d)
    <2>1. /\ q \in Int
          /\ 2 * q * d - 2 * n <= d
          /\ 2 * n - 2 * q * d <= d
      <3>1. n \in Nat
        BY <1>2
      <3> QED
        BY <3>1, RoundUpError
    <2>2. Round(n, d) = q
      BY <1>2 DEF Round
    <2> HIDE DEF q
    <2> QED
      BY <2>1, <2>2
  <1> QED
    BY <1>1, <1>2

\* The running sum of the differences is what they were taken of.
LEMMA SumsUndoDifferences ==
  ASSUME NEW values \in Seq(Int), NEW gain
  PROVE  LET rebuilt == Rebuilt([data |-> Differences(values), gain |-> gain,
                                 deltaEncoded |-> TRUE])
         IN  /\ DOMAIN rebuilt = DOMAIN values
             /\ \A i \in DOMAIN values : rebuilt[i] = values[i]
  <1> DEFINE n == Len(values)
             samples == [data |-> Differences(values), gain |-> gain,
                         deltaEncoded |-> TRUE]
             sum[i \in DOMAIN samples.data] ==
               samples.data[i] + (IF i = 1 THEN 0 ELSE sum[i - 1])
  <1>1. n \in Nat /\ DOMAIN values = 1 .. n
    OBVIOUS
  <1>2. /\ samples.deltaEncoded /\ DOMAIN samples.data = 1 .. n
        /\ \A i \in 1 .. n : samples.data[i] = values[i] - (IF i = 1 THEN 0 ELSE values[i - 1])
    BY <1>1 DEF Differences
  <1> HIDE DEF samples
  <1>3. \A i \in 1 .. n : values[i] \in Int /\ (i # 1 => i - 1 \in 1 .. n)
    BY <1>1
  <1>4. values = [i \in DOMAIN samples.data |->
                    samples.data[i] + (IF i = 1 THEN 0 ELSE values[i - 1])]
    <2>1. \A i \in 1 .. n : values[i] = samples.data[i] + (IF i = 1 THEN 0 ELSE values[i - 1])
      BY <1>2, <1>3
    <2>2. values = [i \in 1 .. n |-> values[i]]
      BY <1>1
    <2> HIDE DEF n
    <2> QED
      BY <1>2, <2>1, <2>2
  <1>5. sum = [i \in DOMAIN samples.data |->
                    samples.data[i] + (IF i = 1 THEN 0 ELSE sum[i - 1])]
    BY <1>4
  <1> HIDE DEF sum
  <1> DEFINE Good == {i \in 1 .. n : sum[i] = values[i]}
  <1>6. 1 <= n => 1 \in Good
    <2> SUFFICES ASSUME 1 <= n PROVE sum[1] = values[1]
      BY <1>1
    <2>1. 1 \in 1 .. n
      BY <1>1
    <2> QED
      BY <1>2, <1>3, <1>5, <2>1
  <1>7. ASSUME NEW i \in Good, i < n PROVE i + 1 \in Good
    <2>1. i + 1 \in 1 .. n /\ i + 1 # 1 /\ (i + 1) - 1 = i /\ sum[i] = values[i] /\ i \in 1 .. n
      BY <1>1, <1>7
    <2>2. sum[i + 1] = samples.data[i + 1] + sum[i]
      <3> DEFINE k == i + 1
      <3>1. k \in DOMAIN samples.data /\ k # 1 /\ k - 1 = i
        BY <1>2, <2>1
      <3> HIDE DEF k, samples
      <3>2. sum[k] = samples.data[k] + (IF k = 1 THEN 0 ELSE sum[k - 1])
        BY <1>5, <3>1
      <3>3. sum[k] = samples.data[k] + sum[i]
        BY <3>1, <3>2
      <3> QED
        BY <3>3 DEF k
    <2>3. samples.data[i + 1] = values[i + 1] - values[i]
      BY <1>2, <2>1
    <2>4. values[i + 1] \in Int /\ values[i] \in Int
      BY <1>3, <2>1
    <2> QED
      BY <2>1, <2>2, <2>3, <2>4
  <1> HIDE DEF Good
  <1>8. Good = 1 .. n
    <2>1. Good \in SUBSET (1 .. n)
      BY DEF Good
    <2> HIDE DEF n
    <2> QED
      BY <1>1, <1>6, <1>7, <2>1, EveryIndex
  <1>9. DOMAIN sum = 1 .. n /\ \A i \in 1 .. n : sum[i] = values[i]
    BY <1>2, <1>5, <1>8 DEF Good
  <1>10. Rebuilt(samples) = sum
    BY <1>2 DEF Rebuilt, sum
  <1> QED
    BY <1>1, <1>9, <1>10 DEF samples

\* Whatever is made of a request for an encoding, the samples are rebuilt from
\* what is sent (writeSamples).
LEMMA WhatIsSentRebuilds ==
  ASSUME NEW samples \in Seq(Int) \ {<<>>}, NEW encoding \in Encodings
  PROVE  Rebuilds(WriteSamples(samples, encoding), samples)
  <1> DEFINE quantized == encoding.enableQuantization /\ Peak(samples) > 0
             gain == IF quantized THEN <<2 * QuantizationLevels, Peak(samples)>>
                                  ELSE <<1, 1>>
             level(i) == Round(samples[i] * QuantizationLevels, Peak(samples))
             values == IF quantized THEN [i \in DOMAIN samples |-> 2 * level(i)]
                                    ELSE samples
             delta == encoding.enableDeltaEncoding /\ Whole(values)
             sent == WriteSamples(samples, encoding)
  <1>1. sent = [data |-> IF delta THEN Differences(values) ELSE values,
                gain |-> gain, deltaEncoded |-> delta]
    BY DEF WriteSamples
  <1>2. DOMAIN samples = 1 .. Len(samples) /\ Len(samples) \in Nat
    OBVIOUS
  <1>3. \A i \in DOMAIN samples : samples[i] \in Int
    OBVIOUS
  <1>4. ASSUME quantized, NEW i \in DOMAIN samples
        PROVE  /\ level(i) \in Int
               /\ Abs((2 * level(i)) * gain[2] - samples[i] * gain[1]) <= gain[2]
    <2> DEFINE P == Peak(samples)
               N == samples[i] * QuantizationLevels
               L == level(i)
    <2>1. P \in Nat \ {0}
      BY <1>4, PeakIsNat
    <2>2. N \in Int
      BY <1>3, <1>4 DEF QuantizationLevels
    <2>3. L \in Int /\ 2 * L * P - 2 * N <= P /\ 2 * N - 2 * L * P <= P
      <3> HIDE DEF N, P
      <3> QED
        BY <2>1, <2>2, RoundError DEF N, P
    <2>4. gain[1] = 2 * QuantizationLevels /\ gain[2] = P
      BY <1>4
    <2>5. samples[i] * gain[1] = 2 * N
      BY <1>3, <1>4, <2>4 DEF QuantizationLevels
    <2> HIDE DEF N, P, L, gain
    <2>6. L * P \in Int
      BY <2>1, <2>3
    <2>7. (2 * L) * P = 2 * (L * P) /\ 2 * L * P = 2 * (L * P)
      BY <2>1, <2>3
    <2>8. Abs(2 * (L * P) - 2 * N) <= P
      BY <2>1, <2>2, <2>3, <2>6, <2>7 DEF Abs
    <2> QED
      BY <2>3, <2>4, <2>5, <2>7, <2>8 DEF L
  <1>5. values \in Seq(Int) /\ DOMAIN values = DOMAIN samples
    <2>1. CASE quantized
      <3>1. \A i \in DOMAIN samples : 2 * level(i) \in Int
        BY <1>4, <2>1
      <3> HIDE DEF level
      <3>2. values = [i \in 1 .. Len(samples) |-> 2 * level(i)]
        BY <1>2, <2>1
      <3> QED
        BY <1>2, <3>1, <3>2, IsASeq
    <2>2. CASE ~quantized
      BY <2>2
    <2> QED
      BY <2>1, <2>2
  <1> DEFINE rebuilt == Rebuilt(sent)
  <1>6. /\ DOMAIN rebuilt = DOMAIN values
        /\ \A i \in DOMAIN values : rebuilt[i] = values[i]
    <2>1. CASE delta
      <3>1. sent = [data |-> Differences(values), gain |-> gain, deltaEncoded |-> TRUE]
        BY <1>1, <2>1
      <3> HIDE DEF values, gain, sent
      <3> QED
        BY <1>5, <3>1, SumsUndoDifferences
    <2>2. CASE ~delta
      <3>1. sent = [data |-> values, gain |-> gain, deltaEncoded |-> FALSE]
        BY <1>1, <2>2
      <3> HIDE DEF values, gain, sent
      <3>2. sent.data = values /\ sent.deltaEncoded = FALSE
        BY <3>1
      <3>3. Rebuilt(sent) = values
        BY <3>2 DEF Rebuilt
      <3> QED
        BY <3>3
    <2> QED
      BY <2>1, <2>2
  <1>7. sent.gain = gain
    BY <1>1
  <1> HIDE DEF sent, rebuilt
  <1>8. CASE quantized
    <2>1. gain # <<1, 1>> /\ \A i \in DOMAIN samples : rebuilt[i] = 2 * level(i)
      <3>1. gain[1] # 1
        BY <1>8 DEF QuantizationLevels
      <3> HIDE DEF level
      <3> QED
        BY <1>5, <1>6, <1>8, <3>1
    <2> HIDE DEF gain, level, values
    <2>2. \A i \in DOMAIN samples :
             Abs(rebuilt[i] * gain[2] - samples[i] * gain[1]) <= gain[2]
      BY <1>4, <1>8, <2>1
    <2>3. Rebuilds(sent, samples)
      BY <1>5, <1>6, <1>7, <2>1, <2>2 DEF Rebuilds, rebuilt
    <2> QED
      BY <2>3 DEF sent
  <1>9. CASE ~quantized
    <2>1. gain = <<1, 1>> /\ values = samples
      BY <1>9
    <2> HIDE DEF gain, values
    <2>2. Rebuilds(sent, samples)
      BY <1>5, <1>6, <1>7, <2>1 DEF Rebuilds, rebuilt
    <2> QED
      BY <2>2 DEF sent
  <1> QED
    BY <1>8, <1>9
-----------------------------------------------------------------------------
(* The answers.                                                            *)

\* Counting along the indices skips no number.
LEMMA Reached ==
  ASSUME NEW L \in Nat, NEW First \in SUBSET (1 .. L),
         NEW n \in 1 .. Cardinality(First)
  PROVE  \E i \in First : Cardinality({j \in First : j <= i}) = n
  <1> DEFINE Upto(k) == {j \in First : j <= k}
             T == {k \in 0 .. L : Cardinality(Upto(k)) >= n}
  <1>1. IsFiniteSet(First) /\ \A k \in 0 .. L : IsFiniteSet(Upto(k))
    <2>1. IsFiniteSet(1 .. L)
      BY FS_Interval
    <2>2. First \subseteq 1 .. L /\ \A k \in 0 .. L : Upto(k) \subseteq 1 .. L
      OBVIOUS
    <2> QED
      BY <2>1, <2>2, FS_Subset
  <1>2. Cardinality(First) \in Nat /\ \A k \in 0 .. L : Cardinality(Upto(k)) \in Nat
    BY <1>1, FS_CardinalityType
  <1>0. \A j \in First : j \in Int /\ 1 <= j /\ j <= L
    OBVIOUS
  <1>3. Upto(L) = First /\ Upto(0) = {} /\ L \in 0 .. L
    <2>1. \A j \in First : j <= L /\ ~(j <= 0)
      BY <1>0
    <2>2. Upto(L) = First
      BY <2>1
    <2>3. Upto(0) = {}
      BY <2>1
    <2> QED
      BY <2>2, <2>3
  <1>4. L \in T /\ n \in Nat \ {0}
    BY <1>2, <1>3
  <1>5. 0 \notin T
    BY <1>3, <1>4, FS_EmptySet
  <1>6. T \subseteq 0 .. L
    OBVIOUS
  <1> HIDE DEF T
  <1>7. PICK k \in T : \A j \in T : k <= j
    <2>1. T \subseteq Nat /\ T # {}
      BY <1>4, <1>6
    <2> QED
      BY <2>1, Least
  <1>8. k \in 1 .. L /\ k - 1 \in 0 .. L /\ k - 1 \notin T
    <2>1. k \in 0 .. L /\ k # 0
      BY <1>5, <1>6, <1>7
    <2> QED
      BY <1>6, <1>7, <2>1
  <1>9. Cardinality(Upto(k)) >= n /\ Cardinality(Upto(k - 1)) < n
    <2>1. k \in 0 .. L /\ k - 1 \in 0 .. L
      BY <1>8
    <2>2. Cardinality(Upto(k)) \in Nat /\ Cardinality(Upto(k - 1)) \in Nat
      BY <1>2, <2>1
    <2> HIDE DEF Upto
    <2>3. Cardinality(Upto(k)) >= n /\ ~(Cardinality(Upto(k - 1)) >= n)
      BY <1>7, <1>8, <2>1 DEF T
    <2> QED
      BY <1>4, <2>2, <2>3
  <1>10. k \in First
    <2> SUFFICES ASSUME k \notin First PROVE FALSE
      OBVIOUS
    <2>1. Upto(k) = Upto(k - 1)
      <3>1. \A j \in First : j <= k <=> j <= k - 1
        BY <1>0, <1>8
      <3> QED
        BY <3>1
    <2> HIDE DEF Upto
    <2> QED
      BY <1>2, <1>4, <1>8, <1>9, <2>1
  <1>11. Cardinality(Upto(k)) = Cardinality(Upto(k - 1)) + 1
    <2> DEFINE U == Upto(k - 1)
    <2>1. Upto(k) = U \cup {k} /\ k \notin U
      <3>1. \A j \in First : j <= k <=> j <= k - 1 \/ j = k
        BY <1>0, <1>8
      <3>2. ~(k <= k - 1) /\ k <= k
        BY <1>8
      <3> QED
        BY <1>10, <3>1, <3>2
    <2>2. IsFiniteSet(U)
      BY <1>1, <1>8
    <2> HIDE DEF Upto, U
    <2>3. Cardinality(U \cup {k}) = Cardinality(U) + 1
      BY <2>1, <2>2, FS_AddElement
    <2> QED
      BY <2>1, <2>3 DEF U
  <1>12. Cardinality(Upto(k)) = n
    <2> HIDE DEF Upto
    <2> QED
      BY <1>2, <1>4, <1>8, <1>9, <1>11
  <1> QED
    BY <1>10, <1>12

\* The streams of the arrivals are streams of the archive
\* (streamsFromArrivals).
LEMMA StreamsHaveArchives ==
  ASSUME NEW arrivals \in Arrivals
  PROVE  StreamsFromArrivals(arrivals) \in Seq(Streams)
  <1> DEFINE First == {i \in DOMAIN arrivals :
                         /\ arrivals[i] # NoStream
                         /\ \A j \in 1 .. i - 1 : arrivals[j] # arrivals[i]}
             Nth(n) == CHOOSE i \in First : Cardinality({j \in First : j <= i}) = n
             nth[n \in 1 .. Cardinality(First)] ==
               CHOOSE i \in First : Cardinality({j \in First : j <= i}) = n
  <1>1. arrivals \in Seq(Streams \cup {NoStream})
    BY WaveformsAssumption DEF Streams
  <1>2. DOMAIN arrivals = 1 .. Len(arrivals) /\ Len(arrivals) \in Nat
    BY <1>1
  <1>3. First \in SUBSET (1 .. Len(arrivals))
    BY <1>2
  <1>4. Cardinality(First) \in Nat
    <2>1. IsFiniteSet(1 .. Len(arrivals))
      BY <1>2, FS_Interval
    <2> HIDE DEF First
    <2>2. IsFiniteSet(First)
      BY <1>3, <2>1, FS_Subset
    <2> QED
      BY <2>2, FS_CardinalityType
  <1>5. \A i \in First : arrivals[i] \in Streams
    BY <1>1, <1>2
  <1> HIDE DEF First
  <1>6. ASSUME NEW n \in 1 .. Cardinality(First) PROVE nth[n] \in First
    <2>1. \E i \in First : Cardinality({j \in First : j <= i}) = n
      BY <1>2, <1>3, Reached
    <2>2. Nth(n) \in First
      BY <2>1
    <2>3. nth[n] = Nth(n)
      OBVIOUS
    <2> HIDE DEF Nth, nth
    <2> QED
      BY <2>2, <2>3
  <1> HIDE DEF nth, Nth
  <1>7. \A n \in 1 .. Cardinality(First) : arrivals[nth[n]] \in Streams
    BY <1>5, <1>6
  <1>8. [n \in 1 .. Cardinality(First) |-> arrivals[nth[n]]] \in Seq(Streams)
    BY <1>4, <1>7, IsASeq
  <1> QED
    BY <1>8 DEF StreamsFromArrivals, First, nth

\* A file of the archive and what was made of it.
Unpacked(x) == x.file \in Seq(MiniSeedRecord) /\ x.waveform \in ReadArchiveFile(x.file)

\* What a thread has fetched, is still to fetch, and answers.
AnswerInv(t) ==
    /\ pc[t] \in {"lock", "file", "roots", "store", "bytes"} =>
          todo[t] \in Seq(Streams) \ {<<>>}
    /\ got[t] \in Seq({got[t][n] : n \in DOMAIN got[t]})
    /\ \A n \in DOMAIN got[t] : Unpacked(got[t][n])
    /\ answer[t].status = 200 =>
          /\ pc[t] = "answered"
          /\ \E encoding \in Encodings :
                answer[t] = MakeWaveformResponse(t, encoding)

AnswersInv == \A t \in Threads : AnswerInv(t)

\* A thread that does nothing keeps it.
LEMMA SameAnswer ==
  ASSUME NEW u \in Threads, AnswerInv(u),
         pc'[u] = pc[u], todo'[u] = todo[u], got'[u] = got[u], answer'[u] = answer[u]
  PROVE  AnswerInv(u)'
  <1>1. \A encoding \in Encodings :
           MakeWaveformResponse(u, encoding)' = MakeWaveformResponse(u, encoding)
    BY DEF MakeWaveformResponse
  <1> HIDE DEF MakeWaveformResponse
  <1>2. answer'[u].status = 200 =>
          /\ pc'[u] = "answered"
          /\ \E encoding \in Encodings : answer'[u] = MakeWaveformResponse(u, encoding)'
    BY <1>1 DEF AnswerInv
  <1>3. /\ got'[u] \in Seq({got'[u][n] : n \in DOMAIN got'[u]})
        /\ \A n \in DOMAIN got'[u] : Unpacked(got'[u][n])
        /\ pc'[u] \in {"lock", "file", "roots", "store", "bytes"} =>
              todo'[u] \in Seq(Streams) \ {<<>>}
    BY DEF AnswerInv
  <1> QED
    BY <1>2, <1>3 DEF AnswerInv

\* A step of t leaves only t to be looked at.
LEMMA OwnAnswer ==
  ASSUME AnswersInv, NEW t \in Threads,
         \A u \in Threads \ {t} : /\ pc'[u] = pc[u] /\ todo'[u] = todo[u]
                                  /\ got'[u] = got[u] /\ answer'[u] = answer[u],
         AnswerInv(t)'
  PROVE  AnswersInv'
  <1>1. ASSUME NEW u \in Threads \ {t} PROVE AnswerInv(u)'
    <2>1. AnswerInv(u)
      BY DEF AnswersInv
    <2> QED
      BY <2>1, SameAnswer
  <1> QED
    BY <1>1 DEF AnswersInv

\* Appending keeps a sequence one, with one more element.
LEMMA AppendKeeps ==
  ASSUME NEW s, s \in Seq({s[n] : n \in DOMAIN s}), NEW x
  PROVE  LET a == Append(s, x)
         IN  /\ a \in Seq({a[n] : n \in DOMAIN a})
             /\ \A n \in DOMAIN a : a[n] = x \/ \E i \in DOMAIN s : a[n] = s[i]
  <1> DEFINE V == {s[n] : n \in DOMAIN s} \cup {x}
             a == Append(s, x)
  <1>1. s \in Seq(V)
    BY SeqMonotonic
  <1>2. x \in V
    OBVIOUS
  <1>3. /\ Len(s) \in Nat /\ DOMAIN s = 1 .. Len(s)
    OBVIOUS
  <1> HIDE DEF V
  <1>4. /\ a \in Seq(V) /\ Len(a) = Len(s) + 1 /\ DOMAIN a = 1 .. Len(a)
        /\ \A n \in 1 .. Len(s) : a[n] = s[n]
        /\ a[Len(s) + 1] = x
    BY <1>1, <1>2, AppendProperties
  <1> HIDE DEF a
  <1>5. \A n \in DOMAIN a : a[n] = x \/ \E i \in DOMAIN s : a[n] = s[i]
    BY <1>3, <1>4
  <1>6. a = [n \in 1 .. Len(a) |-> a[n]] /\ Len(a) \in Nat
    BY <1>3, <1>4
  <1> DEFINE W == {a[n] : n \in DOMAIN a}
  <1>7. a \in Seq(W)
    <2>1. \A n \in 1 .. Len(a) : a[n] \in W
      BY <1>4
    <2> HIDE DEF W
    <2> QED
      BY <1>6, <2>1, IsASeq
  <1> QED
    BY <1>5, <1>7 DEF a

\* If a stream was not the last, there is another.
LEMMA MoreToFetch ==
  ASSUME NEW s \in Seq(Streams) \ {<<>>}, Len(s) # 1
  PROVE  Tail(s) \in Seq(Streams) \ {<<>>}
  <1>1. Len(s) \in Nat /\ Len(s) # 0
    OBVIOUS
  <1>2. Tail(s) \in Seq(Streams) /\ Len(Tail(s)) = Len(s) - 1
    BY HeadTailProperties
  <1>3. Len(Tail(s)) # 0
    BY <1>1, <1>2
  <1> QED
    BY <1>2, <1>3

\* A stream less to fetch, and only unpacked files among those fetched.
LEMMA NextStreamAnswer ==
  ASSUME WaveformsTypeOK, AnswersInv, NEW t \in Threads,
         pc[t] \in {"file", "roots", "store", "bytes"},
         NextStream(t), UNCHANGED answer,
         \A u \in Threads \ {t} : got'[u] = got[u],
         got'[t] \in Seq({got'[t][n] : n \in DOMAIN got'[t]}),
         \A n \in DOMAIN got'[t] : Unpacked(got'[t][n])
  PROVE  AnswersInv'
  <1>1. AnswerInv(t)
    BY DEF AnswersInv
  <1>2. /\ todo' = [todo EXCEPT ![t] = Tail(@)]
        /\ pc' = [pc EXCEPT ![t] = IF Len(todo[t]) = 1 THEN "unlock" ELSE "file"]
    BY DEF NextStream
  <1>3. pc \in [Threads -> PCs] /\ DOMAIN todo = Threads
    BY DEF WaveformsTypeOK
  <1>4. /\ todo'[t] = Tail(todo[t])
        /\ pc'[t] = IF Len(todo[t]) = 1 THEN "unlock" ELSE "file"
    BY <1>2, <1>3
  <1>5. pc'[t] # "unlock" => todo'[t] \in Seq(Streams) \ {<<>>}
    <2>1. todo[t] \in Seq(Streams) \ {<<>>}
      BY <1>1 DEF AnswerInv
    <2> QED
      BY <1>4, <2>1, MoreToFetch
  <1>6. answer[t].status # 200
    BY <1>1 DEF AnswerInv
  <1>7. AnswerInv(t)'
    BY <1>4, <1>5, <1>6 DEF AnswerInv
  <1> QED
    BY <1>2, <1>3, <1>7, OwnAnswer

\* A stream that is skipped adds nothing.
LEMMA SkipAnswer ==
  ASSUME WaveformsTypeOK, AnswersInv, NEW t \in Threads, NEW reason,
         pc[t] \in {"file", "roots", "store", "bytes"},
         Skip(t, reason), UNCHANGED answer
  PROVE  AnswersInv'
  <1>1. NextStream(t) /\ UNCHANGED got
    BY DEF Skip
  <1>2. AnswerInv(t)
    BY DEF AnswersInv
  <1> QED
    BY <1>1, <1>2, NextStreamAnswer DEF AnswerInv

\* Going on with the same stream.
LEMMA SameStream ==
  ASSUME WaveformsTypeOK, AnswersInv, NEW t \in Threads,
         pc[t] \in {"lock", "file", "roots", "store"},
         NEW next \in {"file", "roots", "store", "bytes"},
         pc' = [pc EXCEPT ![t] = next],
         UNCHANGED <<todo, got, answer>>
  PROVE  AnswersInv'
  <1>1. AnswerInv(t) /\ pc \in [Threads -> PCs]
    BY DEF AnswersInv, WaveformsTypeOK
  <1>2. AnswerInv(t)'
    BY <1>1 DEF AnswerInv
  <1> QED
    BY <1>1, <1>2, OwnAnswer

\* The streams to fetch are those of the arrivals.
LEMMA GetEventAnswer ==
  ASSUME WaveformsTypeOK, AnswersInv, NEW t \in Threads, GetEvent(t)
  PROVE  AnswersInv'
  <1>1. /\ AnswerInv(t) /\ pc \in [Threads -> PCs]
        /\ DOMAIN todo = Threads /\ DOMAIN answer = Threads
    BY DEF AnswersInv, WaveformsTypeOK
  <1>2. pc[t] = "event" /\ UNCHANGED got
    BY DEF GetEvent
  <1>3. ASSUME NEW status \in {404, 500}, Respond(t, Message(status)), UNCHANGED todo
        PROVE  AnswersInv'
    <2>1. AnswerInv(t)'
      BY <1>1, <1>2, <1>3 DEF AnswerInv, Respond, Message
    <2> QED
      BY <1>1, <1>2, <1>3, <2>1, OwnAnswer DEF Respond
  <1>4. ASSUME NEW arrivals \in Arrivals, StreamsFromArrivals(arrivals) # <<>>,
               todo' = [todo EXCEPT ![t] = StreamsFromArrivals(arrivals)],
               pc' = [pc EXCEPT ![t] = "lock"], UNCHANGED answer
        PROVE  AnswersInv'
    <2>1. todo'[t] \in Seq(Streams) \ {<<>>}
      BY <1>1, <1>4, StreamsHaveArchives
    <2>2. answer[t].status # 200
      BY <1>1, <1>2 DEF AnswerInv
    <2>3. AnswerInv(t)'
      BY <1>1, <1>2, <1>4, <2>1, <2>2 DEF AnswerInv
    <2> QED
      BY <1>1, <1>2, <1>4, <2>3, OwnAnswer
  <1> QED
    BY <1>3, <1>4 DEF GetEvent

\* What is fetched is a file of the archive, unpacked.
LEMMA ReadFileAnswer ==
  ASSUME WaveformsTypeOK, AnswersInv, NEW t \in Threads, ReadFile(t)
  PROVE  AnswersInv'
  <1>1. AnswerInv(t) /\ DOMAIN got = Threads
    BY DEF AnswersInv, WaveformsTypeOK
  <1>2. pc[t] = "bytes" /\ UNCHANGED answer
    BY DEF ReadFile
  <1>3. ASSUME NEW file \in Archive[Head(todo[t])],
               NEW waveform \in ReadArchiveFile(file), NextStream(t),
               got' = [got EXCEPT ![t] = Append(@, [file |-> file, waveform |-> waveform])]
        PROVE  AnswersInv'
    <2> DEFINE x == [file |-> file, waveform |-> waveform]
    <2>1. todo[t] \in Seq(Streams) \ {<<>>}
      BY <1>1, <1>2 DEF AnswerInv
    <2>2. Head(todo[t]) \in DOMAIN Archive
      BY <2>1 DEF Streams
    <2>3. file \in Seq(MiniSeedRecord)
      BY <1>3, <2>2, ArchiveAssumption
    <2>4. Unpacked(x)
      BY <1>3, <2>3 DEF Unpacked
    <2>5. got'[t] = Append(got[t], x) /\ \A u \in Threads \ {t} : got'[u] = got[u]
      BY <1>1, <1>3
    <2>6. /\ got[t] \in Seq({got[t][n] : n \in DOMAIN got[t]})
          /\ \A n \in DOMAIN got[t] : Unpacked(got[t][n])
      BY <1>1 DEF AnswerInv
    <2> HIDE DEF x
    <2>7. /\ got'[t] \in Seq({got'[t][n] : n \in DOMAIN got'[t]})
          /\ \A n \in DOMAIN got'[t] :
                got'[t][n] = x \/ \E i \in DOMAIN got[t] : got'[t][n] = got[t][i]
      <3> DEFINE s == got[t]
                 a == got'[t]
      <3>1. s \in Seq({s[n] : n \in DOMAIN s}) /\ a = Append(s, x)
        BY <2>5, <2>6
      <3> HIDE DEF s, a
      <3>2. /\ a \in Seq({a[n] : n \in DOMAIN a})
            /\ \A n \in DOMAIN a : a[n] = x \/ \E i \in DOMAIN s : a[n] = s[i]
        BY <3>1, AppendKeeps
      <3> QED
        BY <3>2 DEF s, a
    <2>8. \A n \in DOMAIN got'[t] : Unpacked(got'[t][n])
      BY <2>4, <2>6, <2>7
    <2> QED
      BY <1>2, <1>3, <2>5, <2>7, <2>8, NextStreamAnswer
  <1>4. CASE Skip(t, "failed")
    BY <1>2, <1>4, SkipAnswer
  <1> QED
    BY <1>3, <1>4 DEF ReadFile

\* The answer is made of what was fetched (makeWaveformResponse).
LEMMA UnlockAnswer ==
  ASSUME WaveformsTypeOK, AnswersInv, NEW t \in Threads, Unlock(t)
  PROVE  AnswersInv'
  <1>1. /\ AnswerInv(t) /\ pc \in [Threads -> PCs] /\ DOMAIN answer = Threads
        /\ UNCHANGED <<todo, got>>
    BY DEF AnswersInv, WaveformsTypeOK, Unlock
  <1>2. CASE Respond(t, Message(404))
    <2>1. pc'[t] = "answered" /\ answer'[t].status # 200
      BY <1>1, <1>2 DEF Respond, Message
    <2>2. AnswerInv(t)'
      BY <1>1, <2>1 DEF AnswerInv
    <2> QED
      BY <1>1, <1>2, <2>2, OwnAnswer DEF Respond
  <1>3. ASSUME NEW encoding \in Encodings, Respond(t, MakeWaveformResponse(t, encoding))
        PROVE  AnswersInv'
    <2>1. pc'[t] = "answered" /\ answer'[t] = MakeWaveformResponse(t, encoding)
      BY <1>1, <1>3 DEF Respond
    <2>2. answer'[t] = MakeWaveformResponse(t, encoding)'
      BY <1>1, <2>1 DEF MakeWaveformResponse
    <2>3. AnswerInv(t)'
      BY <1>1, <2>1, <2>2 DEF AnswerInv
    <2> QED
      BY <1>1, <1>3, <2>3, OwnAnswer DEF Respond
  <1> QED
    BY <1>2, <1>3 DEF Unlock

\* Nothing is left of an answer that was handed over.
LEMMA ReturnAnswer ==
  ASSUME WaveformsTypeOK, AnswersInv, NEW t \in Threads, Return(t)
  PROVE  AnswersInv'
  <1>1. /\ AnswerInv(t) /\ pc \in [Threads -> PCs] /\ DOMAIN answer = Threads
        /\ DOMAIN got = Threads
    BY DEF AnswersInv, WaveformsTypeOK
  <1>2. /\ pc'[t] = "idle" /\ got'[t] = <<>> /\ answer'[t].status # 200
        /\ \A u \in Threads \ {t} : /\ pc'[u] = pc[u] /\ todo'[u] = todo[u]
                                    /\ got'[u] = got[u] /\ answer'[u] = answer[u]
    BY <1>1 DEF Return, NoAnswer
  <1>3. AnswerInv(t)'
    BY <1>2 DEF AnswerInv
  <1> QED
    BY <1>2, <1>3, OwnAnswer

\* A request begins with nothing fetched.
LEMMA AskAnswer ==
  ASSUME WaveformsTypeOK, AnswersInv, NEW t \in Threads, Ask(t)
  PROVE  AnswersInv'
  <1>1. AnswerInv(t) /\ pc \in [Threads -> PCs]
    BY DEF AnswersInv, WaveformsTypeOK
  <1>2. /\ pc[t] = "idle" /\ pc' = [pc EXCEPT ![t] = "event"]
        /\ UNCHANGED <<todo, got, answer>>
    BY DEF Ask
  <1>3. AnswerInv(t)'
    BY <1>1, <1>2 DEF AnswerInv
  <1> QED
    BY <1>1, <1>2, <1>3, OwnAnswer

\* Every step of the handlers and of AQMS keeps it (queryWaveforms).
LEMMA StepAnswers ==
  ASSUME WaveformsTypeOK, AnswersInv, [WaveformsNext]_waveformVars
  PROVE  AnswersInv'
  <1>1. CASE Turnover \/ Lapse \/ UNCHANGED waveformVars
    <2>1. UNCHANGED <<pc, todo, got, answer>>
      BY <1>1 DEF Turnover, Lapse, fetching, waveformVars
    <2> QED
      BY <2>1, SameAnswer DEF AnswersInv
  <1>2. ASSUME NEW t \in Threads, Step(t) PROVE AnswersInv'
    <2>1. CASE Lock(t)
      BY <2>1, SameStream DEF Lock
    <2>2. ASSUME NEW place, LookUnder(t, place), pc[t] \in {"file", "store"}, UNCHANGED answer
          PROVE  AnswersInv'
      BY <2>2, SameStream DEF LookUnder
    <2>3. CASE FindFile(t)
      <3>1. pc[t] = "file" /\ UNCHANGED answer
        BY <2>3 DEF FindFile
      <3>2. CASE Skip(t, "failed")
        BY <3>1, <3>2, SkipAnswer
      <3>3. CASE pc' = [pc EXCEPT ![t] = "roots"] /\ UNCHANGED <<todo, got>>
        BY <3>1, <3>3, SameStream
      <3> QED
        BY <2>2, <2>3, <3>1, <3>2, <3>3 DEF FindFile
    <2>4. CASE ReadRoots(t)
      <3>1. pc[t] = "roots" /\ UNCHANGED answer
        BY <2>4 DEF ReadRoots
      <3>2. CASE Skip(t, "failed")
        BY <3>1, <3>2, SkipAnswer
      <3>3. CASE pc' = [pc EXCEPT ![t] = "store"] /\ UNCHANGED <<todo, got>>
        BY <3>1, <3>3, SameStream
      <3> QED
        BY <2>4, <3>2, <3>3 DEF ReadRoots
    <2>5. CASE StoreRoots(t)
      <3>1. /\ pc[t] = "store" /\ UNCHANGED answer
            /\ pc[t] \in {"file", "roots", "store", "bytes"}
        BY <2>5 DEF StoreRoots
      <3>2. CASE Skip(t, "no root")
        <4> DEFINE reason == "no root"
        <4>1. Skip(t, reason)
          BY <3>2
        <4> HIDE DEF reason
        <4> QED
          BY <3>1, <4>1, SkipAnswer
      <3>3. \/ Skip(t, "no root")
            \/ \E place \in Search(read[t], origin[t]) : LookUnder(t, place)
        BY <2>5 DEF StoreRoots
      <3> QED
        BY <2>2, <3>1, <3>2, <3>3
    <2> QED
      BY <1>2, <2>1, <2>3, <2>4, <2>5, AskAnswer, GetEventAnswer, ReadFileAnswer,
         UnlockAnswer, ReturnAnswer DEF Step
  <1> QED
    BY <1>1, <1>2 DEF WaveformsNext

\* Where no request is served there is no answer.
LEMMA QuietAnswers ==
  ASSUME Quiet PROVE AnswersInv
  BY DEF Quiet, NoAnswer, AnswersInv, AnswerInv

\* What the invariant says of the answers.
LEMMA AnswersTrue ==
  ASSUME WaveformsTypeOK, AnswersInv
  PROVE  EveryPacketInPlace /\ EverySampleRebuilt
  <1>1. ASSUME NEW t \in Threads, NEW n \in DOMAIN got[t]
        PROVE  /\ got[t][n].waveform.segments \in Seq(Drawable)
               /\ InPlace(Segments(Parsed(got[t][n].file)), got[t][n].waveform.segments)
    <2>1. Unpacked(got[t][n])
      BY <1>1 DEF AnswersInv, AnswerInv
    <2> QED
      BY <2>1, ReadInPlace DEF Unpacked
  <1>2. EveryPacketInPlace
    <2>1. ASSUME NEW t \in Answered, NEW n \in DOMAIN got[t]
          PROVE  LET packets  == Segments(Parsed(got[t][n].file))
                     segments == got[t][n].waveform.segments
                 IN  /\ \A p \in DOMAIN packets : \E k \in DOMAIN segments :
                           \E i \in DOMAIN segments[k].samples :
                              IsAt(packets[p], segments[k], i)
                     /\ \A k \in DOMAIN segments : \A i \in DOMAIN segments[k].samples :
                           \E p \in DOMAIN packets : \E j \in 1 .. i :
                              /\ i < j + Len(packets[p].samples)
                              /\ IsAt(packets[p], segments[k], j)
      <3>1. t \in Threads
        BY DEF Answered
      <3>2. InPlace(Segments(Parsed(got[t][n].file)), got[t][n].waveform.segments)
        BY <1>1, <3>1
      <3> QED
        BY <3>2 DEF InPlace
    <2> QED
      BY <2>1 DEF EveryPacketInPlace
  <1>3. ASSUME NEW t \in Answered, NEW n \in DOMAIN got[t]
        PROVE  LET original == got[t][n].waveform.segments
                   sent     == answer[t].body[n].segments
               IN  /\ DOMAIN sent = DOMAIN original
                   /\ \A k \in DOMAIN original :
                         Rebuilds(sent[k].samples, original[k].samples)
    <2> DEFINE original == got[t][n].waveform.segments
               sent == answer[t].body[n].segments
    <2>1. PICK encoding \in Encodings : answer[t] = MakeWaveformResponse(t, encoding)
      <3>1. t \in Threads /\ answer[t].status = 200
        BY DEF Answered
      <3>2. AnswerInv(t)
        BY <3>1 DEF AnswersInv
      <3> QED
        BY <3>1, <3>2 DEF AnswerInv
    <2>2. answer[t].body[n] = WaveformToJSON(got[t][n].waveform, encoding)
      BY <1>3, <2>1 DEF MakeWaveformResponse
    <2>3. sent = [k \in DOMAIN original |->
                    [startTime    |-> original[k].start,
                     samplingRate |-> original[k].period,
                     samples      |-> WriteSamples(original[k].samples, encoding)]]
      <3> DEFINE waveform == got[t][n].waveform
      <3>1. answer[t].body[n] = WaveformToJSON(waveform, encoding)
        BY <2>2
      <3> HIDE DEF waveform
      <3>2. answer[t].body[n].segments =
               [k \in DOMAIN waveform.segments |->
                  [startTime    |-> waveform.segments[k].start,
                   samplingRate |-> waveform.segments[k].period,
                   samples      |-> WriteSamples(waveform.segments[k].samples, encoding)]]
        BY <3>1 DEF WaveformToJSON
      <3> QED
        BY <3>2 DEF waveform
    <2>4. original \in Seq(Drawable)
      <3>1. t \in Threads
        BY DEF Answered
      <3> QED
        BY <1>1, <1>3, <3>1
    <2> HIDE DEF sent, original
    <2>5. ASSUME NEW k \in DOMAIN original
          PROVE  Rebuilds(sent[k].samples, original[k].samples)
      <3>1. original[k] \in Drawable
        BY <2>4
      <3>2. original[k].samples \in Seq(Int) \ {<<>>}
        BY <3>1 DEF Drawable
      <3>3. sent[k].samples = WriteSamples(original[k].samples, encoding)
        BY <2>3
      <3> QED
        BY <3>2, <3>3, WhatIsSentRebuilds
    <2>6. DOMAIN sent = DOMAIN original
      BY <2>3
    <2> QED
      BY <2>5, <2>6 DEF sent, original
  <1>4. EverySampleRebuilt
    BY <1>3 DEF EverySampleRebuilt
  <1> QED
    BY <1>2, <1>4

-----------------------------------------------------------------------------
(***************************************************************************)
(* fetchWaveforms holds the mutex over every stream, so one request waits  *)
(* for the whole of another.  What the proofs can say of the wait: a       *)
(* request has only so many steps to take, four for every stream, and no   *)
(* request that holds the mutex is without a step it can take.             *)
(***************************************************************************)
AtAStream == {"lock", "file", "roots", "store", "bytes"}

\* How far from the next stream a place in the loop is.
Rank == [lock |-> 6, file |-> 5, roots |-> 4, store |-> 3, bytes |-> 2]

\* A bound on the steps t has still to take before its answer.
Left(t) ==
    IF pc[t] \in AtAStream THEN 4 * (Len(todo[t]) - 1) + Rank[pc[t]]
    ELSE IF pc[t] = "unlock" THEN 1 ELSE 0

\* What a request that waits for the mutex, or holds it, has left to do: less
\* with each step it takes, as much while others take theirs, and nothing once
\* the process is gone.
FetchRunsOut ==
    \A t \in Threads : pc[t] \in {"lock"} \cup Fetching =>
        /\ Left(t) \in Nat \ {0}
        /\ Step(t) => Left(t)' < Left(t)
        /\ ~ Step(t) => Left(t)' \in {Left(t), 0}

\* Where a root covers the time, the search finds one (search).
LEMMA SearchFinds ==
  ASSUME NEW table \in SUBSET FileRoot, NEW y \in Int, Covering(table, y) # {}
  PROVE  Search(table, y) # {}
  <1> DEFINE T == {w.onTime : w \in Covering(table, y)}
  <1>1. T \subseteq Nat /\ T # {}
    BY WaveformsAssumption DEF Covering, FileRoot, Years
  <1> HIDE DEF T
  <1>2. PICK x \in T : \A z \in T : x <= z
    BY <1>1, Least
  <1>3. PICK w \in Covering(table, y) : w.onTime = x
    BY <1>2 DEF T
  <1>4. \A v \in Covering(table, y) : w.onTime <= v.onTime
    BY <1>2, <1>3 DEF T
  <1> QED
    BY <1>3, <1>4 DEF Search

\* A stream less leaves less to do.
LEMMA NextStreamRunsOut ==
  ASSUME WaveformsTypeOK, AnswersInv, NEW t \in Threads,
         pc[t] \in AtAStream \ {"lock"}, NextStream(t)
  PROVE  Left(t)' < Left(t)
  <1>1. todo[t] \in Seq(Streams) \ {<<>>} /\ pc \in [Threads -> PCs]
        /\ DOMAIN todo = Threads
    BY DEF AnswersInv, AnswerInv, AtAStream, WaveformsTypeOK
  <1>2. /\ todo'[t] = Tail(todo[t])
        /\ pc'[t] = IF Len(todo[t]) = 1 THEN "unlock" ELSE "file"
    BY <1>1 DEF NextStream
  <1> DEFINE s == todo[t]
  <1>3. Len(s) \in Nat /\ Len(s) # 0 /\ Len(Tail(s)) = Len(s) - 1
    <2>1. s \in Seq(Streams) /\ s # <<>>
      BY <1>1
    <2> HIDE DEF s
    <2>2. Tail(s) \in Seq(Streams) /\ Len(Tail(s)) = Len(s) - 1
      BY <2>1, HeadTailProperties
    <2>3. Len(s) \in Nat /\ Len(s) # 0
      BY <2>1
    <2> QED
      BY <2>2, <2>3
  <1>4. Rank[pc[t]] \in 2 .. 5 /\ Left(t) = 4 * (Len(s) - 1) + Rank[pc[t]]
    BY DEF Rank, Left, AtAStream
  <1>5. CASE Len(s) = 1
    <2>1. Left(t)' = 1
      BY <1>2, <1>5 DEF Left, AtAStream
    <2> QED
      BY <1>4, <1>5, <2>1
  <1>6. CASE Len(s) # 1
    <2>1. Left(t)' = 4 * (Len(Tail(s)) - 1) + 5
      BY <1>2, <1>6 DEF Left, AtAStream, Rank
    <2> HIDE DEF s
    <2> QED
      BY <1>3, <1>4, <1>6, <2>1
  <1> QED
    BY <1>5, <1>6

\* Going on with the same stream leaves less to do.
LEMMA SameStreamRunsOut ==
  ASSUME WaveformsTypeOK, AnswersInv, NEW t \in Threads, pc[t] \in AtAStream,
         NEW next \in AtAStream, pc'[t] = next, Rank[next] < Rank[pc[t]],
         todo'[t] = todo[t]
  PROVE  Left(t)' < Left(t)
  <1>1. Len(todo[t]) \in Nat
    BY DEF AnswersInv, AnswerInv, AtAStream
  <1>2. Rank[pc[t]] \in Int /\ Rank[next] \in Int
    BY DEF Rank, AtAStream
  <1>3. Left(t)' = 4 * (Len(todo[t]) - 1) + Rank[next]
    BY DEF Left, Rank
  <1> QED
    BY <1>1, <1>2, <1>3 DEF Left

\* Each step of a request that waits for the mutex or holds it leaves less to
\* do (queryWaveforms).
LEMMA StepRunsOut ==
  ASSUME WaveformsTypeOK, AnswersInv, NEW t \in Threads, Step(t),
         pc[t] \in {"lock"} \cup Fetching
  PROVE  Left(t)' < Left(t)
  <1>1. pc \in [Threads -> PCs]
    BY DEF WaveformsTypeOK
  <1>2. CASE Lock(t)
    <2>1. pc[t] = "lock" /\ pc'[t] = "file" /\ todo'[t] = todo[t]
      BY <1>1, <1>2 DEF Lock
    <2> QED
      BY <2>1, SameStreamRunsOut DEF Rank, AtAStream
  <1>3. ASSUME NEW place, LookUnder(t, place), pc[t] \in {"file", "store"}
        PROVE  Left(t)' < Left(t)
    <2>1. pc'[t] = "bytes" /\ todo'[t] = todo[t]
      BY <1>1, <1>3 DEF LookUnder
    <2> QED
      BY <1>3, <2>1, SameStreamRunsOut DEF Rank, AtAStream
  <1>4. ASSUME NEW reason, Skip(t, reason), pc[t] \in AtAStream \ {"lock"}
        PROVE  Left(t)' < Left(t)
    BY <1>4, NextStreamRunsOut DEF Skip
  <1>5. CASE FindFile(t)
    <2>1. pc[t] = "file"
      BY <1>5 DEF FindFile
    <2>2. CASE pc' = [pc EXCEPT ![t] = "roots"] /\ UNCHANGED todo
      BY <1>1, <2>1, <2>2, SameStreamRunsOut DEF Rank, AtAStream
    <2>3. CASE Skip(t, "failed")
      BY <1>4, <2>1, <2>3 DEF AtAStream
    <2> QED
      BY <1>3, <1>5, <2>1, <2>2, <2>3 DEF FindFile
  <1>6. CASE ReadRoots(t)
    <2>1. pc[t] = "roots"
      BY <1>6 DEF ReadRoots
    <2>2. CASE pc' = [pc EXCEPT ![t] = "store"] /\ UNCHANGED todo
      BY <1>1, <2>1, <2>2, SameStreamRunsOut DEF Rank, AtAStream
    <2>3. CASE Skip(t, "failed")
      BY <1>4, <2>1, <2>3 DEF AtAStream
    <2> QED
      BY <1>6, <2>2, <2>3 DEF ReadRoots
  <1>7. CASE StoreRoots(t)
    <2>1. pc[t] = "store"
      BY <1>7 DEF StoreRoots
    <2>2. CASE Skip(t, "no root")
      <3>1. NextStream(t)
        BY <2>2 DEF Skip
      <3> QED
        BY <2>1, <3>1, NextStreamRunsOut DEF AtAStream
    <2>3. \/ Skip(t, "no root")
          \/ \E place \in Search(read[t], origin[t]) : LookUnder(t, place)
      BY <1>7 DEF StoreRoots
    <2> QED
      BY <1>3, <2>1, <2>2, <2>3
  <1>8. CASE ReadFile(t)
    <2>1. pc[t] = "bytes" /\ NextStream(t)
      BY <1>8 DEF ReadFile, Skip
    <2> QED
      BY <2>1, NextStreamRunsOut DEF AtAStream
  <1>9. CASE Unlock(t)
    <2>1. pc[t] = "unlock" /\ pc'[t] = "answered"
      BY <1>1, <1>9 DEF Unlock, Respond
    <2> QED
      BY <2>1 DEF Left, AtAStream
  <1>10. ~ Ask(t) /\ ~ GetEvent(t) /\ ~ Return(t)
    BY DEF Ask, GetEvent, Return, Fetching
  <1> QED
    BY <1>2, <1>5, <1>6, <1>7, <1>8, <1>9, <1>10 DEF Step

\* Whoever has not been answered has something left to do.
LEMMA LeftType ==
  ASSUME AnswersInv, NEW t \in Threads, pc[t] \in {"lock"} \cup Fetching
  PROVE  Left(t) \in Nat \ {0}
  <1>1. CASE pc[t] = "unlock"
    BY <1>1 DEF Left, AtAStream
  <1>2. CASE pc[t] # "unlock"
    <2>1. pc[t] \in AtAStream
      BY <1>2 DEF AtAStream, Fetching
    <2>2. Len(todo[t]) \in Nat \ {0}
      <3>1. todo[t] \in Seq(Streams) \ {<<>>}
        BY <2>1 DEF AnswersInv, AnswerInv, AtAStream
      <3> QED
        BY <3>1
    <2>3. Rank[pc[t]] \in 2 .. 6
      BY <2>1 DEF Rank, AtAStream
    <2> QED
      BY <2>1, <2>2, <2>3 DEF Left
  <1> QED
    BY <1>1, <1>2

\* What the others do leaves a request with what it had left to do.
LEMMA OthersRunOut ==
  ASSUME WaveformsTypeOK, NEW t \in Threads, [WaveformsNext]_waveformVars,
         ~ Step(t)
  PROVE  pc'[t] = pc[t] /\ todo'[t] = todo[t]
  <1>1. CASE Turnover \/ Lapse \/ UNCHANGED waveformVars
    BY <1>1 DEF Turnover, Lapse, fetching, waveformVars
  <1>2. ASSUME NEW u \in Threads, u # t, Step(u)
        PROVE  pc'[t] = pc[t] /\ todo'[t] = todo[t]
    <2>1. pc \in [Threads -> PCs] /\ DOMAIN todo = Threads
      BY DEF WaveformsTypeOK
    <2> QED
      BY <1>2, <2>1 DEF Step, Ask, GetEvent, Lock, FindFile, ReadRoots,
         StoreRoots, ReadFile, Unlock, Return, Skip, NextStream, LookUnder,
         Respond
  <1> QED
    BY <1>1, <1>2 DEF WaveformsNext

\* A step of the handlers or of AQMS goes by the measure.
LEMMA FetchStep ==
  ASSUME IInv, AnswersInv, [WaveformsNext]_waveformVars
  PROVE  FetchRunsOut
  <1> SUFFICES ASSUME NEW t \in Threads, pc[t] \in {"lock"} \cup Fetching
               PROVE  /\ Left(t) \in Nat \ {0}
                      /\ Step(t) => Left(t)' < Left(t)
                      /\ ~ Step(t) => Left(t)' \in {Left(t), 0}
    BY DEF FetchRunsOut
  <1>1. WaveformsTypeOK
    BY DEF IInv
  <1>2. Left(t) \in Nat \ {0}
    BY LeftType
  <1>3. Step(t) => Left(t)' < Left(t)
    BY <1>1, StepRunsOut
  <1>4. ASSUME ~ Step(t) PROVE Left(t)' = Left(t)
    BY <1>1, <1>4, OthersRunOut DEF Left, Rank
  <1> QED
    BY <1>2, <1>3, <1>4

\* The guard of one of the steps of the thread holds: what is given up needs
\* nothing, and after the roots were stored there is either none that covers
\* the origin or one to look under.
CanGoOn(t) ==
    \/ pc[t] \in {"file", "roots", "bytes", "unlock"}
    \/ /\ pc[t] = "store"
       /\ \/ Covering(read[t], origin[t]) = {}
          \/ Search(read[t], origin[t]) # {}

\* Whoever waits for mFileRootsMutex can have it, or waits for one thread that
\* can go on.
WaitersAreServed == mutex = Free \/ (mutex \in Threads /\ CanGoOn(mutex))

\* What the invariant says of the mutex.
LEMMA HolderGoesOn == IInv => WaitersAreServed
  <1> SUFFICES ASSUME IInv, mutex # Free
               PROVE  mutex \in Threads /\ CanGoOn(mutex)
    BY DEF WaitersAreServed
  <1>1. PICK t \in Threads : mutex = t /\ pc[t] \in Fetching
    BY DEF IInv, WaveformsTypeOK, FetchInv
  <1>2. CASE pc[t] = "store"
    <2>1. read[t] \in SUBSET FileRoot /\ origin[t] \in Int
      <3>1. year \in Int /\ origin[t] \in 1 .. year
        BY <1>2, WaveformsAssumption DEF IInv, WaveformsTypeOK, FetchInv, Years
      <3> QED
        BY <3>1 DEF IInv, WaveformsTypeOK
    <2> QED
      BY <1>1, <1>2, <2>1, SearchFinds DEF CanGoOn
  <1>3. CASE pc[t] # "store"
    BY <1>1, <1>3 DEF CanGoOn, Fetching
  <1> QED
    BY <1>1, <1>2, <1>3

-----------------------------------------------------------------------------
\* The file roots of one process that never restarts: its invariant holds in
\* every state, whatever its requests and AQMS's table do (getFileRoot).
THEOREM TypeAndInv == WaveformsSpec => []IInv
  BY InitInv, StepInv, PTL DEF WaveformsSpec
=============================================================================
