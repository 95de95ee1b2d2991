-------------------------- MODULE BoundedStaleness --------------------------
(***************************************************************************)
(* What a client of the event catalog may rely on, whatever caches sit in  *)
(* between.  AQMS commits changes, numbered 1, 2, ...; time is cut into    *)
(* buckets; an answer may lag behind the database, but never by more than  *)
(* the bucket that was current when the request read the freshness token:  *)
(* it contains every change committed before that bucket began.            *)
(***************************************************************************)
EXTENDS Integers

CONSTANT Requests

VARIABLES
    version,    \* number of the newest committed change
    floor,      \* number of the newest change committed before this bucket
    owed,       \* owed[r]: the floor request r was promised, or Nothing
    answer      \* answer[r]: the change number r's answer is as of, or Nothing

vars == <<version, floor, owed, answer>>

\* No promise, no answer.
Nothing == -1

Init ==
    /\ version = 0
    /\ floor = 0
    /\ owed = [r \in Requests |-> Nothing]
    /\ answer = [r \in Requests |-> Nothing]

Commit ==
    /\ version' = version + 1
    /\ UNCHANGED <<floor, owed, answer>>

NextBucket ==
    /\ floor' = version
    /\ UNCHANGED <<version, owed, answer>>

Ask(r) ==
    /\ owed[r] = Nothing
    /\ owed' = [owed EXCEPT ![r] = floor]
    /\ UNCHANGED <<version, floor, answer>>

\* The answer may be any state between the promise and the present.
Answer(r) ==
    /\ owed[r] # Nothing
    /\ answer[r] = Nothing
    /\ \E v \in owed[r] .. version : answer' = [answer EXCEPT ![r] = v]
    /\ UNCHANGED <<version, floor, owed>>

\* The request ends, answered or failed.
Finish(r) ==
    /\ owed' = [owed EXCEPT ![r] = Nothing]
    /\ answer' = [answer EXCEPT ![r] = Nothing]
    /\ UNCHANGED <<version, floor>>

Next ==
    \/ Commit
    \/ NextBucket
    \/ \E r \in Requests : Ask(r) \/ Answer(r) \/ Finish(r)

Spec == Init /\ [][Next]_vars
=============================================================================
