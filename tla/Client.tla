------------------------------- MODULE Client -------------------------------
(***************************************************************************)
(* Database::Client: one PostgreSQL connection, serialized by a mutex,     *)
(* re-dialled when it drops, and execute(), which runs an operation - one  *)
(* transaction - on it and retries it at most once.                        *)
(*                                                                         *)
(* A call is a request thread inside execute(); the network may drop the   *)
(* connection between any two of its steps, with or without the client     *)
(* noticing, and a COMMIT whose answer is lost may still be carried out by *)
(* the server, then or later, or never.                                    *)
(***************************************************************************)
EXTENDS Integers

CONSTANT
    Calls       \* the calls of execute(), each made once by some thread

VARIABLES
    policy,     \* mPolicy, given to the constructor and never assigned again
    mutex,      \* mMutex: the call that holds it, or Free
    conn,       \* mConnection and what is true of it
    stage,      \* stage[c]: where call c is
    attempt,    \* attempt[c]: which run of the operation this is
    effect,     \* effect[c]: how often c's transaction has been committed
    doubt,      \* the calls whose COMMIT the server may yet carry out
    verdict     \* verdict[c]: how execute() ended for the caller

vars == <<policy, mutex, conn, stage, attempt, effect, doubt, verdict>>

Free == "free"

ASSUME ConstantsAssumption == Free \notin Calls

Policies == {"Persistent", "OnDemand"}

(***************************************************************************)
(* "none"    mConnection is null                                           *)
(* "good"    open, and alive at the other end                              *)
(* "stale"   is_open() still says so, but nothing is at the other end      *)
(* "closed"  is_open() says no                                             *)
(***************************************************************************)
Links == {"none", "good", "stale", "closed"}

\* A connection, and whether its session has the search path.
Connection == [link : Links, path : BOOLEAN]

NoConnection == [link |-> "none", path |-> FALSE]

IsOpen == conn.link \in {"good", "stale"}

Stages == {"idle", "waiting", "ensure", "dial", "set_path", "operate",
           "commit", "answer", "leave", "done"}

\* The stages in which a call holds the mutex.
Inside == {"ensure", "dial", "set_path", "operate", "commit", "answer",
           "leave"}

Verdicts == {"none", "committed", "rolled_back", "failed", "in_doubt"}

-----------------------------------------------------------------------------
\* A Persistent client has dialled in its constructor.
Init ==
    /\ policy \in Policies
    /\ mutex = Free
    /\ conn = IF policy = "Persistent"
              THEN [link |-> "good", path |-> TRUE] ELSE NoConnection
    /\ stage = [c \in Calls |-> "idle"]
    /\ attempt = [c \in Calls |-> 0]
    /\ effect = [c \in Calls |-> 0]
    /\ doubt = {}
    /\ verdict = [c \in Calls |-> "none"]

-----------------------------------------------------------------------------
(* The network and the server.                                             *)

\* The connection dies; the client learns of it only when it uses it.
DropSilently ==
    /\ conn.link = "good"
    /\ conn' = [conn EXCEPT !.link = "stale"]
    /\ UNCHANGED <<policy, mutex, stage, attempt, effect, doubt, verdict>>

\* A COMMIT that reached the server before the connection died is carried
\* out, or the server gives the transaction up.
ResolveDoubt(c) ==
    /\ c \in doubt
    /\ doubt' = doubt \ {c}
    /\ effect' \in {effect, [effect EXCEPT ![c] = @ + 1]}
    /\ UNCHANGED <<policy, mutex, conn, stage, attempt, verdict>>

-----------------------------------------------------------------------------
(* execute().                                                              *)

Goto(c, s) == stage' = [stage EXCEPT ![c] = s]

Begin(c) ==
    /\ stage[c] = "idle"
    /\ Goto(c, "waiting")
    /\ UNCHANGED <<policy, mutex, conn, attempt, effect, doubt, verdict>>

Lock(c) ==
    /\ stage[c] = "waiting"
    /\ mutex = Free
    /\ mutex' = c
    /\ attempt' = [attempt EXCEPT ![c] = 1]
    /\ Goto(c, "ensure")
    /\ UNCHANGED <<policy, conn, effect, doubt, verdict>>

\* ensureConnectedUnlocked: a connection that looks open is good enough.
EnsureConnected(c) ==
    /\ stage[c] = "ensure"
    /\ Goto(c, IF IsOpen THEN "operate" ELSE "dial")
    /\ UNCHANGED <<policy, mutex, conn, attempt, effect, doubt, verdict>>

\* The call ends with this verdict; the Closer and the lock come next.
End(c, v) ==
    /\ Goto(c, "leave")
    /\ verdict' = [verdict EXCEPT ![c] = v]

\* connectUnlocked: the old connection is discarded whether or not the new
\* one can be made.
Dial(c) ==
    /\ stage[c] = "dial"
    /\ conn' = [link |-> "good", path |-> FALSE]
    /\ Goto(c, "set_path")
    /\ UNCHANGED <<policy, mutex, attempt, effect, doubt, verdict>>

DialFails(c) ==
    /\ stage[c] = "dial"
    /\ conn' = NoConnection
    /\ End(c, "failed")
    /\ UNCHANGED <<policy, mutex, attempt, effect, doubt>>

SetSearchPath(c) ==
    /\ stage[c] = "set_path"
    /\ conn.link = "good"
    /\ conn' = [conn EXCEPT !.path = TRUE]
    /\ Goto(c, "operate")
    /\ UNCHANGED <<policy, mutex, attempt, effect, doubt, verdict>>

\* SET search_path throws: the connection died under it, or the server
\* refused or cancelled the statement and the connection is still open.
SetSearchPathFails(c) ==
    /\ stage[c] = "set_path"
    /\ conn' = IF conn.link = "stale" THEN [conn EXCEPT !.link = "closed"]
               ELSE conn
    /\ End(c, "failed")
    /\ UNCHANGED <<policy, mutex, attempt, effect, doubt>>

\* The statements of the operation's transaction are run.
Operate(c) ==
    /\ stage[c] = "operate"
    /\ conn.link = "good"
    /\ Goto(c, "commit")
    /\ UNCHANGED <<policy, mutex, conn, attempt, effect, doubt, verdict>>

\* The operation throws something that is not a lost connection, or returns
\* without committing: the transaction is rolled back.
OperationRollsBack(c) ==
    /\ stage[c] = "operate"
    /\ conn.link = "good"
    /\ \E v \in {"rolled_back", "failed"} : End(c, v)
    /\ UNCHANGED <<policy, mutex, conn, attempt, effect, doubt>>

\* Mutant: the retry runs on whatever connection there is.
RetryWithoutDial(c) ==
    /\ stage[c] = "operate"
    /\ conn.link = "stale"
    /\ conn' = [link |-> "good", path |-> FALSE]
    /\ \/ /\ attempt[c] = 1
          /\ attempt' = [attempt EXCEPT ![c] = 2]
          /\ UNCHANGED <<policy, stage, verdict>>
       \/ /\ attempt[c] = 2
          /\ End(c, "failed")
          /\ UNCHANGED attempt
    /\ UNCHANGED <<policy, mutex, effect, doubt>>

\* Mutant: a loop instead of one retry.
RetryForever(c) ==
    /\ stage[c] = "operate"
    /\ conn.link = "stale"
    /\ conn' = [conn EXCEPT !.link = "closed"]
    /\ attempt' = [attempt EXCEPT ![c] = 2]
    /\ Goto(c, "dial")
    /\ UNCHANGED <<policy, mutex, effect, doubt, verdict>>

\* Mutant: the attempts are counted without a limit.
RetryCounted(c) ==
    /\ stage[c] = "operate"
    /\ conn.link = "stale"
    /\ conn' = [conn EXCEPT !.link = "closed"]
    /\ attempt' = [attempt EXCEPT ![c] = @ + 1]
    /\ Goto(c, "dial")
    /\ UNCHANGED <<policy, mutex, effect, doubt, verdict>>

\* broken_connection: the transaction demonstrably did not complete, so the
\* first time the call dials again and runs the operation again.
OperationBreaks(c) ==
    /\ stage[c] = "operate"
    /\ conn.link = "stale"
    /\ conn' = [conn EXCEPT !.link = "closed"]
    /\ \/ /\ attempt[c] = 1
          /\ attempt' = [attempt EXCEPT ![c] = 2]
          /\ Goto(c, "dial")
          /\ UNCHANGED verdict
       \/ /\ attempt[c] = 2
          /\ End(c, "failed")
          /\ UNCHANGED attempt
    /\ UNCHANGED <<policy, mutex, effect, doubt>>

\* COMMIT reaches the server, which carries it out.
Commit(c) ==
    /\ stage[c] = "commit"
    /\ conn.link = "good"
    /\ effect' = [effect EXCEPT ![c] = @ + 1]
    /\ Goto(c, "answer")
    /\ UNCHANGED <<policy, mutex, conn, attempt, doubt, verdict>>

CommitAnswered(c) ==
    /\ stage[c] = "answer"
    /\ conn.link = "good"
    /\ End(c, "committed")
    /\ UNCHANGED <<policy, mutex, conn, attempt, effect, doubt>>

\* Mutant: in_doubt_error is handled like broken_connection.
RetryInDoubt(c) ==
    /\ stage[c] \in {"commit", "answer"}
    /\ conn.link = "stale"
    /\ conn' = [conn EXCEPT !.link = "closed"]
    /\ doubt' = IF stage[c] = "commit" THEN doubt \cup {c} ELSE doubt
    /\ IF attempt[c] = 1
       THEN attempt' = [attempt EXCEPT ![c] = 2] /\ Goto(c, "dial")
            /\ UNCHANGED verdict
       ELSE End(c, "in_doubt") /\ UNCHANGED attempt
    /\ UNCHANGED <<policy, mutex, effect>>

\* in_doubt_error: the connection died while COMMIT was under way, before
\* the server saw it or after.  It is rethrown from either attempt and never
\* retried.
CommitInDoubt(c) ==
    /\ stage[c] \in {"commit", "answer"}
    /\ conn.link = "stale"
    /\ conn' = [conn EXCEPT !.link = "closed"]
    /\ doubt' = IF stage[c] = "commit" THEN doubt \cup {c} ELSE doubt
    /\ End(c, "in_doubt")
    /\ UNCHANGED <<policy, mutex, attempt, effect>>

\* Mutant: the connection is closed on a normal return only.
LeaveWithoutGuard(c) ==
    /\ stage[c] = "leave"
    /\ conn' = IF policy = "OnDemand" /\ verdict[c] = "committed"
               THEN NoConnection ELSE conn
    /\ mutex' = Free
    /\ Goto(c, "done")
    /\ UNCHANGED <<policy, attempt, effect, doubt, verdict>>

\* The Closer and the scoped_lock, in that order, however the call ended.
Leave(c) ==
    /\ stage[c] = "leave"
    /\ conn' = IF policy = "OnDemand" THEN NoConnection ELSE conn
    /\ mutex' = Free
    /\ Goto(c, "done")
    /\ UNCHANGED <<policy, attempt, effect, doubt, verdict>>

-----------------------------------------------------------------------------
Step(c) ==
    \/ Lock(c) \/ EnsureConnected(c)
    \/ Dial(c) \/ DialFails(c)
    \/ SetSearchPath(c) \/ SetSearchPathFails(c)
    \/ Operate(c) \/ OperationRollsBack(c) \/ OperationBreaks(c)
    \/ Commit(c) \/ CommitAnswered(c) \/ CommitInDoubt(c)
    \/ Leave(c)

Next ==
    \/ DropSilently
    \/ \E c \in Calls : Begin(c) \/ Step(c) \/ ResolveDoubt(c)

Spec == Init /\ [][Next]_vars

\* Each thread inside execute() keeps running, and the mutex goes to every
\* thread that waits for it: the waiters are finitely many and none of them
\* comes back.
FairSpec == Spec /\ \A c \in Calls : WF_vars(Step(c))

-----------------------------------------------------------------------------
(* What holds.                                                             *)

TypeOK ==
    /\ policy \in Policies
    /\ mutex \in Calls \cup {Free}
    /\ conn \in Connection
    /\ stage \in [Calls -> Stages]
    /\ attempt \in [Calls -> 0 .. 2]
    /\ effect \in [Calls -> Nat]
    /\ doubt \subseteq Calls
    /\ verdict \in [Calls -> Verdicts]

\* "closed again however the call ends": between calls an OnDemand client
\* holds no connection, whichever of the ways out of execute() was taken.
OnDemandLetsGo ==
    (policy = "OnDemand" /\ mutex = Free) => conn = NoConnection

\* A second attempt never runs on the connection the first one died on, nor
\* on one without the search path that the retry itself should have set.
RetryOnFreshSession ==
    \A c \in Calls :
        (attempt[c] = 2 /\ stage[c] \in {"operate", "commit"}) => conn.path

\* "The search path ... has to be re-issued on every reconnect": no operation
\* runs in a session without it (client.cpp, connectUnlocked).
OperationsOnSearchPath ==
    \A c \in Calls : stage[c] \in {"operate", "commit"} => conn.path

\* "one retry, never a loop, so a database that is simply down fails fast
\* instead of hanging the request": every call ends, even if the connection
\* is dropped again and again.
EveryCallEnds == \A c \in Calls : stage[c] = "waiting" ~> stage[c] = "done"

\* execute() implements at-most-once execution of its caller's transaction.
Promise == INSTANCE AtMostOnceExecution

ImplementsAtMostOnce == Promise!Spec
=============================================================================
