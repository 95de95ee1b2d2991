---------------------------- MODULE EventActions ----------------------------
(***************************************************************************)
(* Accepting and cancelling one event: Database::accept and                *)
(* Database::cancel over acceptEvent and cancelEvent, as the statements of *)
(* their transactions meet those of the other programs that write to AQMS. *)
(*                                                                         *)
(* A request is an analyst's accept or cancel with the solution that was   *)
(* reviewed.  Accept locks the event's row, compares, accepts and commits  *)
(* in one transaction on the main database, and posts FINALIZE in another. *)
(* Cancel compares without a lock, tries every auxiliary database that an  *)
(* origin's subsource names, and falls back to the main one.               *)
(* Client::execute is taken by what it promises (Client, which implements  *)
(* AtMostOnceExecution): a transaction ends committed, rolled back or in   *)
(* doubt, and is run again at most once, never after a COMMIT.             *)
(***************************************************************************)
EXTENDS Integers, Sequences

CONSTANTS
    Requests,       \* the accepts and cancels, each made once
    Kinds,          \* what analysts ask: a subset of {"accept", "cancel"}
    Instances,      \* backends that share the main database
    Home,           \* Home[r]: the instance that serves r
    Origins,        \* the origins of the event on the main database
    Magnitudes,     \* what else makes up a solution
    Auxiliaries,    \* mAuxiliaryClients, in order
    Subsources,     \* the subsources of the event's origins, in set order
    Alias,          \* Alias[m]: the folded name of auxiliary client m
    Folded,         \* Folded[s]: subsource s folded to lower case
    Lossy           \* whether an auxiliary's COMMIT can be left in doubt

VARIABLES
    solution,   \* prefor, prefmag and etype of the event, or NoEvent
    flag,       \* flag[o]: origin.rflag of o, committed
    version,    \* event.version, as far as accepts have raised it
    eventRow,   \* who has the event's row locked
    originRow,  \* originRow[o]: who has origin o's row locked
    mutex,      \* mutex[i]: the request inside instance i's main client
    kind,       \* kind[r], expected[r]: what r asks
    expected,
    stage,      \* stage[r]: where r is
    retried,    \* the requests whose transaction is being run again
    visited,    \* visited[r]: how many visits r has behind it
    verdict,    \* verdict[r]: what the caller of accept or cancel is told
    did,        \* history, did[r]: where r's action was committed
    posted,     \* history, posted[r]: where r's PCS post was committed
    promoted    \* history: origins an accept has raised to 'H' and no one
                \* has lowered since

database == <<solution, flag, version, promoted>>
rows == <<eventRow, originRow>>
requests == <<kind, expected, stage, retried, visited, verdict>>
history == <<did, posted>>

vars == <<database, rows, mutex, requests, history>>

NoOrigin == "no_origin"
NoEvent == [origin |-> NoOrigin, magnitude |-> "no_event"]
Free == "free"
Other == "another_program"      \* Jiggle, or a real-time process
Main == "main"

Solutions == [origin : Origins \cup {NoOrigin}, magnitude : Magnitudes]

Flags == {"A", "H", "C"}

Remotes == {Auxiliaries[i] : i \in 1 .. Len(Auxiliaries)}
Machines == Remotes \cup {Main}
Holders == Requests \cup {Free, Other}

ASSUME ConstantsAssumption ==
    /\ Kinds \subseteq {"accept", "cancel"}
    /\ Home \in [Requests -> Instances]
    /\ Requests \cap {Free, Other} = {}
    /\ Auxiliaries \in Seq(Remotes) /\ Main \notin Remotes
    /\ Subsources \in Seq(DOMAIN Folded)
    /\ NoOrigin \notin Origins /\ NoEvent.magnitude \notin Magnitudes
    /\ Lossy \in BOOLEAN

(***************************************************************************)
(* cancelEvent's two loops, for every subsource and in it for every client,*)
(* counted from 0.  A visit is skipped unless the names match but for      *)
(* case; two spellings of one subsource name a client twice.               *)
(***************************************************************************)
Visits == Len(Subsources) * Len(Auxiliaries)

VisitedSubsource(n) == Subsources[(n \div Len(Auxiliaries)) + 1]
VisitedClient(n) == Auxiliaries[(n % Len(Auxiliaries)) + 1]

NamesMatch(n) == Folded[VisitedSubsource(n)] = Alias[VisitedClient(n)]

\* The first visit from the n-th on at which there is something to try.
NextTry(n) ==
    {v \in n .. Visits - 1 :
        NamesMatch(v) /\ \A u \in n .. v - 1 : ~ NamesMatch(u)}

Stages == {"idle", "accept", "lock", "flag", "update", "commit", "in_doubt",
           "post", "cancel", "remote", "main", "main_lock", "main_commit",
           "done"}

\* The stages in which a request is inside execute() of its main client.
Inside == {"lock", "flag", "update", "commit", "main_lock", "main_commit"}

Verdicts == {"none", "done", "missing", "changed", "refused", "blocked",
             "denied", "failed"}

Init ==
    /\ solution \in Solutions \cup {NoEvent}
    /\ flag \in [Origins -> Flags]
    /\ version = 0
    /\ eventRow = Free
    /\ originRow = [o \in Origins |-> Free]
    /\ mutex = [i \in Instances |-> Free]
    /\ kind = [r \in Requests |-> "none"]
    /\ expected = [r \in Requests |-> NoEvent]
    /\ stage = [r \in Requests |-> "idle"]
    /\ retried = {}
    /\ visited = [r \in Requests |-> 0]
    /\ verdict = [r \in Requests |-> "none"]
    /\ did = [r \in Requests |-> {}]
    /\ posted = [r \in Requests |-> {}]
    /\ promoted = {}

-----------------------------------------------------------------------------
(* The other programs.  They take rows in any order, hold them as long as  *)
(* they like, and change what they have locked when they commit.           *)

OtherLocksEvent ==
    /\ eventRow = Free
    /\ eventRow' = Other
    /\ UNCHANGED <<database, originRow, mutex, requests, history>>

OtherLocksOrigin(o) ==
    /\ originRow[o] = Free
    /\ originRow' = [originRow EXCEPT ![o] = Other]
    /\ UNCHANGED <<database, eventRow, mutex, requests, history>>

OtherCommits ==
    LET held == {o \in Origins : originRow[o] = Other} IN
    /\ eventRow = Other \/ held # {}
    /\ IF eventRow = Other /\ solution # NoEvent
       THEN solution' \in Solutions ELSE solution' = solution
    /\ eventRow' = IF eventRow = Other THEN Free ELSE eventRow
    /\ originRow' = [o \in Origins |->
                        IF o \in held THEN Free ELSE originRow[o]]
    /\ \E f \in Flags :
          /\ flag' = [o \in Origins |-> IF o \in held THEN f ELSE flag[o]]
          /\ promoted' = IF f = "H" THEN promoted ELSE promoted \ held
    /\ UNCHANGED <<version, mutex, requests, history>>

-----------------------------------------------------------------------------
(* Steps shared by both actions.                                           *)

Goto(r, s) == stage' = [stage EXCEPT ![r] = s]

End(r, v) ==
    /\ Goto(r, "done")
    /\ verdict' = [verdict EXCEPT ![r] = v]

\* execute() returns or throws: its scoped_lock lets the next request in.
LeaveClient(r) == mutex' = [mutex EXCEPT ![Home[r]] = Free]

\* The transaction is over, one way or the other: its row locks are gone.
Unlock(r) ==
    /\ eventRow' = IF eventRow = r THEN Free ELSE eventRow
    /\ originRow' = [o \in Origins |->
                        IF originRow[o] = r THEN Free ELSE originRow[o]]

Ask(r, k, s) ==
    /\ stage[r] = "idle"
    /\ kind' = [kind EXCEPT ![r] = k]
    /\ expected' = [expected EXCEPT ![r] = s]
    /\ Goto(r, k)
    /\ UNCHANGED <<database, rows, mutex, retried, visited, verdict,
                   history>>

\* execute() takes mMutex: an accept, or the fallback of a cancel, begins.
EnterClient(r) ==
    /\ mutex[Home[r]] = Free
    /\ \/ stage[r] = "accept" /\ Goto(r, "lock")
       \/ stage[r] = "main" /\ Goto(r, "main_lock")
    /\ mutex' = [mutex EXCEPT ![Home[r]] = r]
    /\ retried' = retried \ {r}
    /\ UNCHANGED <<database, rows, kind, expected, visited, verdict,
                   history>>

\* The statement r has to run next waits for a row that another transaction
\* has locked.
Waits(r) ==
    \/ stage[r] = "lock" /\ eventRow # Free
    \/ /\ stage[r] \in {"update", "main_lock"}
       /\ solution.origin \in Origins
       /\ originRow[solution.origin] \notin {Free, r}

\* Mutant: boundWaits is not called in the accept's transaction.
OnlyCancelGivesUp(r) ==
    /\ Waits(r) /\ kind[r] = "cancel"
    /\ Unlock(r)
    /\ LeaveClient(r)
    /\ End(r, "blocked")
    /\ UNCHANGED <<database, kind, expected, retried, visited, history>>

\* boundWaits: lock_timeout or statement_timeout throws, and wasBlocked
\* recognizes it.
GiveUpWaiting(r) ==
    /\ Waits(r)
    /\ Unlock(r)
    /\ LeaveClient(r)
    /\ End(r, "blocked")
    /\ UNCHANGED <<database, kind, expected, retried, visited, history>>

\* The server refuses a statement: it is the victim of a deadlock with a
\* program that locks the rows in the other order, the account may not
\* write, or the query is wrong.
StatementFails(r) ==
    /\ stage[r] \in Inside \ {"commit", "main_commit"}
    /\ Unlock(r)
    /\ LeaveClient(r)
    /\ \E v \in {"denied", "failed"} : End(r, v)
    /\ UNCHANGED <<database, kind, expected, retried, visited, history>>

\* broken_connection before the COMMIT: everything is rolled back, and the
\* transaction is run once more from its first statement.
ConnectionBreaks(r) ==
    /\ stage[r] \in Inside \ {"commit", "main_commit"}
    /\ Unlock(r)
    /\ \/ /\ r \notin retried
          /\ retried' = retried \cup {r}
          /\ Goto(r, IF kind[r] = "accept" THEN "lock" ELSE "main_lock")
          /\ UNCHANGED <<mutex, verdict>>
       \/ /\ LeaveClient(r)
          /\ End(r, "failed")
          /\ UNCHANGED retried
    /\ UNCHANGED <<database, kind, expected, visited, history>>

\* Mutant: in_doubt_error, which is no sql_error, is not caught by accept()
\* and cancel() and has no ActionError.
LoseCommitUncaught(r) ==
    /\ stage[r] \in {"commit", "main_commit"}
    /\ LeaveClient(r)
    /\ Goto(r, "in_doubt")
    /\ verdict' = [verdict EXCEPT ![r] = "exception"]
    /\ UNCHANGED <<database, rows, kind, expected, retried, visited, history>>

\* The COMMIT's answer is lost: the caller gets an exception now, and the
\* server decides about the transaction, and lets go of its rows, later.
LoseCommit(r) ==
    /\ stage[r] \in {"commit", "main_commit"}
    /\ LeaveClient(r)
    /\ Goto(r, "in_doubt")
    /\ verdict' = [verdict EXCEPT ![r] = "failed"]
    /\ UNCHANGED <<database, rows, kind, expected, retried, visited,
                   history>>

-----------------------------------------------------------------------------
(* acceptEvent.                                                            *)

\* Mutant: READ_SOLUTION_QUERY where LOCK_SOLUTION_QUERY belongs.
CheckWithoutLock(r) ==
    /\ stage[r] = "lock"
    /\ solution = expected[r]
    /\ Goto(r, "flag")
    /\ UNCHANGED <<database, rows, mutex, kind, expected, retried,
                   visited, verdict, history>>

\* LOCK_SOLUTION_QUERY gets the row, and it is what was reviewed.
LockSolution(r) ==
    /\ stage[r] = "lock"
    /\ eventRow = Free
    /\ solution = expected[r]
    /\ eventRow' = r
    /\ Goto(r, "flag")
    /\ UNCHANGED <<database, originRow, mutex, kind, expected, retried,
                   visited, verdict, history>>

\* ... or it is not, or there is no row: return without a commit.
SolutionDiffers(r) ==
    /\ stage[r] = "lock"
    /\ solution # expected[r]
    /\ solution = NoEvent \/ eventRow = Free
    /\ Unlock(r)
    /\ LeaveClient(r)
    /\ End(r, IF solution = NoEvent THEN "missing" ELSE "changed")
    /\ UNCHANGED <<database, kind, expected, retried, visited, history>>

\* accept_event reads the committed flag of the preferred origin; there is
\* nothing to update if it is 'H' already.
ReadFlag(r) ==
    /\ stage[r] = "flag"
    /\ solution.origin \in Origins
    /\ Goto(r, IF flag[solution.origin] = "H" THEN "commit" ELSE "update")
    /\ UNCHANGED <<database, rows, mutex, kind, expected, retried, visited,
                   verdict, history>>

\* Mutant: the post is made whatever the status was.
PostAnyway(r) ==
    /\ stage[r] = "flag"
    /\ solution.origin = NoOrigin
    /\ Unlock(r)
    /\ LeaveClient(r)
    /\ Goto(r, "post")
    /\ UNCHANGED <<database, kind, expected, retried, visited, verdict,
                   history>>

\* With no preferred origin no row is updated: status 0, committed, Refused.
AcceptRefused(r) ==
    /\ stage[r] = "flag"
    /\ solution.origin = NoOrigin
    /\ Unlock(r)
    /\ LeaveClient(r)
    /\ End(r, "refused")
    /\ UNCHANGED <<database, kind, expected, retried, visited, history>>

\* The UPDATEs of the origin's flag and the event's version.
UpdateFlag(r) ==
    /\ stage[r] = "update"
    /\ solution.origin \in Origins
    /\ originRow[solution.origin] = Free
    /\ originRow' = [originRow EXCEPT ![solution.origin] = r]
    /\ Goto(r, "commit")
    /\ UNCHANGED <<database, eventRow, mutex, kind, expected, retried,
                   visited, verdict, history>>

\* What the server does when it carries out the COMMIT of an accept.
Accepted(r) ==
    LET updated == {o \in Origins : originRow[o] = r} IN
    /\ flag' = [o \in Origins |-> IF o \in updated THEN "H" ELSE flag[o]]
    /\ version' = IF updated = {} THEN version ELSE version + 1
    /\ promoted' = promoted \cup updated
    /\ did' = [did EXCEPT ![r] = @ \cup {Main}]
    /\ UNCHANGED <<solution, posted>>

CommitAccept(r) ==
    /\ stage[r] = "commit"
    /\ Accepted(r)
    /\ Unlock(r)
    /\ LeaveClient(r)
    /\ Goto(r, "post")
    /\ UNCHANGED <<kind, expected, retried, visited, verdict>>

\* postState: a second execute(), whose failure is logged and swallowed.
PostFinalize(r) ==
    /\ stage[r] = "post"
    /\ mutex[Home[r]] = Free
    /\ posted' \in {posted, [posted EXCEPT ![r] = @ \cup {Main}]}
    /\ End(r, "done")
    /\ UNCHANGED <<database, rows, mutex, kind, expected, retried,
                   visited, did>>

-----------------------------------------------------------------------------
(* cancelEvent.                                                            *)

\* The solution and the subsources are read in one transaction, unlocked.
CheckSolution(r) ==
    /\ stage[r] = "cancel"
    /\ mutex[Home[r]] = Free
    /\ IF solution = NoEvent THEN End(r, "missing")
       ELSE IF solution # expected[r] THEN End(r, "changed")
       ELSE Goto(r, "remote") /\ UNCHANGED verdict
    /\ UNCHANGED <<database, rows, mutex, kind, expected, retried,
                   visited, history>>

CheckFails(r) ==
    /\ stage[r] = "cancel"
    /\ mutex[Home[r]] = Free
    /\ \E v \in {"denied", "failed"} : End(r, v)
    /\ UNCHANGED <<database, rows, mutex, kind, expected, retried,
                   visited, history>>

\* Client m carries the cancel out.
TakenBy(r, m) ==
    /\ did' = [did EXCEPT ![r] = @ \cup {m}]
    /\ posted' = [posted EXCEPT ![r] = @ \cup {m}]

\* Mutant: the loop goes on after a success.
RemoteCancelsAndGoesOn(r) ==
    /\ stage[r] = "remote"
    /\ \E v \in NextTry(visited[r]) :
          /\ TakenBy(r, VisitedClient(v))
          /\ visited' = [visited EXCEPT ![r] = v + 1]
    /\ UNCHANGED <<database, rows, mutex, kind, expected, stage, retried,
                   verdict>>

\* runAction on an auxiliary answers a positive status: return Done.
RemoteCancels(r) ==
    /\ stage[r] = "remote"
    /\ \E v \in NextTry(visited[r]) : TakenBy(r, VisitedClient(v))
    /\ End(r, "done")
    /\ UNCHANGED <<database, rows, mutex, kind, expected, retried, visited>>

\* It answers that it could not, or throws, and the next one is tried.  A
\* status that is not positive is committed all the same, so the DELETED post
\* may stand although setRFlag changed nothing.
RemoteDoesNot(r) ==
    /\ stage[r] = "remote"
    /\ \E v \in NextTry(visited[r]) :
          /\ posted' \in {posted,
                          [posted EXCEPT ![r] = @ \cup {VisitedClient(v)}]}
          /\ visited' = [visited EXCEPT ![r] = v + 1]
    /\ UNCHANGED <<database, rows, mutex, kind, expected, stage, retried,
                   verdict, did>>

\* in_doubt_error from an auxiliary that did carry the COMMIT out: swallowed
\* like every other exception.
RemoteCancelsInDoubt(r) ==
    /\ Lossy
    /\ stage[r] = "remote"
    /\ \E v \in NextTry(visited[r]) :
          /\ TakenBy(r, VisitedClient(v))
          /\ visited' = [visited EXCEPT ![r] = v + 1]
    /\ UNCHANGED <<database, rows, mutex, kind, expected, stage, retried,
                   verdict>>

FallBack(r) ==
    /\ stage[r] = "remote"
    /\ NextTry(visited[r]) = {}
    /\ Goto(r, "main")
    /\ UNCHANGED <<database, rows, mutex, kind, expected, retried,
                   visited, verdict, history>>

\* cancel_event on the main database: the post, then setRFlag, which waits
\* for the origin's row.
MainCancels(r) ==
    /\ stage[r] = "main_lock"
    /\ solution.origin \in Origins
    /\ originRow[solution.origin] = Free
    /\ originRow' = [originRow EXCEPT ![solution.origin] = r]
    /\ Goto(r, "main_commit")
    /\ UNCHANGED <<database, eventRow, mutex, kind, expected, retried,
                   visited, verdict, history>>

\* The post or setRFlag answers that it could not; what there is of the
\* transaction is committed.
MainDoesNot(r) ==
    /\ stage[r] = "main_lock"
    /\ ~ Waits(r)
    /\ posted' \in {posted, [posted EXCEPT ![r] = @ \cup {Main}]}
    /\ LeaveClient(r)
    /\ End(r, "refused")
    /\ UNCHANGED <<database, rows, kind, expected, retried, visited,
                   did>>

\* What the server does when it carries out the COMMIT of a cancel.
Cancelled(r) ==
    LET updated == {o \in Origins : originRow[o] = r} IN
    /\ flag' = [o \in Origins |-> IF o \in updated THEN "C" ELSE flag[o]]
    /\ promoted' = promoted \ updated
    /\ TakenBy(r, Main)
    /\ UNCHANGED <<solution, version>>

CommitCancel(r) ==
    /\ stage[r] = "main_commit"
    /\ Cancelled(r)
    /\ Unlock(r)
    /\ LeaveClient(r)
    /\ End(r, "done")
    /\ UNCHANGED <<kind, expected, retried, visited>>

\* The server settles a transaction whose COMMIT was under way when the
\* connection died.
SettleDoubt(r) ==
    /\ stage[r] = "in_doubt"
    /\ \/ kind[r] = "accept" /\ Accepted(r)
       \/ kind[r] = "cancel" /\ Cancelled(r)
       \/ UNCHANGED <<database, history>>
    /\ Unlock(r)
    /\ Goto(r, "done")
    /\ UNCHANGED <<mutex, kind, expected, retried, visited, verdict>>

-----------------------------------------------------------------------------
\* What a request does as long as its connection lasts.
Progress(r) ==
    \/ EnterClient(r) \/ GiveUpWaiting(r)
    \/ LockSolution(r) \/ SolutionDiffers(r) \/ ReadFlag(r)
    \/ AcceptRefused(r) \/ UpdateFlag(r) \/ CommitAccept(r) \/ PostFinalize(r)
    \/ CheckSolution(r)
    \/ RemoteCancels(r) \/ RemoteDoesNot(r) \/ FallBack(r)
    \/ MainCancels(r) \/ MainDoesNot(r) \/ CommitCancel(r)

Failure(r) ==
    \/ StatementFails(r) \/ ConnectionBreaks(r) \/ LoseCommit(r)
    \/ SettleDoubt(r) \/ CheckFails(r) \/ RemoteCancelsInDoubt(r)

OtherProgram ==
    OtherLocksEvent \/ (\E o \in Origins : OtherLocksOrigin(o)) \/ OtherCommits

Next ==
    \/ OtherProgram
    \/ \E r \in Requests :
          \/ Progress(r) \/ Failure(r)
          \/ \E k \in Kinds, s \in Solutions : Ask(r, k, s)

Spec == Init /\ [][Next]_vars

\* A request that has begun keeps running, and the mutex comes to each of the
\* finitely many that wait for it.  Nothing has to fail, and the other
\* programs owe nothing: one of them may hold its rows forever.
FairSpec == Spec /\ \A r \in Requests : WF_vars(Progress(r))

-----------------------------------------------------------------------------
(* What holds.                                                             *)

TypeOK ==
    /\ solution \in Solutions \cup {NoEvent}
    /\ flag \in [Origins -> Flags]
    /\ version \in Nat
    /\ eventRow \in Holders
    /\ originRow \in [Origins -> Holders]
    /\ mutex \in [Instances -> Requests \cup {Free}]
    /\ kind \in [Requests -> Kinds \cup {"none"}]
    /\ expected \in [Requests -> Solutions \cup {NoEvent}]
    /\ stage \in [Requests -> Stages]
    /\ retried \subseteq Requests
    /\ visited \in [Requests -> Nat]
    /\ verdict \in [Requests -> Verdicts]
    /\ did \in [Requests -> SUBSET Machines]
    /\ posted \in [Requests -> SUBSET Machines]
    /\ promoted \subseteq Origins

\* "The check against expected and the accept are atomic": whenever an accept
\* takes effect, if need be after its answer was lost, the event still has
\* the solution the analyst reviewed (LOCK_SOLUTION_QUERY, acceptEvent).
AcceptsWhatWasReviewed ==
    [][\A r \in Requests :
          (kind[r] = "accept" /\ did'[r] # did[r]) => solution = expected[r]]_vars

\* "Calling this twice is ... not a second version bump": while an origin
\* keeps the flag one accept gave it, no other accept raises the version,
\* whichever backends the two went through.
BumpsOnce ==
    [][version' # version => solution.origin \notin promoted]_vars

\* "So nothing was done": an answer that says the action was not carried out
\* is given only when it was carried out nowhere; "done" is said only when it
\* was (ActionError, actionResponse).
TellsWhatHappened ==
    \A r \in Requests :
        /\ verdict[r] = "done" => did[r] # {}
        /\ verdict[r] \in {"missing", "changed", "refused", "blocked"}
              => did[r] = {}

\* "Telling the alarm processes to refresh its products would be announcing
\* a decision nobody made": FINALIZE follows an accept that was committed.
AnnouncesOnlyAccepted ==
    \A r \in Requests :
        (kind[r] = "accept" /\ posted[r] # {}) => Main \in did[r]

\* "Falls back to the main database when NO remote succeeded - success, not
\* a name match": one cancel cancels the event on one machine.
CancelsOnOneMachine ==
    \A r \in Requests : \A m, n \in did[r] : m = n

\* boundWaits: every action is answered, even if another program never lets
\* go of the event's rows, and so is everyone behind it in the client's mutex.
EveryActionEnds ==
    \A r \in Requests : stage[r] # "idle" ~> verdict[r] # "none"
=============================================================================
