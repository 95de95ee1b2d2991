------------------------- MODULE EventActionsProofs -------------------------
(***************************************************************************)
(* Proofs about EventActions, for every set of requests and of instances,  *)
(* every event and every list of auxiliary databases.                      *)
(***************************************************************************)
EXTENDS EventActions, TLAPS

-----------------------------------------------------------------------------
(* The type invariant.                                                     *)

\* The next client to be tried is an auxiliary (cancelEvent).
LEMMA VisitedIsRemote ==
    ASSUME NEW n \in Nat, NEW v \in NextTry(n)
    PROVE  /\ v \in Nat
           /\ VisitedClient(v) \in Remotes
<1>. DEFINE k == Len(Auxiliaries)
            l == Len(Subsources)
<1>1. k \in Nat /\ l \in Nat
  BY ConstantsAssumption
<1>2. Visits = l * k
  BY DEF Visits
<1>3. v \in Nat /\ v < l * k
  BY <1>1, <1>2 DEF NextTry
<1>4. k # 0
  <2>. SUFFICES ASSUME k = 0 PROVE FALSE
    OBVIOUS
  <2>1. l * 0 = 0
    BY <1>1
  <2>. QED
    BY <1>3, <2>1
<1>5. (v % k) + 1 \in 1 .. k
  BY <1>1, <1>3, <1>4
<1>. QED
  BY <1>3, <1>5, ConstantsAssumption DEF VisitedClient, Remotes

\* The types at first.
LEMMA InitType == Init => TypeOK
  BY ConstantsAssumption DEF Init, TypeOK, Holders, Stages, Verdicts

\* The other programs on AQMS keep the types.
LEMMA OtherType ==
    ASSUME TypeOK, OtherProgram
    PROVE  TypeOK'
<1>1. CASE OtherLocksEvent
  BY <1>1 DEF OtherLocksEvent, TypeOK, database, requests, history, Holders
<1>2. ASSUME NEW o \in Origins, OtherLocksOrigin(o) PROVE TypeOK'
  BY <1>2 DEF OtherLocksOrigin, TypeOK, database, requests, history, Holders
<1>3. CASE OtherCommits
  BY <1>3 DEF OtherCommits, TypeOK, database, requests, history, Holders
<1>. QED
  BY <1>1, <1>2, <1>3 DEF OtherProgram

\* What the helpers do to the variables they set.
LEMMA HelperTypes ==
    ASSUME TypeOK, NEW r \in Requests
    PROVE  /\ \A s \in Stages : Goto(r, s) => stage' \in [Requests -> Stages]
           /\ \A v \in Verdicts : End(r, v) =>
                 /\ stage' \in [Requests -> Stages]
                 /\ verdict' \in [Requests -> Verdicts]
           /\ LeaveClient(r) => mutex' \in [Instances -> Requests \cup {Free}]
           /\ Unlock(r) => /\ eventRow' \in Holders
                           /\ originRow' \in [Origins -> Holders]
           /\ Accepted(r) => /\ flag' \in [Origins -> Flags]
                             /\ version' \in Nat
                             /\ promoted' \subseteq Origins
                             /\ did' \in [Requests -> SUBSET Machines]
                             /\ UNCHANGED <<solution, posted>>
           /\ Cancelled(r) => /\ flag' \in [Origins -> Flags]
                              /\ promoted' \subseteq Origins
                              /\ did' \in [Requests -> SUBSET Machines]
                              /\ posted' \in [Requests -> SUBSET Machines]
                              /\ UNCHANGED <<solution, version>>
<1>1. /\ \A s \in Stages : Goto(r, s) => stage' \in [Requests -> Stages]
      /\ \A v \in Verdicts : End(r, v) =>
            /\ stage' \in [Requests -> Stages]
            /\ verdict' \in [Requests -> Verdicts]
  BY DEF TypeOK, Goto, End, Stages
<1>2. LeaveClient(r) => mutex' \in [Instances -> Requests \cup {Free}]
  BY DEF TypeOK, LeaveClient
<1>3. Unlock(r) => eventRow' \in Holders /\ originRow' \in [Origins -> Holders]
  BY DEF TypeOK, Unlock, Holders
<1>4. Accepted(r) => /\ flag' \in [Origins -> Flags]
                     /\ version' \in Nat
                     /\ promoted' \subseteq Origins
                     /\ did' \in [Requests -> SUBSET Machines]
                     /\ UNCHANGED <<solution, posted>>
  BY DEF TypeOK, Accepted, Flags, Machines
<1>5. Cancelled(r) => /\ flag' \in [Origins -> Flags]
                      /\ promoted' \subseteq Origins
                      /\ did' \in [Requests -> SUBSET Machines]
                      /\ posted' \in [Requests -> SUBSET Machines]
                      /\ UNCHANGED <<solution, version>>
  BY DEF TypeOK, Cancelled, TakenBy, Flags, Machines
<1>. QED
  BY <1>1, <1>2, <1>3, <1>4, <1>5

\* What the client does and suffers keeps the types (Client::execute).
LEMMA ClientType ==
    ASSUME TypeOK, NEW r \in Requests,
           \/ EnterClient(r) \/ GiveUpWaiting(r) \/ StatementFails(r)
           \/ ConnectionBreaks(r) \/ LoseCommit(r)
    PROVE  TypeOK'
<1>1. CASE EnterClient(r)
  BY <1>1, HelperTypes
     DEF EnterClient, TypeOK, database, rows, history, Stages, Verdicts, Goto
<1>2. CASE GiveUpWaiting(r)
  BY <1>2, HelperTypes
     DEF GiveUpWaiting, TypeOK, database, rows, history, Stages, Verdicts
<1>3. CASE StatementFails(r)
  BY <1>3, HelperTypes
     DEF StatementFails, TypeOK, database, rows, history, Stages, Verdicts
<1>4. CASE ConnectionBreaks(r)
  BY <1>4, HelperTypes
     DEF ConnectionBreaks, TypeOK, database, rows, history, Stages, Verdicts
<1>5. CASE LoseCommit(r)
  BY <1>5, HelperTypes
     DEF LoseCommit, TypeOK, database, rows, history, Stages, Verdicts
<1>. QED
  BY <1>1, <1>2, <1>3, <1>4, <1>5

\* The statements of an accept keep the types (acceptEvent).
LEMMA AcceptType ==
    ASSUME TypeOK, NEW r \in Requests,
           \/ LockSolution(r) \/ SolutionDiffers(r) \/ ReadFlag(r)
           \/ AcceptRefused(r) \/ UpdateFlag(r) \/ CommitAccept(r)
           \/ PostFinalize(r) \/ SettleDoubt(r)
    PROVE  TypeOK'
<1>1. CASE LockSolution(r)
  BY <1>1, HelperTypes
     DEF LockSolution, TypeOK, database, rows, history, Stages, Verdicts,
         Holders
<1>2. CASE SolutionDiffers(r)
  BY <1>2, HelperTypes
     DEF SolutionDiffers, TypeOK, database, rows, history, Stages, Verdicts
<1>3. CASE ReadFlag(r)
  BY <1>3, HelperTypes
     DEF ReadFlag, TypeOK, database, rows, history, Stages, Verdicts
<1>4. CASE AcceptRefused(r)
  BY <1>4, HelperTypes
     DEF AcceptRefused, TypeOK, database, rows, history, Stages, Verdicts
<1>5. CASE UpdateFlag(r)
  BY <1>5, HelperTypes
     DEF UpdateFlag, TypeOK, database, rows, history, Stages, Verdicts,
         Holders
<1>6. CASE CommitAccept(r)
  BY <1>6, HelperTypes
     DEF CommitAccept, TypeOK, database, rows, history, Stages, Verdicts
<1>7. CASE PostFinalize(r)
  BY <1>7, HelperTypes
     DEF PostFinalize, TypeOK, database, rows, history, Stages, Verdicts,
         Machines
<1>8. CASE SettleDoubt(r)
  BY <1>8, HelperTypes
     DEF SettleDoubt, TypeOK, database, rows, history, Stages, Verdicts
<1>. QED
  BY <1>1, <1>2, <1>3, <1>4, <1>5, <1>6, <1>7, <1>8

\* The check and the cancel on the main database keep the types
\* (cancelEvent).
LEMMA CancelType ==
    ASSUME TypeOK, NEW r \in Requests,
           \/ CheckSolution(r) \/ CheckFails(r) \/ FallBack(r)
           \/ MainCancels(r) \/ MainDoesNot(r) \/ CommitCancel(r)
    PROVE  TypeOK'
<1>1. CASE CheckSolution(r)
  BY <1>1, HelperTypes
     DEF CheckSolution, TypeOK, database, rows, history, Stages, Verdicts
<1>2. CASE CheckFails(r)
  BY <1>2, HelperTypes
     DEF CheckFails, TypeOK, database, rows, history, Stages, Verdicts
<1>3. CASE FallBack(r)
  BY <1>3, HelperTypes
     DEF FallBack, TypeOK, database, rows, history, Stages, Verdicts
<1>4. CASE MainCancels(r)
  BY <1>4, HelperTypes
     DEF MainCancels, TypeOK, database, rows, history, Stages, Verdicts,
         Holders
<1>5. CASE MainDoesNot(r)
  BY <1>5, HelperTypes
     DEF MainDoesNot, TypeOK, database, rows, history, Stages, Verdicts,
         Machines
<1>6. CASE CommitCancel(r)
  BY <1>6, HelperTypes
     DEF CommitCancel, TypeOK, database, rows, history, Stages, Verdicts
<1>. QED
  BY <1>1, <1>2, <1>3, <1>4, <1>5, <1>6

\* The cancels on the auxiliaries keep the types (cancelEvent).
LEMMA RemoteType ==
    ASSUME TypeOK, NEW r \in Requests,
           \/ RemoteCancels(r) \/ RemoteDoesNot(r) \/ RemoteCancelsInDoubt(r)
    PROVE  TypeOK'
<1>0. /\ \A v \in NextTry(visited[r]) :
            /\ v \in Nat
            /\ VisitedClient(v) \in Machines
      /\ visited[r] \in Nat
  BY VisitedIsRemote DEF TypeOK, Machines
<1>1. CASE RemoteCancels(r)
  BY <1>0, <1>1
     DEF RemoteCancels, TypeOK, TakenBy, End, Goto, database, rows, history,
         Stages, Verdicts
<1>2. CASE RemoteDoesNot(r)
  BY <1>0, <1>2
     DEF RemoteDoesNot, TypeOK, TakenBy, End, Goto, database, rows, history,
         Stages, Verdicts
<1>3. CASE RemoteCancelsInDoubt(r)
  BY <1>0, <1>3
     DEF RemoteCancelsInDoubt, TypeOK, TakenBy, End, Goto, database, rows,
         history,
         Stages, Verdicts
<1>. QED
  BY <1>1, <1>2, <1>3

\* A request of an analyst keeps the types.
LEMMA AskType ==
    ASSUME TypeOK, NEW r \in Requests, NEW k \in Kinds, NEW s \in Solutions,
           Ask(r, k, s)
    PROVE  TypeOK'
  BY ConstantsAssumption
     DEF Ask, Goto, TypeOK, database, rows, history, Stages

\* Every step keeps the types.
LEMMA StepType == TypeOK /\ [Next]_vars => TypeOK'
<1>. SUFFICES ASSUME TypeOK, [Next]_vars PROVE TypeOK'
  OBVIOUS
<1>1. ASSUME NEW r \in Requests, Progress(r) \/ Failure(r) PROVE TypeOK'
  BY <1>1, ClientType, AcceptType, CancelType, RemoteType
     DEF Progress, Failure
<1>2. CASE UNCHANGED vars
  BY <1>2 DEF vars, TypeOK, database, rows, requests, history
<1>. QED
  BY <1>1, <1>2, AskType, OtherType DEF Next

\* The variables keep their types: so an action that has been answered has
\* one of the answers that the routes know.
THEOREM TypeCorrect == Spec => []TypeOK
  BY InitType, StepType, PTL DEF Spec

-----------------------------------------------------------------------------
(***************************************************************************)
(* The invariant of an accept.  From the moment it has compared the        *)
(* solution until its transaction is settled it has the event's row, and   *)
(* the solution is the one that was reviewed; it has an origin's row only  *)
(* if that is the preferred one and no accept has raised its flag since    *)
(* it was last lowered.                                                    *)
(***************************************************************************)
HoldsEvent(r) ==
    \/ stage[r] \in {"flag", "update", "commit"}
    \/ stage[r] = "in_doubt" /\ kind[r] = "accept"

RequestOK(r) ==
    /\ stage[r] \in {"accept", "lock", "flag", "update", "commit", "post"} =>
          kind[r] = "accept"
    /\ stage[r] \in {"cancel", "remote", "main", "main_lock", "main_commit"} =>
          kind[r] = "cancel"
    /\ HoldsEvent(r) => eventRow = r /\ solution = expected[r]
    /\ stage[r] = "update" => solution.origin \notin promoted
    /\ \A o \in Origins : originRow[o] = r =>
          /\ stage[r] \in {"commit", "main_commit", "in_doubt"}
          /\ kind[r] = "accept" => o = solution.origin /\ o \notin promoted
    /\ stage[r] = "idle" => posted[r] = {}
    /\ stage[r] = "post" => Main \in did[r]
    /\ (kind[r] = "accept" /\ posted[r] # {}) => Main \in did[r]

\* An origin an accept has raised keeps its flag until it is lowered.
PromotedStay == \A o \in promoted : flag[o] = "H"

IInv ==
    /\ TypeOK
    /\ PromotedStay
    /\ \A r \in Requests : RequestOK(r)

\* Nothing is locked or promoted at first.
LEMMA InitInvariant == Init => IInv
  BY InitType, ConstantsAssumption
     DEF Init, IInv, PromotedStay, RequestOK, HoldsEvent

\* Nothing of request q changes.
Unchanged(q) ==
    /\ stage'[q] = stage[q] /\ kind'[q] = kind[q]
    /\ expected'[q] = expected[q]
    /\ did'[q] = did[q] /\ posted'[q] = posted[q]
    /\ verdict'[q] = verdict[q]

\* Request q stays in order if nothing of it changes, its rows stay its own,
\* and what it relies on changes only while it does not hold the event.
LEMMA OthersKeep ==
    ASSUME IInv, NEW q \in Requests, Unchanged(q),
           eventRow = q => eventRow' = q,
           \A o \in Origins : originRow'[o] = q => originRow[o] = q,
           eventRow = q => solution' = solution /\ promoted' \subseteq promoted
    PROVE  RequestOK(q)'
<1>1. RequestOK(q)
  BY DEF IInv
<1>2. HoldsEvent(q)' <=> HoldsEvent(q)
  BY DEF HoldsEvent, Unchanged
<1>3. ASSUME NEW o \in Origins, originRow[o] = q, kind[q] = "accept"
      PROVE  HoldsEvent(q)
  BY <1>1, <1>3 DEF RequestOK, HoldsEvent
<1>. QED
  BY <1>1, <1>2, <1>3 DEF RequestOK, Unchanged, HoldsEvent

\* A step of r keeps the invariant if it keeps r in order and takes from the
\* others neither their rows nor what they rely on.
LEMMA StepOf ==
    ASSUME IInv, TypeOK', PromotedStay', NEW r \in Requests, RequestOK(r)',
           \A q \in Requests \ {r} :
              /\ Unchanged(q)
              /\ eventRow = q => eventRow' = q
              /\ \A o \in Origins : originRow'[o] = q => originRow[o] = q,
           solution' = solution,
           promoted' \subseteq promoted \/ eventRow = r
    PROVE  IInv'
<1>1. ASSUME NEW q \in Requests, q # r PROVE RequestOK(q)'
  BY <1>1, OthersKeep
<1>. QED
  BY <1>1 DEF IInv

\* What r's step leaves to the others.
Frame(r) ==
    /\ \A q \in Requests \ {r} :
          /\ Unchanged(q)
          /\ eventRow = q => eventRow' = q
          /\ \A o \in Origins : originRow'[o] = q => originRow[o] = q
    /\ solution' = solution

\* What the helpers of the steps leave alone of the other requests.
LEMMA HelperFrames ==
    ASSUME TypeOK, NEW r \in Requests
    PROVE  /\ \A s : Goto(r, s) => \A q \in Requests \ {r} : stage'[q] = stage[q]
           /\ \A v : End(r, v) => \A q \in Requests \ {r} :
                 stage'[q] = stage[q] /\ verdict'[q] = verdict[q]
           /\ Unlock(r) => \A q \in Requests \ {r} :
                 /\ eventRow = q => eventRow' = q
                 /\ \A o \in Origins : originRow'[o] = q => originRow[o] = q
           /\ (Accepted(r) \/ Cancelled(r)) =>
                 /\ solution' = solution
                 /\ \A q \in Requests \ {r} :
                       did'[q] = did[q] /\ posted'[q] = posted[q]
<1>1. /\ \A s : Goto(r, s) => \A q \in Requests \ {r} : stage'[q] = stage[q]
      /\ \A v : End(r, v) => \A q \in Requests \ {r} :
            stage'[q] = stage[q] /\ verdict'[q] = verdict[q]
  BY DEF TypeOK, Goto, End
<1>2. Unlock(r) => \A q \in Requests \ {r} :
         /\ eventRow = q => eventRow' = q
         /\ \A o \in Origins : originRow'[o] = q => originRow[o] = q
  BY ConstantsAssumption DEF TypeOK, Unlock
<1>3. (Accepted(r) \/ Cancelled(r)) =>
         /\ solution' = solution
         /\ \A q \in Requests \ {r} :
               did'[q] = did[q] /\ posted'[q] = posted[q]
  BY DEF TypeOK, Accepted, Cancelled, TakenBy
<1>. QED
  BY <1>1, <1>2, <1>3

\* What the client does for r leaves the other requests alone.
LEMMA ClientFrame ==
    ASSUME IInv, NEW r \in Requests,
           \/ EnterClient(r) \/ GiveUpWaiting(r) \/ StatementFails(r)
           \/ ConnectionBreaks(r) \/ LoseCommit(r)
    PROVE  Frame(r)
<1>0. TypeOK
  BY DEF IInv
<1>1. CASE EnterClient(r)
  BY <1>0, <1>1, HelperFrames, ConstantsAssumption
     DEF EnterClient, Frame, Unchanged, database, rows, requests, history
<1>2. CASE GiveUpWaiting(r)
  BY <1>0, <1>2, HelperFrames, ConstantsAssumption
     DEF GiveUpWaiting, Frame, Unchanged, database, rows, requests, history
<1>3. CASE StatementFails(r)
  BY <1>0, <1>3, HelperFrames, ConstantsAssumption
     DEF StatementFails, Frame, Unchanged, database, rows, requests,
         history
<1>4. CASE ConnectionBreaks(r)
  BY <1>0, <1>4, HelperFrames, ConstantsAssumption
     DEF ConnectionBreaks, Frame, Unchanged, database, rows, requests,
         history
<1>5. CASE LoseCommit(r)
  BY <1>0, <1>5, HelperFrames, ConstantsAssumption
     DEF LoseCommit, Frame, Unchanged, database, rows, requests, history
<1>. QED
  BY <1>1, <1>2, <1>3, <1>4, <1>5

\* An accept leaves the other requests alone.
LEMMA AcceptFrame ==
    ASSUME IInv, NEW r \in Requests,
           \/ LockSolution(r) \/ SolutionDiffers(r) \/ ReadFlag(r)
           \/ AcceptRefused(r) \/ UpdateFlag(r) \/ CommitAccept(r)
           \/ PostFinalize(r) \/ SettleDoubt(r)
    PROVE  Frame(r)
<1>0. TypeOK
  BY DEF IInv
<1>1. CASE LockSolution(r)
  BY <1>0, <1>1, HelperFrames, ConstantsAssumption
     DEF LockSolution, TypeOK, TakenBy, Frame, Unchanged, database, rows,
         requests, history
<1>2. CASE SolutionDiffers(r)
  BY <1>0, <1>2, HelperFrames, ConstantsAssumption
     DEF SolutionDiffers, Frame, Unchanged, database, rows, requests,
         history
<1>3. CASE ReadFlag(r)
  BY <1>0, <1>3, HelperFrames, ConstantsAssumption
     DEF ReadFlag, Frame, Unchanged, database, rows, requests, history
<1>4. CASE AcceptRefused(r)
  BY <1>0, <1>4, HelperFrames, ConstantsAssumption
     DEF AcceptRefused, Frame, Unchanged, database, rows, requests, history
<1>5. CASE UpdateFlag(r)
  BY <1>0, <1>5, HelperFrames, ConstantsAssumption
     DEF UpdateFlag, TypeOK, TakenBy, Frame, Unchanged, database, rows,
         requests, history
<1>6. CASE CommitAccept(r)
  BY <1>0, <1>6, HelperFrames, ConstantsAssumption
     DEF CommitAccept, TypeOK, TakenBy, Frame, Unchanged, database, rows,
         requests, history
<1>7. CASE PostFinalize(r)
  BY <1>0, <1>7, HelperFrames, ConstantsAssumption
     DEF PostFinalize, TypeOK, TakenBy, Frame, Unchanged, database, rows,
         requests, history
<1>8. CASE SettleDoubt(r)
  BY <1>0, <1>8, HelperFrames, ConstantsAssumption
     DEF SettleDoubt, TypeOK, TakenBy, Frame, Unchanged, database, rows,
         requests, history
<1>. QED
  BY <1>1, <1>2, <1>3, <1>4, <1>5, <1>6, <1>7, <1>8

\* A cancel leaves the other requests alone.
LEMMA CancelFrame ==
    ASSUME IInv, NEW r \in Requests,
           \/ CheckSolution(r) \/ CheckFails(r) \/ RemoteCancels(r)
           \/ RemoteDoesNot(r) \/ RemoteCancelsInDoubt(r) \/ FallBack(r)
           \/ MainCancels(r) \/ MainDoesNot(r) \/ CommitCancel(r)
    PROVE  Frame(r)
<1>0. TypeOK
  BY DEF IInv
<1>1. CASE CheckSolution(r)
  BY <1>0, <1>1, HelperFrames, ConstantsAssumption
     DEF CheckSolution, Frame, Unchanged, database, rows, requests, history
<1>2. CASE CheckFails(r)
  BY <1>0, <1>2, HelperFrames, ConstantsAssumption
     DEF CheckFails, Frame, Unchanged, database, rows, requests, history
<1>3. CASE RemoteCancels(r)
  BY <1>0, <1>3, HelperFrames, ConstantsAssumption
     DEF RemoteCancels, TypeOK, TakenBy, Frame, Unchanged, database, rows,
         requests, history
<1>4. CASE RemoteDoesNot(r)
  BY <1>0, <1>4, HelperFrames, ConstantsAssumption
     DEF RemoteDoesNot, TypeOK, TakenBy, Frame, Unchanged, database, rows,
         requests, history
<1>5. CASE RemoteCancelsInDoubt(r)
  BY <1>0, <1>5, HelperFrames, ConstantsAssumption
     DEF RemoteCancelsInDoubt, TypeOK, TakenBy, Frame, Unchanged, database,
         rows, requests, history
<1>6. CASE FallBack(r)
  BY <1>0, <1>6, HelperFrames, ConstantsAssumption
     DEF FallBack, Frame, Unchanged, database, rows, requests, history
<1>7. CASE MainCancels(r)
  BY <1>0, <1>7, HelperFrames, ConstantsAssumption
     DEF MainCancels, TypeOK, TakenBy, Frame, Unchanged, database, rows,
         requests, history
<1>8. CASE MainDoesNot(r)
  BY <1>0, <1>8, HelperFrames, ConstantsAssumption
     DEF MainDoesNot, TypeOK, TakenBy, Frame, Unchanged, database, rows,
         requests, history
<1>9. CASE CommitCancel(r)
  BY <1>0, <1>9, HelperFrames, ConstantsAssumption
     DEF CommitCancel, TypeOK, TakenBy, Frame, Unchanged, database, rows,
         requests, history
<1>. QED
  BY <1>1, <1>2, <1>3, <1>4, <1>5, <1>6, <1>7, <1>8, <1>9

\* What r's step makes of its own request.
Own(r) ==
    /\ RequestOK(r)'
    /\ PromotedStay'
    /\ promoted' \subseteq promoted \/ eventRow = r

\* What the client does keeps the invariant of its own request.
LEMMA ClientOwn ==
    ASSUME IInv, NEW r \in Requests,
           \/ EnterClient(r) \/ GiveUpWaiting(r) \/ StatementFails(r)
           \/ ConnectionBreaks(r) \/ LoseCommit(r)
    PROVE  Own(r)
<1>0. RequestOK(r) /\ PromotedStay /\ TypeOK
  BY DEF IInv
<1>1. CASE EnterClient(r)
  BY <1>0, <1>1, ConstantsAssumption
     DEF EnterClient, Own, RequestOK, HoldsEvent, PromotedStay, TypeOK,
         database, rows, history, TakenBy, Goto, End, Unlock, Waits,
         Inside
<1>2. CASE GiveUpWaiting(r)
  BY <1>0, <1>2, ConstantsAssumption
     DEF GiveUpWaiting, Own, RequestOK, HoldsEvent, PromotedStay, TypeOK,
         database, rows, history, TakenBy, Goto, End, Unlock, Waits,
         Inside
<1>3. CASE StatementFails(r)
  BY <1>0, <1>3, ConstantsAssumption
     DEF StatementFails, Own, RequestOK, HoldsEvent, PromotedStay, TypeOK,
         database, rows, history, TakenBy, Goto, End, Unlock, Waits,
         Inside
<1>4. CASE ConnectionBreaks(r)
  BY <1>0, <1>4, ConstantsAssumption
     DEF ConnectionBreaks, Own, RequestOK, HoldsEvent, PromotedStay, TypeOK,
         database, rows, history, TakenBy, Goto, End, Unlock, Waits,
         Inside
<1>5. CASE LoseCommit(r)
  BY <1>0, <1>5, ConstantsAssumption
     DEF LoseCommit, Own, RequestOK, HoldsEvent, PromotedStay, TypeOK,
         database, rows, history, TakenBy, Goto, End, Unlock, Waits,
         Inside
<1>. QED
  BY <1>1, <1>2, <1>3, <1>4, <1>5

\* The statements of an accept keep the invariant of their own request: it
\* holds the event it goes by.
LEMMA AcceptOwn ==
    ASSUME IInv, NEW r \in Requests,
           \/ LockSolution(r) \/ SolutionDiffers(r) \/ ReadFlag(r)
           \/ AcceptRefused(r) \/ UpdateFlag(r) \/ PostFinalize(r)
    PROVE  Own(r)
<1>0. RequestOK(r) /\ PromotedStay /\ TypeOK
  BY DEF IInv
<1>1. CASE LockSolution(r)
  BY <1>0, <1>1, ConstantsAssumption
     DEF LockSolution, Own, RequestOK, HoldsEvent, PromotedStay, TypeOK,
         database, rows, history, TakenBy, Goto, End, Unlock, Waits,
         Inside
<1>2. CASE SolutionDiffers(r)
  BY <1>0, <1>2, ConstantsAssumption
     DEF SolutionDiffers, Own, RequestOK, HoldsEvent, PromotedStay, TypeOK,
         database, rows, history, TakenBy, Goto, End, Unlock, Waits,
         Inside
<1>3. CASE ReadFlag(r)
  BY <1>0, <1>3, ConstantsAssumption
     DEF ReadFlag, Own, RequestOK, HoldsEvent, PromotedStay, TypeOK,
         database, rows, history, TakenBy, Goto, End, Unlock, Waits,
         Inside
<1>4. CASE AcceptRefused(r)
  BY <1>0, <1>4, ConstantsAssumption
     DEF AcceptRefused, Own, RequestOK, HoldsEvent, PromotedStay, TypeOK,
         database, rows, history, TakenBy, Goto, End, Unlock, Waits,
         Inside
<1>5. CASE UpdateFlag(r)
  BY <1>0, <1>5, ConstantsAssumption
     DEF UpdateFlag, Own, RequestOK, HoldsEvent, PromotedStay, TypeOK,
         database, rows, history, TakenBy, Goto, End, Unlock, Waits,
         Inside
<1>6. CASE PostFinalize(r)
  BY <1>0, <1>6, ConstantsAssumption
     DEF PostFinalize, Own, RequestOK, HoldsEvent, PromotedStay, TypeOK,
         database, rows, history, TakenBy, Goto, End, Unlock, Waits,
         Inside
<1>. QED
  BY <1>1, <1>2, <1>3, <1>4, <1>5, <1>6

\* The steps of a cancel keep the invariant of their own request.
LEMMA CancelOwn ==
    ASSUME IInv, NEW r \in Requests,
           \/ CheckSolution(r) \/ CheckFails(r) \/ RemoteCancels(r)
           \/ RemoteDoesNot(r) \/ RemoteCancelsInDoubt(r) \/ FallBack(r)
           \/ MainCancels(r) \/ MainDoesNot(r)
    PROVE  Own(r)
<1>0. RequestOK(r) /\ PromotedStay /\ TypeOK
  BY DEF IInv
<1>1. CASE CheckSolution(r)
  BY <1>0, <1>1, ConstantsAssumption
     DEF CheckSolution, Own, RequestOK, HoldsEvent, PromotedStay, TypeOK,
         database, rows, history, TakenBy, Goto, End, Unlock, Waits,
         Inside
<1>2. CASE CheckFails(r)
  BY <1>0, <1>2, ConstantsAssumption
     DEF CheckFails, Own, RequestOK, HoldsEvent, PromotedStay, TypeOK,
         database, rows, history, TakenBy, Goto, End, Unlock, Waits,
         Inside
<1>3. CASE RemoteCancels(r)
  BY <1>0, <1>3, ConstantsAssumption
     DEF RemoteCancels, Own, RequestOK, HoldsEvent, PromotedStay, TypeOK,
         database, rows, history, TakenBy, Goto, End, Unlock, Waits,
         Inside
<1>4. CASE RemoteDoesNot(r)
  BY <1>0, <1>4, ConstantsAssumption
     DEF RemoteDoesNot, Own, RequestOK, HoldsEvent, PromotedStay, TypeOK,
         database, rows, history, TakenBy, Goto, End, Unlock, Waits,
         Inside
<1>5. CASE RemoteCancelsInDoubt(r)
  BY <1>0, <1>5, ConstantsAssumption
     DEF RemoteCancelsInDoubt, Own, RequestOK, HoldsEvent, PromotedStay,
         TypeOK,
         database, rows, history, TakenBy, Goto, End, Unlock, Waits,
         Inside
<1>6. CASE FallBack(r)
  BY <1>0, <1>6, ConstantsAssumption
     DEF FallBack, Own, RequestOK, HoldsEvent, PromotedStay, TypeOK,
         database, rows, history, TakenBy, Goto, End, Unlock, Waits,
         Inside
<1>7. CASE MainCancels(r)
  BY <1>0, <1>7, ConstantsAssumption
     DEF MainCancels, Own, RequestOK, HoldsEvent, PromotedStay, TypeOK,
         database, rows, history, TakenBy, Goto, End, Unlock, Waits,
         Inside
<1>8. CASE MainDoesNot(r)
  BY <1>0, <1>8, ConstantsAssumption
     DEF MainDoesNot, Own, RequestOK, HoldsEvent, PromotedStay, TypeOK,
         database, rows, history, TakenBy, Goto, End, Unlock, Waits,
         Inside
<1>. QED
  BY <1>1, <1>2, <1>3, <1>4, <1>5, <1>6, <1>7, <1>8

\* The server carries a COMMIT out.
LEMMA AcceptedOwn ==
    ASSUME IInv, NEW r \in Requests, kind[r] = "accept", HoldsEvent(r),
           Accepted(r), Unlock(r), UNCHANGED kind,
           stage' = [stage EXCEPT ![r] = "post"] \/
           stage' = [stage EXCEPT ![r] = "done"]
    PROVE  Own(r)
<1>0. RequestOK(r) /\ PromotedStay /\ TypeOK
  BY DEF IInv
<1>1. Main \in did'[r]
  BY <1>0 DEF Accepted, TypeOK
<1>2. \A o \in Origins : originRow'[o] # r
  BY <1>0, ConstantsAssumption DEF Unlock
<1>3. kind'[r] = "accept" /\ stage'[r] \in {"post", "done"}
  BY <1>0 DEF TypeOK
<1>4. PromotedStay'
  BY <1>0 DEF Accepted, PromotedStay, TypeOK
<1>5. eventRow = r
  BY <1>0 DEF RequestOK
<1>. QED
  BY <1>1, <1>2, <1>3, <1>4, <1>5 DEF Own, RequestOK, HoldsEvent

\* A cancel that is carried out on the main database ends there.
LEMMA CancelledOwn ==
    ASSUME IInv, NEW r \in Requests, kind[r] = "cancel",
           Cancelled(r), Unlock(r), UNCHANGED kind,
           stage' = [stage EXCEPT ![r] = "done"]
    PROVE  Own(r)
<1>0. RequestOK(r) /\ PromotedStay /\ TypeOK
  BY DEF IInv
<1>1. \A o \in Origins : originRow'[o] # r
  BY <1>0, ConstantsAssumption DEF Unlock
<1>2. kind'[r] = "cancel" /\ stage'[r] = "done"
  BY <1>0 DEF TypeOK
<1>3. PromotedStay' /\ promoted' \subseteq promoted
  BY <1>0 DEF Cancelled, PromotedStay, TypeOK
<1>. QED
  BY <1>1, <1>2, <1>3 DEF Own, RequestOK, HoldsEvent

\* A commit gives up the locks with the transaction, and its doubt when it is
\* settled.
LEMMA CommitOwn ==
    ASSUME IInv, NEW r \in Requests,
           CommitAccept(r) \/ CommitCancel(r) \/ SettleDoubt(r)
    PROVE  Own(r)
<1>0. RequestOK(r) /\ PromotedStay /\ TypeOK
  BY DEF IInv
<1>1. CASE CommitAccept(r)
  <2>1. kind[r] = "accept" /\ HoldsEvent(r)
    BY <1>0, <1>1 DEF CommitAccept, RequestOK, HoldsEvent
  <2>. QED
    BY <1>1, <2>1, AcceptedOwn DEF CommitAccept, Goto
<1>2. CASE CommitCancel(r)
  <2>1. kind[r] = "cancel"
    BY <1>0, <1>2 DEF CommitCancel, RequestOK
  <2>. QED
    BY <1>2, <2>1, CancelledOwn DEF CommitCancel, End, Goto
<1>3. CASE SettleDoubt(r)
  <2>1. stage' = [stage EXCEPT ![r] = "done"] /\ Unlock(r) /\ UNCHANGED kind
    BY <1>3 DEF SettleDoubt, Goto
  <2>2. CASE kind[r] = "accept" /\ Accepted(r)
    BY <1>3, <2>1, <2>2, AcceptedOwn DEF SettleDoubt, HoldsEvent
  <2>3. CASE kind[r] = "cancel" /\ Cancelled(r)
    BY <2>1, <2>3, CancelledOwn
  <2>4. CASE UNCHANGED <<database, history>>
    BY <1>0, <1>3, <2>1, <2>4, ConstantsAssumption
       DEF SettleDoubt, Own, RequestOK, HoldsEvent, PromotedStay, TypeOK,
           database, history, Unlock
  <2>. QED
    BY <1>3, <2>2, <2>3, <2>4 DEF SettleDoubt
<1>. QED
  BY <1>1, <1>2, <1>3

-----------------------------------------------------------------------------
\* A step of a request keeps the invariant of all.
LEMMA RequestStep ==
    ASSUME IInv, NEW r \in Requests, Progress(r) \/ Failure(r), TypeOK'
    PROVE  IInv'
<1>1. Frame(r)
  BY ClientFrame, AcceptFrame, CancelFrame DEF Progress, Failure
<1>2. Own(r)
  BY ClientOwn, AcceptOwn, CancelOwn, CommitOwn DEF Progress, Failure
<1>. QED
  BY <1>1, <1>2, StepOf DEF Frame, Own

\* A request begins with nothing locked or posted.
LEMMA AskStep ==
    ASSUME IInv, TypeOK', NEW r \in Requests, NEW k \in Kinds,
           NEW s \in Solutions, Ask(r, k, s)
    PROVE  IInv'
<1>0. RequestOK(r) /\ PromotedStay /\ TypeOK
  BY DEF IInv
<1>1. Frame(r)
  BY <1>0 DEF Ask, Goto, Frame, Unchanged, TypeOK, database, rows, history
<1>2. /\ kind'[r] = k /\ stage'[r] = k /\ k \in {"accept", "cancel"}
      /\ stage[r] = "idle" /\ UNCHANGED <<database, rows, history>>
  BY <1>0, ConstantsAssumption DEF Ask, Goto, TypeOK
<1>3. Own(r)
  BY <1>0, <1>2 DEF Own, RequestOK, HoldsEvent, PromotedStay, database, rows,
                    history
<1>. QED
  BY <1>1, <1>3, StepOf DEF Frame, Own

\* The other programs wait for the rows that a request has locked.
LEMMA OtherStep ==
    ASSUME IInv, TypeOK', OtherProgram
    PROVE  IInv'
<1>1. UNCHANGED <<requests, history>>
  BY DEF OtherProgram, OtherLocksEvent, OtherLocksOrigin, OtherCommits,
         requests
<1>2. ASSUME NEW q \in Requests
      PROVE  /\ Unchanged(q)
             /\ eventRow = q => eventRow' = q
             /\ \A o \in Origins : originRow'[o] = q => originRow[o] = q
             /\ eventRow = q => solution' = solution
             /\ promoted' \subseteq promoted
  <2>1. q \notin {Free, Other}
    BY ConstantsAssumption
  <2>2. Unchanged(q)
    BY <1>1 DEF Unchanged, requests, history
  <2>. QED
    BY <2>1, <2>2 DEF OtherProgram, OtherLocksEvent, OtherLocksOrigin,
       OtherCommits, database, IInv, TypeOK
<1>3. PromotedStay'
  BY DEF OtherProgram, OtherLocksEvent, OtherLocksOrigin, OtherCommits,
         database, IInv, TypeOK, PromotedStay
<1>. QED
  BY <1>2, <1>3, OthersKeep DEF IInv

\* Every step keeps the invariant.
LEMMA StepInvariant == IInv /\ [Next]_vars => IInv'
<1>. SUFFICES ASSUME IInv, [Next]_vars PROVE IInv'
  OBVIOUS
<1>1. TypeOK'
  BY StepType DEF IInv
<1>2. CASE UNCHANGED vars
  BY <1>2 DEF vars, database, rows, requests, history, IInv, TypeOK,
              PromotedStay, RequestOK, HoldsEvent
<1>. QED
  BY <1>1, <1>2, RequestStep, AskStep, OtherStep DEF Next

\* The inductive invariant holds of every state: an accept holds the event it
\* has compared until it commits, and what is promoted stays so
\* (acceptEvent, cancelEvent).
THEOREM Invariance == Spec => []IInv
  BY InitInvariant, StepInvariant, PTL DEF Spec

-----------------------------------------------------------------------------
(* What follows.                                                           *)

\* Which step of r carries an accept out, and which raises the version.
LEMMA EffectOfStep ==
    ASSUME IInv, NEW r \in Requests, Progress(r) \/ Failure(r)
    PROVE  /\ (kind[r] = "accept" /\ did'[r] # did[r]) => HoldsEvent(r)
           /\ version' # version =>
                 kind[r] = "accept" /\ \E o \in Origins : originRow[o] = r
<1>0. RequestOK(r) /\ TypeOK
  BY DEF IInv
<1>1. Accepted(r) /\ version' # version => \E o \in Origins : originRow[o] = r
  BY DEF Accepted
<1>2. CASE CommitAccept(r)
  BY <1>0, <1>1, <1>2 DEF CommitAccept, RequestOK, HoldsEvent
<1>3. CASE CommitCancel(r)
  BY <1>0, <1>3 DEF CommitCancel, RequestOK, Cancelled
<1>4. CASE SettleDoubt(r)
  BY <1>1, <1>4 DEF SettleDoubt, HoldsEvent, Cancelled, database, history
<1>5. CASE RemoteCancels(r) \/ RemoteCancelsInDoubt(r)
  BY <1>0, <1>5
     DEF RemoteCancels, RemoteCancelsInDoubt, RequestOK, database
<1>6. CASE EnterClient(r) \/ GiveUpWaiting(r) \/ StatementFails(r)
           \/ ConnectionBreaks(r) \/ LoseCommit(r)
  BY <1>6 DEF EnterClient, GiveUpWaiting, StatementFails, ConnectionBreaks,
              LoseCommit, database, history
<1>7. CASE LockSolution(r) \/ SolutionDiffers(r) \/ ReadFlag(r)
           \/ AcceptRefused(r) \/ UpdateFlag(r) \/ PostFinalize(r)
  BY <1>7 DEF LockSolution, SolutionDiffers, ReadFlag, AcceptRefused,
              UpdateFlag, PostFinalize, database, history
<1>8. CASE CheckSolution(r) \/ CheckFails(r) \/ RemoteDoesNot(r)
           \/ FallBack(r) \/ MainCancels(r) \/ MainDoesNot(r)
  BY <1>8 DEF CheckSolution, CheckFails, RemoteDoesNot, FallBack, MainCancels,
              MainDoesNot, database, history
<1>. QED
  BY <1>2, <1>3, <1>4, <1>5, <1>6, <1>7, <1>8 DEF Progress, Failure

\* The other steps carry nothing out.
LEMMA NoEffect ==
    ASSUME IInv, Next, \A r \in Requests : ~ (Progress(r) \/ Failure(r))
    PROVE  UNCHANGED <<version, history>>
  BY DEF Next, Ask, OtherProgram, OtherLocksEvent, OtherLocksOrigin,
         OtherCommits, database

\* An accept takes effect only on the solution that was reviewed.
THEOREM AcceptsReviewed == Spec => AcceptsWhatWasReviewed
<1>1. IInv /\ [Next]_vars =>
        [\A r \in Requests :
            (kind[r] = "accept" /\ did'[r] # did[r]) => solution = expected[r]]_vars
  <2>. SUFFICES ASSUME IInv, Next, NEW r \in Requests, kind[r] = "accept",
                       did'[r] # did[r]
                PROVE  solution = expected[r]
    OBVIOUS
  <2>1. PICK q \in Requests : Progress(q) \/ Failure(q)
    BY NoEffect DEF history
  <2>2. q = r
    BY <2>1, ClientFrame, AcceptFrame, CancelFrame
       DEF Progress, Failure, Frame, Unchanged
  <2>3. HoldsEvent(r)
    BY <2>1, <2>2, EffectOfStep
  <2>. QED
    BY <2>3 DEF IInv, RequestOK
<1>. QED
  BY <1>1, Invariance, PTL DEF Spec, AcceptsWhatWasReviewed

\* An origin whose flag an accept has raised, and nobody has lowered since,
\* has its event's version raised by no other accept.
THEOREM VersionBumpedOnce == Spec => BumpsOnce
<1>1. IInv /\ [Next]_vars =>
        [version' # version => solution.origin \notin promoted]_vars
  <2>. SUFFICES ASSUME IInv, Next, version' # version
                PROVE  solution.origin \notin promoted
    OBVIOUS
  <2>1. PICK r \in Requests : Progress(r) \/ Failure(r)
    BY NoEffect
  <2>2. kind[r] = "accept" /\ \E o \in Origins : originRow[o] = r
    BY <2>1, EffectOfStep
  <2>. QED
    BY <2>2 DEF IInv, RequestOK
<1>. QED
  BY <1>1, Invariance, PTL DEF Spec, BumpsOnce

\* FINALIZE is posted only for an accept that was committed.
THEOREM AnnouncedOnlyIfAccepted == Spec => []AnnouncesOnlyAccepted
<1>1. IInv => AnnouncesOnlyAccepted
  BY DEF IInv, RequestOK, AnnouncesOnlyAccepted
<1>. QED
  BY <1>1, Invariance, PTL

-----------------------------------------------------------------------------
(***************************************************************************)
(* The answers are true, and a cancel is carried out on one machine, as    *)
(* long as no auxiliary's COMMIT is left in doubt: until its last step a   *)
(* request has done nothing.                                               *)
(***************************************************************************)
AnswerOK(r) ==
    /\ stage[r] \notin {"post", "done"} => did[r] = {}
    /\ stage[r] = "post" => did[r] = {Main}
    /\ stage[r] \notin {"in_doubt", "done"} => verdict[r] = "none"
    /\ stage[r] = "in_doubt" => verdict[r] = "failed"
    /\ verdict[r] = "done" => did[r] # {}
    /\ verdict[r] \in {"missing", "changed", "refused", "blocked"} => did[r] = {}
    /\ \A m, n \in did[r] : m = n

Answers == \A r \in Requests : AnswerOK(r)

\* The client does not make a verdict untrue.
LEMMA ClientAnswer ==
    ASSUME ~ Lossy, TypeOK, NEW r \in Requests, AnswerOK(r),
           \/ EnterClient(r) \/ GiveUpWaiting(r) \/ StatementFails(r)
           \/ ConnectionBreaks(r) \/ LoseCommit(r)
    PROVE  AnswerOK(r)'
<1>1. CASE EnterClient(r)
  BY <1>1
     DEF EnterClient, AnswerOK, TypeOK, history, Accepted, Cancelled, TakenBy,
         Goto, End, Waits, Inside
<1>2. CASE GiveUpWaiting(r)
  BY <1>2
     DEF GiveUpWaiting, AnswerOK, TypeOK, history, Accepted, Cancelled,
         TakenBy,
         Goto, End, Waits, Inside
<1>3. CASE StatementFails(r)
  BY <1>3
     DEF StatementFails, AnswerOK, TypeOK, history, Accepted, Cancelled,
         TakenBy,
         Goto, End, Waits, Inside
<1>4. CASE ConnectionBreaks(r)
  BY <1>4
     DEF ConnectionBreaks, AnswerOK, TypeOK, history, Accepted, Cancelled,
         TakenBy,
         Goto, End, Waits, Inside
<1>5. CASE LoseCommit(r)
  BY <1>5
     DEF LoseCommit, AnswerOK, TypeOK, history, Accepted, Cancelled, TakenBy,
         Goto, End, Waits, Inside
<1>. QED
  BY <1>1, <1>2, <1>3, <1>4, <1>5

\* An accept answers what it has done.
LEMMA AcceptAnswer ==
    ASSUME ~ Lossy, TypeOK, NEW r \in Requests, AnswerOK(r),
           \/ LockSolution(r) \/ SolutionDiffers(r) \/ ReadFlag(r)
           \/ AcceptRefused(r) \/ UpdateFlag(r) \/ CommitAccept(r)
           \/ PostFinalize(r) \/ SettleDoubt(r)
    PROVE  AnswerOK(r)'
<1>1. CASE LockSolution(r)
  BY <1>1
     DEF LockSolution, AnswerOK, TypeOK, history, Accepted, Cancelled,
         TakenBy,
         Goto, End, Waits, Inside
<1>2. CASE SolutionDiffers(r)
  BY <1>2
     DEF SolutionDiffers, AnswerOK, TypeOK, history, Accepted, Cancelled,
         TakenBy,
         Goto, End, Waits, Inside
<1>3. CASE ReadFlag(r)
  BY <1>3
     DEF ReadFlag, AnswerOK, TypeOK, history, Accepted, Cancelled, TakenBy,
         Goto, End, Waits, Inside
<1>4. CASE AcceptRefused(r)
  BY <1>4
     DEF AcceptRefused, AnswerOK, TypeOK, history, Accepted, Cancelled,
         TakenBy,
         Goto, End, Waits, Inside
<1>5. CASE UpdateFlag(r)
  BY <1>5
     DEF UpdateFlag, AnswerOK, TypeOK, history, Accepted, Cancelled, TakenBy,
         Goto, End, Waits, Inside
<1>6. CASE CommitAccept(r)
  BY <1>6
     DEF CommitAccept, AnswerOK, TypeOK, history, Accepted, Cancelled,
         TakenBy,
         Goto, End, Waits, Inside
<1>7. CASE PostFinalize(r)
  BY <1>7
     DEF PostFinalize, AnswerOK, TypeOK, history, Accepted, Cancelled,
         TakenBy,
         Goto, End, Waits, Inside
<1>8. CASE SettleDoubt(r)
  BY <1>8
     DEF SettleDoubt, AnswerOK, TypeOK, history, Accepted, Cancelled, TakenBy,
         Goto, End, Waits, Inside
<1>. QED
  BY <1>1, <1>2, <1>3, <1>4, <1>5, <1>6, <1>7, <1>8

\* A cancel answers what it has done, on one machine.
LEMMA CancelAnswer ==
    ASSUME ~ Lossy, TypeOK, NEW r \in Requests, AnswerOK(r),
           \/ CheckSolution(r) \/ CheckFails(r) \/ RemoteCancels(r)
           \/ RemoteDoesNot(r) \/ RemoteCancelsInDoubt(r) \/ FallBack(r)
           \/ MainCancels(r) \/ MainDoesNot(r) \/ CommitCancel(r)
    PROVE  AnswerOK(r)'
<1>1. CASE CheckSolution(r)
  BY <1>1
     DEF CheckSolution, AnswerOK, TypeOK, history, Accepted, Cancelled,
         TakenBy,
         Goto, End, Waits, Inside
<1>2. CASE CheckFails(r)
  BY <1>2
     DEF CheckFails, AnswerOK, TypeOK, history, Accepted, Cancelled, TakenBy,
         Goto, End, Waits, Inside
<1>3. CASE RemoteCancels(r)
  BY <1>3
     DEF RemoteCancels, AnswerOK, TypeOK, history, Accepted, Cancelled,
         TakenBy,
         Goto, End, Waits, Inside
<1>4. CASE RemoteDoesNot(r)
  BY <1>4
     DEF RemoteDoesNot, AnswerOK, TypeOK, history, Accepted, Cancelled,
         TakenBy,
         Goto, End, Waits, Inside
<1>5. CASE RemoteCancelsInDoubt(r)
  BY <1>5
     DEF RemoteCancelsInDoubt, AnswerOK, TypeOK, history, Accepted,
         Cancelled, TakenBy,
         Goto, End, Waits, Inside
<1>6. CASE FallBack(r)
  BY <1>6
     DEF FallBack, AnswerOK, TypeOK, history, Accepted, Cancelled, TakenBy,
         Goto, End, Waits, Inside
<1>7. CASE MainCancels(r)
  BY <1>7
     DEF MainCancels, AnswerOK, TypeOK, history, Accepted, Cancelled, TakenBy,
         Goto, End, Waits, Inside
<1>8. CASE MainDoesNot(r)
  BY <1>8
     DEF MainDoesNot, AnswerOK, TypeOK, history, Accepted, Cancelled, TakenBy,
         Goto, End, Waits, Inside
<1>9. CASE CommitCancel(r)
  BY <1>9
     DEF CommitCancel, AnswerOK, TypeOK, history, Accepted, Cancelled,
         TakenBy,
         Goto, End, Waits, Inside
<1>. QED
  BY <1>1, <1>2, <1>3, <1>4, <1>5, <1>6, <1>7, <1>8, <1>9

\* Nothing is done or told at first.
LEMMA AnswersInit == Init => Answers
  BY DEF Init, Answers, AnswerOK

\* Every step keeps it.
LEMMA AnswersStep ==
    ASSUME ~ Lossy
    PROVE  IInv /\ Answers /\ [Next]_vars => Answers'
<1>. SUFFICES ASSUME IInv, Answers, [Next]_vars, NEW r \in Requests
              PROVE  AnswerOK(r)'
  BY DEF Answers
<1>0. AnswerOK(r) /\ TypeOK
  BY DEF Answers, IInv
<1>1. CASE Unchanged(r)
  BY <1>0, <1>1 DEF Unchanged, AnswerOK
<1>2. CASE Progress(r) \/ Failure(r)
  BY <1>0, <1>2, ClientAnswer, AcceptAnswer, CancelAnswer DEF Progress, Failure
<1>3. ASSUME NEW q \in Requests, q # r, Progress(q) \/ Failure(q)
      PROVE  Unchanged(r)
  BY <1>3, ClientFrame, AcceptFrame, CancelFrame DEF Progress, Failure, Frame
<1>4. ASSUME NEW q \in Requests, NEW k \in Kinds, NEW s \in Solutions,
             Ask(q, k, s)
      PROVE  AnswerOK(r)'
  <2>1. k \in {"accept", "cancel"}
    BY ConstantsAssumption
  <2>2. did' = did /\ verdict' = verdict
    BY <1>4 DEF Ask, history
  <2>3. CASE q = r
    BY <1>0, <1>4, <2>1, <2>2, <2>3 DEF Ask, Goto, AnswerOK, TypeOK
  <2>4. CASE q # r
    BY <1>0, <1>4, <2>2, <2>4 DEF Ask, Goto, AnswerOK, TypeOK
  <2>. QED
    BY <2>3, <2>4
<1>5. CASE OtherProgram \/ UNCHANGED vars
  BY <1>1, <1>5 DEF OtherProgram, OtherLocksEvent, OtherLocksOrigin,
     OtherCommits, requests, history, vars, Unchanged
<1>. QED
  BY <1>1, <1>2, <1>3, <1>4, <1>5 DEF Next

\* As long as no COMMIT of an auxiliary is in doubt, until its last step a
\* request has done nothing, and its verdict is what it did (runAction).
THEOREM AnswersInvariant ==
    ASSUME ~ Lossy
    PROVE  Spec => []Answers
  BY AnswersInit, AnswersStep, Invariance, PTL DEF Spec

\* No COMMIT on an auxiliary in doubt: what the analyst is told is so.
THEOREM AnswersAreTrue ==
    ASSUME ~ Lossy
    PROVE  Spec => []TellsWhatHappened
<1>1. Answers => TellsWhatHappened
  BY DEF Answers, AnswerOK, TellsWhatHappened
<1>. QED
  BY <1>1, AnswersInvariant, PTL

\* No COMMIT on an auxiliary in doubt: a cancel is carried out on one machine.
THEOREM CancelledOnOneMachine ==
    ASSUME ~ Lossy
    PROVE  Spec => []CancelsOnOneMachine
<1>1. Answers => CancelsOnOneMachine
  BY DEF Answers, AnswerOK, CancelsOnOneMachine
<1>. QED
  BY <1>1, AnswersInvariant, PTL

-----------------------------------------------------------------------------
(***************************************************************************)
(* What the proofs can say of "every action is answered": the mutex of an  *)
(* instance belongs to a request that is inside its client and has a step  *)
(* it can take, whatever the other programs hold, and a request has only   *)
(* so many steps to take.                                                  *)
(***************************************************************************)
Turns ==
    /\ \A r \in Requests, i \in Instances :
          mutex[i] = r <=> (Home[r] = i /\ stage[r] \in Inside)
    /\ \A r \in Requests :
          /\ visited[r] <= Visits
          /\ stage[r] = "update" => solution.origin \in Origins

\* The guard of one of the steps of r holds, r being inside its client: it can
\* give a wait up, or need not wait.
CanGoOn(r) ==
    \/ Waits(r)
    \/ stage[r] \in {"lock", "main_lock"}
    \/ stage[r] \in {"flag", "commit", "main_commit"}
    \/ /\ stage[r] = "update"
       /\ solution.origin \in Origins /\ originRow[solution.origin] = Free

\* Whoever waits for the main client of an instance can have it, or waits for
\* one request, of that instance, that can go on.
WaitersAreServed ==
    \A i \in Instances :
        \/ mutex[i] = Free
        \/ /\ mutex[i] \in Requests /\ Home[mutex[i]] = i
           /\ stage[mutex[i]] \in Inside
           /\ CanGoOn(mutex[i])

\* How far from its end a stage is.
Rank == [idle |-> 12, cancel |-> 11, remote |-> 10, accept |-> 9, main |-> 9,
         lock |-> 5, main_lock |-> 5, flag |-> 4, update |-> 3, commit |-> 2,
         main_commit |-> 2, post |-> 1, in_doubt |-> 1, done |-> 0]

\* A bound on the steps r has still to take: the stages, the way back a retry
\* costs, and the auxiliaries it has not tried.
Left(r) ==
    Rank[stage[r]] + (IF r \in retried THEN 0 ELSE 3) + (Visits - visited[r])

\* What a request has left to do, one step fewer with each it takes.
RunsOut ==
    \A r \in Requests :
        /\ Left(r) \in 0 .. 15 + Visits
        /\ Left(r)' <= Left(r)
        /\ (Progress(r) \/ Failure(r)) => Left(r)' < Left(r)

\* There are only so many visits.
LEMMA VisitsType == Visits \in Nat
<1>1. Len(Subsources) \in Nat /\ Len(Auxiliaries) \in Nat
  BY ConstantsAssumption
<1>. QED
  BY <1>1 DEF Visits

\* A visit that is tried is one of them (cancelEvent's loops).
LEMMA VisitsEnd ==
    ASSUME NEW n \in Nat, NEW v \in NextTry(n)
    PROVE  v \in Nat /\ n <= v /\ v + 1 <= Visits
<1>1. v \in n .. Visits - 1
  BY DEF NextTry
<1>. QED
  BY <1>1, VisitsType

\* How a step of r treats the mutex of its instance: it leaves it alone, takes
\* it as it goes in, or gives it back as it comes out.
MutexMoves(r) ==
    \/ mutex' = mutex /\ (stage'[r] \in Inside <=> stage[r] \in Inside)
    \/ /\ mutex[Home[r]] = Free /\ stage'[r] \in Inside
       /\ mutex' = [mutex EXCEPT ![Home[r]] = r]
    \/ stage[r] \in Inside /\ stage'[r] \notin Inside /\ LeaveClient(r)

\* Every way into execute() takes the mutex, and every way out of it gives it
\* back.
LEMMA StepMovesMutex ==
    ASSUME TypeOK, NEW r \in Requests, Progress(r) \/ Failure(r)
    PROVE  MutexMoves(r)
<1>0. stage \in [Requests -> Stages]
  BY DEF TypeOK
<1>. USE <1>0 DEF MutexMoves, Inside, Goto, End
<1>1. CASE EnterClient(r)
  BY <1>1 DEF EnterClient
<1>2. CASE GiveUpWaiting(r)
  <2>1. stage[r] \in Inside
    BY <1>2 DEF GiveUpWaiting, Waits
  <2>. QED
    BY <1>2, <2>1 DEF GiveUpWaiting
<1>3. CASE StatementFails(r)
  BY <1>3 DEF StatementFails
<1>4. CASE ConnectionBreaks(r)
  BY <1>4 DEF ConnectionBreaks
<1>5. CASE LoseCommit(r)
  BY <1>5 DEF LoseCommit
<1>6. CASE LockSolution(r) \/ ReadFlag(r) \/ UpdateFlag(r) \/ MainCancels(r)
  BY <1>6 DEF LockSolution, ReadFlag, UpdateFlag, MainCancels
<1>7. CASE SolutionDiffers(r) \/ AcceptRefused(r) \/ MainDoesNot(r)
  BY <1>7 DEF SolutionDiffers, AcceptRefused, MainDoesNot
<1>8. CASE CommitAccept(r) \/ CommitCancel(r)
  BY <1>8 DEF CommitAccept, CommitCancel
<1>9. CASE PostFinalize(r) \/ CheckSolution(r) \/ CheckFails(r) \/ FallBack(r)
  BY <1>9 DEF PostFinalize, CheckSolution, CheckFails, FallBack
<1>10. CASE RemoteCancels(r) \/ RemoteDoesNot(r) \/ RemoteCancelsInDoubt(r)
  BY <1>10 DEF RemoteCancels, RemoteDoesNot, RemoteCancelsInDoubt
<1>11. CASE SettleDoubt(r)
  BY <1>11 DEF SettleDoubt
<1>. QED
  BY <1>1, <1>2, <1>3, <1>4, <1>5, <1>6, <1>7, <1>8, <1>9, <1>10, <1>11
     DEF Progress, Failure

\* A step of r leaves its visits within their bound.
LEMMA StepVisits ==
    ASSUME TypeOK, NEW r \in Requests, Progress(r) \/ Failure(r),
           visited[r] <= Visits
    PROVE  /\ visited'[r] <= Visits
           /\ \A q \in Requests \ {r} : visited'[q] = visited[q]
<1>0. visited \in [Requests -> Nat]
  BY DEF TypeOK
<1>1. CASE RemoteDoesNot(r) \/ RemoteCancelsInDoubt(r)
  <2>1. PICK v \in NextTry(visited[r]) : visited' = [visited EXCEPT ![r] = v + 1]
    BY <1>1 DEF RemoteDoesNot, RemoteCancelsInDoubt
  <2>. QED
    BY <1>0, <2>1, VisitsEnd
<1>2. ASSUME ~ RemoteDoesNot(r), ~ RemoteCancelsInDoubt(r)
      PROVE  visited' = visited
  BY <1>2 DEF Progress, Failure, EnterClient, GiveUpWaiting, LockSolution,
     SolutionDiffers, ReadFlag, AcceptRefused, UpdateFlag, CommitAccept,
     PostFinalize, CheckSolution, RemoteCancels, FallBack, MainCancels,
     MainDoesNot, CommitCancel, StatementFails, ConnectionBreaks, LoseCommit,
     SettleDoubt, CheckFails
<1>. QED
  BY <1>1, <1>2

\* A request that goes to update a flag has found an origin (accept_event).
LEMMA StepUpdates ==
    ASSUME TypeOK, NEW r \in Requests, Progress(r) \/ Failure(r),
           stage[r] = "update" => solution.origin \in Origins,
           solution' = solution
    PROVE  stage'[r] = "update" => solution'.origin \in Origins
<1>0. stage \in [Requests -> Stages]
  BY DEF TypeOK
<1>. USE <1>0 DEF Goto, End
<1>1. CASE ReadFlag(r)
  BY <1>1 DEF ReadFlag
<1>2. ASSUME ~ ReadFlag(r) PROVE stage'[r] # "update" \/ stage'[r] = stage[r]
  <2>1. CASE Progress(r)
    BY <1>2, <2>1 DEF Progress, EnterClient, GiveUpWaiting, LockSolution,
       SolutionDiffers, AcceptRefused, UpdateFlag, CommitAccept, PostFinalize,
       CheckSolution, RemoteCancels, RemoteDoesNot, FallBack, MainCancels,
       MainDoesNot, CommitCancel
  <2>2. CASE Failure(r)
    BY <2>2 DEF Failure, StatementFails, ConnectionBreaks, LoseCommit,
       SettleDoubt, CheckFails, RemoteCancelsInDoubt
  <2>. QED
    BY <2>1, <2>2
<1>. QED
  BY <1>1, <1>2

\* Nobody is inside at first.
LEMMA TurnsInit == Init => Turns
  BY ConstantsAssumption, VisitsType DEF Init, Turns, Inside

\* The mutexes, the visits and the origins found stay in order.
LEMMA TurnsStep == IInv /\ Turns /\ [Next]_vars => Turns'
<1>. SUFFICES ASSUME IInv, Turns, [Next]_vars PROVE Turns'
  OBVIOUS
<1>0. TypeOK
  BY DEF IInv
<1>1. ASSUME NEW r \in Requests, Progress(r) \/ Failure(r) PROVE Turns'
  <2>1. Frame(r)
    BY <1>1, ClientFrame, AcceptFrame, CancelFrame DEF Progress, Failure
  <2>2. \A q \in Requests, i \in Instances :
           mutex'[i] = q <=> (Home[q] = i /\ stage'[q] \in Inside)
    <3>. SUFFICES ASSUME NEW q \in Requests, NEW i \in Instances
                  PROVE  mutex'[i] = q <=> (Home[q] = i /\ stage'[q] \in Inside)
      OBVIOUS
    <3>1. /\ mutex \in [Instances -> Requests \cup {Free}]
          /\ Home[r] \in Instances /\ q # Free /\ r # Free
          /\ q # r => stage'[q] = stage[q]
      BY <1>0, <2>1, ConstantsAssumption DEF TypeOK, Frame, Unchanged
    <3>2. /\ mutex[i] = q <=> (Home[q] = i /\ stage[q] \in Inside)
          /\ mutex[i] = r <=> (Home[r] = i /\ stage[r] \in Inside)
      BY DEF Turns
    <3>. QED
      BY <1>0, <1>1, <3>1, <3>2, StepMovesMutex DEF MutexMoves, LeaveClient
  <2>3. ASSUME NEW q \in Requests
        PROVE  /\ visited'[q] <= Visits
               /\ stage'[q] = "update" => solution'.origin \in Origins
    <3>1. CASE q = r
      BY <1>0, <1>1, <2>1, <3>1, StepVisits, StepUpdates DEF Turns, Frame
    <3>2. CASE q # r
      <4>1. visited'[q] = visited[q]
        BY <1>0, <1>1, <3>2, StepVisits DEF Turns
      <4>. QED
        BY <2>1, <3>2, <4>1 DEF Turns, Frame, Unchanged
    <3>. QED
      BY <3>1, <3>2
  <2>. QED
    BY <2>2, <2>3, VisitsType DEF Turns, Visits
<1>2. ASSUME NEW r \in Requests, NEW k \in Kinds, NEW s \in Solutions,
             Ask(r, k, s)
      PROVE  Turns'
  <2>1. stage[r] = "idle" /\ stage'[r] = k /\ k \in {"accept", "cancel"}
        /\ \A q \in Requests \ {r} : stage'[q] = stage[q]
    BY <1>0, <1>2, ConstantsAssumption DEF Ask, Goto, TypeOK
  <2>2. UNCHANGED <<solution, mutex, visited>>
    BY <1>2 DEF Ask, database
  <2>3. \A q \in Requests : stage'[q] \in Inside <=> stage[q] \in Inside
    BY <2>1 DEF Inside
  <2>4. \A q \in Requests : stage'[q] = "update" => stage[q] = "update"
    BY <2>1
  <2>. QED
    BY <2>2, <2>3, <2>4 DEF Turns, Visits
<1>3. CASE OtherProgram
  <2>1. UNCHANGED <<mutex, stage, visited>>
    BY <1>3 DEF OtherProgram, OtherLocksEvent, OtherLocksOrigin, OtherCommits,
       requests
  <2>2. ASSUME NEW q \in Requests, stage[q] = "update"
        PROVE  solution'.origin \in Origins
    <3>1. eventRow = q /\ q # Other
      BY <2>2, ConstantsAssumption DEF IInv, RequestOK, HoldsEvent
    <3>2. solution' = solution
      BY <1>3, <3>1 DEF OtherProgram, OtherLocksEvent, OtherLocksOrigin,
         OtherCommits, database
    <3>. QED
      BY <2>2, <3>2 DEF Turns
  <2>. QED
    BY <2>1, <2>2 DEF Turns, Visits
<1>4. CASE UNCHANGED vars
  BY <1>4 DEF vars, database, rows, requests, Turns, Visits
<1>. QED
  BY <1>1, <1>2, <1>3, <1>4 DEF Next

\* One request at a time is inside each client, with the mutex; it is never
\* out of visits, and at the update it has an origin.
THEOREM TurnsInvariant == Spec => []Turns
  BY TurnsInit, TurnsStep, Invariance, PTL DEF Spec

\* No request and no other program can leave the mutex of a client with a
\* request that has no step to take: not even a row another program never
\* lets go of holds up those behind it, for a wait can be given up.
THEOREM NobodyIsStuck == Spec => []WaitersAreServed
<1>1. IInv /\ Turns => WaitersAreServed
  <2>. SUFFICES ASSUME IInv, Turns, NEW i \in Instances, mutex[i] # Free
                PROVE  /\ mutex[i] \in Requests /\ Home[mutex[i]] = i
                       /\ stage[mutex[i]] \in Inside
                       /\ CanGoOn(mutex[i])
    BY DEF WaitersAreServed
  <2>1. PICK r \in Requests : mutex[i] = r
    BY DEF IInv, TypeOK
  <2>2. Home[r] = i /\ stage[r] \in Inside
    BY <2>1 DEF Turns
  <2>3. CASE stage[r] = "update"
    <3>1. solution.origin \in Origins
      BY <2>3 DEF Turns
    <3>2. originRow[solution.origin] # r
      BY <2>3, <3>1 DEF IInv, RequestOK
    <3>. QED
      BY <2>1, <2>2, <2>3, <3>1, <3>2 DEF CanGoOn, Waits
  <2>4. CASE stage[r] # "update"
    BY <2>1, <2>2, <2>4 DEF CanGoOn, Inside
  <2>. QED
    BY <2>3, <2>4
<1>. QED
  BY <1>1, Invariance, TurnsInvariant, PTL

\* What a step of r changes of the measure.
Moves(r) ==
    \/ /\ Rank[stage'[r]] < Rank[stage[r]]
       /\ retried' = retried /\ visited' = visited
    \/ Rank[stage'[r]] + 3 < Rank[stage[r]] /\ visited' = visited
    \/ /\ Rank[stage'[r]] < Rank[stage[r]] + 3 /\ visited' = visited
       /\ r \notin retried /\ r \in retried'
    \/ /\ stage' = stage /\ retried' = retried
       /\ \E v \in NextTry(visited[r]) : visited' = [visited EXCEPT ![r] = v + 1]

\* The rank of every stage is a number.
LEMMA RankType == \A s \in Stages : Rank[s] \in 0 .. 12
  BY DEF Rank, Stages

\* Every step of a request is one of these.
LEMMA StepMoves ==
    ASSUME TypeOK, NEW r \in Requests, Progress(r) \/ Failure(r)
    PROVE  Moves(r)
<1>0. stage \in [Requests -> Stages]
  BY DEF TypeOK
<1>. USE <1>0 DEF Moves, Goto, End, Rank
<1>1. CASE EnterClient(r)
  BY <1>1 DEF EnterClient
<1>2. CASE GiveUpWaiting(r)
  <2>1. stage[r] \in {"lock", "update", "main_lock"}
    BY <1>2 DEF GiveUpWaiting, Waits
  <2>. QED
    BY <1>2, <2>1 DEF GiveUpWaiting
<1>3. CASE StatementFails(r)
  BY <1>3 DEF StatementFails, Inside
<1>4. CASE ConnectionBreaks(r)
  <2>1. stage[r] \in {"lock", "flag", "update", "main_lock"} /\ visited' = visited
    BY <1>4 DEF ConnectionBreaks, Inside
  <2>2. CASE /\ r \notin retried /\ retried' = retried \cup {r}
             /\ Goto(r, IF kind[r] = "accept" THEN "lock" ELSE "main_lock")
    <3>1. stage'[r] \in {"lock", "main_lock"}
      BY <2>2
    <3>. QED
      BY <2>1, <2>2, <3>1
  <2>3. CASE End(r, "failed") /\ retried' = retried
    BY <2>1, <2>3
  <2>. QED
    BY <1>4, <2>2, <2>3 DEF ConnectionBreaks
<1>5. CASE LoseCommit(r)
  BY <1>5 DEF LoseCommit
<1>6. CASE LockSolution(r) \/ UpdateFlag(r) \/ MainCancels(r)
  BY <1>6 DEF LockSolution, UpdateFlag, MainCancels
<1>7. CASE ReadFlag(r)
  <2>1. stage[r] = "flag" /\ stage'[r] \in {"commit", "update"}
        /\ retried' = retried /\ visited' = visited
    BY <1>7 DEF ReadFlag
  <2>. QED
    BY <2>1
<1>8. CASE SolutionDiffers(r) \/ AcceptRefused(r) \/ MainDoesNot(r)
  BY <1>8 DEF SolutionDiffers, AcceptRefused, MainDoesNot
<1>9. CASE CommitAccept(r) \/ CommitCancel(r)
  BY <1>9 DEF CommitAccept, CommitCancel
<1>10. CASE PostFinalize(r) \/ CheckSolution(r) \/ CheckFails(r)
  BY <1>10 DEF PostFinalize, CheckSolution, CheckFails
<1>11. CASE RemoteCancels(r) \/ FallBack(r)
  BY <1>11 DEF RemoteCancels, FallBack
<1>12. CASE RemoteDoesNot(r) \/ RemoteCancelsInDoubt(r)
  BY <1>12 DEF RemoteDoesNot, RemoteCancelsInDoubt
<1>13. CASE SettleDoubt(r)
  BY <1>13 DEF SettleDoubt
<1>. QED
  BY <1>1, <1>2, <1>3, <1>4, <1>5, <1>6, <1>7, <1>8, <1>9, <1>10, <1>11,
     <1>12, <1>13 DEF Progress, Failure

\* Each of them leaves less to do.
LEMMA MovesRunOut ==
    ASSUME TypeOK, TypeOK', NEW r \in Requests, Moves(r)
    PROVE  Left(r)' < Left(r)
<1>1. /\ visited[r] \in Nat /\ Rank[stage[r]] \in 0 .. 12
      /\ visited'[r] \in Nat /\ Rank[stage'[r]] \in 0 .. 12 /\ Visits \in Nat
  BY RankType, VisitsType DEF TypeOK
<1>. DEFINE more == IF r \in retried THEN 0 ELSE 3
            again == IF r \in retried' THEN 0 ELSE 3
<1>2. /\ Left(r) = Rank[stage[r]] + more + (Visits - visited[r])
      /\ Left(r)' = Rank[stage'[r]] + again + (Visits - visited'[r])
      /\ more \in {0, 3} /\ again \in {0, 3}
  BY DEF Left, Rank, Visits
<1>3. \/ /\ Rank[stage'[r]] < Rank[stage[r]] /\ again = more
         /\ visited'[r] = visited[r]
      \/ Rank[stage'[r]] + 3 < Rank[stage[r]] /\ visited'[r] = visited[r]
      \/ /\ Rank[stage'[r]] < Rank[stage[r]] + 3 /\ visited'[r] = visited[r]
         /\ more = 3 /\ again = 0
      \/ /\ Rank[stage'[r]] = Rank[stage[r]] /\ again = more
         /\ visited'[r] > visited[r]
  <2>1. ASSUME NEW v \in NextTry(visited[r]),
               visited' = [visited EXCEPT ![r] = v + 1]
        PROVE  visited'[r] > visited[r]
    <3>1. v \in Nat /\ visited[r] <= v /\ visited'[r] = v + 1
      BY <1>1, <2>1, VisitsEnd DEF TypeOK
    <3>. QED
      BY <1>1, <3>1
  <2>. QED
    BY <2>1 DEF Moves
<1>. HIDE DEF more, again
<1>. QED
  BY <1>1, <1>2, <1>3

\* Whether another request has been retried is not r's to change.
LEMMA RetriesOfOthers ==
    ASSUME NEW r \in Requests, NEW q \in Requests, q # r,
           Progress(r) \/ Failure(r)
    PROVE  q \in retried' <=> q \in retried
<1>1. CASE EnterClient(r) \/ ConnectionBreaks(r)
  BY <1>1 DEF EnterClient, ConnectionBreaks
<1>2. ASSUME ~ EnterClient(r), ~ ConnectionBreaks(r) PROVE retried' = retried
  BY <1>2 DEF Progress, Failure, GiveUpWaiting, LockSolution, SolutionDiffers,
     ReadFlag, AcceptRefused, UpdateFlag, CommitAccept, PostFinalize,
     CheckSolution, RemoteCancels, RemoteDoesNot, RemoteCancelsInDoubt,
     FallBack, MainCancels, MainDoesNot, CommitCancel, StatementFails,
     LoseCommit, SettleDoubt, CheckFails
<1>. QED
  BY <1>1, <1>2

\* An action takes at most fifteen steps and one for each visit of an
\* auxiliary, whatever fails and whatever the others do: one retry, and no
\* auxiliary tried twice at the same visit.
THEOREM ActionsRunOut == Spec => [][RunsOut]_vars
<1>1. IInv /\ Turns /\ IInv' /\ [Next]_vars => [RunsOut]_vars
  <2>. SUFFICES ASSUME IInv, Turns, IInv', [Next]_vars, NEW q \in Requests
                PROVE  /\ Left(q) \in 0 .. 15 + Visits
                       /\ Left(q)' <= Left(q)
                       /\ (Progress(q) \/ Failure(q)) => Left(q)' < Left(q)
    BY DEF RunsOut
  <2>0. TypeOK /\ TypeOK'
    BY DEF IInv
  <2>1. /\ visited[q] \in Nat /\ visited[q] <= Visits /\ Visits \in Nat
        /\ Rank[stage[q]] \in 0 .. 12 /\ stage[q] \in Stages
    BY <2>0, RankType, VisitsType DEF TypeOK, Turns
  <2>2. Left(q) \in 0 .. 15 + Visits
    BY <2>1 DEF Left
  <2>3. (Progress(q) \/ Failure(q)) => Left(q)' < Left(q)
    BY <2>0, StepMoves, MovesRunOut
  <2>4. ASSUME stage'[q] = stage[q], visited'[q] = visited[q],
               q \in retried' <=> q \in retried
        PROVE  Left(q)' = Left(q)
    BY <2>4 DEF Left, Visits, Rank
  <2>5. Left(q) \in Int /\ Left(q)' \in Int
    BY <2>0, <2>1, RankType, VisitsType DEF Left, TypeOK
  <2>6. ASSUME NEW r \in Requests, r # q, Progress(r) \/ Failure(r)
        PROVE  Left(q)' = Left(q)
    <3>1. Frame(r)
      BY <2>6, ClientFrame, AcceptFrame, CancelFrame DEF Progress, Failure
    <3>2. visited'[q] = visited[q]
      BY <2>0, <2>6, StepVisits DEF Turns
    <3>3. q \in retried' <=> q \in retried
      BY <2>6, RetriesOfOthers
    <3>. QED
      BY <2>4, <2>6, <3>1, <3>2, <3>3 DEF Frame, Unchanged
  <2>7. ASSUME NEW r \in Requests, NEW k \in Kinds, NEW s \in Solutions,
               Ask(r, k, s)
        PROVE  Left(q)' <= Left(q)
    <3>1. stage[r] = "idle" /\ stage'[r] = k /\ k \in {"accept", "cancel"}
          /\ (q # r => stage'[q] = stage[q])
          /\ retried' = retried /\ visited' = visited
      BY <2>0, <2>7, ConstantsAssumption DEF Ask, Goto, TypeOK
    <3>2. CASE q = r
      <4>1. Moves(q)
        BY <3>1, <3>2 DEF Moves, Rank
      <4>. QED
        BY <2>0, <2>5, <4>1, MovesRunOut
    <3>3. CASE q # r
      BY <2>4, <2>5, <3>1, <3>3
    <3>. QED
      BY <3>2, <3>3
  <2>8. ASSUME OtherProgram \/ UNCHANGED vars PROVE Left(q)' <= Left(q)
    <3>1. UNCHANGED <<stage, visited, retried>>
      BY <2>8 DEF OtherProgram, OtherLocksEvent, OtherLocksOrigin,
         OtherCommits, requests, vars
    <3>. QED
      BY <2>4, <2>5, <3>1
  <2>9. Left(q)' <= Left(q)
    BY <2>3, <2>5, <2>6, <2>7, <2>8 DEF Next
  <2>. QED
    BY <2>2, <2>3, <2>9
<1>. QED
  BY <1>1, Invariance, TurnsInvariant, PTL DEF Spec
=============================================================================
