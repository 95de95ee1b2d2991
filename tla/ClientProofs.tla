----------------------------- MODULE ClientProofs -----------------------------
(***************************************************************************)
(* Proofs about Client, for any set of calls and either policy.            *)
(*                                                                         *)
(* The argument: only the call that holds the mutex moves the connection   *)
(* or its own transaction.  Its transaction has taken effect exactly when  *)
(* the call is waiting for the answer to its COMMIT or has been told so;   *)
(* the server may carry a COMMIT out later only for a call that was told   *)
(* "in doubt", and such a call never runs its operation again.             *)
(***************************************************************************)
EXTENDS Client, TLAPS

\* The mutex is held by the call that is inside, and by no other.
Exclusive == \A c \in Calls : stage[c] \in Inside <=> mutex = c

\* What call c has been told and what has become of its transaction.
CallOK(c) ==
    /\ stage[c] \in {"leave", "done"} <=> verdict[c] # "none"
    /\ effect[c] \in {0, 1}
    /\ stage[c] = "answer" => effect[c] = 1
    /\ verdict[c] = "committed" => effect[c] = 1
    /\ verdict[c] \in {"rolled_back", "failed"} => effect[c] = 0
    /\ (verdict[c] = "none" /\ stage[c] # "answer") => effect[c] = 0
    /\ c \in doubt => verdict[c] = "in_doubt" /\ effect[c] = 0
    /\ stage[c] \in {"idle", "waiting"} => attempt[c] = 0
    /\ stage[c] = "ensure" => attempt[c] = 1
    /\ stage[c] \in {"operate", "commit", "answer"} => IsOpen
    /\ (attempt[c] = 2 /\ stage[c] \in {"operate", "commit"}) => conn.path

IInv ==
    /\ TypeOK
    /\ Exclusive
    /\ OnDemandLetsGo
    /\ \A c \in Calls : CallOK(c)

\* No call is under way and nobody holds the mutex.
LEMMA InitIInv == Init => IInv
  <1> SUFFICES ASSUME Init PROVE IInv
    OBVIOUS
  <1>1. TypeOK
    BY DEF Init, TypeOK, Policies, Connection, Links, NoConnection, Stages,
           Verdicts
  <1>2. Exclusive
    BY ConstantsAssumption DEF Init, Exclusive, Inside
  <1>3. OnDemandLetsGo
    BY DEF Init, OnDemandLetsGo
  <1>4. ASSUME NEW c \in Calls PROVE CallOK(c)
    BY DEF Init, CallOK
  <1> QED
    BY <1>1, <1>2, <1>3, <1>4 DEF IInv

\* A step of one call leaves what concerns the others as it was.
LEMMA OthersKeep ==
  ASSUME IInv, NEW c \in Calls, Begin(c) \/ Step(c) \/ ResolveDoubt(c),
         NEW d \in Calls, d # c
  PROVE  /\ stage'[d] = stage[d] /\ attempt'[d] = attempt[d]
         /\ effect'[d] = effect[d] /\ verdict'[d] = verdict[d]
         /\ d \in doubt' <=> d \in doubt
  <1> USE DEF Begin, Step, ResolveDoubt, Lock, EnsureConnected, Dial, DialFails,
              SetSearchPath, SetSearchPathFails, Operate, OperationRollsBack,
              OperationBreaks, Commit, CommitAnswered, CommitInDoubt, Leave,
              Goto, End
  <1>1. /\ stage \in [Calls -> Stages] /\ attempt \in [Calls -> 0 .. 2]
        /\ effect \in [Calls -> Nat] /\ verdict \in [Calls -> Verdicts]
    BY DEF IInv, TypeOK
  <1>2. CASE Begin(c) \/ ResolveDoubt(c)
    BY <1>1, <1>2
  <1>3. CASE Step(c)
    BY <1>1, <1>3
  <1> QED
    BY <1>2, <1>3

\* A step of a call keeps the types.
LEMMA StepTypes ==
  ASSUME IInv, NEW c \in Calls, Begin(c) \/ Step(c) \/ ResolveDoubt(c)
  PROVE  TypeOK'
  <1> USE DEF Goto, End, Stages, Verdicts, Connection, Links, NoConnection
  <1>1. TypeOK
    BY DEF IInv
  <1> USE <1>1 DEF TypeOK
  <1>2. CASE Begin(c)
    BY <1>2 DEF Begin
  <1>3. CASE ResolveDoubt(c)
    <2>1. [effect EXCEPT ![c] = @ + 1] \in [Calls -> Nat]
      OBVIOUS
    <2>2. effect' = effect \/ effect' = [effect EXCEPT ![c] = @ + 1]
      BY <1>3 DEF ResolveDoubt
    <2>3. effect' \in [Calls -> Nat]
      <3>1. CASE effect' = effect
        BY <3>1
      <3>2. CASE effect' = [effect EXCEPT ![c] = @ + 1]
        BY <2>1, <3>2, Zenon
      <3> QED
        BY <2>2, <3>1, <3>2
    <2> QED
      BY <1>3, <2>3 DEF ResolveDoubt
  <1>4. CASE Lock(c) \/ EnsureConnected(c)
    BY <1>4 DEF Lock, EnsureConnected
  <1>5. CASE Dial(c) \/ DialFails(c)
    <2>1. CASE Dial(c)
      BY <2>1 DEF Dial
    <2>2. CASE DialFails(c)
      BY <2>2 DEF DialFails
    <2> QED
      BY <1>5, <2>1, <2>2
  <1>6. CASE SetSearchPath(c) \/ SetSearchPathFails(c)
    BY <1>6 DEF SetSearchPath, SetSearchPathFails
  <1>7. CASE Operate(c) \/ OperationRollsBack(c)
    BY <1>7 DEF Operate, OperationRollsBack
  <1>8. CASE OperationBreaks(c)
    BY <1>8 DEF OperationBreaks
  <1>9. CASE Commit(c) \/ CommitAnswered(c)
    <2>1. effect[c] + 1 \in Nat
      OBVIOUS
    <2> QED
      BY <1>9, <2>1 DEF Commit, CommitAnswered
  <1>10. CASE CommitInDoubt(c)
    BY <1>10 DEF CommitInDoubt
  <1>11. CASE Leave(c)
    BY <1>11 DEF Leave
  <1> QED
    BY <1>2, <1>3, <1>4, <1>5, <1>6, <1>7, <1>8, <1>9, <1>10, <1>11 DEF Step

\* Only the call that holds the mutex touches the connection, and it lets go
\* of an OnDemand one before the mutex (execute).
LEMMA StepExclusive ==
  ASSUME IInv, NEW c \in Calls, Begin(c) \/ Step(c) \/ ResolveDoubt(c)
  PROVE  /\ Exclusive'
         /\ OnDemandLetsGo'
         /\ mutex \notin {c, Free} => conn' = conn
  <1> USE DEF Goto, End, Inside
  <1>1. /\ mutex \in Calls \cup {Free} /\ stage \in [Calls -> Stages]
        /\ Exclusive /\ OnDemandLetsGo /\ Free \notin Calls
    BY ConstantsAssumption DEF IInv, TypeOK
  <1> USE <1>1 DEF Exclusive, OnDemandLetsGo
  <1>2. CASE Begin(c)
    BY <1>2 DEF Begin, Stages
  <1>3. CASE ResolveDoubt(c)
    BY <1>3 DEF ResolveDoubt
  <1>4. CASE Lock(c)
    BY <1>4 DEF Lock, Stages
  <1>5. CASE EnsureConnected(c)
    BY <1>5 DEF EnsureConnected, Stages
  <1>6. CASE Dial(c) \/ DialFails(c)
    BY <1>6 DEF Dial, DialFails, Stages
  <1>7. CASE SetSearchPath(c) \/ SetSearchPathFails(c)
    BY <1>7 DEF SetSearchPath, SetSearchPathFails, Stages
  <1>8. CASE Operate(c) \/ OperationRollsBack(c)
    BY <1>8 DEF Operate, OperationRollsBack, Stages
  <1>9. CASE OperationBreaks(c)
    BY <1>9 DEF OperationBreaks, Stages
  <1>10. CASE Commit(c) \/ CommitAnswered(c)
    BY <1>10 DEF Commit, CommitAnswered, Stages
  <1>11. CASE CommitInDoubt(c)
    BY <1>11 DEF CommitInDoubt, Stages
  <1>12. CASE Leave(c)
    BY <1>12 DEF Leave, Stages
  <1> QED
    BY <1>2, <1>3, <1>4, <1>5, <1>6, <1>7, <1>8, <1>9, <1>10, <1>11, <1>12
       DEF Step

\* A call is told what has become of its transaction.
LEMMA StepOwnCall ==
  ASSUME IInv, NEW c \in Calls, Begin(c) \/ Step(c) \/ ResolveDoubt(c)
  PROVE  CallOK(c)'
  <1> USE DEF Goto, End, CallOK, IsOpen
  <1>1. /\ stage \in [Calls -> Stages] /\ attempt \in [Calls -> 0 .. 2]
        /\ effect \in [Calls -> Nat] /\ verdict \in [Calls -> Verdicts]
        /\ conn \in Connection /\ CallOK(c)
    BY DEF IInv, TypeOK
  <1> USE <1>1
  <1>2. CASE Begin(c)
    BY <1>2 DEF Begin, Stages
  <1>3. CASE ResolveDoubt(c)
    BY <1>3 DEF ResolveDoubt
  <1>4. CASE Lock(c)
    BY <1>4 DEF Lock
  <1>5. CASE EnsureConnected(c)
    BY <1>5 DEF EnsureConnected
  <1>6. CASE Dial(c) \/ DialFails(c)
    BY <1>6 DEF Dial, DialFails
  <1>7. CASE SetSearchPath(c) \/ SetSearchPathFails(c)
    BY <1>7 DEF SetSearchPath, SetSearchPathFails, Connection
  <1>8. CASE Operate(c) \/ OperationRollsBack(c)
    BY <1>8 DEF Operate, OperationRollsBack
  <1>9. CASE OperationBreaks(c)
    BY <1>9 DEF OperationBreaks
  <1>10. CASE Commit(c)
    BY <1>10 DEF Commit
  <1>11. CASE CommitAnswered(c)
    BY <1>11 DEF CommitAnswered
  <1>12. CASE CommitInDoubt(c)
    BY <1>12 DEF CommitInDoubt
  <1>13. CASE Leave(c)
    BY <1>13 DEF Leave
  <1> QED
    BY <1>2, <1>3, <1>4, <1>5, <1>6, <1>7, <1>8, <1>9, <1>10, <1>11, <1>12,
       <1>13 DEF Step

\* Every step of a call, of the network and of the server keeps it.
LEMMA NextIInv == IInv /\ [Next]_vars => IInv'
  <1> SUFFICES ASSUME IInv, [Next]_vars PROVE IInv'
    OBVIOUS
  <1>1. CASE DropSilently
    <2>1. conn \in Connection /\ conn' \in Connection /\ conn'.path = conn.path
      BY <1>1 DEF DropSilently, IInv, TypeOK, Connection, Links
    <2>2. TypeOK' /\ Exclusive'
      BY <1>1, <2>1 DEF DropSilently, IInv, TypeOK, Exclusive
    <2>3. OnDemandLetsGo'
      BY <1>1 DEF DropSilently, IInv, OnDemandLetsGo, NoConnection
    <2>4. \A c \in Calls : CallOK(c)'
      BY <1>1, <2>1 DEF DropSilently, IInv, CallOK, IsOpen
    <2> QED
      BY <2>2, <2>3, <2>4 DEF IInv
  <1>2. ASSUME NEW c \in Calls, Begin(c) \/ Step(c) \/ ResolveDoubt(c)
        PROVE  IInv'
    <2>1. TypeOK' /\ Exclusive' /\ OnDemandLetsGo' /\ CallOK(c)'
      BY <1>2, StepTypes, StepExclusive, StepOwnCall
    <2>2. ASSUME NEW d \in Calls, d # c PROVE CallOK(d)'
      <3>1. /\ stage'[d] = stage[d] /\ attempt'[d] = attempt[d]
            /\ effect'[d] = effect[d] /\ verdict'[d] = verdict[d]
            /\ d \in doubt' <=> d \in doubt
        BY <1>2, <2>2, OthersKeep
      <3>2. CallOK(d)
        BY DEF IInv
      <3>3. stage[d] \in {"operate", "commit", "answer"} => conn' = conn
        <4>1. stage[d] \in {"operate", "commit", "answer"} => mutex = d
          BY DEF IInv, Exclusive, Inside
        <4> QED
          BY <1>2, <2>2, <4>1, StepExclusive, ConstantsAssumption
      <3> QED
        BY <3>1, <3>2, <3>3 DEF CallOK, IsOpen
    <2> QED
      BY <2>1, <2>2 DEF IInv
  <1>3. CASE UNCHANGED vars
    BY <1>3 DEF vars, IInv, TypeOK, Exclusive, OnDemandLetsGo, CallOK, IsOpen
  <1> QED
    BY <1>1, <1>2, <1>3 DEF Next

\* The inductive invariant holds of every state: one call at a time is inside,
\* and is told what became of its transaction (Client::execute).
THEOREM Invariance == Spec => []IInv
  BY InitIInv, NextIInv, PTL DEF Spec

\* The client's variables always have their types; in particular no
\* operation is ever attempted a third time.
THEOREM TypeCorrect == Spec => []TypeOK
  <1>1. IInv => TypeOK
    BY DEF IInv
  <1> QED
    BY <1>1, Invariance, PTL

\* However a call of execute() ends, an OnDemand client holds no connection
\* afterwards.
THEOREM OnDemandClosed == Spec => []OnDemandLetsGo
  <1>1. IInv => OnDemandLetsGo
    BY DEF IInv
  <1> QED
    BY <1>1, Invariance, PTL

\* The retry never runs without the search path.
THEOREM RetryFresh == Spec => []RetryOnFreshSession
  <1>1. IInv => RetryOnFreshSession
    BY DEF IInv, RetryOnFreshSession, CallOK
  <1> QED
    BY <1>1, Invariance, PTL

-----------------------------------------------------------------------------
\* Every step of the client is a step of the promise, or a stutter.
LEMMA StepRefines == IInv /\ [Next]_vars => [Promise!Next]_(Promise!vars)
  <1> SUFFICES ASSUME IInv, [Next]_vars
               PROVE  [Promise!Next]_(Promise!vars)
    OBVIOUS
  <1> USE DEF Promise!vars, Promise!Verdicts
  <1>1. ASSUME UNCHANGED <<effect, verdict>>
        PROVE  UNCHANGED Promise!vars
    BY <1>1
  <1>2. ASSUME NEW c \in Calls, NEW v \in Verdicts \ {"none"},
               verdict[c] = "none",
               verdict' = [verdict EXCEPT ![c] = v], UNCHANGED effect,
               v = "committed" => effect[c] = 1,
               v \in {"rolled_back", "failed"} => effect[c] = 0
        PROVE  Promise!Next
    BY <1>2 DEF Promise!Next, Promise!Tell, Verdicts
  <1>3. ASSUME NEW c \in Calls, effect[c] = 0,
               verdict[c] \in {"none", "in_doubt"},
               effect' = [effect EXCEPT ![c] = @ + 1], UNCHANGED verdict
        PROVE  Promise!Next
    <2>1. effect' = [effect EXCEPT ![c] = 1]
      BY <1>3 DEF IInv, TypeOK
    <2> QED
      BY <1>3, <2>1 DEF Promise!Next, Promise!TakeEffect
  <1>4. CASE DropSilently \/ UNCHANGED vars
    BY <1>4 DEF DropSilently, vars
  <1>5. ASSUME NEW c \in Calls, Begin(c) \/ Step(c) \/ ResolveDoubt(c)
        PROVE  [Promise!Next]_(Promise!vars)
    <2>0. CallOK(c)
      BY DEF IInv
    <2>1. CASE Begin(c) \/ Lock(c) \/ EnsureConnected(c) \/ Dial(c)
               \/ SetSearchPath(c) \/ Operate(c) \/ Leave(c)
      BY <1>1, <2>1 DEF Begin, Lock, EnsureConnected, Dial, SetSearchPath,
                        Operate, Leave
    <2>2. CASE DialFails(c) \/ SetSearchPathFails(c) \/ OperationRollsBack(c)
      <3>1. /\ verdict[c] = "none" /\ effect[c] = 0
            /\ UNCHANGED effect
        BY <2>0, <2>2 DEF CallOK, DialFails, SetSearchPathFails,
                          OperationRollsBack
      <3>2. \E v \in {"rolled_back", "failed"} :
               verdict' = [verdict EXCEPT ![c] = v]
        BY <2>2 DEF DialFails, SetSearchPathFails, OperationRollsBack, End
      <3> QED
        BY <1>2, <3>1, <3>2 DEF Verdicts
    <2>3. CASE OperationBreaks(c)
      <3>1. /\ verdict[c] = "none" /\ effect[c] = 0
            /\ UNCHANGED effect
        BY <2>0, <2>3 DEF CallOK, OperationBreaks
      <3>2. \/ UNCHANGED verdict
            \/ verdict' = [verdict EXCEPT ![c] = "failed"]
        BY <2>3 DEF OperationBreaks, End
      <3> QED
        BY <1>1, <1>2, <3>1, <3>2 DEF Verdicts
    <2>4. CASE Commit(c)
      BY <1>3, <2>0, <2>4 DEF CallOK, Commit
    <2>5. CASE CommitAnswered(c)
      BY <1>2, <2>0, <2>5 DEF CallOK, CommitAnswered, End, Verdicts
    <2>6. CASE CommitInDoubt(c)
      BY <1>2, <2>0, <2>6 DEF CallOK, CommitInDoubt, End, Verdicts
    <2>7. CASE ResolveDoubt(c)
      BY <1>1, <1>3, <2>0, <2>7 DEF CallOK, ResolveDoubt
    <2> QED
      BY <1>5, <2>1, <2>2, <2>3, <2>4, <2>5, <2>6, <2>7 DEF Step
  <1> QED
    BY <1>4, <1>5 DEF Next

\* execute() runs its caller's transaction at most once, and tells the truth
\* about it: the client implements AtMostOnceExecution.
THEOREM ExecutesAtMostOnce == Spec => ImplementsAtMostOnce
  <1>1. Init => Promise!Init
    BY DEF Init, Promise!Init
  <1> QED
    BY <1>1, Invariance, StepRefines, PTL
       DEF Spec, ImplementsAtMostOnce, Promise!Spec

-----------------------------------------------------------------------------
(* What the proofs can say of "one retry, never a loop, so a database that  *)
(* is simply down fails fast instead of hanging the request": that a call  *)
(* has only so many steps to take, and is never left inside execute() with *)
(* none it could take.                                                     *)

\* How far from its end a stage is.
Rank == [idle |-> 9, waiting |-> 8, ensure |-> 7, dial |-> 6, set_path |-> 5,
         operate |-> 4, commit |-> 3, answer |-> 2, leave |-> 1, done |-> 0]

\* A bound on the steps call c has still to take; the retry costs three.
Left(c) == 3 * (2 - attempt[c]) + Rank[stage[c]]

\* What a call has left to do: at most fifteen steps, one fewer with each
\* it takes.
RunsOut ==
    \A c \in Calls :
        /\ Left(c) \in 0 .. 15
        /\ Left(c)' <= Left(c)
        /\ (Begin(c) \/ Step(c)) => Left(c)' < Left(c)

\* The rank of every stage is a number below ten.
LEMMA RankType == \A s \in Stages : Rank[s] \in 0 .. 9
  BY DEF Rank, Stages

\* Another attempt more than pays for the way back to the dialling.
LEMMA Weighing ==
  ASSUME NEW a \in 0 .. 2, NEW b \in 0 .. 2, a < b,
         NEW q \in 0 .. 9, NEW r \in 0 .. 9, q < r + 3
  PROVE  3 * (2 - b) + q < 3 * (2 - a) + r
  <1>1. /\ 3 * (2 - 0) = 6 /\ 3 * (2 - 1) = 3 /\ 3 * (2 - 2) = 0
        /\ a \in {0, 1} /\ b \in {1, 2} /\ (a = 1 => b = 2)
    OBVIOUS
  <1> QED
    BY <1>1

\* A step of a call brings it nearer to its end.
LEMMA StepRunsOut ==
  ASSUME IInv, NEW c \in Calls, Begin(c) \/ Step(c) \/ ResolveDoubt(c)
  PROVE  /\ Left(c)' <= Left(c)
         /\ (Begin(c) \/ Step(c)) => Left(c)' < Left(c)
  <1> DEFINE Nearer == Left(c)' \in Int /\ Left(c)' < Left(c)
  <1>1. /\ stage \in [Calls -> Stages] /\ attempt \in [Calls -> 0 .. 2]
        /\ CallOK(c)
    BY DEF IInv, TypeOK
  <1>2. attempt[c] \in 0 .. 2 /\ Rank[stage[c]] \in 0 .. 9
    BY <1>1, RankType
  <1>3. Left(c) \in Int
    BY <1>2 DEF Left
  <1>4. ASSUME attempt' = attempt, NEW s \in Stages,
               stage' = [stage EXCEPT ![c] = s], Rank[s] < Rank[stage[c]]
        PROVE  Nearer
    <2>1. stage'[c] = s
      BY <1>1, <1>4
    <2> QED
      BY <1>2, <1>4, <2>1, RankType DEF Left
  <1>5. ASSUME NEW a \in 0 .. 2, attempt'[c] = a, attempt[c] < a,
               NEW s \in Stages, stage' = [stage EXCEPT ![c] = s],
               Rank[s] < Rank[stage[c]] + 3
        PROVE  Nearer
    <2>1. stage'[c] = s /\ Rank[s] \in 0 .. 9
      BY <1>1, <1>5, RankType
    <2>2. Rank[s] < Rank[stage[c]] + 3 /\ a \in 0 .. 2 /\ attempt[c] < a
      BY <1>5
    <2>3. 3 * (2 - a) + Rank[s] < 3 * (2 - attempt[c]) + Rank[stage[c]]
      BY <1>2, <2>1, <2>2, Weighing
    <2>4. 3 * (2 - a) + Rank[s] \in Int
          /\ 3 * (2 - attempt[c]) + Rank[stage[c]] \in Int
      BY <1>2, <2>1
    <2>5. Left(c)' = 3 * (2 - a) + Rank[s]
      BY <1>5, <2>1 DEF Left, Rank
    <2> QED
      BY <2>3, <2>4, <2>5 DEF Left
  <1>6. ASSUME Begin(c) PROVE Nearer
    BY <1>4, <1>6 DEF Begin, Goto, Rank, Stages
  <1>7. ASSUME ResolveDoubt(c) PROVE Left(c)' = Left(c)
    BY <1>7 DEF ResolveDoubt, Left
  <1>8. ASSUME Lock(c) PROVE Nearer
    <2>1. attempt[c] = 0 /\ attempt'[c] = 1 /\ stage[c] = "waiting"
      BY <1>1, <1>8 DEF Lock, CallOK
    <2>2. stage' = [stage EXCEPT ![c] = "ensure"]
      BY <1>8 DEF Lock, Goto
    <2> QED
      BY <1>5, <2>1, <2>2 DEF Rank, Stages
  <1>9. ASSUME EnsureConnected(c) PROVE Nearer
    <2>1. PICK s \in {"operate", "dial"} : stage' = [stage EXCEPT ![c] = s]
      BY <1>9 DEF EnsureConnected, Goto
    <2>2. s \in Stages /\ Rank[s] < Rank[stage[c]]
      BY <1>9 DEF EnsureConnected, Rank, Stages
    <2> QED
      BY <1>4, <1>9, <2>1, <2>2 DEF EnsureConnected
  <1>10. ASSUME Dial(c) \/ DialFails(c) PROVE Nearer
    BY <1>4, <1>10 DEF Dial, DialFails, Goto, End, Rank, Stages
  <1>11. ASSUME SetSearchPath(c) \/ SetSearchPathFails(c) PROVE Nearer
    BY <1>4, <1>11 DEF SetSearchPath, SetSearchPathFails, Goto, End, Rank, Stages
  <1>12. ASSUME Operate(c) \/ OperationRollsBack(c) PROVE Nearer
    BY <1>4, <1>12 DEF Operate, OperationRollsBack, Goto, End, Rank, Stages
  <1>13. ASSUME OperationBreaks(c) PROVE Nearer
    <2>1. CASE attempt[c] = 1 /\ attempt' = [attempt EXCEPT ![c] = 2]
               /\ Goto(c, "dial")
      <3>1. attempt'[c] = 2 /\ stage[c] = "operate"
        BY <1>1, <1>13, <2>1 DEF OperationBreaks
      <3> QED
        BY <1>5, <2>1, <3>1 DEF Goto, Rank, Stages
    <2>2. CASE UNCHANGED attempt /\ End(c, "failed")
      BY <1>4, <1>13, <2>2 DEF OperationBreaks, End, Goto, Rank, Stages
    <2> QED
      BY <1>13, <2>1, <2>2 DEF OperationBreaks
  <1>14. ASSUME Commit(c) \/ CommitAnswered(c) PROVE Nearer
    BY <1>4, <1>14 DEF Commit, CommitAnswered, Goto, End, Rank, Stages
  <1>15. ASSUME CommitInDoubt(c) PROVE Nearer
    BY <1>4, <1>15 DEF CommitInDoubt, Goto, End, Rank, Stages
  <1>16. ASSUME Leave(c) PROVE Nearer
    BY <1>4, <1>16 DEF Leave, Goto, Rank, Stages
  <1> QED
    BY <1>3, <1>6, <1>7, <1>8, <1>9, <1>10, <1>11, <1>12, <1>13, <1>14, <1>15,
       <1>16 DEF Step

\* A call of execute() takes at most fifteen steps, whatever the network does
\* and whatever the other calls do: a second attempt, but never a loop.
THEOREM CallsRunOut == Spec => [][RunsOut]_vars
  <1>1. IInv /\ [Next]_vars => [RunsOut]_vars
    <2> SUFFICES ASSUME IInv, [Next]_vars, NEW c \in Calls
                 PROVE  /\ Left(c) \in 0 .. 15
                        /\ Left(c)' <= Left(c)
                        /\ (Begin(c) \/ Step(c)) => Left(c)' < Left(c)
      BY DEF RunsOut
    <2>1. attempt[c] \in 0 .. 2 /\ Rank[stage[c]] \in 0 .. 9
      BY RankType DEF IInv, TypeOK
    <2>2. Left(c) \in 0 .. 15
      BY <2>1 DEF Left
    <2>3. ASSUME attempt'[c] = attempt[c], stage'[c] = stage[c]
          PROVE  Left(c)' <= Left(c)
      BY <2>2, <2>3 DEF Left
    <2>4. ASSUME DropSilently \/ UNCHANGED vars PROVE Left(c)' <= Left(c)
      <3>1. attempt' = attempt /\ stage' = stage
        BY <2>4 DEF DropSilently, vars
      <3> QED
        BY <2>3, <3>1
    <2>5. ASSUME NEW d \in Calls, Begin(d) \/ Step(d) \/ ResolveDoubt(d)
          PROVE  Left(c)' <= Left(c)
      BY <2>3, <2>5, OthersKeep, StepRunsOut
    <2> QED
      BY <2>2, <2>4, <2>5, StepRunsOut DEF Next
  <1> QED
    BY <1>1, Invariance, PTL DEF Spec

\* The guard of some step of call c holds, c being inside execute().
CanGoOn(c) ==
    \/ stage[c] \in {"ensure", "dial", "set_path", "leave"}
    \/ stage[c] \in {"operate", "commit", "answer"} /\ IsOpen

\* A call that waits for the mutex can have it, or waits for one that can go
\* on: no way through execute() leaves the mutex held by a call that is over,
\* nor an operation running without a connection.
WaitersAreServed == mutex = Free \/ (mutex \in Calls /\ CanGoOn(mutex))

\* The mutex never stays with a call that has no step to take: with
\* CallsRunOut, it comes free after fifteen steps of the call that holds it.
THEOREM MutexComesFree == Spec => []WaitersAreServed
  <1>1. IInv => WaitersAreServed
    <2> SUFFICES ASSUME IInv, mutex # Free PROVE mutex \in Calls /\ CanGoOn(mutex)
      BY DEF WaitersAreServed
    <2>1. mutex \in Calls /\ stage[mutex] \in Inside /\ CallOK(mutex)
      BY DEF IInv, TypeOK, Exclusive
    <2> QED
      BY <2>1 DEF CanGoOn, CallOK, Inside
  <1> QED
    BY <1>1, Invariance, PTL
===============================================================================
