-------------------------- MODULE UserAdminProofs ---------------------------
(***************************************************************************)
(* Proofs about UserAdmin, for every set of users, of sessions and of      *)
(* functions in use.                                                       *)
(***************************************************************************)
EXTENDS UserAdmin, FiniteSetTheorems, WellFoundedInduction, TLAPS

(***************************************************************************)
(* What is true of a session between its statements: what it has counted   *)
(* it has locked; before it counts it has nothing locked; what it has yet  *)
(* to lock comes after what it has locked; and a sweep has locked only     *)
(* what has expired.                                                       *)
(***************************************************************************)
SessionOK(s) ==
    /\ txn[s].op \notin {"none", "sweep"} => txn[s].target \in Users
    /\ \A u \in txn[s].counted : lock[u] = s
    /\ txn[s].stage \in {"idle", "actor", "target", "snapshot"} =>
          \A u \in Users : lock[u] # s
    /\ Counting(s) =>
          \A u \in txn[s].rows, v \in Users : lock[v] = s => v < u
    /\ txn[s].op = "sweep" => \A u \in txn[s].counted : Expired(u)
    /\ txn[s].stage # "idle" => txn[s].op # "none"
    /\ txn[s].op = "sweep" => txn[s].stage = "lock"

IInv == TypeOK /\ \A s \in Sessions : SessionOK(s)

\* A step of another session leaves t's locks alone, and what it has locked.
LEMMA OthersKeep ==
    ASSUME IInv, NEW t \in Sessions, NEW D,
           txn'[t] = [txn[t] EXCEPT !.rows = @ \ D] \/ txn'[t] = txn[t],
           \A u \in Users : (lock'[u] = t) <=> (lock[u] = t),
           \A u \in Users : (lock[u] = t /\ Expired(u)) => Expired(u)'
    PROVE  SessionOK(t)'
<1>1. /\ txn'[t].stage = txn[t].stage
      /\ txn'[t].op = txn[t].op
      /\ txn'[t].target = txn[t].target
      /\ txn'[t].counted = txn[t].counted
      /\ txn'[t].rows \subseteq txn[t].rows
      /\ txn[t].counted \subseteq Users
      /\ txn[t].rows \subseteq Users
  BY DEF IInv, TypeOK, Transactions
<1>2. SessionOK(t)
  BY DEF IInv
<1>. QED
  BY <1>1, <1>2 DEF SessionOK, Counting

\* No transaction is open.
LEMMA InitInvariant == Init => IInv
  BY ConstantsAssumption
     DEF Init, IInv, TypeOK, SessionOK, NoTransaction, Transactions, Stages,
         Levels, Counting

-----------------------------------------------------------------------------
(* Every step preserves IInv: first the type, then the sessions.           *)

\* What the functions make of a row is one.
LEMMA RowFacts ==
    /\ Absent \in Rows
    /\ \A row \in Rows : Reset(row) \in Rows
    /\ \A row \in Rows \ {Absent}, l \in Levels :
          [row EXCEPT !.level = l] \in Rows
    /\ \A row \in Rows \ {Absent}, d \in Deadlines :
          [row EXCEPT !.deadline = d] \in Rows
  BY DEF Rows, Absent, Reset, Levels, Deadlines

\* A function writes a row.
LEMMA WrittenIsRow ==
    ASSUME TypeOK, NEW s \in Sessions, txn[s].target \in Users
    PROVE  Written(s) \in Rows
<1>. DEFINE row == users[txn[s].target]
<1>1. row \in Rows /\ txn[s].level \in Levels
  BY DEF TypeOK, Transactions
<1>2. /\ [level |-> txn[s].level, deadline |-> "none"] \in Rows
      /\ [level |-> txn[s].level, deadline |-> "pending"] \in Rows
  BY <1>1 DEF Rows, Deadlines
<1>3. /\ row # Absent => [row EXCEPT !.level = "admin"] \in Rows
      /\ row # Absent => [row EXCEPT !.level = "ordinary"] \in Rows
      /\ row # Absent => [row EXCEPT !.deadline = "none"] \in Rows
      /\ Reset(row) \in Rows
  BY <1>1, RowFacts DEF Levels, Deadlines
<1>. QED
  BY <1>1, <1>2, <1>3, RowFacts DEF Written

\* The end of a transaction keeps the types.
LEMMA EndedType ==
    ASSUME TypeOK, NEW s \in Sessions, NEW D, Ended(s, D)
    PROVE  /\ lock' \in [Users -> Sessions \cup {Free}]
           /\ txn' \in [Sessions -> Transactions]
<1>1. NoTransaction \in Transactions
  BY DEF NoTransaction, Transactions, Stages, Levels
<1>2. ASSUME NEW t \in Sessions
      PROVE  [txn[t] EXCEPT !.rows = @ \ D] \in Transactions
  BY <1>2 DEF TypeOK, Transactions
<1>. QED
  BY <1>1, <1>2 DEF Ended, TypeOK

\* What the end of a transaction leaves of the sessions, if the rows it has
\* changed were locked by nobody else.
LEMMA EndedSessions ==
    ASSUME IInv, NEW s \in Sessions, NEW D, Ended(s, D),
           \A u \in Users : (lock[u] \notin {Free, s} /\ Expired(u)) => Expired(u)'
    PROVE  \A t \in Sessions : SessionOK(t)'
<1>. SUFFICES ASSUME NEW t \in Sessions PROVE SessionOK(t)'
  OBVIOUS
<1>1. CASE t = s
  <2>1. txn'[s] = NoTransaction
    BY DEF Ended
  <2>2. \A u \in Users : lock'[u] # s
    BY ConstantsAssumption DEF Ended
  <2>. QED
    BY <1>1, <2>1, <2>2 DEF SessionOK, NoTransaction, Counting
<1>2. CASE t # s
  <2>1. txn'[t] = [txn[t] EXCEPT !.rows = @ \ D]
    BY <1>2 DEF Ended
  <2>2. \A u \in Users : (lock'[u] = t) <=> (lock[u] = t)
    BY <1>2, ConstantsAssumption DEF Ended
  <2>3. \A u \in Users : (lock[u] = t /\ Expired(u)) => Expired(u)'
    BY <1>2, ConstantsAssumption
  <2>. QED
    BY <2>1, <2>2, <2>3, OthersKeep
<1>. QED
  BY <1>1, <1>2

\* A step that locks and writes nothing disturbs no session but its own.
LEMMA OwnStep ==
    ASSUME IInv, NEW s \in Sessions, NEW txns,
           txn' = [txn EXCEPT ![s] = txns], UNCHANGED <<users, lock>>,
           txns \in Transactions, SessionOK(s)'
    PROVE  IInv'
<1>1. TypeOK'
  BY DEF IInv, TypeOK
<1>2. ASSUME NEW t \in Sessions, t # s PROVE SessionOK(t)'
  <2>1. txn'[t] = txn[t]
    BY <1>2 DEF IInv, TypeOK
  <2>2. /\ \A u \in Users : (lock'[u] = t) <=> (lock[u] = t)
        /\ \A u \in Users : (lock[u] = t /\ Expired(u)) => Expired(u)'
    BY DEF Expired
  <2>. QED
    BY <2>1, <2>2, OthersKeep
<1>. QED
  BY <1>1, <1>2 DEF IInv

\* A transaction begins with nothing locked or counted.
LEMMA CallInvariant ==
    ASSUME IInv, NEW s \in Sessions, Call(s)
    PROVE  IInv'
<1>1. ASSUME NEW op \in Writes, NEW target \in Users,
             NEW level \in Levels, CallAdminFunction(s, op, target, level)
      PROVE  IInv'
  <2>. DEFINE txns == [NoTransaction EXCEPT !.stage = "actor", !.op = op,
                          !.target = target, !.level = level]
  <2>1. txns \in Transactions
    BY DEF Transactions, NoTransaction, Stages, Levels
  <2>2. txn' = [txn EXCEPT ![s] = txns] /\ UNCHANGED <<users, lock>>
    BY <1>1 DEF CallAdminFunction
  <2>3. txn'[s] = txns
    BY <2>2 DEF IInv, TypeOK
  <2>4. \A u \in Users : lock'[u] # s
    BY <1>1, <2>2 DEF IInv, SessionOK, CallAdminFunction
  <2>5. SessionOK(s)'
    BY <2>3, <2>4 DEF SessionOK, Counting, NoTransaction, Writes
  <2>. QED
    BY <2>1, <2>2, <2>5, OwnStep
<1>2. ASSUME NEW u \in Users, CallUpdatePassword(s, u)
      PROVE  IInv'
  <2>. DEFINE txns == [NoTransaction EXCEPT !.stage = "write",
                          !.op = "change_password", !.target = u,
                          !.rows = {v \in {u} : Expired(v)}]
  <2>1. txns \in Transactions
    BY DEF Transactions, NoTransaction, Stages, Levels
  <2>2. txn' = [txn EXCEPT ![s] = txns] /\ UNCHANGED <<users, lock>>
    BY <1>2 DEF CallUpdatePassword
  <2>3. txn'[s] = txns
    BY <2>2 DEF IInv, TypeOK
  <2>4. SessionOK(s)'
    BY <2>3 DEF SessionOK, Counting, NoTransaction
  <2>. QED
    BY <2>1, <2>2, <2>4, OwnStep
<1>3. ASSUME CallSweep(s)
      PROVE  IInv'
  <2>. DEFINE txns == [NoTransaction EXCEPT !.stage = "lock", !.op = "sweep",
                          !.rows = {u \in Users : Expired(u)}]
  <2>1. txns \in Transactions
    BY DEF Transactions, NoTransaction, Stages, Levels
  <2>2. txn' = [txn EXCEPT ![s] = txns] /\ UNCHANGED <<users, lock>>
    BY <1>3 DEF CallSweep
  <2>3. txn'[s] = txns
    BY <2>2 DEF IInv, TypeOK
  <2>4. SessionOK(s)'
    BY <2>3 DEF SessionOK, Counting, NoTransaction
  <2>. QED
    BY <2>1, <2>2, <2>4, OwnStep
<1>. QED
  BY <1>1, <1>2, <1>3 DEF Call

\* The statements that only move their own transaction on.
LEMMA MoveInvariant ==
    ASSUME IInv, NEW s \in Sessions,
           \/ RequireAdmin(s) \/ TargetIsNoAdmin(s) \/ TargetIsAdmin(s)
           \/ FindAdministrators(s) \/ EnoughAdministrators(s)
    PROVE  IInv'
<1>0. /\ txn[s] \in Transactions /\ DOMAIN txn = Sessions
      /\ SessionOK(s)
  BY DEF IInv, TypeOK
<1>1. CASE RequireAdmin(s)
  <2>. DEFINE txns == [txn[s] EXCEPT !.stage = AfterActor(s)]
  <2>1. txns \in Transactions
    BY <1>0 DEF Transactions, AfterActor, Stages
  <2>2. txn' = [txn EXCEPT ![s] = txns] /\ UNCHANGED <<users, lock>>
    BY <1>1 DEF RequireAdmin, Goto
  <2>3. txn'[s] = txns
    BY <1>0, <2>2
  <2>4. SessionOK(s)'
    BY <1>0, <1>1, <2>2, <2>3
       DEF SessionOK, Counting, RequireAdmin, AfterActor, Transactions
  <2>. QED
    BY <2>1, <2>2, <2>4, OwnStep
<1>2. CASE TargetIsNoAdmin(s) \/ TargetIsAdmin(s) \/ EnoughAdministrators(s)
  <2>1. PICK stage \in {"write", "snapshot"} :
          /\ txn' = [txn EXCEPT ![s].stage = stage]
          /\ UNCHANGED <<users, lock>>
          /\ txn[s].stage = "target" \/ (Counting(s) /\ stage = "write")
    <3>1. CASE TargetIsNoAdmin(s)
      BY <3>1, "write" \in {"write", "snapshot"} DEF TargetIsNoAdmin, Goto
    <3>2. CASE TargetIsAdmin(s)
      BY <3>2, "snapshot" \in {"write", "snapshot"} DEF TargetIsAdmin, Goto
    <3>3. CASE EnoughAdministrators(s)
      BY <3>3, "write" \in {"write", "snapshot"}
         DEF EnoughAdministrators, Goto
    <3>. QED
      BY <1>2, <3>1, <3>2, <3>3
  <2>. DEFINE txns == [txn[s] EXCEPT !.stage = stage]
  <2>2. txns \in Transactions
    BY <1>0 DEF Transactions, Stages
  <2>3. txn' = [txn EXCEPT ![s] = txns] /\ txn'[s] = txns
    BY <1>0, <2>1
  <2>4. SessionOK(s)'
    BY <1>0, <2>1, <2>3 DEF SessionOK, Counting, Transactions
  <2>. QED
    BY <2>1, <2>2, <2>3, <2>4, OwnStep
<1>3. CASE FindAdministrators(s)
  <2>. DEFINE txns == [txn[s] EXCEPT !.stage = "lock", !.rows = Administrators]
  <2>1. txns \in Transactions
    BY <1>0 DEF Transactions, Stages, Administrators
  <2>2. txn' = [txn EXCEPT ![s] = txns] /\ UNCHANGED <<users, lock>>
    BY <1>3 DEF FindAdministrators
  <2>3. txn'[s] = txns
    BY <1>0, <2>2
  <2>4. SessionOK(s)'
    BY <1>0, <1>3, <2>2, <2>3
       DEF SessionOK, Counting, FindAdministrators, Transactions
  <2>. QED
    BY <2>1, <2>2, <2>4, OwnStep
<1>. QED
  BY <1>1, <1>2, <1>3

\* A row is locked by one session, and counted as it is then (FOR UPDATE).
LEMMA LockRowInvariant ==
    ASSUME IInv, NEW s \in Sessions, NEW u \in Users, LockRow(s, u)
    PROVE  IInv'
<1>. DEFINE txns == [txn[s] EXCEPT !.rows = @ \ {u},
                       !.counted = IF Matches(s, u) THEN @ \cup {u} ELSE @]
<1>1. /\ txn[s] \in Transactions /\ DOMAIN txn = Sessions
      /\ SessionOK(s)
      /\ lock \in [Users -> Sessions \cup {Free}]
      /\ users \in [Users -> Rows]
      /\ u \in txn[s].rows
  BY DEF IInv, TypeOK, LockRow, NextRows
<1>2. txns \in Transactions
  BY <1>1 DEF Transactions
<1>3. /\ txn' = [txn EXCEPT ![s] = txns]
      /\ lock' = [lock EXCEPT ![u] = s]
      /\ users' = users
  BY DEF LockRow
<1>4. txn'[s] = txns
  BY <1>1, <1>3
<1>5. TypeOK'
  BY <1>1, <1>2, <1>3 DEF IInv, TypeOK
<1>6. \A v \in Users : lock'[v] = s <=> (lock[v] = s \/ v = u)
  BY <1>1, <1>3
<1>7. txn[s].counted \subseteq Users /\ txn[s].rows \subseteq Users
  BY <1>1 DEF Transactions
<1>8. SessionOK(s)'
  <2>1. \A v \in txns.counted : lock'[v] = s
    BY <1>1, <1>6, <1>7 DEF SessionOK, Transactions
  <2>2. Counting(s)' => \A w \in txns.rows, v \in Users : lock'[v] = s => v < w
    <3>. SUFFICES ASSUME Counting(s)', NEW w \in txns.rows, NEW v \in Users,
                         lock'[v] = s
                  PROVE  v < w
      OBVIOUS
    <3>1. Counting(s) /\ w \in txn[s].rows /\ w # u
      BY <1>1, <1>4 DEF Counting, Transactions
    <3>2. u <= w
      BY <3>1 DEF LockRow, NextRows, Counting
    <3>3. u \in Int /\ w \in Int /\ v \in Int
      BY <1>7, <3>1, ConstantsAssumption
    <3>4. lock[v] = s => v < w
      BY <1>1, <3>1 DEF SessionOK
    <3>. QED
      BY <1>6, <3>1, <3>2, <3>3, <3>4
  <2>3. txn[s].op = "sweep" => \A v \in txns.counted : Expired(v)'
    BY <1>1, <1>3 DEF SessionOK, Matches, Expired, Transactions
  <2>4. /\ txns.op = txn[s].op /\ txns.stage = "lock" /\ txn[s].stage = "lock"
        /\ txns.target = txn[s].target
    BY <1>1 DEF LockRow, Transactions
  <2>. QED
    BY <1>1, <1>4, <2>1, <2>2, <2>3, <2>4 DEF SessionOK
<1>9. ASSUME NEW t \in Sessions, t # s PROVE SessionOK(t)'
  <2>1. txn'[t] = txn[t]
    BY <1>1, <1>3, <1>9
  <2>2. lock[u] # t
    BY <1>9, ConstantsAssumption DEF LockRow
  <2>3. \A v \in Users : (lock'[v] = t) <=> (lock[v] = t)
    BY <1>1, <1>3, <1>9, <2>2
  <2>4. \A v \in Users : (lock[v] = t /\ Expired(v)) => Expired(v)'
    BY <1>3 DEF Expired
  <2>. QED
    BY <2>1, <2>3, <2>4, OthersKeep
<1>. QED
  BY <1>5, <1>8, <1>9 DEF IInv

\* A transaction that ends gives its locks up.
LEMMA EndInvariant ==
    ASSUME IInv, NEW s \in Sessions, RefuseActor(s) \/ RefuseLast(s) \/ Abort(s)
    PROVE  IInv'
<1>1. Ended(s, {}) /\ users' = users
  BY DEF RefuseActor, RefuseLast, Abort
<1>2. TypeOK'
  BY <1>1, EndedType DEF IInv, TypeOK
<1>3. \A t \in Sessions : SessionOK(t)'
  BY <1>1, EndedSessions DEF Expired
<1>. QED
  BY <1>2, <1>3 DEF IInv

\* A function writes the row of its target, which nobody else has locked.
LEMMA WriteFacts ==
    ASSUME IInv, NEW s \in Sessions, Write(s)
    PROVE  /\ txn[s].target \in Users
           /\ lock[txn[s].target] \in {Free, s}
           /\ txn[s].op \notin {"none", "sweep"}
           /\ users' \in [Users -> Rows]
           /\ \A u \in Users \ {txn[s].target} : users'[u] = users[u]
           /\ users'[txn[s].target] = Written(s)
<1>1. txn[s].op \notin {"none", "sweep"} /\ txn[s].target \in Users
  BY DEF IInv, SessionOK, Write
<1>2. Written(s) \in Rows
  BY <1>1, WrittenIsRow DEF IInv
<1>. QED
  BY <1>1, <1>2 DEF Write, IInv, TypeOK

\* A write ends its transaction and leaves the locks of the others alone.
LEMMA WriteInvariant ==
    ASSUME IInv, NEW s \in Sessions, Write(s)
    PROVE  IInv'
<1>. DEFINE D == {u \in {txn[s].target} : Written(s) = Absent}
<1>1. Ended(s, D)
  BY DEF Write
<1>. HIDE DEF D
<1>2. TypeOK'
  BY <1>1, EndedType, WriteFacts DEF IInv, TypeOK
<1>3. \A u \in Users : lock[u] \notin {Free, s} => users'[u] = users[u]
  BY WriteFacts
<1>4. \A t \in Sessions : SessionOK(t)'
  BY <1>1, <1>3, EndedSessions DEF Expired
<1>. QED
  BY <1>2, <1>4 DEF IInv

\* The sweep deletes the rows it has locked.
LEMMA SweepInvariant ==
    ASSUME IInv, NEW s \in Sessions, Sweep(s)
    PROVE  IInv'
<1>1. Ended(s, txn[s].counted)
  BY DEF Sweep
<1>2. users' \in [Users -> Rows]
  BY RowFacts DEF Sweep, IInv, TypeOK
<1>3. TypeOK'
  BY <1>1, <1>2, EndedType DEF IInv, TypeOK
<1>4. \A u \in Users : lock[u] \notin {Free, s} => users'[u] = users[u]
  BY DEF Sweep, IInv, SessionOK
<1>5. \A t \in Sessions : SessionOK(t)'
  BY <1>1, <1>4, EndedSessions DEF Expired
<1>. QED
  BY <1>3, <1>5 DEF IInv

\* A row whose deadline passes stays expired.
LEMMA DeadlineInvariant ==
    ASSUME IInv, NEW u \in Users, DeadlinePasses(u)
    PROVE  IInv'
<1>1. users[u] # Absent
  BY DEF DeadlinePasses, Absent
<1>2. [users[u] EXCEPT !.deadline = "passed"] \in Rows
  BY <1>1, RowFacts DEF IInv, TypeOK, Deadlines
<1>3. TypeOK'
  BY <1>2 DEF IInv, TypeOK, DeadlinePasses
<1>4. \A v \in Users : Expired(v) => Expired(v)'
  BY DEF Expired, DeadlinePasses, IInv, TypeOK
<1>5. \A t \in Sessions : SessionOK(t)'
  BY <1>4, OthersKeep DEF DeadlinePasses
<1>. QED
  BY <1>3, <1>5 DEF IInv

\* Every step keeps the invariant.
LEMMA StepInvariant == IInv /\ [Next]_vars => IInv'
<1>. SUFFICES ASSUME IInv, [Next]_vars PROVE IInv'
  OBVIOUS
<1>1. ASSUME NEW s \in Sessions, Statement(s) PROVE IInv'
  BY <1>1, MoveInvariant, LockRowInvariant, EndInvariant, WriteInvariant,
     SweepInvariant DEF Statement
<1>2. CASE UNCHANGED vars
  BY <1>2 DEF vars, IInv, TypeOK, SessionOK, Counting, Expired
<1>. QED
  BY <1>1, <1>2, CallInvariant, EndInvariant, DeadlineInvariant DEF Next

-----------------------------------------------------------------------------
(* What follows for every specification of the functions in use.           *)

\* The inductive invariant holds of every state: what a session has found, it
\* found in rows it has locked and nobody has changed since (createTables.sql).
THEOREM Invariance == Spec => []IInv
  BY InitInvariant, StepInvariant, PTL DEF Spec

\* The variables keep their types.
THEOREM TypeCorrect == Spec => []TypeOK
<1>1. IInv => TypeOK
  BY DEF IInv
<1>. QED
  BY <1>1, Invariance, PTL

\* A finite set of integers has a greatest element: one with the fewest above
\* it.
LEMMA Greatest ==
    ASSUME NEW S \in SUBSET Int, IsFiniteSet(S), S # {}
    PROVE  \E x \in S : \A y \in S : y <= x
<1>. DEFINE Above(x) == {y \in S : y > x}
            Numbers == {Cardinality(Above(x)) : x \in S}
            R == OpToRel(<, Nat)
<1>1. \A x \in S : IsFiniteSet(Above(x)) /\ Cardinality(Above(x)) \in Nat
  <2>. TAKE x \in S
  <2>1. Above(x) \in SUBSET S
    OBVIOUS
  <2>. HIDE DEF Above
  <2>. QED
    BY <2>1, FS_Subset, FS_CardinalityType
<1>2. Numbers \subseteq Nat /\ Numbers # {}
  BY <1>1
<1>3. \A m, n \in Numbers : <<m, n>> \in R <=> m < n
  BY <1>2 DEF OpToRel
<1>. HIDE DEF R, Numbers
<1>4. PICK n \in Numbers : \A m \in Numbers : ~ (<<m, n>> \in R)
  <2>1. IsWellFoundedOn(R, Nat)
    BY NatLessThanWellFounded DEF R
  <2>. QED
    BY <1>2, <2>1, WFMin
<1>5. PICK x \in S : n = Cardinality(Above(x))
  BY DEF Numbers
<1>6. ASSUME NEW y \in S, ~ (y <= x) PROVE FALSE
  <2>1. Above(y) \in SUBSET Above(x)
    <3>1. x \in Int /\ y \in Int /\ y > x
      BY <1>6
    <3>2. \A z \in S : z > y => z > x
      <4>. TAKE z \in S
      <4>1. z \in Int
        OBVIOUS
      <4>. QED
        BY <3>1, <4>1
    <3>. QED
      BY <3>2
  <2>2. Above(y) # Above(x)
    <3>1. y \in Above(x)
      BY <1>6
    <3>2. y \notin Above(y)
      OBVIOUS
    <3>. QED
      BY <3>1, <3>2
  <2>3. Cardinality(Above(y)) \in Numbers
    BY <1>6 DEF Numbers
  <2>4. IsFiniteSet(Above(x)) /\ Cardinality(Above(x)) \in Nat
    BY <1>1
  <2>5. Cardinality(Above(y)) \in Nat
    BY <1>1, <1>6
  <2>. HIDE DEF Above
  <2>6. Cardinality(Above(y)) < Cardinality(Above(x))
    BY <2>1, <2>2, <2>4, <2>5, FS_Subset
  <2>7. n \in Numbers /\ <<Cardinality(Above(y)), n>> \in R
    BY <1>3, <1>5, <2>3, <2>6
  <2>. QED
    BY <1>4, <2>3, <2>7
<1>. QED
  BY <1>6

\* A caller that counts waits for a row that comes after all those it has
\* locked (ORDER BY name).
LEMMA WaitsUpwards ==
    ASSUME IInv, NEW s \in Sessions, NEW t \in Sessions, Counting(s), Waits(s, t)
    PROVE  /\ \E u \in Users : u \in NextRows(s) /\ lock[u] = t
           /\ \A u \in NextRows(s) : \A v \in NextRows(s) : u = v
           /\ \A u \in NextRows(s), v \in Users : lock[v] = s => v < u
<1>1. txn[s].rows \subseteq Users /\ txn[s].op # "sweep" /\ txn[s].stage = "lock"
  BY DEF IInv, TypeOK, Transactions, Counting
<1>2. NextRows(s) = {u \in txn[s].rows : \A v \in txn[s].rows : u <= v}
  BY <1>1 DEF NextRows
<1>3. \E u \in NextRows(s) : lock[u] = t
  BY <1>1 DEF Waits
<1>4. \A u \in NextRows(s) : \A v \in NextRows(s) : u = v
  <2>1. \A u, v \in NextRows(s) : u \in Int /\ v \in Int /\ u <= v /\ v <= u
    BY <1>1, <1>2, ConstantsAssumption
  <2>. QED
    BY <2>1
<1>5. \A u \in NextRows(s), v \in Users : lock[v] = s => v < u
  BY <1>2 DEF IInv, SessionOK
<1>. QED
  BY <1>1, <1>2, <1>3, <1>4, <1>5

\* Callers that count the administrators never wait for each other in a
\* circle: the one that waits for the last row waits for none that counts,
\* for that one would have to wait for a row that comes later still.
THEOREM CountersDoNotDeadlock == Spec => []CountersGetThrough
<1>1. IInv => CountersGetThrough
  <2>. SUFFICES ASSUME IInv, NEW callers \in SUBSET {s \in Sessions : Counting(s)},
                       callers # {},
                       \A s \in callers : \E t \in callers : t # s /\ Waits(s, t)
                PROVE  FALSE
    BY DEF CountersGetThrough
  <2>. DEFINE Awaited == {u \in Users : \E s, t \in callers :
                                           u \in NextRows(s) /\ lock[u] = t}
  <2>1. \A s \in callers : \E u \in Awaited : u \in NextRows(s)
    BY WaitsUpwards
  <2>2. Awaited \in SUBSET Int /\ IsFiniteSet(Awaited) /\ Awaited # {}
    BY <2>1, ConstantsAssumption, FS_Subset
  <2>3. PICK u \in Awaited : \A v \in Awaited : v <= u
    <3>. HIDE DEF Awaited
    <3>. QED
      BY <2>2, Greatest
  <2>4. PICK t \in callers : lock[u] = t
    BY DEF Awaited
  <2>5. PICK r \in callers : r # t /\ Waits(t, r)
    BY <2>4
  <2>6. PICK v \in Awaited : v \in NextRows(t)
    BY <2>1
  <2>7. u < v
    BY <2>4, <2>5, <2>6, WaitsUpwards
  <2>. QED
    BY <2>2, <2>3, <2>7
<1>. QED
  BY <1>1, Invariance, PTL

\* The sweep deletes no account that is not expired when it commits.
THEOREM SweepIsSafe == Spec => SweepsOnlyExpired
<1>1. IInv /\ [Next]_vars =>
        [\A s \in Sessions, u \in Users :
            (Sweep(s) /\ users[u] # users'[u]) => Expired(u)]_vars
  <2>. SUFFICES ASSUME IInv, NEW s \in Sessions, NEW u \in Users,
                       Sweep(s), users[u] # users'[u]
                PROVE  Expired(u)
    OBVIOUS
  <2>1. u \in txn[s].counted
    BY DEF Sweep
  <2>. QED
    BY <2>1 DEF IInv, SessionOK, Sweep
<1>. QED
  BY <1>1, Invariance, PTL DEF Spec, SweepsOnlyExpired

-----------------------------------------------------------------------------
(***************************************************************************)
(* A removal that has counted leaves an administrator, whatever else is    *)
(* going on: the rows it has counted are administrators still, for it      *)
(* holds their locks, and before it writes there are two of them.          *)
(***************************************************************************)
CountOK(s) ==
    /\ txn[s].op # "sweep" => \A u \in txn[s].counted : IsAdmin(u)
    /\ txn[s].stage = "write" =>
          txn[s].counted = {} \/ Cardinality(txn[s].counted) > 1

CInv == \A s \in Sessions : CountOK(s)

\* No step of another session undoes an administrator that t has counted.
LEMMA OthersKeepCount ==
    ASSUME IInv, CInv, NEW t \in Sessions, NEW D,
           txn'[t] = [txn[t] EXCEPT !.rows = @ \ D] \/ txn'[t] = txn[t],
           \A u \in Users : (lock[u] = t /\ IsAdmin(u)) => IsAdmin(u)'
    PROVE  CountOK(t)'
<1>1. /\ txn'[t].stage = txn[t].stage
      /\ txn'[t].op = txn[t].op
      /\ txn'[t].counted = txn[t].counted
      /\ txn[t].counted \subseteq Users
  BY DEF IInv, TypeOK, Transactions
<1>2. SessionOK(t) /\ CountOK(t)
  BY DEF IInv, CInv
<1>3. txn[t].op # "sweep" => \A u \in txn[t].counted : IsAdmin(u)'
  BY <1>1, <1>2 DEF SessionOK, CountOK
<1>. QED
  BY <1>1, <1>2, <1>3 DEF CountOK

\* A transaction that is over has counted nobody.
LEMMA EndedCount ==
    ASSUME IInv, CInv, NEW s \in Sessions, NEW D, Ended(s, D),
           \A t \in Sessions \ {s}, u \in Users :
              (lock[u] = t /\ IsAdmin(u)) => IsAdmin(u)'
    PROVE  CInv'
<1>1. CountOK(s)'
  BY DEF Ended, CountOK, NoTransaction
<1>2. ASSUME NEW t \in Sessions, t # s PROVE CountOK(t)'
  <2>1. txn'[t] = [txn[t] EXCEPT !.rows = @ \ D]
    BY <1>2 DEF Ended
  <2>. QED
    BY <1>2, <2>1, OthersKeepCount
<1>. QED
  BY <1>1, <1>2 DEF CInv

\* A session counts while it locks, and goes on only with two.
LEMMA MoveCount ==
    ASSUME IInv, CInv, NEW s \in Sessions,
           \/ Call(s)
           \/ RequireAdmin(s) \/ TargetIsNoAdmin(s) \/ TargetIsAdmin(s)
           \/ FindAdministrators(s) \/ EnoughAdministrators(s)
           \/ \E u \in Users : LockRow(s, u)
    PROVE  CInv'
<1> USE DEF Call, CallAdminFunction, CallUpdatePassword, CallSweep,
            RequireAdmin, TargetIsNoAdmin, TargetIsAdmin, FindAdministrators,
            EnoughAdministrators, LockRow, Goto
<1>0. /\ txn[s] \in Transactions /\ DOMAIN txn = Sessions
      /\ SessionOK(s) /\ CountOK(s)
  BY DEF IInv, TypeOK, CInv
<1>1. UNCHANGED users /\ \A t \in Sessions \ {s} : txn'[t] = txn[t]
  BY <1>0
<1>2. \A u \in Users : IsAdmin(u)' <=> IsAdmin(u)
  BY <1>1 DEF IsAdmin
<1>3. txn[s].stage \in {"idle", "actor", "target", "snapshot"} =>
         txn[s].counted = {}
  BY <1>0 DEF SessionOK, Transactions
<1>4. CountOK(s)'
  <2>1. CASE Call(s)
    <3>1. txn'[s].counted = {}
      BY <1>0, <2>1 DEF NoTransaction
    <3>. QED
      BY <3>1 DEF CountOK
  <2>2. CASE RequireAdmin(s) \/ TargetIsNoAdmin(s) \/ TargetIsAdmin(s)
             \/ FindAdministrators(s)
    <3>1. txn[s].stage \in {"actor", "target", "snapshot"}
      BY <2>2
    <3>2. txn'[s].counted = txn[s].counted
      <4>1. ASSUME NEW stage, txn' = [txn EXCEPT ![s].stage = stage]
            PROVE  txn'[s].counted = txn[s].counted
        BY <1>0, <4>1 DEF Transactions
      <4>2. CASE FindAdministrators(s)
        BY <1>0, <4>2 DEF Transactions
      <4>. QED
        BY <2>2, <4>1, <4>2
    <3>3. txn'[s].counted = {}
      BY <1>3, <3>1, <3>2
    <3>. QED
      BY <3>3 DEF CountOK
  <2>3. CASE EnoughAdministrators(s)
    <3>1. /\ txn'[s].counted = txn[s].counted
          /\ txn[s].op # "sweep"
          /\ Cardinality(txn[s].counted) > 1
      BY <1>0, <2>3 DEF Transactions, Counting
    <3>2. txn[s].counted \subseteq Users
      BY <1>0 DEF Transactions
    <3>. QED
      BY <1>0, <1>2, <3>1, <3>2 DEF CountOK
  <2>4. ASSUME NEW u \in Users, LockRow(s, u)
        PROVE  CountOK(s)'
    <3>1. /\ txn'[s].counted =
                IF Matches(s, u) THEN txn[s].counted \cup {u}
                ELSE txn[s].counted
          /\ txn'[s].op = txn[s].op
          /\ txn'[s].stage = "lock"
          /\ txn[s].counted \subseteq Users
      BY <1>0, <2>4 DEF Transactions
    <3>2. txn[s].op # "sweep" => \A v \in txn'[s].counted : IsAdmin(v)'
      BY <1>0, <1>2, <3>1 DEF CountOK, Matches
    <3>. QED
      BY <3>1, <3>2 DEF CountOK
  <2>. QED
    BY <2>1, <2>2, <2>3, <2>4
<1>5. ASSUME NEW t \in Sessions, t # s PROVE CountOK(t)'
  BY <1>1, <1>2, <1>5, OthersKeepCount
<1>. QED
  BY <1>4, <1>5 DEF CInv

\* The sweep and the deadline touch no administrator.
LEMMA SweepKeepsAdministrators ==
    ASSUME IInv, NEW s \in Sessions, Sweep(s)
    PROVE  \A u \in Users : IsAdmin(u)' <=> IsAdmin(u)
<1>1. \A u \in txn[s].counted : ~ IsAdmin(u)
  BY DEF IInv, SessionOK, Sweep, Expired, IsAdmin
<1>. QED
  BY <1>1 DEF Sweep, IsAdmin, Absent

\* An administrator has no deadline.
LEMMA DeadlineKeepsAdministrators ==
    ASSUME IInv, NEW u \in Users, DeadlinePasses(u)
    PROVE  \A v \in Users : IsAdmin(v)' <=> IsAdmin(v)
  BY DEF IsAdmin, DeadlinePasses, IInv, TypeOK

\* Every step keeps what the sessions have counted.
LEMMA StepCount == IInv /\ CInv /\ [Next]_vars => CInv'
<1>. SUFFICES ASSUME IInv, CInv, [Next]_vars PROVE CInv'
  OBVIOUS
<1>1. ASSUME NEW s \in Sessions, RefuseActor(s) \/ RefuseLast(s) \/ Abort(s)
      PROVE  CInv'
  <2>1. Ended(s, {}) /\ \A u \in Users : IsAdmin(u)' <=> IsAdmin(u)
    BY <1>1 DEF RefuseActor, RefuseLast, Abort, IsAdmin
  <2>. QED
    BY <2>1, EndedCount
<1>2. ASSUME NEW s \in Sessions, Write(s) PROVE CInv'
  <2>1. PICK D : Ended(s, D)
    BY <1>2 DEF Write
  <2>2. \A t \in Sessions \ {s}, u \in Users :
           (lock[u] = t /\ IsAdmin(u)) => IsAdmin(u)'
    BY <1>2, WriteFacts, ConstantsAssumption DEF Write, IsAdmin
  <2>. QED
    BY <2>1, <2>2, EndedCount
<1>3. ASSUME NEW s \in Sessions, Sweep(s) PROVE CInv'
  BY <1>3, SweepKeepsAdministrators, EndedCount DEF Sweep
<1>4. ASSUME NEW u \in Users, DeadlinePasses(u) PROVE CInv'
  BY <1>4, DeadlineKeepsAdministrators, OthersKeepCount
     DEF CInv, DeadlinePasses
<1>5. CASE UNCHANGED vars
  BY <1>5 DEF vars, CInv, CountOK, IsAdmin
<1>. QED
  BY <1>1, <1>2, <1>3, <1>4, <1>5, MoveCount DEF Next, Statement

\* Only a removal that found its target to be no administrator, and counted
\* nobody, can take the last one away.
THEOREM CountedRemovalsAreSafe == Spec => CountedRemovalsLeaveOne
<1>1. Init => CInv
  BY DEF Init, CInv, CountOK, NoTransaction
<1>2. ASSUME IInv, CInv, [Next]_vars, Administrators # {},
             Administrators' = {}
      PROVE  \E s \in Sessions : Write(s) /\ txn[s].counted = {}
  <2>1. PICK a \in Users : IsAdmin(a) /\ ~ IsAdmin(a)'
    BY <1>2 DEF Administrators
  <2>2. PICK s \in Sessions : Write(s)
    <3>1. users' # users
      BY <2>1 DEF IsAdmin
    <3>2. ASSUME NEW s \in Sessions, Call(s) PROVE UNCHANGED users
      BY <3>2 DEF Call, CallAdminFunction, CallUpdatePassword, CallSweep
    <3>3. ASSUME NEW s \in Sessions, Statement(s), ~ Write(s), ~ Sweep(s)
          PROVE  UNCHANGED users
      BY <3>3 DEF Statement, RequireAdmin, RefuseActor, TargetIsNoAdmin,
                  TargetIsAdmin, FindAdministrators, LockRow, RefuseLast,
                  EnoughAdministrators
    <3>4. ASSUME NEW s \in Sessions PROVE ~ Sweep(s)
      BY <1>2, <2>1, SweepKeepsAdministrators
    <3>5. ASSUME NEW u \in Users PROVE ~ DeadlinePasses(u)
      BY <1>2, <2>1, DeadlineKeepsAdministrators
    <3>6. ASSUME NEW s \in Sessions, Abort(s) PROVE UNCHANGED users
      BY <3>6 DEF Abort
    <3>. QED
      BY <1>2, <3>1, <3>2, <3>3, <3>4, <3>5, <3>6 DEF Next, vars
  <2>3. ASSUME Cardinality(txn[s].counted) > 1 PROVE FALSE
    <3>1. \E v \in txn[s].counted : v # txn[s].target
      <4>. SUFFICES ASSUME txn[s].counted \subseteq {txn[s].target}
                    PROVE  FALSE
        OBVIOUS
      <4>1. txn[s].counted = {} \/ txn[s].counted = {txn[s].target}
        OBVIOUS
      <4>2. Cardinality({}) = 0 /\ Cardinality({txn[s].target}) = 1
        BY FS_EmptySet, FS_Singleton
      <4>. QED
        BY <2>3, <4>1, <4>2
    <3>2. PICK v \in txn[s].counted : v # txn[s].target
      BY <3>1
    <3>3. v \in Users /\ IsAdmin(v)
      BY <1>2, <2>2, <3>2, WriteFacts
         DEF CInv, CountOK, IInv, TypeOK, Transactions
    <3>4. IsAdmin(v)'
      BY <1>2, <2>2, <3>2, <3>3, WriteFacts DEF IsAdmin
    <3>. QED
      BY <1>2, <3>3, <3>4 DEF Administrators
  <2>4. txn[s].counted = {}
    BY <1>2, <2>2, <2>3 DEF CInv, CountOK, Write
  <2>. QED
    BY <2>2, <2>4
<1>3. IInv /\ CInv /\ [Next]_vars =>
         [(Administrators # {} /\ Administrators' = {}) =>
             \E s \in Sessions : Write(s) /\ txn[s].counted = {}]_vars
  BY <1>2
<1>. QED
  BY <1>1, <1>3, StepCount, Invariance, PTL DEF Spec, CountedRemovalsLeaveOne

-----------------------------------------------------------------------------
(***************************************************************************)
(* There is always an administrator, as long as nobody can become one: a   *)
(* removal that goes ahead has counted, and holds, two administrators, or  *)
(* its target was none and has not become one.                             *)
(***************************************************************************)
Removals == {"demote", "reset", "remove"}

RemovalOK(s) ==
    /\ txn[s].op \in Operations \cup {"none"}
    /\ txn[s].op # "sweep" => \A u \in txn[s].counted : IsAdmin(u)
    /\ (txn[s].stage = "write" /\ txn[s].op \in Removals) =>
          ~ IsAdmin(txn[s].target) \/ Cardinality(txn[s].counted) > 1

RInv ==
    /\ AdministratorRemains
    /\ \A s \in Sessions : RemovalOK(s)

\* A step of another session leaves t's removal as it was, if it makes nobody
\* an administrator and leaves those that t has counted alone.
LEMMA OthersKeepRemoval ==
    ASSUME IInv, RInv, NEW t \in Sessions, NEW D,
           txn'[t] = [txn[t] EXCEPT !.rows = @ \ D] \/ txn'[t] = txn[t],
           \A u \in Users : IsAdmin(u)' => IsAdmin(u),
           \A u \in Users : (lock[u] = t /\ IsAdmin(u)) => IsAdmin(u)'
    PROVE  RemovalOK(t)'
<1>1. /\ txn'[t].stage = txn[t].stage
      /\ txn'[t].op = txn[t].op
      /\ txn'[t].target = txn[t].target
      /\ txn'[t].counted = txn[t].counted
      /\ txn[t].counted \subseteq Users
  BY DEF IInv, TypeOK, Transactions
<1>2. SessionOK(t) /\ RemovalOK(t)
  BY DEF IInv, RInv
<1>3. txn[t].op \in Removals => txn[t].target \in Users
  BY <1>2 DEF SessionOK, Removals
<1>4. txn[t].op # "sweep" => \A u \in txn[t].counted : IsAdmin(u)'
  BY <1>1, <1>2 DEF SessionOK, RemovalOK
<1>. QED
  BY <1>1, <1>2, <1>3, <1>4 DEF RemovalOK

\* What a removal or an addition makes of a row.
LEMMA WrittenFacts ==
    ASSUME IInv, RInv, NobodyBecomesAdministrator,
           NEW s \in Sessions, Write(s)
    PROVE  /\ \A u \in Users : IsAdmin(u)' => IsAdmin(u)
           /\ \A u \in Users \ {txn[s].target} : IsAdmin(u) => IsAdmin(u)'
           /\ txn[s].op \notin Removals => \A u \in Users : IsAdmin(u) => IsAdmin(u)'
<1>. DEFINE target == txn[s].target
            row == users[target]
            administrator == [level |-> "admin", deadline |-> "none"]
<1>0. /\ target \in Users
      /\ users'[target] = Written(s)
      /\ txn[s].op \notin {"none", "sweep"}
      /\ \A u \in Users \ {target} : users'[u] = users[u]
  BY WriteFacts
<1>1. txn[s].op \in {"add_provisional", "demote", "reset", "remove"}
  <2>1. txn[s].op \in Operations
    BY <1>0 DEF RInv, RemovalOK
  <2>. QED
    BY <1>0, <2>1, ConstantsAssumption DEF NobodyBecomesAdministrator, Writes
<1>2. row \in Rows
  BY <1>0 DEF IInv, TypeOK
<1>3. users'[target] = administrator => row = administrator
  <2>1. CASE txn[s].op = "add_provisional"
    BY <1>0, <2>1 DEF Written
  <2>2. CASE txn[s].op = "demote"
    BY <1>0, <1>2, <2>2 DEF Written, Rows, Absent
  <2>3. CASE txn[s].op = "reset"
    BY <1>0, <1>2, <2>3 DEF Written, Reset, Rows, Absent
  <2>4. CASE txn[s].op = "remove"
    BY <1>0, <2>4 DEF Written, Absent
  <2>. QED
    BY <1>1, <2>1, <2>2, <2>3, <2>4
<1>4. (txn[s].op = "add_provisional" /\ row = administrator)
         => users'[target] = administrator
  BY <1>0 DEF Written, Absent
<1>5. ASSUME NEW u \in Users
      PROVE  /\ IsAdmin(u) <=> users[u] = administrator
             /\ IsAdmin(u)' <=> users'[u] = administrator
  BY DEF IsAdmin
<1>. HIDE DEF administrator
<1>6. \A u \in Users : IsAdmin(u)' => IsAdmin(u)
  BY <1>0, <1>3, <1>5
<1>7. \A u \in Users \ {target} : IsAdmin(u) => IsAdmin(u)'
  BY <1>0, <1>5
<1>8. txn[s].op \notin Removals => txn[s].op = "add_provisional"
  BY <1>1 DEF Removals
<1>9. txn[s].op \notin Removals => \A u \in Users : IsAdmin(u) => IsAdmin(u)'
  BY <1>0, <1>4, <1>5, <1>8
<1>. QED
  BY <1>6, <1>7, <1>9

\* One administrator is enough.
LEMMA AdministratorFacts ==
    ASSUME NEW a \in Users, IsAdmin(a)' PROVE AdministratorRemains'
  BY DEF AdministratorRemains, Administrators

\* A removal that goes ahead leaves an administrator.
LEMMA WriteRemoval ==
    ASSUME IInv, RInv, NobodyBecomesAdministrator,
           NEW s \in Sessions, Write(s)
    PROVE  RInv'
<1>. DEFINE target == txn[s].target
            D == {u \in {target} : Written(s) = Absent}
<1>1. Ended(s, D)
  BY DEF Write
<1>. HIDE DEF D
<1>2. SessionOK(s) /\ RemovalOK(s)
  BY DEF IInv, RInv
<1>3. AdministratorRemains'
  <2>1. CASE txn[s].op \in Removals /\ IsAdmin(target)
    <3>1. Cardinality(txn[s].counted) > 1
      BY <1>2, <2>1 DEF RemovalOK, Write
    <3>2. \E v \in txn[s].counted : v # target
      <4>. SUFFICES ASSUME txn[s].counted \subseteq {target} PROVE FALSE
        OBVIOUS
      <4>1. txn[s].counted = {} \/ txn[s].counted = {target}
        OBVIOUS
      <4>2. Cardinality({}) = 0 /\ Cardinality({target}) = 1
        BY FS_EmptySet, FS_Singleton
      <4>. QED
        BY <3>1, <4>1, <4>2
    <3>3. PICK v \in txn[s].counted : v # target
      BY <3>2
    <3>4. v \in Users /\ IsAdmin(v)
      BY <1>2, <2>1 DEF IInv, TypeOK, Transactions, RemovalOK, Removals
    <3>. QED
      BY <3>3, <3>4, WrittenFacts, AdministratorFacts
  <2>2. CASE ~ (txn[s].op \in Removals /\ IsAdmin(target))
    <3>1. PICK a \in Users : IsAdmin(a)
      BY DEF RInv, AdministratorRemains, Administrators
    <3>2. IsAdmin(a)'
      BY <2>2, <3>1, WrittenFacts
    <3>. QED
      BY <3>2, AdministratorFacts
  <2>. QED
    BY <2>1, <2>2
<1>4. ASSUME NEW t \in Sessions PROVE RemovalOK(t)'
  <2>1. CASE t = s
    BY <1>1, <2>1 DEF Ended, RemovalOK, NoTransaction
  <2>2. CASE t # s
    <3>1. txn'[t] = [txn[t] EXCEPT !.rows = @ \ D]
      BY <1>1, <2>2 DEF Ended
    <3>2. \A u \in Users : (lock[u] = t /\ IsAdmin(u)) => IsAdmin(u)'
      BY <2>2, WriteFacts, WrittenFacts, ConstantsAssumption
    <3>. QED
      BY <3>1, <3>2, WrittenFacts, OthersKeepRemoval
  <2>. QED
    BY <2>1, <2>2
<1>. QED
  BY <1>3, <1>4 DEF RInv

\* So do the steps that leave every administrator in place, if what they do
\* to their own transaction is in order.
LEMMA QuietRemoval ==
    ASSUME IInv, RInv, NEW s \in Sessions, NEW D,
           \A u \in Users : IsAdmin(u)' <=> IsAdmin(u),
           \A t \in Sessions \ {s} :
              txn'[t] = [txn[t] EXCEPT !.rows = @ \ D] \/ txn'[t] = txn[t],
           RemovalOK(s)'
    PROVE  RInv'
<1>1. AdministratorRemains'
  BY AdministratorFacts DEF RInv, AdministratorRemains, Administrators
<1>2. ASSUME NEW t \in Sessions, t # s PROVE RemovalOK(t)'
  BY <1>2, OthersKeepRemoval
<1>. QED
  BY <1>1, <1>2 DEF RInv

\* The sweep removes no administrator.
LEMMA SweepRemoval ==
    ASSUME IInv, RInv, NEW s \in Sessions, Sweep(s)
    PROVE  RInv'
<1>1. Ended(s, txn[s].counted)
  BY DEF Sweep
<1>2. RemovalOK(s)'
  BY <1>1 DEF Ended, RemovalOK, NoTransaction
<1>3. \A t \in Sessions \ {s} :
         txn'[t] = [txn[t] EXCEPT !.rows = @ \ txn[s].counted]
  BY <1>1 DEF Ended
<1>. QED
  BY <1>2, <1>3, SweepKeepsAdministrators, QuietRemoval

\* A removal begins with nothing counted.
LEMMA CallRemoval ==
    ASSUME IInv, RInv, NEW s \in Sessions, Call(s)
    PROVE  RInv'
<1>1. UNCHANGED users /\ \A t \in Sessions \ {s} : txn'[t] = txn[t]
  BY DEF Call, CallAdminFunction, CallUpdatePassword, CallSweep, IInv, TypeOK
<1>2. /\ txn'[s].op \in Operations
      /\ txn'[s].counted = {}
      /\ txn'[s].stage = "write" => txn'[s].op = "change_password"
  <2>1. s \in DOMAIN txn
    BY DEF IInv, TypeOK
  <2>2. ASSUME NEW op \in Writes, NEW target \in Users, NEW level \in Levels,
               CallAdminFunction(s, op, target, level)
        PROVE  /\ txn'[s].op = op /\ op \in Operations
               /\ txn'[s].counted = {} /\ txn'[s].stage = "actor"
    BY <2>1, <2>2 DEF CallAdminFunction, NoTransaction
  <2>3. ASSUME NEW u \in Users, CallUpdatePassword(s, u)
        PROVE  /\ txn'[s].op = "change_password"
               /\ "change_password" \in Operations
               /\ txn'[s].counted = {}
    BY <2>1, <2>3 DEF CallUpdatePassword, NoTransaction
  <2>4. ASSUME CallSweep(s)
        PROVE  /\ txn'[s].op = "sweep" /\ "sweep" \in Operations
               /\ txn'[s].counted = {} /\ txn'[s].stage = "lock"
    BY <2>1, <2>4 DEF CallSweep, NoTransaction
  <2>. QED
    BY <2>2, <2>3, <2>4 DEF Call
<1>3. RemovalOK(s)'
  BY <1>2 DEF RemovalOK, Removals
<1>4. \A u \in Users : IsAdmin(u)' <=> IsAdmin(u)
  BY <1>1 DEF IsAdmin
<1>. QED
  BY <1>1, <1>3, <1>4, QuietRemoval

\* A removal counts administrators under lock, or finds its target to be none
\* (require_admin, forbid_last_admin_removal).
LEMMA StatementRemoval ==
    ASSUME IInv, RInv, NEW s \in Sessions,
           \/ RequireAdmin(s) \/ TargetIsNoAdmin(s) \/ TargetIsAdmin(s)
           \/ FindAdministrators(s) \/ EnoughAdministrators(s)
           \/ \E u \in Users : LockRow(s, u)
    PROVE  RInv'
<1>0. txn[s] \in Transactions /\ DOMAIN txn = Sessions /\ RemovalOK(s)
  BY DEF IInv, TypeOK, RInv
<1>1. UNCHANGED users /\ \A t \in Sessions \ {s} : txn'[t] = txn[t]
  BY <1>0 DEF RequireAdmin, TargetIsNoAdmin, TargetIsAdmin, FindAdministrators,
              EnoughAdministrators, LockRow, Goto
<1>2. /\ txn'[s].op = txn[s].op
      /\ txn'[s].target = txn[s].target
  <2>1. \/ \E stage : txn' = [txn EXCEPT ![s].stage = stage]
        \/ \E stage, rows : txn' = [txn EXCEPT ![s].stage = stage, ![s].rows = rows]
        \/ \E u \in Users : LockRow(s, u)
    BY DEF RequireAdmin, TargetIsNoAdmin, TargetIsAdmin, FindAdministrators,
           EnoughAdministrators, Goto
  <2>2. ASSUME NEW u \in Users, LockRow(s, u)
        PROVE  txn'[s].op = txn[s].op /\ txn'[s].target = txn[s].target
    BY <1>0, <2>2 DEF LockRow, Transactions
  <2>. QED
    BY <1>0, <2>1, <2>2 DEF Transactions
<1>3. \A u \in Users : IsAdmin(u)' <=> IsAdmin(u)
  BY <1>1 DEF IsAdmin
<1>4. txn[s].op # "sweep" => \A u \in txn'[s].counted : IsAdmin(u)
  <2>1. txn'[s].counted \subseteq
           txn[s].counted \cup {u \in Users : Matches(s, u)}
    <3>1. ASSUME NEW u \in Users, LockRow(s, u)
          PROVE  txn'[s].counted =
                    IF Matches(s, u) THEN txn[s].counted \cup {u}
                    ELSE txn[s].counted
      BY <1>0, <3>1 DEF LockRow, Transactions
    <3>2. ASSUME \A u \in Users : ~ LockRow(s, u)
          PROVE  txn'[s].counted = txn[s].counted
      BY <1>0, <3>2 DEF RequireAdmin, TargetIsNoAdmin, TargetIsAdmin,
                        FindAdministrators, EnoughAdministrators, Goto,
                        Transactions
    <3>. QED
      BY <3>1, <3>2
  <2>. QED
    BY <1>0, <2>1 DEF RemovalOK, Matches
<1>5. (txn'[s].stage = "write" /\ txn[s].op \in Removals) =>
         ~ IsAdmin(txn[s].target) \/ Cardinality(txn'[s].counted) > 1
  <2>1. CASE RequireAdmin(s)
    BY <1>0, <2>1 DEF RequireAdmin, AfterActor, Goto, Removals, Transactions
  <2>2. CASE TargetIsNoAdmin(s)
    BY <2>2 DEF TargetIsNoAdmin
  <2>3. CASE TargetIsAdmin(s)
    BY <1>0, <2>3 DEF TargetIsAdmin, Goto, Transactions
  <2>4. CASE FindAdministrators(s)
    BY <1>0, <2>4 DEF FindAdministrators, Transactions
  <2>5. CASE EnoughAdministrators(s)
    BY <1>0, <2>5 DEF EnoughAdministrators, Goto, Transactions
  <2>6. ASSUME NEW u \in Users, LockRow(s, u)
        PROVE  txn'[s].stage = "lock"
    BY <1>0, <2>6 DEF LockRow, Transactions
  <2>. QED
    BY <2>1, <2>2, <2>3, <2>4, <2>5, <2>6
<1>6. RemovalOK(s)'
  <2>1. txn'[s].op \in Operations \cup {"none"}
    BY <1>0, <1>2 DEF RemovalOK
  <2>2. txn'[s].op # "sweep" => \A u \in txn'[s].counted : IsAdmin(u)'
    BY <1>1, <1>2, <1>4 DEF IsAdmin
  <2>3. (txn'[s].stage = "write" /\ txn'[s].op \in Removals) =>
           \/ users'[txn'[s].target] # [level |-> "admin", deadline |-> "none"]
           \/ Cardinality(txn'[s].counted) > 1
    BY <1>1, <1>2, <1>5 DEF IsAdmin
  <2>. QED
    BY <2>1, <2>2, <2>3 DEF RemovalOK, IsAdmin
<1>. QED
  BY <1>1, <1>3, <1>6, QuietRemoval

\* A removal that is refused removes nobody.
LEMMA EndRemoval ==
    ASSUME IInv, RInv, NEW s \in Sessions,
           RefuseActor(s) \/ RefuseLast(s) \/ Abort(s)
    PROVE  RInv'
<1>1. Ended(s, {}) /\ users' = users
  BY DEF RefuseActor, RefuseLast, Abort
<1>2. \A u \in Users : IsAdmin(u)' <=> IsAdmin(u)
  BY <1>1 DEF IsAdmin
<1>3. RemovalOK(s)'
  BY <1>1 DEF Ended, RemovalOK, NoTransaction
<1>4. \A t \in Sessions \ {s} : txn'[t] = [txn[t] EXCEPT !.rows = @ \ {}]
  BY <1>1 DEF Ended
<1>. QED
  BY <1>2, <1>3, <1>4, QuietRemoval

\* No administrator is lost to a deadline.
LEMMA DeadlineRemoval ==
    ASSUME IInv, RInv, NEW u \in Users, DeadlinePasses(u)
    PROVE  RInv'
<1>1. \A v \in Users : IsAdmin(v)' <=> IsAdmin(v)
  BY DeadlineKeepsAdministrators
<1>2. AdministratorRemains'
  BY <1>1, AdministratorFacts DEF RInv, AdministratorRemains, Administrators
<1>3. \A t \in Sessions : RemovalOK(t)'
  BY <1>1, OthersKeepRemoval DEF DeadlinePasses
<1>. QED
  BY <1>2, <1>3 DEF RInv

\* There is an administrator at first.
LEMMA InitRemoval == Init => RInv
  BY DEF Init, RInv, RemovalOK, AdministratorRemains, NoTransaction

\* If nobody becomes an administrator, every step leaves one.
LEMMA StepRemoval ==
    ASSUME NobodyBecomesAdministrator
    PROVE  IInv /\ RInv /\ [Next]_vars => RInv'
<1>. SUFFICES ASSUME IInv, RInv, [Next]_vars PROVE RInv'
  OBVIOUS
<1>1. ASSUME NEW s \in Sessions, Statement(s) PROVE RInv'
  BY <1>1, StatementRemoval, EndRemoval, WriteRemoval, SweepRemoval
     DEF Statement
<1>2. CASE UNCHANGED vars
  BY <1>2 DEF vars, RInv, RemovalOK, AdministratorRemains, Administrators,
              IsAdmin
<1>. QED
  BY <1>1, <1>2, CallRemoval, EndRemoval, DeadlineRemoval DEF Next

\* The database keeps an activated administrator, whoever demotes, resets or
\* removes whom at the same time, as long as nobody is being made one.
THEOREM AdministratorsRemain ==
    ASSUME NobodyBecomesAdministrator
    PROVE  Spec => []AdministratorRemains
<1>1. RInv => AdministratorRemains
  BY DEF RInv
<1>. QED
  BY <1>1, InitRemoval, StepRemoval, Invariance, PTL DEF Spec

-----------------------------------------------------------------------------
(* How long a transaction goes on.                                         *)

\* A bound on the statements a transaction has still to run: those on the way
\* to its end, and one for each row that it has, or may have, yet to lock.
Weight(t) ==
    CASE t.stage = "idle"     -> 0
      [] t.stage = "write"    -> 1
      [] t.stage = "lock"     -> 2 + Cardinality(t.rows)
      [] t.stage = "snapshot" -> 3 + Cardinality(Users)
      [] t.stage = "target"   -> 4 + Cardinality(Users)
      [] OTHER                -> 5 + Cardinality(Users)

Left(s) == Weight(txn[s])

\* A transaction has at most five statements and one for each user before it,
\* one fewer with each it runs, and what the others do never adds to them.
RunsOut ==
    \A s \in Sessions :
        /\ Left(s) \in 0 .. (5 + Cardinality(Users))
        /\ ~ Call(s) => Left(s)' <= Left(s)
        /\ (Statement(s) \/ Abort(s)) => Left(s)' < Left(s)

\* Sets of users are finite: removing some makes them no larger, and one less.
LEMMA RowCounts ==
    /\ Cardinality(Users) \in Nat
    /\ \A R \in SUBSET Users :
          /\ Cardinality(R) \in Nat /\ Cardinality(R) <= Cardinality(Users)
          /\ \A D : Cardinality(R \ D) \in Nat
                    /\ Cardinality(R \ D) <= Cardinality(R)
          /\ \A u \in R : Cardinality(R \ {u}) < Cardinality(R)
<1>1. IsFiniteSet(Users) /\ Cardinality(Users) \in Nat
  BY ConstantsAssumption, FS_CardinalityType
<1>. SUFFICES ASSUME NEW R \in SUBSET Users
              PROVE  /\ Cardinality(R) \in Nat
                     /\ Cardinality(R) <= Cardinality(Users)
                     /\ \A D : Cardinality(R \ D) \in Nat
                               /\ Cardinality(R \ D) <= Cardinality(R)
                     /\ \A u \in R : Cardinality(R \ {u}) < Cardinality(R)
  BY <1>1
<1>2. IsFiniteSet(R) /\ Cardinality(R) <= Cardinality(Users)
  BY <1>1, FS_Subset
<1>3. Cardinality(R) \in Nat
  BY <1>2, FS_CardinalityType
<1>4. ASSUME NEW D
      PROVE  Cardinality(R \ D) \in Nat /\ Cardinality(R \ D) <= Cardinality(R)
  <2>1. R \ D \in SUBSET R
    OBVIOUS
  <2>2. IsFiniteSet(R \ D) /\ Cardinality(R \ D) <= Cardinality(R)
    BY <1>2, <2>1, FS_Subset
  <2>. QED
    BY <2>2, FS_CardinalityType
<1>5. ASSUME NEW u \in R PROVE Cardinality(R \ {u}) < Cardinality(R)
  <2>1. Cardinality(R \ {u}) = Cardinality(R) - 1
    BY <1>2, FS_RemoveElement
  <2>. QED
    BY <1>3, <2>1
<1>. QED
  BY <1>2, <1>3, <1>4, <1>5

\* The bound is one, and rows that are gone do not raise it.
LEMMA WeightFacts ==
    ASSUME NEW t \in Transactions
    PROVE  /\ Weight(t) \in 0 .. (5 + Cardinality(Users))
           /\ t.stage # "idle" => Weight(t) >= 1
           /\ \A D : Weight([t EXCEPT !.rows = @ \ D]) <= Weight(t)
<1>1. t.stage \in Stages /\ t.rows \in SUBSET Users
  BY DEF Transactions
<1>2. /\ Cardinality(Users) \in Nat
      /\ Cardinality(t.rows) \in 0 .. Cardinality(Users)
  BY <1>1, RowCounts
<1>3. /\ Weight(t) \in 0 .. (5 + Cardinality(Users))
      /\ t.stage # "idle" => Weight(t) >= 1
  BY <1>1, <1>2 DEF Weight, Stages
<1>4. ASSUME NEW r, NEW D, r.stage = t.stage, r.rows = t.rows \ D
      PROVE  Weight(r) <= Weight(t)
  <2>1. CASE t.stage = "lock"
    <3>1. Weight(r) = 2 + Cardinality(t.rows \ D)
      BY <1>4, <2>1 DEF Weight
    <3>2. Weight(t) = 2 + Cardinality(t.rows)
      BY <2>1 DEF Weight
    <3>3. /\ Cardinality(t.rows) \in Nat /\ Cardinality(t.rows \ D) \in Nat
          /\ Cardinality(t.rows \ D) <= Cardinality(t.rows)
      BY <1>1, RowCounts
    <3>. QED
      BY <3>1, <3>2, <3>3
  <2>2. CASE t.stage # "lock"
    <3>1. Weight(r) = Weight(t)
      BY <1>4, <2>2 DEF Weight
    <3>. QED
      BY <1>2, <1>3, <3>1
  <2>. QED
    BY <2>1, <2>2
<1>5. ASSUME NEW D PROVE Weight([t EXCEPT !.rows = @ \ D]) <= Weight(t)
  <2>1. /\ [t EXCEPT !.rows = @ \ D].stage = t.stage
        /\ [t EXCEPT !.rows = @ \ D].rows = t.rows \ D
    BY DEF Transactions
  <2>. QED
    BY <1>4, <2>1
<1>. QED
  BY <1>3, <1>5

\* Every statement brings its transaction nearer to its end.
LEMMA StatementRunsOut ==
    ASSUME IInv, NEW s \in Sessions, Statement(s) \/ Abort(s)
    PROVE  Left(s)' < Left(s)
<1>1. /\ txn[s] \in Transactions /\ DOMAIN txn = Sessions
      /\ txn[s].rows \in SUBSET Users
      /\ Cardinality(Users) \in Nat
  BY RowCounts DEF IInv, TypeOK, Transactions
<1>2. Left(s) \in Int /\ (txn[s].stage # "idle" => Left(s) >= 1)
  BY <1>1, WeightFacts DEF Left
<1>3. ASSUME NEW D, Ended(s, D), txn[s].stage # "idle"
      PROVE  Left(s)' < Left(s)
  <2>1. txn'[s] = NoTransaction
    BY <1>3 DEF Ended
  <2>2. Left(s)' = 0
    BY <2>1 DEF Left, Weight, NoTransaction
  <2>. QED
    BY <1>2, <1>3, <2>2
<1>4. ASSUME RefuseActor(s) \/ RefuseLast(s) \/ Write(s) \/ Sweep(s) \/ Abort(s)
      PROVE  Left(s)' < Left(s)
  BY <1>3, <1>4 DEF RefuseActor, RefuseLast, Write, Sweep, Abort, Counting
<1>5. ASSUME NEW stage \in Stages, Goto(s, stage)
      PROVE  /\ txn'[s].stage = stage /\ Left(s)' = Weight(txn'[s])
             /\ txn'[s] \in Transactions
  <2>1. txn'[s] = [txn[s] EXCEPT !.stage = stage]
    BY <1>1, <1>5 DEF Goto
  <2>. QED
    BY <1>1, <2>1 DEF Left, Transactions
<1>6. CASE RequireAdmin(s)
  <2>1. AfterActor(s) \in {"target", "write"} /\ txn[s].stage = "actor"
    BY <1>6 DEF AfterActor, RequireAdmin
  <2>2. txn'[s].stage \in {"target", "write"} /\ Left(s)' = Weight(txn'[s])
    BY <1>5, <1>6, <2>1 DEF RequireAdmin, Stages
  <2>. QED
    BY <1>1, <2>1, <2>2 DEF Left, Weight
<1>7. CASE TargetIsNoAdmin(s) \/ TargetIsAdmin(s)
  <2>1. txn[s].stage = "target"
    BY <1>7 DEF TargetIsNoAdmin, TargetIsAdmin
  <2>2. txn'[s].stage \in {"snapshot", "write"} /\ Left(s)' = Weight(txn'[s])
    BY <1>5, <1>7 DEF TargetIsNoAdmin, TargetIsAdmin, Stages
  <2>. QED
    BY <1>1, <2>1, <2>2 DEF Left, Weight
<1>8. CASE FindAdministrators(s)
  <2>1. txn'[s] = [txn[s] EXCEPT !.stage = "lock", !.rows = Administrators]
    BY <1>1, <1>8 DEF FindAdministrators
  <2>2. Left(s)' = 2 + Cardinality(Administrators)
    BY <1>1, <2>1 DEF Left, Weight, Transactions
  <2>3. Left(s) = 3 + Cardinality(Users)
    BY <1>8 DEF Left, Weight, FindAdministrators
  <2>4. Administrators \in SUBSET Users
    BY DEF Administrators
  <2>5. /\ Cardinality(Administrators) \in Nat
        /\ Cardinality(Administrators) <= Cardinality(Users)
    BY <2>4, RowCounts
  <2>. QED
    BY <1>1, <2>2, <2>3, <2>5
<1>9. ASSUME NEW u \in Users, LockRow(s, u)
      PROVE  Left(s)' < Left(s)
  <2>1. u \in txn[s].rows /\ txn[s].stage = "lock"
    BY <1>9 DEF LockRow, NextRows
  <2>2. txn'[s].stage = "lock" /\ txn'[s].rows = txn[s].rows \ {u}
    BY <1>1, <1>9, <2>1 DEF LockRow, Transactions
  <2>3. Left(s)' = 2 + Cardinality(txn[s].rows \ {u})
    BY <2>2 DEF Left, Weight
  <2>4. Left(s) = 2 + Cardinality(txn[s].rows)
    BY <2>1 DEF Left, Weight
  <2>5. /\ Cardinality(txn[s].rows) \in Nat
        /\ Cardinality(txn[s].rows \ {u}) \in Nat
        /\ Cardinality(txn[s].rows \ {u}) < Cardinality(txn[s].rows)
    BY <1>1, <2>1, RowCounts
  <2>. QED
    BY <2>3, <2>4, <2>5
<1>10. CASE EnoughAdministrators(s)
  <2>1. txn[s].stage = "lock" /\ txn[s].rows = {}
    BY <1>10 DEF EnoughAdministrators, Counting
  <2>2. Left(s) = 2
    BY <2>1, FS_EmptySet DEF Left, Weight
  <2>3. txn'[s].stage = "write" /\ Left(s)' = Weight(txn'[s])
    BY <1>5, <1>10 DEF EnoughAdministrators, Stages
  <2>. QED
    BY <2>2, <2>3 DEF Weight
<1>. QED
  BY <1>4, <1>6, <1>7, <1>8, <1>9, <1>10 DEF Statement

\* A step of somebody else does not move s's transaction on, and adds no row.
LEMMA OthersRunOut ==
    ASSUME IInv, NEW s \in Sessions, [Next]_vars,
           ~ Call(s), ~ Statement(s), ~ Abort(s)
    PROVE  \/ txn'[s] = txn[s]
           \/ \E D : txn'[s] = [txn[s] EXCEPT !.rows = @ \ D]
<1>1. txn \in [Sessions -> Transactions]
  BY DEF IInv, TypeOK
<1>2. CASE UNCHANGED vars \/ \E u \in Users : DeadlinePasses(u)
  BY <1>2 DEF vars, DeadlinePasses
<1>3. ASSUME NEW t \in Sessions, Call(t) \/ Statement(t) \/ Abort(t)
      PROVE  \/ txn'[s] = txn[s]
             \/ \E D : txn'[s] = [txn[s] EXCEPT !.rows = @ \ D]
  <2>1. t # s
    BY <1>3
  <2>2. ASSUME NEW D, Ended(t, D)
        PROVE  txn'[s] = [txn[s] EXCEPT !.rows = @ \ D]
    BY <2>1, <2>2 DEF Ended
  <2>3. ASSUME RefuseActor(t) \/ RefuseLast(t) \/ Write(t) \/ Sweep(t) \/ Abort(t)
        PROVE  \E D : Ended(t, D)
    BY <2>3 DEF RefuseActor, RefuseLast, Write, Sweep, Abort
  <2>4. CASE Call(t)
    BY <1>1, <2>1, <2>4
       DEF Call, CallAdminFunction, CallUpdatePassword, CallSweep
  <2>5. ASSUME NEW stage, Goto(t, stage) PROVE txn'[s] = txn[s]
    BY <1>1, <2>1, <2>5 DEF Goto
  <2>6. CASE RequireAdmin(t) \/ TargetIsNoAdmin(t) \/ TargetIsAdmin(t)
             \/ EnoughAdministrators(t)
    BY <2>5, <2>6
       DEF RequireAdmin, TargetIsNoAdmin, TargetIsAdmin, EnoughAdministrators
  <2>7. CASE FindAdministrators(t) \/ \E u \in Users : LockRow(t, u)
    BY <1>1, <2>1, <2>7 DEF FindAdministrators, LockRow
  <2>. QED
    BY <1>3, <2>2, <2>3, <2>4, <2>6, <2>7 DEF Statement
<1>. QED
  BY <1>2, <1>3 DEF Next

\* A transaction has a bounded number of statements, whatever the others do:
\* a scan takes the rows it found and looks for no more of them, and no answer
\* sends it back (forbid_last_admin_removal, delete_expired_provisional_users).
THEOREM TransactionsRunOut == Spec => [][RunsOut]_vars
<1>1. IInv /\ [Next]_vars => [RunsOut]_vars
  <2>. SUFFICES ASSUME IInv, [Next]_vars, NEW s \in Sessions
                PROVE  /\ Left(s) \in 0 .. (5 + Cardinality(Users))
                       /\ ~ Call(s) => Left(s)' <= Left(s)
                       /\ (Statement(s) \/ Abort(s)) => Left(s)' < Left(s)
    BY DEF RunsOut
  <2>1. txn[s] \in Transactions /\ txn'[s] \in Transactions
    <3>1. IInv'
      BY StepInvariant
    <3>. QED
      BY <3>1 DEF IInv, TypeOK
  <2>2. /\ Left(s) \in 0 .. (5 + Cardinality(Users))
        /\ Left(s)' \in 0 .. (5 + Cardinality(Users))
        /\ \A D : Weight([txn[s] EXCEPT !.rows = @ \ D]) <= Left(s)
    BY <2>1, WeightFacts DEF Left
  <2>3. (Statement(s) \/ Abort(s)) => Left(s)' < Left(s)
    BY StatementRunsOut
  <2>4. ASSUME ~ Call(s), ~ Statement(s), ~ Abort(s)
        PROVE  Left(s)' <= Left(s)
    <3>1. CASE txn'[s] = txn[s]
      BY <2>2, <3>1 DEF Left
    <3>2. ASSUME NEW D, txn'[s] = [txn[s] EXCEPT !.rows = @ \ D]
          PROVE  Left(s)' <= Left(s)
      BY <2>2, <3>2 DEF Left
    <3>. QED
      BY <2>4, <3>1, <3>2, OthersRunOut
  <2>. QED
    BY <2>2, <2>3, <2>4
<1>. QED
  BY <1>1, Invariance, PTL DEF Spec
=============================================================================
