----------------------------- MODULE UserAdmin ------------------------------
(***************************************************************************)
(* The user table and the functions that administer it (createTables.sql), *)
(* as UserStore calls them: one function call is one transaction, and each *)
(* statement in it, at READ COMMITTED, sees what is committed when it      *)
(* starts.  A client runs one transaction at a time, so the sessions that  *)
(* interleave here are those of different backends, or of an operator.     *)
(*                                                                         *)
(* Every function writes at most one row, and does so last; a row's lock   *)
(* is held until the transaction ends.  The write and the commit are one   *)
(* step, and what a statement reads before it is the committed table.      *)
(***************************************************************************)
EXTENDS Integers, FiniteSets

CONSTANTS
    Users,          \* the names, numbered in their order
    Sessions,       \* connections to the database
    Operations      \* the functions that are called

VARIABLES
    users,          \* the committed table: users[u] is u's row, or Absent
    lock,           \* lock[u]: the session that has u's row locked, or Free
    txn             \* txn[s]: the transaction session s is in

vars == <<users, lock, txn>>

Free == "free"

\* admin_set_user_permission is "promote" to admin and "demote" to a lower
\* level; "change_password" is update_user_password, by the user's own hand
\* or as a rehash; "sweep" is delete_expired_provisional_users.
Writes == {"add", "add_provisional", "promote", "demote", "reset", "remove"}

ASSUME ConstantsAssumption ==
    /\ Users \subseteq Int /\ IsFiniteSet(Users)
    /\ Free \notin Sessions
    /\ Operations \subseteq Writes \cup {"change_password", "sweep"}

\* read_only and read_write administer nothing alike.
Levels == {"ordinary", "admin"}

\* provisional_until: NULL, in the future, or passed.
Deadlines == {"none", "pending", "passed"}

Absent == [level |-> "absent", deadline |-> "none"]

Rows == [level : Levels, deadline : Deadlines] \cup {Absent}

Stages == {"idle", "actor", "target", "snapshot", "lock", "write"}

\* "rows" are those a locking scan has still to lock, "counted" those it has
\* locked and found to match; a change of password has in "rows" its target,
\* if that had expired when the transaction began.
NoTransaction == [stage |-> "idle", op |-> "none", target |-> 0,
                  level |-> "ordinary", rows |-> {}, counted |-> {}]

\* user_is_admin: an activated administrator.
IsAdmin(u) == users[u] = [level |-> "admin", deadline |-> "none"]

Administrators == {u \in Users : IsAdmin(u)}

Expired(u) == users[u].deadline = "passed"

Init ==
    /\ users \in [Users -> Rows]
    /\ Administrators # {}
    /\ lock = [u \in Users |-> Free]
    /\ txn = [s \in Sessions |-> NoTransaction]

\* Session s is counting the administrators, and locking them as it goes.
Counting(s) == txn[s].stage = "lock" /\ txn[s].op # "sweep"

-----------------------------------------------------------------------------
\* The next statement of s, with the rest of its transaction unchanged.
Goto(s, stage) == txn' = [txn EXCEPT ![s].stage = stage]

\* The transaction is over: its locks are released.  A scan skips the rows
\* that were deleted since it found them, also if their names are used again.
Ended(s, deleted) ==
    /\ txn' = [t \in Sessions |->
                  IF t = s THEN NoTransaction
                  ELSE [txn[t] EXCEPT !.rows = @ \ deleted]]
    /\ lock' = [u \in Users |-> IF lock[u] = s THEN Free ELSE lock[u]]

\* An administrator, or someone with a token that says so, asks for a change.
CallAdminFunction(s, op, target, level) ==
    /\ txn[s].stage = "idle"
    /\ op \in Operations \cap Writes
    /\ level = "admin" => op \in {"add", "add_provisional"}
    /\ txn' = [txn EXCEPT ![s] =
                 [NoTransaction EXCEPT !.stage = "actor", !.op = op,
                     !.target = target, !.level = level]]
    /\ UNCHANGED <<users, lock>>

\* NOW() is the time a transaction began: that decides what has expired.
CallUpdatePassword(s, u) ==
    /\ txn[s].stage = "idle"
    /\ "change_password" \in Operations
    /\ txn' = [txn EXCEPT ![s] =
                 [NoTransaction EXCEPT !.stage = "write",
                     !.op = "change_password", !.target = u,
                     !.rows = {v \in {u} : Expired(v)}]]
    /\ UNCHANGED <<users, lock>>

\* delete_expired_provisional_users: its DELETE finds the expired rows.
CallSweep(s) ==
    /\ txn[s].stage = "idle"
    /\ "sweep" \in Operations
    /\ txn' = [txn EXCEPT ![s] =
                 [NoTransaction EXCEPT !.stage = "lock", !.op = "sweep",
                     !.rows = {u \in Users : Expired(u)}]]
    /\ UNCHANGED <<users, lock>>

-----------------------------------------------------------------------------
(* The statements of an admin_ function.                                   *)

\* What is called next if the actor may act: the guard of the removals, and
\* nothing for the others.
AfterActor(s) ==
    IF txn[s].op \in {"demote", "reset", "remove"} THEN "target" ELSE "write"

\* Who the actor is matters to this statement only, so it is chosen here.
RequireAdmin(s) ==
    /\ txn[s].stage = "actor"
    /\ \E actor \in Users : IsAdmin(actor)
    /\ Goto(s, AfterActor(s))
    /\ UNCHANGED <<users, lock>>

\* require_admin raises: a 403.
RefuseActor(s) ==
    /\ txn[s].stage = "actor"
    /\ \E actor \in Users : ~ IsAdmin(actor)
    /\ Ended(s, {})
    /\ UNCHANGED users

\* forbid_last_admin_removal: nothing to protect, no locks.
TargetIsNoAdmin(s) ==
    /\ txn[s].stage = "target"
    /\ ~ IsAdmin(txn[s].target)
    /\ Goto(s, "write")
    /\ UNCHANGED <<users, lock>>

TargetIsAdmin(s) ==
    /\ txn[s].stage = "target"
    /\ IsAdmin(txn[s].target)
    /\ Goto(s, "snapshot")
    /\ UNCHANGED <<users, lock>>

\* Mutant: count_active_admins(), which takes no locks, decides.
CountWithoutLocks(s) ==
    /\ txn[s].stage = "snapshot"
    /\ txn' = [txn EXCEPT ![s].stage = "lock", ![s].counted = Administrators]
    /\ UNCHANGED <<users, lock>>

\* The SELECT ... ORDER BY name FOR UPDATE finds the administrators.
FindAdministrators(s) ==
    /\ txn[s].stage = "snapshot"
    /\ txn' = [txn EXCEPT ![s].stage = "lock", ![s].rows = Administrators]
    /\ UNCHANGED <<users, lock>>

\* Mutant: the administrators are locked in whatever order they are found.
RowsInAnyOrder(s) == txn[s].rows

\* The rows a scan may lock next: ORDER BY name, or none in particular.
NextRows(s) ==
    IF txn[s].op = "sweep" THEN txn[s].rows
    ELSE {u \in txn[s].rows : \A v \in txn[s].rows : u <= v}

\* Whether a row still satisfies the WHERE of the scan that found it.
Matches(s, u) == IF txn[s].op = "sweep" THEN Expired(u) ELSE IsAdmin(u)

\* Mutant: a row is taken as the scan found it, before it was locked.
LockRowUnchecked(s, u) ==
    /\ txn[s].stage = "lock"
    /\ u \in NextRows(s)
    /\ lock[u] \in {Free, s}
    /\ lock' = [lock EXCEPT ![u] = s]
    /\ txn' = [txn EXCEPT ![s].rows = @ \ {u}, ![s].counted = @ \cup {u}]
    /\ UNCHANGED users

\* A row is locked, once nobody else has it locked, and looked at again: it
\* may have changed since the scan found it.
LockRow(s, u) ==
    /\ txn[s].stage = "lock"
    /\ u \in NextRows(s)
    /\ lock[u] \in {Free, s}
    /\ lock' = [lock EXCEPT ![u] = s]
    /\ txn' = [txn EXCEPT ![s].rows = @ \ {u},
                 ![s].counted = IF Matches(s, u) THEN @ \cup {u} ELSE @]
    /\ UNCHANGED users

\* n_admins <= 1: refusing to leave the database with no administrator.
RefuseLast(s) ==
    /\ Counting(s)
    /\ txn[s].rows = {}
    /\ Cardinality(txn[s].counted) <= 1
    /\ Ended(s, {})
    /\ UNCHANGED users

EnoughAdministrators(s) ==
    /\ Counting(s)
    /\ txn[s].rows = {}
    /\ Cardinality(txn[s].counted) > 1
    /\ Goto(s, "write")
    /\ UNCHANGED <<users, lock>>

\* Mutant: a reset that writes the row whether or not there is one.
ResetUpserts(row) == [row EXCEPT !.deadline = "pending"]

\* A reset makes the account provisional, if it is there.
Reset(row) == IF row = Absent THEN row ELSE [row EXCEPT !.deadline = "pending"]

\* The row the function leaves its target with.  An UPDATE or DELETE that
\* matches no row, and an INSERT of a name that is taken, change nothing.
Written(s) ==
    LET row == users[txn[s].target]
        op  == txn[s].op
    IN CASE op = "add" /\ row = Absent ->
                [level |-> txn[s].level, deadline |-> "none"]
         [] op = "add_provisional" /\ row = Absent ->
                [level |-> txn[s].level, deadline |-> "pending"]
         [] op = "promote" /\ row # Absent -> [row EXCEPT !.level = "admin"]
         [] op = "demote" /\ row # Absent -> [row EXCEPT !.level = "ordinary"]
         [] op = "reset" -> Reset(row)
         [] op = "change_password"
              /\ row # Absent /\ txn[s].target \notin txn[s].rows ->
                [row EXCEPT !.deadline = "none"]
         [] op = "remove" -> Absent
         [] OTHER -> row

\* The INSERT, UPDATE or DELETE of the one row, once nobody else has it
\* locked, and the COMMIT.
Write(s) ==
    /\ txn[s].stage = "write"
    /\ lock[txn[s].target] \in {Free, s}
    /\ users' = [users EXCEPT ![txn[s].target] = Written(s)]
    /\ Ended(s, {u \in {txn[s].target} : Written(s) = Absent})

\* The sweep's DELETE has locked what is left to delete, and commits.
Sweep(s) ==
    /\ txn[s].stage = "lock" /\ txn[s].op = "sweep"
    /\ txn[s].rows = {}
    /\ users' = [u \in Users |->
                    IF u \in txn[s].counted THEN Absent ELSE users[u]]
    /\ Ended(s, txn[s].counted)

-----------------------------------------------------------------------------
(* What the world does.                                                    *)

\* The deadline of a provisional account passes.
DeadlinePasses(u) ==
    /\ users[u].deadline = "pending"
    /\ users' = [users EXCEPT ![u].deadline = "passed"]
    /\ UNCHANGED <<lock, txn>>

\* The connection is lost before the COMMIT, or the server breaks a deadlock.
Abort(s) ==
    /\ txn[s].stage # "idle"
    /\ Ended(s, {})
    /\ UNCHANGED users

-----------------------------------------------------------------------------
Call(s) ==
    \/ \E op \in Writes, target \in Users, level \in Levels :
          CallAdminFunction(s, op, target, level)
    \/ \E u \in Users : CallUpdatePassword(s, u)
    \/ CallSweep(s)

Statement(s) ==
    \/ RequireAdmin(s) \/ RefuseActor(s)
    \/ TargetIsNoAdmin(s) \/ TargetIsAdmin(s) \/ FindAdministrators(s)
    \/ \E u \in Users : LockRow(s, u)
    \/ RefuseLast(s) \/ EnoughAdministrators(s)
    \/ Write(s) \/ Sweep(s)

Next ==
    \/ \E s \in Sessions : Call(s) \/ Statement(s) \/ Abort(s)
    \/ \E u \in Users : DeadlinePasses(u)

Spec == Init /\ [][Next]_vars

-----------------------------------------------------------------------------
(* What holds.                                                             *)

Transactions ==
    [stage : Stages, op : Writes \cup {"change_password", "sweep", "none"},
     target : Users \cup {0}, level : Levels,
     rows : SUBSET Users, counted : SUBSET Users]

TypeOK ==
    /\ users \in [Users -> Rows]
    /\ lock \in [Users -> Sessions \cup {Free}]
    /\ txn \in [Sessions -> Transactions]

\* "Refusing to leave the database with no administrator": there is always an
\* activated administrator, whoever demotes, removes or resets whom at once
\* (forbid_last_admin_removal).
AdministratorRemains == Administrators # {}

\* A removal that counted leaves an administrator: the step after which there
\* is none is always that of a caller who found its target to be no
\* administrator and so counted nobody, whatever the others change while it
\* counts (forbid_last_admin_removal).
CountedRemovalsLeaveOne ==
    [][(Administrators # {} /\ Administrators' = {}) =>
          \E s \in Sessions : Write(s) /\ txn[s].counted = {}]_vars

\* No function in use can make an administrator of someone who is not one.
NobodyBecomesAdministrator ==
    Operations \cap {"add", "promote", "change_password"} = {}

\* "This cannot delete a real user however often it runs": the sweep deletes
\* an account only if its deadline has passed when the deletion is committed,
\* whatever was done to it since the sweep found it.
SweepsOnlyExpired ==
    [][\A s \in Sessions, u \in Users :
          (Sweep(s) /\ users[u] # users'[u]) => Expired(u)]_vars

Waits(s, t) ==
    \/ txn[s].stage = "lock" /\ \E u \in NextRows(s) : lock[u] = t
    \/ txn[s].stage = "write" /\ lock[txn[s].target] = t

\* Counting the administrators under their locks: of any callers that do, one
\* is held up by none of the others, so they never wait for each other in a
\* circle (the ORDER BY name).
CountersGetThrough ==
    \A callers \in (SUBSET {s \in Sessions : Counting(s)}) \ {{}} :
        \E s \in callers : \A t \in callers \ {s} : ~ Waits(s, t)

\* "Concurrent callers take the row locks in one order and cannot deadlock
\* against each other" (forbid_last_admin_removal).
NoDeadlock == \A s, t \in Sessions : s # t => ~ (Waits(s, t) /\ Waits(t, s))
=============================================================================
