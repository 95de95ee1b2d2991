------------------------------- MODULE Login --------------------------------
(***************************************************************************)
(* What a password and a token open: one name in the user table, the       *)
(* requests that present its password (POST /auth/login, a route called    *)
(* with Basic credentials, the change of the password), and the routes     *)
(* called with the tokens that the logins issued.                          *)
(*                                                                         *)
(* A request makes several calls of UserStore, each a transaction of its   *)
(* own; other requests, administrators and the sweep come between them.    *)
(* Each call is a step.  How two transactions wait for each other's rows   *)
(* is in UserAdmin, and so is who may administer whom.  last_login, which  *)
(* nothing reads back but the list of users, is left out.                  *)
(***************************************************************************)
EXTENDS Integers, FiniteSets

CONSTANTS
    Requests,       \* requests with a password in their header
    CostAt,         \* CostAt[r]: the hashing cost of the instance serving r
    Chosen,         \* passwords that people choose
    Issued,         \* passwords that administrators hand out
    Acceptable,     \* the passwords that passwordPolicyProblem lets through
    MustDiffer,     \* newAndOldPasswordMustBeDifferent
    OldCosts,       \* costs of the hashes of accounts from before
    IssuedCosts,    \* ... of those of them that are not activated
    Levels,         \* the ranks of the permissions, read_only first
    Lifetime,       \* how long a token is good
    Validity,       \* how long a password that was handed out is good
    MaxClock,       \* bound on the time
    MaxAdministrations  \* bound on what administrators do

VARIABLES
    clock,          \* the time, by the database and by the instances
    account,        \* the row of the name, or NoAccount
    administrations,    \* how often administrators have acted
    issued,         \* the passwords that have been handed out
    password,       \* password[r]: what r presents
    stage,          \* stage[r]: where r is
    outdated,       \* the requests that found a hash of another cost
    token,          \* token[r]: the token r has got so far, or NoToken
    answer,         \* answer[r]: what r is told
    matched,        \* history: the requests whose password was the account's,
                    \* and good, at some time since they began
    overtaken,      \* history: those during which another one, or an
                    \* administrator, replaced the password
    changed,        \* history: those that have set a new password
    hashedAt,       \* history, hashedAt[p]: the cost p was hashed at when
                    \* it was handed out
    held            \* history, held[l]: when the account last had level l

people == <<administrations, issued>>
requests == <<password, stage, outdated, token, answer>>
history == <<matched, overtaken, changed, hashedAt, held>>

vars == <<clock, account, people, requests, history>>

Passwords == Chosen \cup Issued
CurrentCosts == {CostAt[r] : r \in Requests}

\* The rank of Permissions::ReadOnly.
ReadOnly == 1

NoPassword == "no_password"

ASSUME ConstantsAssumption ==
    /\ Chosen \cap Issued = {} /\ NoPassword \notin Passwords
    /\ Acceptable \subseteq Passwords /\ MustDiffer \in BOOLEAN
    /\ CostAt \in [Requests -> Int]
    /\ OldCosts \subseteq Int /\ IssuedCosts \subseteq Int
    /\ Levels \subseteq Nat /\ ReadOnly \in Levels /\ 0 \notin Levels
    /\ Lifetime \in Nat /\ Validity \in Nat \ {0}
    /\ MaxClock \in Nat /\ MaxAdministrations \in Nat

\* provisional_until is NULL: the account is activated.
Never == 0

Accounts == [password : Passwords, cost : Int, level : Levels, until : Nat]

NoAccount == [password |-> NoPassword, cost |-> 0, level |-> 0,
              until |-> Never]

Provisional(a) == a.until # Never
Expired(a) == Provisional(a) /\ a.until <= clock

\* Mutant: update_user_password makes the row if it is not there.
NotExpired(a) == ~ Expired(a)

\* The row that get_password_hash and update_user_password find.
Live(a) == a # NoAccount /\ ~ Expired(a)

\* Mutant: a provisional account is good until the sweep has reached it.
KnownPassword(r) == password[r] = account.password

\* Mutant: the comparison decides only what is logged.
AnyPassword(r) == Live(account)

\* What get_password_hash finds for r, and the password r presents, match.
Verifies(r) == Live(account) /\ password[r] = account.password

\* Mutant: the ranks are compared the wrong way round.
SatisfiedBy(has, required) == has >= 1 /\ required >= 1 /\ has <= required

\* IAuthenticator::satisfies; rank 0 is None.
Satisfies(has, required) == has >= 1 /\ required >= 1 /\ has >= required

Stages == {"idle", "hash", "record", "rehash", "permission", "sign",
           "change", "done"}

\* "rejected" is 401, "forbidden" 403, "weak" and "same" 400, "expired" 409,
\* "error" 500, the rest 200.
Answers == {"none", "rejected", "forbidden", "weak", "same", "expired",
            "error", "token", "allowed", "changed"}

\* "read" is when the permission was read, "issued" the iat of the token.
Tokens == [level : Nat, read : Nat, issued : Nat]
NoToken == [level |-> 0, read |-> 0, issued |-> 0]

Init ==
    /\ clock = 1
    /\ \/ account = NoAccount
       \/ \E p \in Chosen, c \in OldCosts \cup CurrentCosts, l \in Levels :
             account = [password |-> p, cost |-> c, level |-> l,
                        until |-> Never]
       \/ \E p \in Issued, c \in IssuedCosts, l \in Levels :
             account = [password |-> p, cost |-> c, level |-> l,
                        until |-> clock + Validity]
    /\ administrations = 0
    /\ issued = {account.password} \cap Issued
    /\ password = [r \in Requests |-> NoPassword]
    /\ stage = [r \in Requests |-> "idle"]
    /\ outdated = {}
    /\ token = [r \in Requests |-> NoToken]
    /\ answer = [r \in Requests |-> "none"]
    /\ matched = {} /\ overtaken = {} /\ changed = {}
    /\ hashedAt = [p \in Issued |-> IF p \in issued THEN account.cost ELSE 0]
    /\ held = [l \in Levels |-> IF account.level >= l THEN clock ELSE 0]

-----------------------------------------------------------------------------
(* Steps shared by the actions.                                            *)

Running(r) == stage[r] \notin {"idle", "done"}

Goto(r, s) == stage' = [stage EXCEPT ![r] = s]

\* r is answered, and what it knew is gone.
End(r, a) ==
    /\ Goto(r, "done")
    /\ answer' = [answer EXCEPT ![r] = a]
    /\ password' = [password EXCEPT ![r] = NoPassword]
    /\ outdated' = outdated \ {r}

\* r goes on.
Continue(r, s) == Goto(r, s) /\ UNCHANGED <<password, outdated, answer>>

\* The row becomes a, by one of the writers; the history is kept.
Write(a, writers) ==
    /\ account' = a
    /\ matched' = matched \cup
          {r \in Requests : Running(r) /\ Live(a) /\ password[r] = a.password}
    /\ overtaken' = IF a.password = account.password THEN overtaken
                    ELSE overtaken \cup {r \in Requests \ writers : Running(r)}
    /\ held' = [l \in Levels |-> IF a.level >= l THEN clock ELSE held[l]]

\* update_user_password; to set a password activates the account.
UpdatePassword(r, p) ==
    Write([account EXCEPT !.password = p, !.cost = CostAt[r],
                          !.until = Never], {r})

-----------------------------------------------------------------------------
(* A request.  What else it asks for but to be let in matters after its    *)
(* permission is read, and is chosen there.                                *)

\* A request with readable Basic credentials arrives.
Begin(r, p) ==
    /\ stage[r] = "idle"
    /\ Goto(r, "hash")
    /\ password' = [password EXCEPT ![r] = p]
    /\ matched' = IF Live(account) /\ p = account.password
                  THEN matched \cup {r} ELSE matched
    /\ UNCHANGED <<clock, account, people, outdated, token, answer,
                   overtaken, changed, hashedAt, held>>

\* authenticateByPassword: getPasswordHash, and the comparison.
ReadHash(r) ==
    /\ stage[r] = "hash"
    /\ Verifies(r)
    /\ Goto(r, "record")
    /\ outdated' = IF account.cost = CostAt[r] THEN outdated
                   ELSE outdated \cup {r}
    /\ overtaken' = overtaken \ {r}
    /\ UNCHANGED <<clock, account, people, password, token, answer, matched,
                   changed, hashedAt, held>>

Reject(r) ==
    /\ stage[r] = "hash"
    /\ ~ Verifies(r)
    /\ End(r, "rejected")
    /\ UNCHANGED <<clock, account, people, token, history>>

\* ... recordLogin, whose answer is only logged.
RecordLogin(r) ==
    /\ stage[r] = "record"
    /\ Continue(r, IF r \in outdated THEN "rehash" ELSE "permission")
    /\ UNCHANGED <<clock, account, people, token, history>>

\* ... and the password that was presented is hashed again, at the cost of
\* this instance.
Rehash(r) ==
    /\ stage[r] = "rehash"
    /\ IF Live(account) THEN UpdatePassword(r, password[r])
       ELSE UNCHANGED <<account, matched, overtaken, held>>
    /\ Continue(r, "permission")
    /\ UNCHANGED <<clock, people, token, changed, hashedAt>>

\* No memory for the hash, or no database: "not fatal".
RehashFails(r) ==
    /\ stage[r] = "rehash"
    /\ Continue(r, "permission")
    /\ UNCHANGED <<clock, account, people, token, history>>

\* login: getPermissions, which is None for an account that is gone.
ReadPermission(r) ==
    /\ stage[r] = "permission"
    /\ Continue(r, "sign")
    /\ token' = [token EXCEPT ![r].level = account.level, ![r].read = clock]
    /\ UNCHANGED <<clock, account, people, history>>

\* ... createToken.
Sign(r) ==
    /\ stage[r] = "sign"
    /\ token' = [token EXCEPT ![r].issued = clock]
    /\ End(r, "token")
    /\ UNCHANGED <<clock, account, people, history>>

\* authorize, for a route that asks for level l.
Authorize(r, l) ==
    /\ stage[r] = "permission"
    /\ End(r, IF Satisfies(account.level, l) THEN "allowed" ELSE "forbidden")
    /\ UNCHANGED <<clock, account, people, token, history>>

\* ... for /account/password, which asks for the lowest.
AuthorizeChange(r) ==
    /\ stage[r] = "permission"
    /\ IF Satisfies(account.level, ReadOnly) THEN Continue(r, "change")
       ELSE End(r, "forbidden")
    /\ UNCHANGED <<clock, account, people, token, history>>

\* UserStore or createToken throws: a 500.
Fails(r) ==
    /\ stage[r] \in {"hash", "record", "permission", "sign"}
    /\ End(r, "error")
    /\ UNCHANGED <<clock, account, people, token, history>>

\* Mutant: the policy is all the route enforces.
OnlyPolicy(r, new) == IF new \notin Acceptable THEN "weak" ELSE "none"

\* What the route finds wrong with the new password.
Problem(r, new) ==
    IF new \notin Acceptable THEN "weak"
    ELSE IF MustDiffer /\ new = password[r] THEN "same"
    ELSE "none"

RefuseNewPassword(r, new) ==
    /\ stage[r] = "change"
    /\ Problem(r, new) # "none"
    /\ End(r, Problem(r, new))
    /\ UNCHANGED <<clock, account, people, token, history>>

\* Mutant: what updatePassword returns is ignored.
ChangeExpiredUnnoticed(r, new) ==
    /\ stage[r] = "change"
    /\ Problem(r, new) = "none"
    /\ ~ Live(account)
    /\ End(r, "changed")
    /\ UNCHANGED <<clock, account, people, token, history>>

\* updatePassword returns FALSE: a 409.
ChangeExpired(r, new) ==
    /\ stage[r] = "change"
    /\ Problem(r, new) = "none"
    /\ ~ Live(account)
    /\ End(r, "expired")
    /\ UNCHANGED <<clock, account, people, token, history>>

\* updatePassword sets the new password.  If the answer of the database is
\* lost, the caller is told of an error all the same.
Change(r, new) ==
    /\ stage[r] = "change"
    /\ Problem(r, new) = "none"
    /\ Live(account)
    /\ UpdatePassword(r, new)
    /\ changed' = changed \cup {r}
    /\ \E a \in {"changed", "error"} : End(r, a)
    /\ UNCHANGED <<clock, people, token, hashedAt>>

\* hashPassword or updatePassword throws, and nothing was done.
ChangeFails(r) ==
    /\ stage[r] = "change"
    /\ End(r, "error")
    /\ UNCHANGED <<clock, account, people, token, history>>

-----------------------------------------------------------------------------
(* The tokens.  verify() and isAuthorized() look at nothing else.          *)

\* Mutant: nothing checks the time.
Signed(r) == answer[r] = "token"

\* exp is iat + Lifetime, and no leeway is given.
Verified(r) == answer[r] = "token" /\ clock <= token[r].issued + Lifetime

\* A route that asks for level l lets the bearer of r's token in.
Opens(r, l) == Verified(r) /\ Satisfies(token[r].level, l)

-----------------------------------------------------------------------------
(* The administrators, the sweep and the time.                             *)

Administer ==
    /\ administrations < MaxAdministrations
    /\ administrations' = administrations + 1
    /\ UNCHANGED <<clock, requests, changed>>

\* A password that is handed out has not been so before.
HandOut(p, a) ==
    /\ p \notin issued
    /\ issued' = issued \cup {p}
    /\ hashedAt' = [hashedAt EXCEPT ![p] = a.cost]
    /\ Write(a, {})

\* /users/add: addProvisionalUser.
AddAccount(p, c, l) ==
    /\ account = NoAccount
    /\ HandOut(p, [password |-> p, cost |-> c, level |-> l,
                   until |-> clock + Validity])
    /\ Administer

\* /users/reset-password: resetUserPassword.
ResetPassword(p, c) ==
    /\ account # NoAccount
    /\ HandOut(p, [account EXCEPT !.password = p, !.cost = c,
                                  !.until = clock + Validity])
    /\ Administer

\* /users/permission: setUserPermission.
SetPermission(l) ==
    /\ account # NoAccount
    /\ Write([account EXCEPT !.level = l], {})
    /\ Administer
    /\ UNCHANGED <<issued, hashedAt>>

\* /users/remove: removeUser.
RemoveAccount ==
    /\ account # NoAccount
    /\ Write(NoAccount, {})
    /\ Administer
    /\ UNCHANGED <<issued, hashedAt>>

\* delete_expired_provisional_users.
Sweep ==
    /\ Expired(account)
    /\ Write(NoAccount, {})
    /\ UNCHANGED <<clock, people, requests, changed, hashedAt>>

Tick ==
    /\ clock < MaxClock
    /\ clock' = clock + 1
    /\ held' = [l \in Levels |->
                   IF account.level >= l THEN clock + 1 ELSE held[l]]
    /\ UNCHANGED <<account, people, requests, matched, overtaken, changed,
                   hashedAt>>

-----------------------------------------------------------------------------
\* A new password is somebody's choice, or the one presented once more.
NewPasswords(r) == Chosen \cup {password[r]}

Step(r) ==
    \/ ReadHash(r) \/ Reject(r) \/ RecordLogin(r) \/ Rehash(r) \/ RehashFails(r)
    \/ ReadPermission(r) \/ Sign(r) \/ AuthorizeChange(r) \/ Fails(r)
    \/ \E l \in Levels : Authorize(r, l)
    \/ \E new \in NewPasswords(r) :
          RefuseNewPassword(r, new) \/ ChangeExpired(r, new) \/ Change(r, new)
    \/ ChangeFails(r)

Administration ==
    \/ \E p \in Issued, c \in CurrentCosts :
          ResetPassword(p, c) \/ \E l \in Levels : AddAccount(p, c, l)
    \/ \E l \in Levels : SetPermission(l)
    \/ RemoveAccount

Next ==
    \/ \E r \in Requests : Step(r) \/ \E p \in Chosen \cup issued : Begin(r, p)
    \/ Administration \/ Sweep \/ Tick

Spec == Init /\ [][Next]_vars

-----------------------------------------------------------------------------
(* What holds.                                                             *)

TypeOK ==
    /\ clock \in Nat
    /\ account \in Accounts \cup {NoAccount}
    /\ administrations \in Nat
    /\ issued \subseteq Issued
    /\ password \in [Requests -> Passwords \cup {NoPassword}]
    /\ stage \in [Requests -> Stages]
    /\ outdated \subseteq Requests
    /\ token \in [Requests -> Tokens]
    /\ answer \in [Requests -> Answers]
    /\ matched \subseteq Requests
    /\ overtaken \subseteq Requests
    /\ changed \subseteq Requests
    /\ hashedAt \in [Issued -> Int]
    /\ held \in [Levels -> Nat]

\* r has been authenticated.
LetIn(r) ==
    \/ stage[r] \in {"record", "rehash", "permission", "sign", "change"}
    \/ answer[r] \in {"token", "allowed", "changed"}

\* Whoever is let in presented a password that was the account's at some
\* moment of the request and not past its deadline, whatever happens
\* meanwhile: "a provisional account whose deadline has passed is treated as
\* already gone, even though the sweep has not run yet" (get_password_hash).
OnlyTheHolderGetsIn == \A r \in Requests : LetIn(r) => r \in matched

\* "Password changed" is told to whom it was, and a refusal only to those who
\* have changed nothing (/account/password).
ChangeTellsTruth ==
    \A r \in Requests :
        /\ answer[r] = "changed" => r \in changed
        /\ answer[r] \in {"rejected", "forbidden", "weak", "same", "expired"} =>
              r \notin changed

\* A demotion or a removal is waited out: a token opens a route that asks for
\* level l only if the account has had that level, and no longer ago than a
\* token lives, besides what the login took to sign it (login, verify).
PermissionsAreWaitedOut ==
    \A r \in Requests, l \in Levels :
        Opens(r, l) =>
            /\ held[l] # 0
            /\ clock - held[l] <= Lifetime + (token[r].issued - token[r].read)

\* "An administrator who resets an account should not be left holding a
\* working credential for it" (admin_reset_user_password): an account has a
\* deadline while its password is one that was handed out.  This is the
\* promise, and it does not hold: see LoginsRehash.cfg.
IssuedPasswordsAreReplaced == account.password \in issued => Provisional(account)

\* The password p, when it was handed out, was hashed as every instance
\* hashes.
HashedAsNow(p) == \A r \in Requests : hashedAt[p] = CostAt[r]

\* What does hold of it, whatever other hashes there are and whoever logs in
\* meanwhile: the deadline goes with a password that was handed out at the
\* cost in use (authenticateByPassword, update_user_password).
CurrentPasswordsAreReplaced ==
    (account.password \in issued /\ HashedAsNow(account.password)) =>
        Provisional(account)

\* A login changes nobody's password, unless another request or an
\* administrator has replaced it since this login read it
\* (authenticateByPassword).
OnlyOvertakenLoginsUndo ==
    [][\A r \in Requests :
          (stage[r] = "rehash" /\ stage'[r] # "rehash" /\ r \notin overtaken)
              => account'.password = account.password]_vars
=============================================================================
