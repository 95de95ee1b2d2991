---------------------------- MODULE LoginProofs -----------------------------
(***************************************************************************)
(* Proofs about Login, for every set of requests, passwords, costs and     *)
(* levels, and without the bounds on time and administrators.              *)
(***************************************************************************)
EXTENDS Login, TLAPS

Refusals == {"rejected", "forbidden", "weak", "same", "expired"}

\* The permission of r has been read into its token.
HasPermission(r) == stage[r] = "sign" \/ answer[r] = "token"

(***************************************************************************)
(* What is true of a request between its steps: an answer ends it; a       *)
(* password that is good is noted as matched; one that has been verified   *)
(* stays the account's until the request is overtaken; and the permission  *)
(* in its token was held when it was read.                                 *)
(***************************************************************************)
RequestOK(r) ==
    /\ Running(r) => password[r] \in Chosen \cup issued
    /\ stage[r] # "done" => answer[r] = "none" /\ r \notin changed
    /\ (Running(r) /\ Live(account) /\ password[r] = account.password) =>
          r \in matched
    /\ LetIn(r) => r \in matched
    /\ answer[r] = "changed" => r \in changed
    /\ answer[r] \in Refusals => r \notin changed
    /\ (stage[r] \in {"record", "rehash"} /\ r \notin overtaken) =>
          account.password = password[r]
    /\ HasPermission(r) =>
          \A l \in Levels : l <= token[r].level =>
              1 <= token[r].read /\ token[r].read <= held[l]

\* "held" is what it says.
HeldOK ==
    /\ clock >= 1
    /\ \A l \in Levels : held[l] <= clock /\ (account.level >= l => held[l] = clock)

IInv == TypeOK /\ HeldOK /\ \A r \in Requests : RequestOK(r)

-----------------------------------------------------------------------------
(* The shared parts of the steps.                                          *)

\* The fields of a row of the account.
LEMMA RowFacts ==
    /\ NoAccount.password = NoPassword /\ NoAccount.level = 0
    /\ NoAccount.until = Never
    /\ \A a \in Accounts :
          /\ a.password \in Passwords /\ a.cost \in Int /\ a.level \in Levels
          /\ a.until \in Nat /\ a # NoAccount
  BY ConstantsAssumption DEF NoAccount, Accounts

\* A statement that writes the row keeps the types.
LEMMA WriteType ==
    ASSUME TypeOK, NEW a \in Accounts \cup {NoAccount}, NEW W, Write(a, W)
    PROVE  /\ account' \in Accounts \cup {NoAccount}
           /\ matched' \subseteq Requests
           /\ overtaken' \subseteq Requests
           /\ held' \in [Levels -> Nat]
  BY DEF TypeOK, Write

\* A write keeps "held" what it says.
LEMMA WriteHeld ==
    ASSUME TypeOK, HeldOK, NEW a \in Accounts \cup {NoAccount}, NEW W,
           Write(a, W), clock' = clock
    PROVE  /\ HeldOK'
           /\ \A l \in Levels : held[l] <= held'[l]
  BY ConstantsAssumption DEF TypeOK, HeldOK, Write

\* A request that ends keeps the types.
LEMMA EndType ==
    ASSUME TypeOK, NEW r \in Requests, NEW a \in Answers, End(r, a)
    PROVE  /\ stage' \in [Requests -> Stages]
           /\ answer' \in [Requests -> Answers]
           /\ password' \in [Requests -> Passwords \cup {NoPassword}]
           /\ outdated' \subseteq Requests
  BY DEF TypeOK, End, Goto, Stages

\* A request that goes on keeps the types.
LEMMA ContinueType ==
    ASSUME TypeOK, NEW r \in Requests, NEW s \in Stages, Continue(r, s)
    PROVE  /\ stage' \in [Requests -> Stages]
           /\ answer' \in [Requests -> Answers]
           /\ password' \in [Requests -> Passwords \cup {NoPassword}]
           /\ outdated' \subseteq Requests
  BY DEF TypeOK, Continue, Goto

\* update_user_password makes an activated account of a live one.
LEMMA UpdatedRow ==
    ASSUME TypeOK, NEW r \in Requests, NEW p \in Passwords, Live(account)
    PROVE  [account EXCEPT !.password = p, !.cost = CostAt[r],
                           !.until = Never] \in Accounts
<1>1. account \in Accounts
  BY DEF TypeOK, Live
<1>2. CostAt[r] \in Int
  BY ConstantsAssumption
<1>. QED
  BY <1>1, <1>2 DEF Accounts, Never

\* t is no party to a step that leaves the account alone, ...
LEMMA Untouched ==
    ASSUME NEW t, RequestOK(t),
           UNCHANGED <<account, clock>>,
           password'[t] = password[t], stage'[t] = stage[t],
           token'[t] = token[t], answer'[t] = answer[t],
           issued \subseteq issued',
           (t \in matched') <=> (t \in matched),
           (t \in overtaken') <=> (t \in overtaken),
           (t \in changed') <=> (t \in changed),
           held' = held
    PROVE  RequestOK(t)'
  BY DEF RequestOK, Running, Live, Expired, Provisional, LetIn, HasPermission,
         Refusals

\* ... or to one that writes it.
LEMMA Bystander ==
    ASSUME IInv, NEW t \in Requests, NEW a \in Accounts \cup {NoAccount},
           NEW W, t \notin W, Write(a, W), clock' = clock,
           password'[t] = password[t], stage'[t] = stage[t],
           token'[t] = token[t], answer'[t] = answer[t],
           issued \subseteq issued',
           (t \in changed') <=> (t \in changed)
    PROVE  RequestOK(t)'
<1>. RequestOK(t)
  BY DEF IInv
<1>1. /\ t \in matched => t \in matched'
      /\ (Running(t) /\ Live(a) /\ password[t] = a.password) => t \in matched'
      /\ Live(account)' <=> Live(a)
      /\ account' = a
      /\ t \in overtaken => t \in overtaken'
      /\ (Running(t) /\ a.password # account.password) => t \in overtaken'
  BY DEF Write, Live, Expired, Provisional
<1>2. HasPermission(t) =>
          \A l \in Levels : l <= token[t].level =>
              1 <= token[t].read /\ token[t].read <= held'[l]
  <2>1. \A l \in Levels : held[l] <= held'[l]
    BY WriteHeld DEF IInv
  <2>2. token[t].read \in Nat /\ \A l \in Levels : held[l] \in Nat /\ held'[l] \in Nat
    BY WriteType DEF IInv, TypeOK, Tokens
  <2>. QED
    BY <2>1, <2>2 DEF RequestOK
<1>3. HasPermission(t)' <=> HasPermission(t)
  BY DEF HasPermission
<1>. QED
  BY <1>1, <1>2, <1>3 DEF RequestOK, Running, LetIn, Refusals

-----------------------------------------------------------------------------
\* Nobody has asked yet.
LEMMA InitInvariant == Init => IInv
<1>. SUFFICES ASSUME Init PROVE IInv
  OBVIOUS
<1>1. account \in Accounts \cup {NoAccount}
  <2>1. OldCosts \cup CurrentCosts \subseteq Int /\ IssuedCosts \subseteq Int
    BY ConstantsAssumption DEF CurrentCosts
  <2>2. clock + Validity \in Nat /\ Never \in Nat
    BY ConstantsAssumption DEF Init, Never
  <2>3. CASE \E p \in Chosen, c \in OldCosts \cup CurrentCosts, l \in Levels :
              account = [password |-> p, cost |-> c, level |-> l,
                         until |-> Never]
    BY <2>1, <2>2, <2>3 DEF Accounts, Passwords
  <2>4. CASE \E p \in Issued, c \in IssuedCosts, l \in Levels :
              account = [password |-> p, cost |-> c, level |-> l,
                         until |-> clock + Validity]
    BY <2>1, <2>2, <2>4 DEF Accounts, Passwords
  <2>. QED
    BY <2>3, <2>4 DEF Init
<1>2. account.level \in Nat
  <2>1. CASE account = NoAccount
    BY <2>1, RowFacts
  <2>2. CASE account \in Accounts
    BY <2>2, ConstantsAssumption DEF Accounts
  <2>. QED
    BY <1>1, <2>1, <2>2
<1>3. TypeOK
  <2>1. held \in [Levels -> Nat]
    BY DEF Init
  <2>2. NoToken \in Tokens
    BY DEF NoToken, Tokens
  <2>3. hashedAt \in [Issued -> Int]
    BY <1>1 DEF Init, Accounts, NoAccount
  <2>. QED
    BY <1>1, <2>1, <2>2, <2>3 DEF Init, TypeOK, Stages, Answers
<1>4. HeldOK
  BY <1>2, ConstantsAssumption DEF Init, HeldOK
<1>5. ASSUME NEW r \in Requests PROVE RequestOK(r)
  BY DEF Init, RequestOK, Running, LetIn, HasPermission, Refusals
<1>. QED
  BY <1>3, <1>4, <1>5 DEF IInv

-----------------------------------------------------------------------------
(* The steps that leave the account alone.                                 *)

\* A request comes with a password somebody has chosen or was given.
LEMMA BeginInvariant ==
    ASSUME IInv, NEW r \in Requests, NEW p \in Chosen \cup issued, Begin(r, p)
    PROVE  IInv'
<1>1. TypeOK'
  BY DEF IInv, TypeOK, Begin, Goto, Stages, Passwords, people
<1>2. HeldOK'
  BY DEF IInv, HeldOK, Begin
<1>3. RequestOK(r)'
  <2>1. /\ password'[r] = p /\ stage'[r] = "hash" /\ answer'[r] = "none"
        /\ r \notin changed'
    BY DEF IInv, TypeOK, RequestOK, Begin, Goto
  <2>2. Live(account)' <=> Live(account)
    BY DEF Begin, Live, Expired, Provisional
  <2>3. issued' = issued
    BY DEF Begin, people
  <2>. QED
    BY <2>1, <2>2, <2>3
       DEF Begin, RequestOK, Running, LetIn, HasPermission, Refusals
<1>4. ASSUME NEW t \in Requests, t # r PROVE RequestOK(t)'
  BY <1>4, Untouched DEF IInv, TypeOK, Begin, Goto, people
<1>. QED
  BY <1>1, <1>2, <1>3, <1>4 DEF IInv

\* An answer that is true of r ends it.
LEMMA EndInvariant ==
    ASSUME IInv, NEW r \in Requests, NEW a \in Answers, End(r, a),
           UNCHANGED <<clock, account, people, history>>,
           token' \in [Requests -> Tokens],
           \A t \in Requests \ {r} : token'[t] = token[t],
           stage[r] # "done", a \notin {"none", "changed"},
           a \in {"token", "allowed"} => LetIn(r),
           a = "token" => /\ HasPermission(r)
                          /\ token'[r].level = token[r].level
                          /\ token'[r].read = token[r].read
    PROVE  IInv'
<1>1. TypeOK'
  BY EndType DEF IInv, TypeOK, people, history
<1>2. HeldOK'
  BY DEF IInv, HeldOK, history
<1>3. RequestOK(r)'
  <2>1. /\ password'[r] = NoPassword /\ stage'[r] = "done" /\ answer'[r] = a
        /\ r \notin changed
    BY DEF IInv, TypeOK, RequestOK, End, Goto
  <2>2. RequestOK(r)
    BY DEF IInv
  <2>. QED
    BY <2>1, <2>2 DEF RequestOK, Running, LetIn, HasPermission, history
<1>4. ASSUME NEW t \in Requests, t # r PROVE RequestOK(t)'
  BY <1>4, Untouched DEF IInv, TypeOK, End, Goto, people, history
<1>. QED
  BY <1>1, <1>2, <1>3, <1>4 DEF IInv

\* The hash that is read is the one the password is compared with
\* (authenticateByPassword).
LEMMA ReadHashInvariant ==
    ASSUME IInv, NEW r \in Requests, ReadHash(r)
    PROVE  IInv'
<1>1. TypeOK'
  BY DEF IInv, TypeOK, ReadHash, Goto, Stages, people
<1>2. HeldOK'
  BY DEF IInv, HeldOK, ReadHash
<1>3. RequestOK(r)'
  <2>1. /\ stage[r] = "hash" /\ Live(account) /\ password[r] = account.password
        /\ stage'[r] = "record" /\ answer[r] = "none" /\ r \notin changed
    BY DEF IInv, TypeOK, RequestOK, ReadHash, Goto, Verifies
  <2>2. r \in matched
    BY <2>1 DEF IInv, RequestOK, Running
  <2>. QED
    BY <2>1, <2>2
       DEF IInv, ReadHash, RequestOK, Running, LetIn, HasPermission, Refusals,
           people
<1>4. ASSUME NEW t \in Requests, t # r PROVE RequestOK(t)'
  BY <1>4, Untouched DEF IInv, TypeOK, ReadHash, Goto, people
<1>. QED
  BY <1>1, <1>2, <1>3, <1>4 DEF IInv

\* r goes on to a stage to which only those come who are let in.
LEMMA ContinueInvariant ==
    ASSUME IInv, NEW r \in Requests,
           NEW s \in {"rehash", "permission", "sign", "change"},
           Continue(r, s), LetIn(r), stage[r] # "done",
           s = "rehash" => stage[r] = "record",
           UNCHANGED <<clock, account, people, history>>,
           token' \in [Requests -> Tokens],
           \A t \in Requests \ {r} : token'[t] = token[t],
           s = "sign" => token'[r].level = account.level /\ token'[r].read = clock
    PROVE  IInv'
<1>1. TypeOK'
  BY ContinueType DEF IInv, TypeOK, people, history, Stages
<1>2. HeldOK'
  BY DEF IInv, HeldOK, history
<1>3. RequestOK(r)'
  <2>1. /\ password'[r] = password[r] /\ stage'[r] = s /\ answer'[r] = "none"
        /\ r \notin changed
    BY DEF IInv, TypeOK, RequestOK, Continue, Goto
  <2>2. RequestOK(r) /\ r \in matched /\ Running(r)
    BY DEF IInv, RequestOK, LetIn, Running
  <2>3. s = "sign" => \A l \in Levels : l <= token'[r].level =>
                        1 <= token'[r].read /\ token'[r].read <= held[l]
    BY DEF IInv, HeldOK, TypeOK
  <2>. QED
    BY <2>1, <2>2, <2>3
       DEF RequestOK, Running, LetIn, HasPermission, Refusals, history, people
<1>4. ASSUME NEW t \in Requests, t # r PROVE RequestOK(t)'
  BY <1>4, Untouched DEF IInv, TypeOK, Continue, Goto, people, history
<1>. QED
  BY <1>1, <1>2, <1>3, <1>4 DEF IInv

\* The deadline and the lifetime of the tokens pass.
LEMMA TickInvariant ==
    ASSUME IInv, Tick
    PROVE  IInv'
<1>1. TypeOK'
  BY DEF IInv, TypeOK, Tick, people, requests
<1>2. HeldOK' /\ \A l \in Levels : held[l] <= held'[l]
  BY DEF IInv, TypeOK, HeldOK, Tick
<1>3. ASSUME NEW t \in Requests PROVE RequestOK(t)'
  <2>1. Live(account)' => Live(account)
    <3>1. account.until \in Nat
      BY RowFacts DEF IInv, TypeOK, Never
    <3>. QED
      BY <3>1 DEF IInv, TypeOK, Tick, Live, Expired, Provisional
  <2>2. RequestOK(t)
    BY DEF IInv
  <2>3. /\ UNCHANGED <<password, stage, token, answer, matched, overtaken,
                       changed, account>>
        /\ issued' = issued
    BY DEF Tick, people, requests
  <2>4. HasPermission(t) =>
          \A l \in Levels : l <= token[t].level =>
              1 <= token[t].read /\ token[t].read <= held'[l]
    <3>1. token[t].read \in Nat
          /\ \A l \in Levels : held[l] \in Nat /\ held'[l] \in Nat
      BY <1>1 DEF IInv, TypeOK, Tokens
    <3>. QED
      BY <1>2, <2>2, <3>1 DEF RequestOK
  <2>. QED
    BY <2>1, <2>2, <2>3, <2>4
       DEF RequestOK, Running, LetIn, HasPermission, Refusals
<1>. QED
  BY <1>1, <1>2, <1>3 DEF IInv

-----------------------------------------------------------------------------
(* The steps that write the account.                                       *)

\* r has set a password and goes on, or is answered.
LEMMA UpdateInvariant ==
    ASSUME IInv, NEW r \in Requests, NEW p \in Passwords, Live(account),
           UpdatePassword(r, p), LetIn(r), stage[r] # "done",
           UNCHANGED <<clock, people, token, hashedAt>>,
           \/ Continue(r, "permission") /\ changed' = changed
           \/ /\ \E a \in {"changed", "error"} : End(r, a)
              /\ changed' = changed \cup {r}
    PROVE  IInv'
<1>. DEFINE row == [account EXCEPT !.password = p, !.cost = CostAt[r],
                                   !.until = Never]
<1>1. row \in Accounts /\ Write(row, {r})
  BY UpdatedRow DEF IInv, UpdatePassword
<1>2. /\ stage' \in [Requests -> Stages] /\ answer' \in [Requests -> Answers]
      /\ password' \in [Requests -> Passwords \cup {NoPassword}]
      /\ outdated' \subseteq Requests
  BY ContinueType, EndType DEF IInv, Stages, Answers
<1>3. TypeOK'
  <2>1. hashedAt' \in [Issued -> Int]
    BY DEF IInv, TypeOK
  <2>2. changed' \subseteq Requests
    BY DEF IInv, TypeOK
  <2>. QED
    BY <1>1, <1>2, <2>1, <2>2, WriteType DEF IInv, TypeOK, people
<1>4. HeldOK'
  BY <1>1, WriteHeld DEF IInv
<1>5. RequestOK(r)'
  <2>1. RequestOK(r) /\ r \in matched /\ r \in matched' /\ Running(r)
    BY <1>1 DEF IInv, RequestOK, Write, LetIn, Running
  <2>2. CASE Continue(r, "permission") /\ changed' = changed
    <3>1. /\ password'[r] = password[r] /\ stage'[r] = "permission"
          /\ answer'[r] = "none" /\ r \notin changed'
      BY <2>1, <2>2 DEF IInv, TypeOK, RequestOK, Continue, Goto
    <3>. QED
      BY <2>1, <3>1 DEF RequestOK, Running, LetIn, HasPermission, Refusals, people
  <2>3. CASE /\ \E a \in {"changed", "error"} : End(r, a)
             /\ changed' = changed \cup {r}
    <3>1. /\ password'[r] = NoPassword /\ stage'[r] = "done"
          /\ answer'[r] \in {"changed", "error"} /\ r \in changed'
      BY <2>3 DEF IInv, TypeOK, End, Goto
    <3>. QED
      BY <2>1, <3>1 DEF RequestOK, Running, LetIn, HasPermission, Refusals
  <2>. QED
    BY <2>2, <2>3
<1>6. ASSUME NEW t \in Requests, t # r PROVE RequestOK(t)'
  <2>1. /\ password'[t] = password[t] /\ stage'[t] = stage[t]
        /\ answer'[t] = answer[t] /\ ((t \in changed') <=> (t \in changed))
    BY <1>6 DEF IInv, TypeOK, Continue, End, Goto
  <2>. QED
    BY <1>1, <1>6, <2>1, Bystander DEF people
<1>. QED
  BY <1>3, <1>4, <1>5, <1>6 DEF IInv

\* What is done to the account from outside.
LEMMA OutsideInvariant ==
    ASSUME IInv, NEW a \in Accounts \cup {NoAccount}, Write(a, {}),
           UNCHANGED <<clock, requests, changed>>,
           administrations' \in Nat, hashedAt' \in [Issued -> Int],
           issued \subseteq issued', issued' \subseteq Issued
    PROVE  IInv'
<1>1. TypeOK'
  BY WriteType DEF IInv, TypeOK, requests
<1>2. HeldOK'
  BY WriteHeld DEF IInv
<1>3. ASSUME NEW t \in Requests PROVE RequestOK(t)'
  BY Bystander DEF requests
<1>. QED
  BY <1>1, <1>2, <1>3 DEF IInv

\* What administrators and the sweep do to the row overtakes the requests.
LEMMA AdministrationInvariant ==
    ASSUME IInv, Administration \/ Sweep
    PROVE  IInv'
<1>0. /\ clock + Validity \in Nat /\ administrations + 1 \in Nat
      /\ account # NoAccount => account \in Accounts
      /\ issued \subseteq Issued /\ administrations \in Nat
      /\ \A c \in CurrentCosts : c \in Int
  BY ConstantsAssumption DEF IInv, TypeOK, CurrentCosts
<1>1. ASSUME NEW p \in Issued, NEW c \in CurrentCosts, ResetPassword(p, c)
      PROVE  IInv'
  <2>. DEFINE row == [account EXCEPT !.password = p, !.cost = c,
                                     !.until = clock + Validity]
  <2>1. row \in Accounts
    BY <1>0, <1>1 DEF ResetPassword, Accounts, Passwords
  <2>2. [hashedAt EXCEPT ![p] = row.cost] \in [Issued -> Int]
    BY <2>1, RowFacts DEF IInv, TypeOK
  <2>. QED
    BY <1>0, <1>1, <2>1, <2>2, OutsideInvariant
       DEF ResetPassword, HandOut, Administer
<1>2. ASSUME NEW p \in Issued, NEW c \in CurrentCosts, NEW l \in Levels,
             AddAccount(p, c, l)
      PROVE  IInv'
  <2>. DEFINE row == [password |-> p, cost |-> c, level |-> l,
                      until |-> clock + Validity]
  <2>1. row \in Accounts
    BY <1>0 DEF Accounts, Passwords
  <2>2. [hashedAt EXCEPT ![p] = row.cost] \in [Issued -> Int]
    BY <2>1, RowFacts DEF IInv, TypeOK
  <2>. QED
    BY <1>0, <1>2, <2>1, <2>2, OutsideInvariant
       DEF AddAccount, HandOut, Administer
<1>3. ASSUME NEW l \in Levels, SetPermission(l)
      PROVE  IInv'
  <2>. DEFINE row == [account EXCEPT !.level = l]
  <2>1. row \in Accounts
    BY <1>0, <1>3 DEF SetPermission, Accounts
  <2>. QED
    BY <1>0, <1>3, <2>1, OutsideInvariant
       DEF SetPermission, Administer, IInv, TypeOK
<1>4. CASE RemoveAccount
  BY <1>0, <1>4, OutsideInvariant DEF RemoveAccount, Administer, IInv, TypeOK
<1>5. CASE Sweep
  BY <1>0, <1>5, OutsideInvariant DEF Sweep, people, IInv, TypeOK
<1>. QED
  BY <1>1, <1>2, <1>3, <1>4, <1>5 DEF Administration

-----------------------------------------------------------------------------
\* A step of a request keeps the invariant.
LEMMA StepInvariant ==
    ASSUME IInv, NEW r \in Requests, Step(r)
    PROVE  IInv'
<1>. token \in [Requests -> Tokens] /\ clock \in Nat
  BY DEF IInv, TypeOK
<1>1. CASE ReadHash(r)
  BY <1>1, ReadHashInvariant
<1>2. CASE Reject(r)
  BY <1>2, EndInvariant DEF Reject, Answers
<1>3. CASE RecordLogin(r)
  BY <1>3, ContinueInvariant DEF RecordLogin, LetIn
<1>4. CASE Rehash(r)
  <2>1. CASE Live(account)
    <3>1. password[r] \in Passwords
      BY <1>4 DEF IInv, TypeOK, RequestOK, Running, Rehash, Passwords
    <3>. QED
      BY <1>4, <2>1, <3>1, UpdateInvariant DEF Rehash, LetIn
  <2>2. CASE ~ Live(account)
    BY <1>4, <2>2, ContinueInvariant DEF Rehash, LetIn, history
  <2>. QED
    BY <2>1, <2>2
<1>5. CASE RehashFails(r)
  BY <1>5, ContinueInvariant DEF RehashFails, LetIn
<1>6. CASE ReadPermission(r)
  <2>1. token' \in [Requests -> Tokens]
    <3>1. account.level \in Nat
      <4>1. CASE account = NoAccount
        BY <4>1, RowFacts
      <4>2. CASE account \in Accounts
        BY <4>2, RowFacts, ConstantsAssumption
      <4>. QED
        BY <4>1, <4>2 DEF IInv, TypeOK
    <3>. QED
      BY <1>6, <3>1 DEF ReadPermission, Tokens
  <2>. QED
    BY <1>6, <2>1, ContinueInvariant DEF ReadPermission, LetIn, Tokens
<1>7. CASE Sign(r)
  <2>1. token' \in [Requests -> Tokens]
    BY <1>7 DEF Sign, Tokens
  <2>. QED
    BY <1>7, <2>1, EndInvariant DEF Sign, LetIn, HasPermission, Answers, Tokens
<1>8. CASE AuthorizeChange(r)
  BY <1>8, ContinueInvariant, EndInvariant
     DEF AuthorizeChange, LetIn, Answers
<1>9. CASE Fails(r)
  BY <1>9, EndInvariant DEF Fails, Answers
<1>10. ASSUME NEW l \in Levels, Authorize(r, l) PROVE IInv'
  BY <1>10, EndInvariant DEF Authorize, LetIn, Answers
<1>11. ASSUME NEW new \in NewPasswords(r), RefuseNewPassword(r, new)
       PROVE  IInv'
  BY <1>11, EndInvariant DEF RefuseNewPassword, Problem, Answers
<1>12. ASSUME NEW new \in NewPasswords(r), ChangeExpired(r, new)
       PROVE  IInv'
  BY <1>12, EndInvariant DEF ChangeExpired, Answers
<1>13. ASSUME NEW new \in NewPasswords(r), Change(r, new)
       PROVE  IInv'
  <2>1. new \in Passwords
    BY <1>13, ConstantsAssumption DEF Change, Problem
  <2>. QED
    BY <1>13, <2>1, UpdateInvariant DEF Change, LetIn
<1>14. CASE ChangeFails(r)
  BY <1>14, EndInvariant DEF ChangeFails, Answers
<1>. QED
  BY <1>1, <1>2, <1>3, <1>4, <1>5, <1>6, <1>7, <1>8, <1>9, <1>10, <1>11,
     <1>12, <1>13, <1>14 DEF Step

\* Every step keeps the invariant.
LEMMA NextInvariant == IInv /\ [Next]_vars => IInv'
<1>. SUFFICES ASSUME IInv, [Next]_vars PROVE IInv'
  OBVIOUS
<1>1. CASE UNCHANGED vars
  BY <1>1
     DEF vars, people, requests, history, IInv, TypeOK, HeldOK, RequestOK,
         Running, Live, Expired, Provisional, LetIn, HasPermission
<1>2. CASE Next
  BY <1>2, StepInvariant, BeginInvariant, AdministrationInvariant,
     TickInvariant DEF Next
<1>. QED
  BY <1>1, <1>2

\* The inductive invariant holds of every state.
LEMMA Invariant == Spec => []IInv
  BY InitInvariant, NextInvariant, PTL DEF Spec

(***************************************************************************)
(* TypeOK, OnlyTheHolderGetsIn, ChangeTellsTruth: the state and the        *)
(* answers are of the types that the model gives them; who is let in had   *)
(* the right password; what is said of a change is true                    *)
(* (authenticateByPassword, /account/password).                            *)
(***************************************************************************)
THEOREM TypeCorrect == Spec => []TypeOK
<1>1. IInv => TypeOK
  BY DEF IInv
<1>. QED
  BY <1>1, Invariant, PTL

\* Whoever is let in presented a password that was the account's, and good,
\* during the request, whatever was written to the row meanwhile
\* (authenticateByPassword).
THEOREM HolderGetsIn == Spec => []OnlyTheHolderGetsIn
<1>1. IInv => OnlyTheHolderGetsIn
  BY DEF IInv, RequestOK, OnlyTheHolderGetsIn
<1>. QED
  BY <1>1, Invariant, PTL

\* "Password changed" is told after a change and a refusal after none, though
\* the deadline may pass in between (update_user_password).
THEOREM ChangeToldTruly == Spec => []ChangeTellsTruth
<1>1. IInv => ChangeTellsTruth
  BY DEF IInv, RequestOK, ChangeTellsTruth, Refusals
<1>. QED
  BY <1>1, Invariant, PTL

(***************************************************************************)
(* PermissionsAreWaitedOut: what a token opens was the account's when the  *)
(* permission was read, and so not longer ago than the token lives and the *)
(* signing took.                                                           *)
(***************************************************************************)
THEOREM PermissionsWaitedOut == Spec => []PermissionsAreWaitedOut
<1>1. ASSUME IInv, NEW r \in Requests, NEW l \in Levels, Opens(r, l)
      PROVE  /\ held[l] # 0
             /\ clock - held[l] <= Lifetime + (token[r].issued - token[r].read)
  <2>1. /\ clock <= token[r].issued + Lifetime /\ l <= token[r].level
        /\ HasPermission(r)
    BY <1>1, ConstantsAssumption
       DEF IInv, TypeOK, Tokens, Opens, Verified, Satisfies, HasPermission
  <2>2. 1 <= token[r].read /\ token[r].read <= held[l]
    BY <1>1, <2>1 DEF IInv, RequestOK
  <2>3. /\ clock \in Nat /\ held[l] \in Nat /\ Lifetime \in Nat
        /\ token[r].read \in Nat /\ token[r].issued \in Nat
    BY <1>1, ConstantsAssumption DEF IInv, TypeOK, Tokens
  <2>. QED
    BY <2>1, <2>2, <2>3
<1>2. IInv => PermissionsAreWaitedOut
  BY <1>1 DEF PermissionsAreWaitedOut
<1>. QED
  BY <1>2, Invariant, PTL

(***************************************************************************)
(* OnlyOvertakenLoginsUndo: only the step Rehash leaves that stage with a  *)
(* write, and until it is overtaken a login presents the account's         *)
(* password.                                                               *)
(***************************************************************************)
LEMMA RehashKeepsPassword ==
    ASSUME IInv, [Next]_vars, NEW r \in Requests,
           stage[r] = "rehash", stage'[r] # "rehash", r \notin overtaken
    PROVE  account'.password = account.password
<1>1. password[r] = account.password
  BY DEF IInv, RequestOK
<1>2. PICK s \in Requests : Step(s) \/ \E p \in Chosen \cup issued : Begin(s, p)
  BY DEF Next, Administration, ResetPassword, AddAccount, SetPermission,
         RemoveAccount, Administer, Sweep, Tick, vars, requests
<1>3. s = r
  BY <1>2
     DEF IInv, TypeOK, Step, Begin, ReadHash, Reject, RecordLogin, Rehash,
         RehashFails, ReadPermission, Sign, AuthorizeChange, Fails, Authorize,
         RefuseNewPassword, ChangeExpired, Change, ChangeFails, Continue, End,
         Goto
<1>4. Rehash(r) \/ RehashFails(r)
  BY <1>2, <1>3
     DEF Step, Begin, ReadHash, Reject, RecordLogin, ReadPermission, Sign,
         AuthorizeChange, Fails, Authorize, RefuseNewPassword, ChangeExpired,
         Change, ChangeFails
<1>5. account' = account \/ (Live(account) /\ UpdatePassword(r, password[r]))
  BY <1>4 DEF Rehash, RehashFails
<1>6. CASE Live(account) /\ UpdatePassword(r, password[r])
  <2>1. account \in Accounts
    BY <1>6 DEF IInv, TypeOK, Live
  <2>. QED
    BY <1>1, <1>6, <2>1 DEF UpdatePassword, Write, Accounts
<1>. QED
  BY <1>5, <1>6

\* A rehash changes the password only if somebody has replaced it since it
\* was verified: it writes the hash without comparing it
\* (authenticateByPassword).
THEOREM OvertakenLoginsUndo == Spec => OnlyOvertakenLoginsUndo
<1>1. IInv /\ [Next]_vars =>
        [\A r \in Requests :
            (stage[r] = "rehash" /\ stage'[r] # "rehash" /\ r \notin overtaken)
                => account'.password = account.password]_vars
  BY RehashKeepsPassword
<1>. QED
  BY <1>1, Invariant, PTL DEF Spec, OnlyOvertakenLoginsUndo

-----------------------------------------------------------------------------
(***************************************************************************)
(* CurrentPasswordsAreReplaced, if the route refuses the old password as   *)
(* the new one, and whatever the costs of the hashes and of the instances  *)
(* are.  A hash of a password that was handed out at the cost in use keeps *)
(* that cost until the password is replaced, so that no login finds such a *)
(* password outdated; and only such a login writes a password again that   *)
(* was handed out.                                                         *)
(***************************************************************************)

\* p was handed out, at the cost at which every instance hashes.
Current(p) == p \in issued /\ HashedAsNow(p)

IssuedOK ==
    /\ Current(account.password) =>
          /\ Provisional(account)
          /\ account.cost = hashedAt[account.password]
    /\ \A r \in Requests :
          /\ stage[r] \in {"idle", "hash"} => r \notin outdated
          /\ stage[r] = "rehash" => r \in outdated
          /\ (stage[r] \in {"record", "rehash"} /\ r \in outdated) =>
                ~ Current(password[r])

\* A request that is not yet verified, or may yet rehash, stays so.
Kept(r) ==
    /\ (r \in outdated') => (r \in outdated)
    /\ stage'[r] \in {"idle", "hash"} => stage[r] \in {"idle", "hash"}
    /\ stage'[r] \in {"record", "rehash"} =>
          /\ stage[r] \in {"record", "rehash"}
          /\ password'[r] = password[r]
    /\ stage'[r] = "rehash" => r \in outdated'

\* A request that reads nothing new keeps it.
LEMMA IssuedKept ==
    ASSUME IssuedOK, UNCHANGED <<account, issued, hashedAt>>,
           \A r \in Requests : Kept(r)
    PROVE  IssuedOK'
  BY DEF IssuedOK, Provisional, Kept, Current, HashedAsNow

\* The password that r presents is outdated only if its hash is not of the
\* cost in use.
LEMMA ReadHashIssued ==
    ASSUME IInv, IssuedOK, NEW r \in Requests, ReadHash(r)
    PROVE  IssuedOK'
<1>1. /\ UNCHANGED <<account, issued, hashedAt, password>>
      /\ stage' = [stage EXCEPT ![r] = "record"]
      /\ \A t \in Requests : t # r => ((t \in outdated') <=> (t \in outdated))
      /\ r \in outdated' => account.cost # CostAt[r]
      /\ password[r] = account.password
  BY DEF ReadHash, Verifies, Goto, people, IssuedOK
<1>2. r \in outdated' => ~ Current(password[r])
  BY <1>1 DEF IssuedOK, Current, HashedAsNow
<1>3. \A p : Current(p)' <=> Current(p)
  BY <1>1 DEF Current, HashedAsNow
<1>4. \A t \in Requests : t # r => stage'[t] = stage[t]
  BY <1>1 DEF IInv, TypeOK
<1>5. stage'[r] = "record"
  BY <1>1 DEF IInv, TypeOK
<1>6. ASSUME NEW t \in Requests
      PROVE  /\ stage'[t] \in {"idle", "hash"} => t \notin outdated'
             /\ stage'[t] = "rehash" => t \in outdated'
             /\ (stage'[t] \in {"record", "rehash"} /\ t \in outdated') =>
                   ~ Current(password[t])'
  BY <1>1, <1>2, <1>3, <1>4, <1>5 DEF IssuedOK
<1>. QED
  BY <1>1, <1>3, <1>6 DEF IssuedOK, Provisional

\* A password that a request sets was not handed out at the cost in use.
LEMMA UpdateIssued ==
    ASSUME IInv, IssuedOK, NEW r \in Requests, NEW p \in Passwords,
           Live(account), UpdatePassword(r, p),
           UNCHANGED <<issued, hashedAt>>, ~ Current(p),
           \A t \in Requests : Kept(t)
    PROVE  IssuedOK'
<1>1. account'.password = p
  <2>1. account \in Accounts
    BY DEF IInv, TypeOK, Live
  <2>. QED
    BY <2>1 DEF UpdatePassword, Write, Accounts
<1>2. \A q : Current(q)' <=> Current(q)
  BY DEF Current, HashedAsNow
<1>. QED
  BY <1>1, <1>2 DEF IssuedOK, Kept

\* The administrator hands out a password with a deadline.
LEMMA HandOutIssued ==
    ASSUME IInv, IssuedOK, NEW p \in Issued, NEW a \in Accounts,
           HandOut(p, a), a.password = p, Provisional(a), UNCHANGED requests
    PROVE  IssuedOK'
<1>1. /\ account' = a /\ hashedAt'[p] = a.cost
      /\ \A q \in issued : hashedAt'[q] = hashedAt[q]
  BY DEF HandOut, Write, IInv, TypeOK
<1>2. ASSUME NEW r \in Requests, stage[r] \in {"record", "rehash"},
             r \in outdated
      PROVE  ~ Current(password[r])'
  <2>1. password[r] \in Chosen \cup issued /\ password'[r] = password[r]
    BY <1>2 DEF IInv, RequestOK, Running, requests
  <2>2. CASE password[r] \in Chosen
    BY <2>1, <2>2, ConstantsAssumption DEF Current, HandOut, IInv, TypeOK
  <2>3. CASE password[r] \in issued
    BY <1>1, <1>2, <2>1, <2>3 DEF Current, HashedAsNow, IssuedOK
  <2>. QED
    BY <2>1, <2>2, <2>3
<1>3. /\ stage' = stage /\ outdated' = outdated
      /\ account'.password = p /\ account'.cost = hashedAt'[p]
      /\ Provisional(account)'
  BY <1>1 DEF requests, Provisional
<1>. QED
  BY <1>2, <1>3 DEF IssuedOK

\* A rehash does not touch a hash of the cost in use.
LEMMA StepIssued ==
    ASSUME IInv, IssuedOK, MustDiffer, NEW r \in Requests, Step(r)
    PROVE  IssuedOK'
<1>1. CASE ReadHash(r)
  BY <1>1, ReadHashIssued
<1>2. CASE RecordLogin(r)
  <2>1. UNCHANGED <<account, issued, hashedAt>>
    BY <1>2 DEF RecordLogin, people, history
  <2>2. \A t \in Requests : Kept(t)
    BY <1>2
       DEF RecordLogin, Continue, Goto, Kept, IInv, TypeOK, IssuedOK
  <2>. QED
    BY <2>1, <2>2, IssuedKept
<1>3. CASE Rehash(r)
  <2>1. \A t \in Requests : Kept(t)
    BY <1>3 DEF Rehash, Continue, Goto, Kept, IInv, TypeOK, IssuedOK
  <2>2. CASE Live(account)
    <3>1. password[r] \in Passwords
      BY <1>3 DEF Rehash, IInv, TypeOK, RequestOK, Running, Passwords
    <3>2. ~ Current(password[r])
      BY <1>3 DEF Rehash, IssuedOK
    <3>. QED
      BY <1>3, <2>1, <2>2, <3>1, <3>2, UpdateIssued DEF Rehash, people
  <2>3. CASE ~ Live(account)
    BY <1>3, <2>1, <2>3, IssuedKept DEF Rehash, people
  <2>. QED
    BY <2>2, <2>3
<1>4. ASSUME NEW new \in NewPasswords(r), Change(r, new) PROVE IssuedOK'
  <2>1. \A t \in Requests : Kept(t)
    BY <1>4 DEF Change, End, Goto, Kept, IInv, TypeOK, IssuedOK
  <2>2. new \in Chosen
    BY <1>4 DEF Change, Problem, NewPasswords
  <2>3. ~ Current(new)
    BY <2>2, ConstantsAssumption DEF Current, IInv, TypeOK
  <2>. QED
    BY <1>4, <2>1, <2>2, <2>3, UpdateIssued DEF Change, people, Passwords
<1>5. CASE \/ Reject(r) \/ Sign(r) \/ Fails(r) \/ ChangeFails(r)
           \/ RehashFails(r) \/ ReadPermission(r) \/ AuthorizeChange(r)
           \/ \E l \in Levels : Authorize(r, l)
           \/ \E new \in NewPasswords(r) :
                 RefuseNewPassword(r, new) \/ ChangeExpired(r, new)
  <2>1. UNCHANGED <<account, people, history>>
    BY <1>5
       DEF Reject, Sign, Fails, ChangeFails, RehashFails, ReadPermission,
           AuthorizeChange, Authorize, RefuseNewPassword, ChangeExpired
  <2>2. \/ \E a \in Answers : End(r, a)
        \/ \E s \in {"permission", "sign", "change"} : Continue(r, s)
    BY <1>5
       DEF Reject, Sign, Fails, ChangeFails, RehashFails, ReadPermission,
           AuthorizeChange, Authorize, RefuseNewPassword, ChangeExpired,
           Problem, Answers
  <2>3. \A t \in Requests : Kept(t)
    BY <2>2 DEF End, Continue, Goto, Kept, IInv, TypeOK, IssuedOK
  <2>. QED
    BY <2>1, <2>3, IssuedKept DEF people, history
<1>. QED
  BY <1>1, <1>2, <1>3, <1>4, <1>5 DEF Step

\* Administrators hand out passwords with a deadline, and the sweep and the
\* time only take away.
LEMMA OthersIssued ==
    ASSUME IInv, IssuedOK, Administration \/ Sweep \/ Tick
    PROVE  IssuedOK'
<1>0. /\ account # NoAccount => account \in Accounts
      /\ clock + Validity # Never /\ clock + Validity \in Nat
      /\ \A c \in CurrentCosts : c \in Int
  <2>1. account # NoAccount => account \in Accounts
    BY DEF IInv, TypeOK
  <2>2. clock + Validity # Never /\ clock + Validity \in Nat
    BY ConstantsAssumption DEF IInv, TypeOK, Never
  <2>3. \A c \in CurrentCosts : c \in Int
    BY ConstantsAssumption DEF CurrentCosts
  <2>. QED
    BY <2>1, <2>2, <2>3
<1>1. ASSUME NEW p \in Issued, NEW c \in CurrentCosts, ResetPassword(p, c)
      PROVE  IssuedOK'
  <2>. DEFINE row == [account EXCEPT !.password = p, !.cost = c,
                                     !.until = clock + Validity]
  <2>1. row \in Accounts /\ row.password = p /\ row.until = clock + Validity
    BY <1>0, <1>1 DEF ResetPassword, Accounts, Passwords
  <2>. QED
    BY <1>0, <1>1, <2>1, HandOutIssued DEF ResetPassword, Administer, Provisional
<1>2. ASSUME NEW p \in Issued, NEW c \in CurrentCosts, NEW l \in Levels,
             AddAccount(p, c, l)
      PROVE  IssuedOK'
  <2>. DEFINE row == [password |-> p, cost |-> c, level |-> l,
                      until |-> clock + Validity]
  <2>1. row \in Accounts
    BY <1>0 DEF Accounts, Passwords
  <2>. QED
    BY <1>0, <1>2, <2>1, HandOutIssued DEF AddAccount, Administer, Provisional
<1>3. ASSUME NEW l \in Levels, SetPermission(l)
      PROVE  IssuedOK'
  <2>1. /\ account'.password = account.password /\ account'.cost = account.cost
        /\ account'.until = account.until
    BY <1>0, <1>3 DEF SetPermission, Write, Accounts
  <2>. QED
    BY <1>3, <2>1
       DEF SetPermission, Administer, requests, IssuedOK, Provisional, Current,
           HashedAsNow
<1>4. CASE RemoveAccount \/ Sweep
  <2>1. account' = NoAccount /\ UNCHANGED <<issued, hashedAt, requests>>
    BY <1>4 DEF RemoveAccount, Sweep, Administer, Write, people
  <2>2. ~ Current(account.password)'
    BY <2>1, RowFacts, ConstantsAssumption
       DEF Current, IInv, TypeOK, Passwords
  <2>. QED
    BY <2>1, <2>2 DEF requests, IssuedOK, Current, HashedAsNow
<1>5. CASE Tick
  BY <1>5, IssuedKept DEF Tick, people, requests, Kept, IssuedOK
<1>. QED
  BY <1>1, <1>2, <1>3, <1>4, <1>5 DEF Administration

\* Every step keeps it.
LEMMA NextIssued ==
    ASSUME IInv, IssuedOK, MustDiffer, [Next]_vars
    PROVE  IssuedOK'
<1>1. CASE UNCHANGED vars
  BY <1>1, IssuedKept DEF vars, people, requests, history, Kept, IssuedOK
<1>2. ASSUME NEW r \in Requests, NEW p \in Chosen \cup issued, Begin(r, p)
      PROVE  IssuedOK'
  BY <1>2, IssuedKept DEF Begin, Goto, people, Kept, IssuedOK, IInv, TypeOK
<1>. QED
  BY <1>1, <1>2, StepIssued, OthersIssued DEF Next

\* An account that begins with a password it was issued has a deadline.
LEMMA InitIssued ==
    ASSUME Init
    PROVE  IssuedOK
<1>1. \A r \in Requests :
          stage[r] = "idle" /\ r \notin outdated
  BY DEF Init
<1>2. account.password \in issued =>
        /\ Provisional(account)
        /\ account.cost = hashedAt[account.password]
  <2>1. account.password \in issued => account.password \in Issued
    BY DEF Init
  <2>2. account.password \in Issued => Provisional(account)
    <3>1. clock + Validity # Never
      BY ConstantsAssumption DEF Init, Never
    <3>. QED
      BY <3>1, RowFacts, ConstantsAssumption DEF Init, Provisional, Passwords
  <2>. QED
    BY <2>1, <2>2 DEF Init
<1>. QED
  BY <1>1, <1>2 DEF IssuedOK, Current

\* If the route refuses the old password, an account has a deadline while its
\* password is one that was handed out at the cost in use, whatever the costs
\* of the other hashes are (update_user_password, admin_reset_user_password).
THEOREM CurrentPasswordsReplaced ==
    ASSUME MustDiffer
    PROVE  Spec => []CurrentPasswordsAreReplaced
<1>1. Init => IssuedOK
  BY InitIssued
<1>2. IInv /\ IssuedOK /\ [Next]_vars => IssuedOK'
  BY NextIssued
<1>3. IssuedOK => CurrentPasswordsAreReplaced
  BY DEF IssuedOK, CurrentPasswordsAreReplaced, Current
<1>. QED
  BY <1>1, <1>2, <1>3, Invariant, PTL DEF Spec
=============================================================================
