------------------------------ MODULE MCRoutes ------------------------------
(* Routes over the archive of MCWaveforms, with one auxiliary database, for  *)
(* the section of the second is missing, and locks at both ends of the       *)
(* window.                                                                 *)
EXTENDS Routes, MCWaveforms

Inline(text) == [text |-> text, file |-> Unset]

MCCredentials(host) ==
    [user |-> Inline("duty"), password |-> Inline("word"), database |-> "aqms",
     host |-> host, port |-> 5432, timeOut |-> 5000, alias |-> "",
     application |-> "aqmsDutyReviewBackend", readOnly |-> FALSE]

MCToken ==
    [timeToLive |-> 60, algorithm |-> "ed25519",
     publicKey |-> Unset, privateKey |-> Unset,
     publicKeyFile |-> "public", privateKeyFile |-> "private"]

MCMetrics == [host |-> "collector", exportInterval |-> 15000, exportTimeOut |-> 500]

MCOption ==
    [catalogDuration |-> 100, provisionalAccountExpiresAfter |-> 1,
     passwordResetExpiresAfter |-> 1, passwordMinimumLength |-> 8,
     operationsLimit |-> 1, memoryLimitMB |-> 64,
     address |-> "127.0.0.1", serverName |-> "aqms-drp-server", nThreads |-> 2,
     stadiaMapsAPIKey |-> Inline(Unset), whoToCall |-> "object",
     drp |-> MCCredentials("drp"), aqms |-> MCCredentials("main"),
     remotes |-> (1 :> MCCredentials("a") @@ 3 :> MCCredentials("b")),
     token |-> MCToken, httpLog |-> "section",
     httpMetrics |-> MCMetrics, grpcMetrics |-> Unset]

\* One that is accepted, and some that are refused, each for a reason of its
\* own.
MCOptions ==
    {MCOption,
     [MCOption EXCEPT !.drp.readOnly = TRUE],
     [MCOption EXCEPT !.aqms.password.file = "word"],
     [MCOption EXCEPT !.nThreads = 0],
     [MCOption EXCEPT !.memoryLimitMB = 0],
     [MCOption EXCEPT !.whoToCall = "array"],
     [MCOption EXCEPT !.token.privateKeyFile = "public"],
     [MCOption EXCEPT !.httpMetrics = Unset],
     [MCOption EXCEPT !.httpMetrics.exportInterval = 0],
     [MCOption EXCEPT !.remotes =
        (1 :> MCCredentials("a") @@ 2 :> MCCredentials("a"))]}

LockRow(event, time, lddate, user) ==
    [event |-> event, time |-> time, lddate |-> lddate, user |-> user]

MCLockTables ==
    {{LockRow("A", 875, 875, None), LockRow("B", 1000, -1, "u")},
     {LockRow("A", 800, 800, "u")}}

MCAlarmRows == {<<>>, <<"alarm", "cancel">>}
=============================================================================
