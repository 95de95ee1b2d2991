---------------------------- MODULE Configuration ----------------------------
(* What the program accepts as its initialization file: the checks of        *)
(* ProgramOptions::parseInitializationFile and of the parsers it calls.      *)
(* Options are records of the settings, defaults filled in; a section that    *)
(* may be missing is Unset.                                                 *)
EXTENDS Integers, FiniteSets

CONSTANTS
    Unset,      \* a setting or section the file does not have
    NoFile,     \* what a path leads to where there is no file
    WithGRPC    \* WITH_OTLP_GRPC, decided when the program was compiled

-----------------------------------------------------------------------------
(* Secrets: [text, file], given inline or by a file, whose contents less    *)
(* the white space around them are in file.                                *)

\* readSecretFile.
Readable(contents) == contents \notin {NoFile, ""}

\* resolveSecret: not both, even if they agree.
Resolved(secret) ==
    /\ Unset \in {secret.text, secret.file}
    /\ secret.file # Unset => Readable(secret.file)

Secret(secret) == IF secret.file # Unset THEN secret.file ELSE secret.text

\* A secret a section must have; the setters refuse an empty one.
Given(secret) == Resolved(secret) /\ Secret(secret) \notin {Unset, ""}

-----------------------------------------------------------------------------
(* The sections of a database's credentials.                               *)

\* An alias that is blank but not empty is refused.
CredentialsAccepted(c) ==
    /\ Given(c.user) /\ Given(c.password)
    /\ c.database \notin {Unset, ""} /\ c.host # ""
    /\ c.alias # " "

\* getConnectionString: a time-out that is not positive and an empty name of
\* the application leave no trace.
ConnectionString(c) ==
    [user        |-> Secret(c.user),
     password    |-> Secret(c.password),
     host        |-> c.host,
     database    |-> c.database,
     port        |-> c.port,
     timeOut     |-> IF c.timeOut > 0 THEN c.timeOut ELSE 0,
     application |-> c.application]

\* The sections [AQMSRemote1], [AQMSRemote2], ... up to the first missing.
Auxiliaries(o) ==
    {n \in DOMAIN o.remotes : 1 .. n \subseteq DOMAIN o.remotes}

\* No two auxiliaries are one connection.  None is compared with [AQMS].
AuxiliariesAccepted(o) ==
    \A n \in Auxiliaries(o) :
       /\ CredentialsAccepted(o.remotes[n])
       /\ \A m \in 1 .. n - 1 :
             ConnectionString(o.remotes[m]) # ConnectionString(o.remotes[n])

-----------------------------------------------------------------------------
(* The other sections.                                                     *)

UserManagementAccepted(o) ==
    /\ o.provisionalAccountExpiresAfter > 0
    /\ o.passwordResetExpiresAfter > 0
    /\ o.passwordMinimumLength >= 1
    /\ o.operationsLimit >= 1
    /\ o.memoryLimitMB >= 1

CrowAccepted(o) ==
    /\ o.address # "" /\ o.serverName # ""
    /\ o.nThreads >= 1

\* The file is JSON, and an object.
WhoToCallAccepted(o) == o.whoToCall \in {Unset, "object"}

\* The keys given inline, if both are, and else those of the two files.
KeyPair(token) ==
    IF Unset \notin {token.publicKey, token.privateKey}
    THEN <<token.publicKey, token.privateKey>>
    ELSE <<token.publicKeyFile, token.privateKeyFile>>

\* One key pasted over the other is found here, not at the first login.
KeyPairAccepted(token) ==
    LET pair == KeyPair(token)
    IN  /\ \A i \in 1 .. 2 : pair[i] \notin {Unset, NoFile, ""}
        /\ pair[1] # pair[2]

JSONWebTokenAccepted(token) ==
    /\ token.timeToLive > 0
    /\ token.algorithm \in {"unsigned", "ed25519", "eddsa25519"}
    /\ token.algorithm # "unsigned" => KeyPairAccepted(token)

IntervalsAccepted(section) ==
    section.exportInterval > 0 /\ section.exportTimeOut > 0

\* A program built without gRPC does not start unless both of the HTTP
\* sections are there: the gRPC parsers, asked next, throw before they look.
LogsAccepted(o) == o.httpLog # Unset \/ WithGRPC

MetricsAccepted(o) ==
    \/ /\ o.httpMetrics # Unset
       /\ o.httpMetrics.host # "" => IntervalsAccepted(o.httpMetrics)
    \/ /\ o.httpMetrics = Unset /\ WithGRPC
       /\ o.grpcMetrics # Unset => IntervalsAccepted(o.grpcMetrics)

ExportsMetrics(o) ==
    o.httpMetrics # Unset \/ (WithGRPC /\ o.grpcMetrics # Unset)

Accepted(o) ==
    /\ o.catalogDuration > 0
    /\ Resolved(o.stadiaMapsAPIKey)
    /\ WhoToCallAccepted(o)
    /\ CredentialsAccepted(o.drp) /\ ~o.drp.readOnly
    /\ CrowAccepted(o)
    /\ UserManagementAccepted(o)
    /\ CredentialsAccepted(o.aqms)
    /\ AuxiliariesAccepted(o)
    /\ JSONWebTokenAccepted(o.token)
    /\ LogsAccepted(o) /\ MetricsAccepted(o)
=============================================================================
