--------------------------- MODULE MCEventActions ---------------------------
(* The constants of the runs of EventActions. *)
EXTENDS EventActions, TLC

CONSTANTS r1, r2, i1, i2, o1, o2, m1, rtt, rtt2, upper, lower, jiggle

\* Two backends, one request at each.
TwoInstances == r1 :> i1 @@ r2 :> i2

\* One backend serves both requests.
OneInstance == r1 :> i1 @@ r2 :> i1

TwoRemotes == <<rtt, rtt2>>
OneRemote == <<rtt>>

Aliases == rtt :> "rtt" @@ rtt2 :> "rtt2"

\* "RTT" and "rtt" are two subsources that name one client; Jiggle names
\* none.
Spellings == <<upper, jiggle, lower>>
OneSpelling == <<upper>>

FoldedSpellings == upper :> "rtt" @@ lower :> "rtt" @@ jiggle :> "jiggle"
=============================================================================
