------------------------- MODULE AtMostOnceExecution -------------------------
(***************************************************************************)
(* What Client::execute promises a caller about the transaction it runs    *)
(* for it.  The transaction takes effect at most once, however often it is *)
(* attempted; a normal return means that what it committed took effect     *)
(* exactly once; a failure means that it did not and never will; and only  *)
(* a caller told "in doubt" may see it take effect after the answer.       *)
(***************************************************************************)
EXTENDS Integers

CONSTANT Calls

VARIABLES
    effect,     \* effect[c]: how often c's transaction took effect
    verdict     \* verdict[c]: what the caller has been told

vars == <<effect, verdict>>

Verdicts == {"none", "committed", "rolled_back", "failed", "in_doubt"}

Init ==
    /\ effect = [c \in Calls |-> 0]
    /\ verdict = [c \in Calls |-> "none"]

TakeEffect(c) ==
    /\ effect[c] = 0
    /\ verdict[c] \in {"none", "in_doubt"}
    /\ effect' = [effect EXCEPT ![c] = 1]
    /\ UNCHANGED verdict

Tell(c) ==
    /\ verdict[c] = "none"
    /\ \E v \in Verdicts \ {"none"} :
          /\ v = "committed" => effect[c] = 1
          /\ v \in {"rolled_back", "failed"} => effect[c] = 0
          /\ verdict' = [verdict EXCEPT ![c] = v]
    /\ UNCHANGED effect

Next == \E c \in Calls : TakeEffect(c) \/ Tell(c)

Spec == Init /\ [][Next]_vars
=============================================================================
