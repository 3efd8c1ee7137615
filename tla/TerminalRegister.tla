-------------------------- MODULE TerminalRegister --------------------------
(***************************************************************************)
(* What upload publication promises to whoever polls a job, without queue, *)
(* workers, mirrors or recovery: every attempt is open until it is decided *)
(* once, a decision is never taken back or replaced, an attempt completes  *)
(* only with a result, and the result of an attempt is chosen only once.   *)
(***************************************************************************)
CONSTANTS Attempt, Publisher, Nobody

VARIABLES
    outcome,  \* what each attempt came to
    result    \* whose result an attempt has, whether it is served or not

vars == <<outcome, result>>

Init ==
    /\ outcome = [a \in Attempt |-> "open"]
    /\ result = [a \in Attempt |-> Nobody]

ChooseResult(a, publisher) ==
    /\ result[a] = Nobody
    /\ result' = [result EXCEPT ![a] = publisher]
    /\ UNCHANGED outcome

Decide(a, verdict) ==
    /\ outcome[a] = "open"
    /\ verdict = "complete" => result[a] # Nobody
    /\ outcome' = [outcome EXCEPT ![a] = verdict]
    /\ UNCHANGED result

Next ==
    \E a \in Attempt :
        \/ \E publisher \in Publisher : ChooseResult(a, publisher)
        \/ \E verdict \in {"complete", "failed"} : Decide(a, verdict)

Spec == Init /\ [][Next]_vars
=============================================================================
