------------------------------- MODULE Outcome -------------------------------
(***************************************************************************)
(* What a caller may conclude from the answer to a transfer, and nothing   *)
(* of how the API comes to it.  The effect of a request, its tokens moved, *)
(* happens at most once; "ok" is said only of an effect that happened,     *)
(* "refused" only of one that has not happened and never will.  After      *)
(* "unknown", or no answer at all, the caller knows nothing.               *)
(***************************************************************************)
CONSTANT Requests

VARIABLES effect, answer

outcomeVars == <<effect, answer>>

OutcomeTypeOK ==
    /\ effect \in [Requests -> {"none", "applied", "void"}]
    /\ answer \in [Requests -> {"none", "ok", "refused", "unknown"}]

OutcomeInit ==
    /\ effect = [r \in Requests |-> "none"]
    /\ answer = [r \in Requests |-> "none"]

Apply(r) ==
    /\ effect[r] = "none"
    /\ answer[r] # "refused"
    /\ effect' = [effect EXCEPT ![r] = "applied"]
    /\ UNCHANGED answer

Void(r) ==
    /\ effect[r] = "none"
    /\ effect' = [effect EXCEPT ![r] = "void"]
    /\ UNCHANGED answer

Say(r, a) ==
    /\ answer[r] = "none"
    /\ answer' = [answer EXCEPT ![r] = a]
    /\ UNCHANGED effect

Confirm(r) == effect[r] = "applied" /\ Say(r, "ok")
Refuse(r) == effect[r] # "applied" /\ Say(r, "refused")
GiveUp(r) == Say(r, "unknown")

OutcomeNext ==
    \E r \in Requests : Apply(r) \/ Void(r) \/ Confirm(r) \/ Refuse(r) \/ GiveUp(r)

OutcomeSpec == OutcomeInit /\ [][OutcomeNext]_outcomeVars
=============================================================================
