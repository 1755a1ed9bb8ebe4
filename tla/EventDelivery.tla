---------------------------- MODULE EventDelivery ----------------------------
(***************************************************************************)
(* What a chart may rely on, however its events travel: its promise is     *)
(* settled at most once, by data only after the worker said they are       *)
(* there, by an error only after the worker spoke at all.                  *)
(***************************************************************************)
CONSTANT Jobs

VARIABLES said,     \* the statuses a worker has published of a job
          outcome   \* of the promise

deliveryVars == <<said, outcome>>

DeliveryInit ==
    /\ said = [j \in Jobs |-> {}]
    /\ outcome = [j \in Jobs |-> "pending"]

Say(j, status) ==
    /\ said' = [said EXCEPT ![j] = @ \cup {status}]
    /\ UNCHANGED outcome

(* The statuses that allow an outcome. *)
Grounds(o) == IF o = "resolved" THEN {"done"} ELSE {"done", "error"}

(* One answer of the server may settle several promises. *)
Settle ==
    /\ outcome' \in [Jobs -> {"pending", "resolved", "rejected"}]
    /\ \A j \in Jobs : outcome'[j] # outcome[j] =>
          outcome[j] = "pending" /\ said[j] \cap Grounds(outcome'[j]) # {}
    /\ UNCHANGED said

DeliveryNext ==
    \/ \E j \in Jobs, status \in {"done", "error"} : Say(j, status)
    \/ Settle

DeliverySpec == DeliveryInit /\ [][DeliveryNext]_deliveryVars
=============================================================================
