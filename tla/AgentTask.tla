------------------------------ MODULE AgentTask ------------------------------
(***************************************************************************)
(* What the agent_tasks table promises to both of its users.  A task_id is *)
(* inserted once, claimed once and reported once; its outcome is final.    *)
(* The release side (Release) creates tasks and counts their outcomes, the *)
(* agent side (AgentFleet) works through them: each is shown to implement  *)
(* this specification, which is all the one needs to know of the other.    *)
(***************************************************************************)
CONSTANT Ids   \* task_ids

VARIABLE row   \* agent_tasks.status by task_id, "absent" without a row

Init == row = [t \in Ids |-> "absent"]

(* One handler run inserts any number of rows.                              *)
Insert ==
    \E new \in SUBSET {t \in Ids : row[t] = "absent"} :
        row' = [t \in Ids |-> IF t \in new THEN "pending" ELSE row[t]]

Claim(t) == row[t] = "pending" /\ row' = [row EXCEPT ![t] = "claimed"]

Report(t) ==
    /\ row[t] = "claimed"
    /\ \E outcome \in {"succeeded", "failed"} :
           row' = [row EXCEPT ![t] = outcome]

Next == Insert \/ \E t \in Ids : Claim(t) \/ Report(t)

Spec == Init /\ [][Next]_row

=============================================================================
