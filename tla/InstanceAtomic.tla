--------------------------- MODULE InstanceAtomic ---------------------------
(***************************************************************************)
(* What instance_lock (jeeflow/reapply.py) promises the clients of one      *)
(* instance, "requests on the same instance are serialised": every request *)
(* takes effect in one step, against everything the earlier ones did.      *)
(* The instance is  start -> fork -> (one task per branch) -> join -> end.  *)
(***************************************************************************)
CONSTANT Branch

VARIABLES inst, task

Init ==
  /\ inst = "doing"
  /\ task = [b \in Branch |-> "doing"]

\* Completing the last open branch passes the join and ends the instance.
Execute(b) ==
  /\ task[b] = "doing"
  /\ task' = [task EXCEPT ![b] = "done"]
  /\ inst' = IF \A c \in Branch : task'[c] # "doing" THEN "finished" ELSE inst

Withdraw ==
  /\ inst = "doing"
  /\ inst' = "withdrawn"
  /\ task' = [b \in Branch |-> IF task[b] = "doing" THEN "withdrawn" ELSE task[b]]

Next == Withdraw \/ \E b \in Branch : Execute(b)

Spec == Init /\ [][Next]_<<inst, task>>
=============================================================================
